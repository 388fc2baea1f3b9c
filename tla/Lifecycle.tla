----------------------------- MODULE Lifecycle -----------------------------
(***************************************************************************)
(* Launches and the life of a sandbox: src/src/supervisor.rs (start, serve, *)
(* serve_spawn, spawn, watch_init, watch_idle, remove_finished_launches,    *)
(* shutdown), src/src/sys/cgroup.rs and src/src/spawn.rs.                   *)
(*                                                                         *)
(* Each client makes one Spawn request, served by a thread of its own.  Its *)
(* launch is named after it: launch numbers are given out under a lock and  *)
(* never again.  A launch's cgroup is the number of live processes in it.   *)
(*                                                                         *)
(* Time passes in ticks; the idle watcher wakes every Period ticks.  The    *)
(* clocks are kept as ages, capped where the code stops telling them apart, *)
(* so the model is finite without a bound on time.                          *)
(***************************************************************************)
EXTENDS Integers, FiniteSets

CONSTANTS
  Client,      \* clients that ask for a command
  NoLaunch,    \* no record of a launch
  Period,      \* ticks between two samples of the idle watcher (1 s)
  IdleTimeout, \* Plan::idle_timeout in ticks; 0 for tasks and unnamed sandboxes
  Unserved,    \* UNSERVED_TIMEOUT in ticks
  MaxProcs,    \* bound on the processes of a launch
  Events,      \* what else may happen: members of AllEvents
  Failures,    \* whether requests, cgroups and processes may fail to start
  ReadFails    \* whether reading cgroup.events may fail (no descriptor left)

\* Clients that disconnect, restart reasons that come and go, a Stop request
\* or a helper that exits, and the init exiting.
AllEvents == {"leave", "pending", "stop", "init"}

\* Launch: a record of State::launches.
Launch == [identity : BOOLEAN, started : BOOLEAN]

ASSUME LifecycleAssumption ==
  /\ IsFiniteSet(Client)
  /\ NoLaunch \notin Launch
  /\ Period \in Nat \ {0} /\ MaxProcs \in Nat \ {0}
  /\ IdleTimeout \in Nat /\ Unserved \in Nat
  /\ Events \subseteq AllEvents
  /\ Failures \in BOOLEAN /\ ReadFails \in BOOLEAN

PC == {"away", "backlog", "accepted", "identify", "create", "clone", "exec", "report", "failed",
       "record", "respond", "serve", "uncount", "gone"}
\* A Spawn request that is counted in State::clients.
Counted == {"identify", "create", "clone", "exec", "report", "failed", "record", "respond", "serve", "uncount"}
Causes == {"none", "idle", "pending", "unserved", "asked", "init"}

VARIABLES
  ready,     \* start has reached its accept loop
  pc,        \* pc[c]: where client c and the thread that serves it are
  attached,  \* attached[c]: client c is connected
  clients,   \* State::clients
  served,    \* State::served
  pending,   \* State::pending_restart is not empty
  launches,  \* State::launches
  cgroup,    \* cgroup[c]: workload/launch-<n> exists
  procs,     \* procs[c]: processes in it
  first,     \* first[c]: the launch's first process is alive
  env,       \* env[c]: it was started with the portal switches
  wpc,       \* where watch_idle is
  wClients,  \* watch_idle: the clients it read
  idle,      \* watch_idle: idle_since is set
  idleFor,   \* its age
  wakeIn,    \* ticks until watch_idle wakes
  upFor,     \* the age of the supervisor
  initUp,    \* the sandbox init, and with it the PID namespace, is alive
  stopping,  \* how far shutdown is
  cause,     \* why it was called
  quietFor,  \* history: how long there has been no process and no client
  seen       \* history: clients that were counted or had a process when the
             \* watcher began its sample, and have all along

connVars  == <<pc, attached>>
stateVars == <<clients, served, pending, launches>>
procVars  == <<cgroup, procs, first, env>>
watchVars == <<wpc, wClients, idle, idleFor>>
clockVars == <<wakeIn, upFor, quietFor>>
stopVars  == <<initUp, stopping, cause>>
vars == <<ready, connVars, stateVars, procVars, watchVars, clockVars, stopVars, seen>>

Min(a, b) == IF a < b THEN a ELSE b

\* Cgroups::populated of workload/.
Populated == \E c \in Client : procs[c] > 0
Quiet == clients = 0 /\ ~Populated
Alive == stopping # "exited"

Goto(c, l) == pc' = [pc EXCEPT ![c] = l]

\* A client or a process that goes is no longer one the sample began with.
Forget(c) == seen' = IF pc[c] \in Counted /\ procs[c] > 0 THEN seen ELSE seen \ {c}

Init ==
  /\ ready = FALSE
  /\ pc = [c \in Client |-> "away"]
  /\ attached = [c \in Client |-> FALSE]
  /\ clients = 0 /\ served = FALSE /\ pending = FALSE
  /\ launches = [c \in Client |-> NoLaunch]
  /\ cgroup = [c \in Client |-> FALSE]
  /\ procs = [c \in Client |-> 0]
  /\ first = [c \in Client |-> FALSE]
  /\ env = [c \in Client |-> FALSE]
  /\ wpc = "sleep" /\ wClients = 0 /\ idle = FALSE /\ idleFor = 0
  /\ wakeIn = Period /\ upFor = 0 /\ quietFor = 0
  /\ initUp = TRUE /\ stopping = "no" /\ cause = "none"
  /\ seen = {}

-----------------------------------------------------------------------------
(* The main thread and the clients.                                         *)

\* The bus, the display and the network are up: start accepts connections.
\* The watchers have been running since before.
Ready ==
  /\ Alive /\ ~ready
  /\ ready' = TRUE
  /\ UNCHANGED <<connVars, stateVars, procVars, watchVars, clockVars, stopVars, seen>>

\* systemd holds the listening socket, so clients connect at any time.
Connect(c) ==
  /\ Alive
  /\ pc[c] = "away"
  /\ Goto(c, "backlog")
  /\ attached' = [attached EXCEPT ![c] = TRUE]
  /\ UNCHANGED <<ready, stateVars, procVars, watchVars, clockVars, stopVars, seen>>

Disconnect(c) ==
  /\ Alive /\ "leave" \in Events
  /\ attached[c]
  /\ attached' = [attached EXCEPT ![c] = FALSE]
  /\ UNCHANGED <<ready, pc, stateVars, procVars, watchVars, clockVars, stopVars, seen>>

\* The config reloader marks the sandbox for a restart, or no longer does.
PendingChanges ==
  /\ Alive /\ "pending" \in Events
  /\ pending' = ~pending
  /\ UNCHANGED <<ready, connVars, clients, served, launches, procVars, watchVars, clockVars, stopVars, seen>>

-----------------------------------------------------------------------------
(* The thread that serves a client: serve and serve_spawn.                  *)

Accept(c) ==
  /\ Alive /\ ready
  /\ pc[c] = "backlog"
  /\ Goto(c, "accepted")
  /\ UNCHANGED <<ready, attached, stateVars, procVars, watchVars, clockVars, stopVars, seen>>

\* The request is read, and counted.
Count(c) ==
  /\ Alive
  /\ pc[c] = "accepted"
  /\ Goto(c, "identify")
  /\ clients' = clients + 1
  /\ served' = TRUE
  /\ quietFor' = 0
  /\ UNCHANGED <<ready, attached, pending, launches, procVars, watchVars, wakeIn, upFor, stopVars, seen>>

\* The client has gone without a request.
NoRequest(c) ==
  /\ Alive
  /\ pc[c] = "accepted"
  /\ ~attached[c]
  /\ Goto(c, "gone")
  /\ UNCHANGED <<ready, attached, stateVars, procVars, watchVars, clockVars, stopVars, seen>>

\* No such app, nothing to run, or the host portal did not answer.
BadRequest(c) ==
  /\ Alive
  /\ Failures
  /\ pc[c] = "identify"
  /\ Goto(c, "uncount")
  /\ UNCHANGED <<ready, attached, stateVars, procVars, watchVars, clockVars, stopVars, seen>>

\* decide_identity has answered, which takes up to 25 s; the launch is
\* recorded before it has a cgroup.
Reserve(c, identified) ==
  /\ Alive
  /\ pc[c] = "identify"
  /\ Goto(c, "create")
  /\ launches' = [launches EXCEPT ![c] = [identity |-> identified, started |-> FALSE]]
  /\ env' = [env EXCEPT ![c] = identified]
  /\ UNCHANGED <<ready, attached, clients, served, pending, cgroup, procs, first, watchVars, clockVars, stopVars, seen>>

CreateLaunch(c) ==
  /\ Alive
  /\ pc[c] = "create"
  /\ Goto(c, "clone")
  /\ cgroup' = [cgroup EXCEPT ![c] = TRUE]
  /\ UNCHANGED <<ready, attached, stateVars, procs, first, env, watchVars, clockVars, stopVars, seen>>

\* spawn: the child starts in its cgroup and in the PID namespace.
Clone(c) ==
  /\ Alive
  /\ pc[c] = "clone"
  /\ cgroup[c] /\ initUp
  /\ Goto(c, "exec")
  /\ procs' = [procs EXCEPT ![c] = 1]
  /\ first' = [first EXCEPT ![c] = TRUE]
  /\ UNCHANGED <<ready, attached, stateVars, cgroup, env, watchVars, clockVars, stopVars, seen>>

StartFails(c) ==
  /\ Alive
  /\ \/ Failures /\ pc[c] \in {"create", "clone"}
     \/ pc[c] = "clone" /\ ~(cgroup[c] /\ initUp)
  /\ Goto(c, "failed")
  /\ UNCHANGED <<ready, attached, stateVars, procVars, watchVars, clockVars, stopVars, seen>>

\* The report pipe closes: the child has run its program, or was killed.
ExecDone(c) ==
  /\ Alive
  /\ pc[c] = "exec"
  /\ Goto(c, "record")
  /\ UNCHANGED <<ready, attached, stateVars, procVars, watchVars, clockVars, stopVars, seen>>

\* The child reports that a step before its program failed.
ExecFails(c) ==
  /\ Alive
  /\ Failures
  /\ pc[c] = "exec"
  /\ first[c]
  /\ Goto(c, "report")
  /\ UNCHANGED <<ready, attached, stateVars, procVars, watchVars, clockVars, stopVars, seen>>

\* Mutant: a child that failed is not waited for.
ReapAtOnce(c) ==
  /\ Alive
  /\ pc[c] = "report"
  /\ Goto(c, "failed")
  /\ UNCHANGED <<ready, attached, stateVars, procVars, watchVars, clockVars, stopVars, seen>>

\* ... and is waited for.
Reap(c) ==
  /\ Alive
  /\ pc[c] = "report"
  /\ ~first[c]
  /\ Goto(c, "failed")
  /\ UNCHANGED <<ready, attached, stateVars, procVars, watchVars, clockVars, stopVars, seen>>

\* The record goes, then the cgroup, unless it has a process.
Unreserve(c) ==
  /\ Alive
  /\ pc[c] = "failed"
  /\ Goto(c, "uncount")
  /\ launches' = [launches EXCEPT ![c] = NoLaunch]
  /\ cgroup' = [cgroup EXCEPT ![c] = @ /\ procs[c] > 0]
  /\ UNCHANGED <<ready, attached, clients, served, pending, procs, first, env, watchVars, clockVars, stopVars, seen>>

\* An empty cgroup now means that the launch is over.
Started(c) ==
  /\ Alive
  /\ pc[c] = "record"
  /\ Goto(c, "respond")
  /\ launches' = [launches EXCEPT ![c] = IF @ = NoLaunch THEN @ ELSE [@ EXCEPT !.started = TRUE]]
  /\ UNCHANGED <<ready, attached, clients, served, pending, procVars, watchVars, clockVars, stopVars, seen>>

\* The response cannot be sent to a client that has gone: serve_spawn
\* returns, and nobody waits for the process.
Respond(c) ==
  /\ Alive
  /\ pc[c] = "respond"
  /\ Goto(c, IF attached[c] THEN "serve" ELSE "uncount")
  /\ UNCHANGED <<ready, attached, stateVars, procVars, watchVars, clockVars, stopVars, seen>>

\* The first process has exited, whether or not its client is still there.
Exited(c) ==
  /\ Alive
  /\ pc[c] = "serve"
  /\ ~first[c]
  /\ Goto(c, "uncount")
  /\ UNCHANGED <<ready, attached, stateVars, procVars, watchVars, clockVars, stopVars, seen>>

\* Mutant: a request that failed stays counted.
UncountOk(c) ==
  /\ Alive
  /\ pc[c] = "uncount"
  /\ Goto(c, "gone")
  /\ clients' = IF launches[c] = NoLaunch THEN clients ELSE clients - 1
  /\ Forget(c)
  /\ UNCHANGED <<ready, attached, served, pending, launches, procVars, watchVars, clockVars, stopVars>>

Uncount(c) ==
  /\ Alive
  /\ pc[c] = "uncount"
  /\ Goto(c, "gone")
  /\ clients' = clients - 1
  /\ Forget(c)
  /\ UNCHANGED <<ready, attached, served, pending, launches, procVars, watchVars, clockVars, stopVars>>

-----------------------------------------------------------------------------
(* The processes of a launch.                                               *)

Fork(c) ==
  /\ pc[c] \notin {"exec", "report"}
  /\ procs[c] \in 1..(MaxProcs - 1)
  /\ procs' = [procs EXCEPT ![c] = @ + 1]
  /\ UNCHANGED <<ready, connVars, stateVars, cgroup, first, env, watchVars, clockVars, stopVars, seen>>

FirstExits(c) ==
  /\ first[c]
  /\ first' = [first EXCEPT ![c] = FALSE]
  /\ procs' = [procs EXCEPT ![c] = @ - 1]
  /\ seen' = IF procs[c] = 1 /\ pc[c] \notin Counted THEN seen \ {c} ELSE seen
  /\ UNCHANGED <<ready, connVars, stateVars, cgroup, env, watchVars, clockVars, stopVars>>

OtherExits(c) ==
  /\ procs[c] > (IF first[c] THEN 1 ELSE 0)
  /\ procs' = [procs EXCEPT ![c] = @ - 1]
  /\ seen' = IF procs[c] = 1 /\ pc[c] \notin Counted THEN seen \ {c} ELSE seen
  /\ UNCHANGED <<ready, connVars, stateVars, cgroup, first, env, watchVars, clockVars, stopVars>>

-----------------------------------------------------------------------------
(* watch_idle.                                                              *)

Tick ==
  /\ Alive
  /\ wakeIn > 0
  /\ wakeIn' = wakeIn - 1
  /\ upFor' = Min(upFor + 1, Unserved)
  /\ idleFor' = IF idle THEN Min(idleFor + 1, IdleTimeout) ELSE 0
  /\ quietFor' = IF Quiet THEN Min(quietFor + 1, IdleTimeout) ELSE 0
  /\ UNCHANGED <<ready, connVars, stateVars, procVars, wpc, wClients, idle, stopVars, seen>>

Sleep == wpc' = "sleep" /\ wakeIn' = Period

\* A zero timeout applies once something was served; until then only
\* UNSERVED_TIMEOUT does.
Waiting == IdleTimeout = 0 /\ ~served

\* shutdown is called; once is enough.
Call(why) ==
  IF stopping = "no" THEN stopping' = "called" /\ cause' = why ELSE UNCHANGED <<stopping, cause>>

\* Mutant: with a client there is nothing to clean up.
SampleBusy ==
  /\ Alive
  /\ wpc = "sleep" /\ wakeIn = 0
  /\ wClients' = clients
  /\ seen' = {c \in Client : pc[c] \in Counted \/ procs[c] > 0}
  /\ IF clients > 0 THEN Sleep ELSE wpc' = "remove" /\ UNCHANGED wakeIn
  /\ UNCHANGED <<ready, connVars, stateVars, procVars, idle, idleFor, upFor, quietFor, stopVars>>

\* The clients are read first, under the lock, and everything else later.
Sample ==
  /\ Alive
  /\ wpc = "sleep" /\ wakeIn = 0
  /\ wClients' = clients
  /\ seen' = {c \in Client : pc[c] \in Counted \/ procs[c] > 0}
  /\ IF Waiting
       THEN IF clients = 0 /\ upFor >= Unserved
              THEN wpc' = "unserved" /\ UNCHANGED wakeIn
              ELSE Sleep
       ELSE wpc' = "remove" /\ UNCHANGED wakeIn
  /\ UNCHANGED <<ready, connVars, stateVars, procVars, idle, idleFor, upFor, quietFor, stopVars>>

StopUnserved ==
  /\ Alive
  /\ wpc = "unserved"
  /\ wpc' = "stopped"
  /\ Call("unserved")
  /\ UNCHANGED <<ready, connVars, stateVars, procVars, wClients, idle, idleFor, clockVars, initUp, seen>>

\* Mutant: an empty cgroup is enough, before the first process too.
OverEmpty(c, unread) == launches[c] # NoLaunch /\ (procs[c] = 0 \/ c \in unread)

\* A launch that has started and whose cgroup is empty is over.  A cgroup
\* whose events cannot be read counts as empty; its removal then fails, and
\* only the record goes.
Over(c, unread) ==
  launches[c] # NoLaunch /\ launches[c].started /\ (procs[c] = 0 \/ c \in unread)

RemoveFinished(unread) ==
  /\ Alive
  /\ wpc = "remove"
  /\ launches' = [c \in Client |-> IF Over(c, unread) THEN NoLaunch ELSE launches[c]]
  /\ cgroup' = [c \in Client |-> cgroup[c] /\ ~(Over(c, unread) /\ procs[c] = 0)]
  /\ wpc' = "check"
  /\ UNCHANGED <<ready, connVars, clients, served, pending, procs, first, env, wClients, idle, idleFor,
                 clockVars, stopVars, seen>>

\* Mutant: only the clients keep the sandbox busy.
CheckClients(unread) ==
  /\ Alive
  /\ wpc = "check"
  /\ IF wClients > 0
       THEN idle' = FALSE /\ idleFor' = 0 /\ Sleep
       ELSE wpc' = "pending" /\ UNCHANGED <<idle, idleFor, wakeIn>>
  /\ UNCHANGED <<ready, connVars, stateVars, procVars, wClients, upFor, quietFor, stopVars, seen>>

CheckBusy(unread) ==
  /\ Alive
  /\ wpc = "check"
  /\ IF wClients > 0 \/ (Populated /\ ~unread)
       THEN idle' = FALSE /\ idleFor' = 0 /\ Sleep
       ELSE wpc' = "pending" /\ UNCHANGED <<idle, idleFor, wakeIn>>
  /\ UNCHANGED <<ready, connVars, stateVars, procVars, wClients, upFor, quietFor, stopVars, seen>>

\* Idle with changes that need a restart.
CheckPending ==
  /\ Alive
  /\ wpc = "pending"
  /\ IF pending
       THEN wpc' = "stopped" /\ Call("pending")
       ELSE wpc' = "idle" /\ UNCHANGED <<stopping, cause>>
  /\ UNCHANGED <<ready, connVars, stateVars, procVars, wClients, idle, idleFor, clockVars, initUp, seen>>

CheckIdle ==
  /\ Alive
  /\ wpc = "idle"
  /\ idle' = TRUE
  /\ IF idleFor >= IdleTimeout
       THEN wpc' = "stopped" /\ Call("idle") /\ UNCHANGED wakeIn
       ELSE Sleep /\ UNCHANGED <<stopping, cause>>
  /\ UNCHANGED <<ready, connVars, stateVars, procVars, wClients, idleFor, upFor, quietFor, initUp, seen>>

-----------------------------------------------------------------------------
(* shutdown, on any thread.                                                 *)

\* A Stop request, or the bus daemon or the display helper exiting.
StopAsked ==
  /\ "stop" \in Events
  /\ stopping = "no"
  /\ Call("asked")
  /\ UNCHANGED <<ready, connVars, stateVars, procVars, watchVars, clockVars, initUp, seen>>

\* The init exits by itself, and the kernel kills its PID namespace.
InitExits ==
  /\ Alive /\ "init" \in Events
  /\ initUp
  /\ initUp' = FALSE
  /\ procs' = [c \in Client |-> 0]
  /\ first' = [c \in Client |-> FALSE]
  /\ seen' = {c \in seen : pc[c] \in Counted}
  /\ UNCHANGED <<ready, connVars, stateVars, cgroup, env, watchVars, clockVars, stopping, cause>>

WatchInit ==
  /\ ~initUp
  /\ stopping = "no"
  /\ Call("init")
  /\ UNCHANGED <<ready, connVars, stateVars, procVars, watchVars, clockVars, initUp, seen>>

KillWorkload ==
  /\ stopping = "called"
  /\ stopping' = "workload"
  /\ procs' = [c \in Client |-> 0]
  /\ first' = [c \in Client |-> FALSE]
  /\ seen' = {c \in seen : pc[c] \in Counted}
  /\ UNCHANGED <<ready, connVars, stateVars, cgroup, env, watchVars, clockVars, initUp, cause>>

\* Mutant: the init is left to systemd.
KillNothing ==
  /\ stopping = "workload"
  /\ stopping' = "init"
  /\ UNCHANGED <<ready, connVars, stateVars, procVars, watchVars, clockVars, initUp, cause, seen>>

\* A launch that started since goes with the PID namespace.
KillInit ==
  /\ stopping = "workload"
  /\ stopping' = "init"
  /\ initUp' = FALSE
  /\ procs' = [c \in Client |-> 0]
  /\ first' = [c \in Client |-> FALSE]
  /\ seen' = {c \in seen : pc[c] \in Counted}
  /\ UNCHANGED <<ready, connVars, stateVars, cgroup, env, watchVars, clockVars, cause>>

Exit ==
  /\ stopping = "init"
  /\ stopping' = "exited"
  /\ UNCHANGED <<ready, connVars, stateVars, procVars, watchVars, clockVars, initUp, cause, seen>>

-----------------------------------------------------------------------------
Serve(c) ==
  \/ Accept(c) \/ Count(c) \/ NoRequest(c) \/ BadRequest(c)
  \/ (\E identified \in BOOLEAN : Reserve(c, identified))
  \/ CreateLaunch(c) \/ Clone(c) \/ StartFails(c) \/ ExecDone(c) \/ ExecFails(c) \/ Reap(c) \/ Unreserve(c)
  \/ Started(c) \/ Respond(c) \/ Exited(c) \/ Uncount(c)

Unreadable == IF ReadFails THEN {TRUE, FALSE} ELSE {FALSE}

WatchIdle ==
  \/ Sample \/ StopUnserved \/ CheckPending \/ CheckIdle
  \/ \E unread \in (IF ReadFails THEN SUBSET Client ELSE {{}}) : RemoveFinished(unread)
  \/ \E unread \in Unreadable : CheckBusy(unread)

Shutdown == WatchInit \/ KillWorkload \/ KillInit \/ Exit

Processes(c) == Fork(c) \/ FirstExits(c) \/ OtherExits(c)

Next ==
  \/ Ready \/ PendingChanges \/ StopAsked \/ InitExits
  \/ \E c \in Client : Connect(c) \/ Disconnect(c) \/ Serve(c) \/ Processes(c)
  \/ Tick \/ WatchIdle \/ Shutdown

Spec == Init /\ [][Next]_vars

\* Time passes, every thread of the supervisor takes its next step once it
\* can, and a child that has reported a failure exits.  Nothing is assumed
\* of clients and programs.
Fairness ==
  /\ WF_vars(Ready) /\ WF_vars(Tick) /\ WF_vars(WatchIdle) /\ WF_vars(Shutdown)
  /\ \A c \in Client : WF_vars(Serve(c)) /\ WF_vars(pc[c] = "report" /\ FirstExits(c))

FairSpec == Spec /\ Fairness

-----------------------------------------------------------------------------
(* Properties.                                                              *)

Types ==
  /\ ready \in BOOLEAN
  /\ pc \in [Client -> PC]
  /\ attached \in [Client -> BOOLEAN]
  /\ served \in BOOLEAN /\ pending \in BOOLEAN
  /\ launches \in [Client -> Launch \cup {NoLaunch}]
  /\ cgroup \in [Client -> BOOLEAN]
  /\ procs \in [Client -> 0..MaxProcs]
  /\ first \in [Client -> BOOLEAN]
  /\ env \in [Client -> BOOLEAN]
  /\ wpc \in {"sleep", "unserved", "remove", "check", "pending", "idle", "stopped"}
  /\ wClients \in Nat
  /\ idle \in BOOLEAN
  /\ idleFor \in 0..IdleTimeout /\ quietFor \in 0..IdleTimeout
  /\ wakeIn \in 0..Period /\ upFor \in 0..Unserved
  /\ initUp \in BOOLEAN
  /\ stopping \in {"no", "called", "workload", "init", "exited"}
  /\ cause \in Causes
  /\ seen \subseteq Client

CountedClients == {c \in Client : pc[c] \in Counted}

\* The variables have their types; State::clients is the number of requests
\* being served, on whatever path each of them returns.
TypeOK == Types /\ clients = Cardinality(CountedClients)

\* While a launch has a process, the gateway finds its record through the
\* process's cgroup, with the identity its environment was made for: "the
\* answer decides both the launch's identity and its environment".
LaunchKnown ==
  \A c \in Client : procs[c] > 0 => launches[c] # NoLaunch /\ launches[c].identity = env[c]

\* The idle watcher never takes the cgroup away from a launch that has not
\* started: "a launch's cgroup is empty between its creation and its first
\* process".
CgroupKept ==
  \A c \in Client : pc[c] \in {"clone", "exec"} => cgroup[c] /\ launches[c] # NoLaunch

\* Nothing is left in the workload when the supervisor exits, launches that
\* start during the shutdown included.
NothingSurvives == stopping = "exited" => ~Populated

\* The idle watcher stops the sandbox only when every client and every
\* process that was there when it began the sample has gone.
EstablishedKept ==
  [][cause = "none" /\ cause' \in {"idle", "pending"} => seen = {}]_vars

\* Nobody is being served and nothing runs.
Inactive == ~Populated /\ \A c \in Client : pc[c] \in {"away", "gone"}

\* A sandbox nobody uses stops: after its idle timeout, at once when a
\* restart is pending, and after UNSERVED_TIMEOUT when it never had work.
IdleStops == Inactive ~> (~Inactive \/ ~Alive)

\* The record of a launch whose processes have all exited goes, whatever
\* the other launches do.
FinishedGoes ==
  \A c \in Client :
    (pc[c] = "gone" /\ launches[c] # NoLaunch /\ procs[c] = 0) ~> (launches[c] = NoLaunch \/ ~Alive)

\* docs/architecture.md: "The sandbox is idle when no launch cgroup is
\* populated and no client is connected", and only then does it stop for it.
StopsOnlyIdle == [][cause = "none" /\ cause' \in {"idle", "pending"} => Quiet]_vars

\* docs/architecture.md: "after `idle-timeout` seconds of that, the
\* supervisor stops".
IdleLongEnough == [][cause = "none" /\ cause' = "idle" /\ Quiet => quietFor >= IdleTimeout]_vars

\* UNSERVED_TIMEOUT: a task waits that long for its first command "once its
\* client has gone".
WaitsForClient ==
  [][cause = "none" /\ cause' = "unserved" => \A c \in Client : ~attached[c]]_vars
=============================================================================
