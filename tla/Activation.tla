---------------------------- MODULE Activation -----------------------------
(***************************************************************************)
(* How commands reach a sandbox that may not run (client.rs, cli.rs stop    *)
(* and stop_all, the ends of supervisor.rs run and shutdown).  systemd      *)
(* listens on the sandbox's socket and starts its supervisor when a         *)
(* connection waits; the connection stays in the listen queue, which        *)
(* outlives the supervisor, until one accepts it.  A named sandbox keeps    *)
(* its socket unit.  An unnamed one has a single client, hands its settings *)
(* over in a file, and leaves nothing behind.                               *)
(*                                                                          *)
(* External: systemd.  Its jobs on the socket unit replace one another      *)
(* ("replace"), stopping the socket unit stops the service that requires    *)
(* it, and a service started too often makes the socket unit fail.          *)
(***************************************************************************)
EXTENDS Naturals, Sequences

CONSTANTS Runner,       \* clients that run an app; one of them when the sandbox is unnamed
          Stopper,      \* clients that ask the sandbox to stop
          MaxStarts     \* starts of the service that systemd allows

ASSUME ActivationAssumption == Runner # {} /\ Runner \cap Stopper = {}

VARIABLES sandbox,      \* "named" or "unnamed"
          socket,       \* whether systemd listens
          job,          \* the job on the socket unit: "none", "start" or "stop"
          service,      \* "off", "on" or "stopping"
          sup,          \* the supervisor: "none", "starting", "refusing", "up" or "leaving"
          backlog,      \* connections not accepted
          conns,        \* connections the supervisor serves
          settings,     \* whether the settings file is there
          client,       \* client -> where it is
          stopAll,      \* where `psbox stop --all` is
          starts,
          sure          \* ghost: who was to stop the socket unit and was not refused by systemd

activationVars == <<sandbox, socket, job, service, sup, backlog, conns, settings, client, stopAll, starts, sure>>

Client == Runner \cup Stopper
Owner  == CHOOSE r \in Runner : TRUE

ActivationInit ==
  /\ sandbox \in {"named", "unnamed"}
  /\ socket = FALSE /\ job = "none" /\ service = "off" /\ sup = "none"
  /\ backlog = <<>> /\ conns = {} /\ settings = FALSE
  /\ client = [c \in Client |-> "idle"]
  /\ stopAll = "idle" /\ starts = 0 /\ sure = {}

-----------------------------------------------------------------------------
(* Clients.                                                                 *)

\* Where a client goes when its connection ends: `psbox sandbox` clears up, others return.
ReturnsTo(c) == IF sandbox = "unnamed" /\ c \in Runner THEN "ended" ELSE "done"

\* Connections that are closed under the clients waiting or running on them.
Closed(cs) == [c \in Client |-> IF c \in cs /\ client[c] \in {"waiting", "running"} THEN ReturnsTo(c) ELSE client[c]]

Queued == {backlog[i] : i \in 1..Len(backlog)}

Goes(c, where) == client' = [client EXCEPT ![c] = where]

units == <<socket, job, service, starts>>

\* sandbox writes the settings; check_config or preflight may refuse before anything starts.
Begin(c) ==
  /\ client[c] = "idle" /\ c \in Runner
  /\ sandbox = "unnamed" => c = Owner
  /\ \/ Goes(c, "begun") /\ settings' = (sandbox = "unnamed")
     \/ sandbox = "named" /\ Goes(c, "done") /\ UNCHANGED settings
  /\ UNCHANGED <<sandbox, units, sup, backlog, conns, stopAll, sure>>

\* The connection is queued, and the request after it.
Connect(c) ==
  /\ client[c] \in {"begun", "polling", "asked"}
  /\ socket
  /\ backlog' = Append(backlog, c)
  /\ Goes(c, "waiting")
  /\ UNCHANGED <<sandbox, units, sup, conns, settings, stopAll, sure>>

\* connect_or_start: nothing listens, so the socket unit is started, and polled for.
StartUnit(c) ==
  /\ client[c] = "begun" /\ ~socket
  /\ \/ job' = "start" /\ Goes(c, "polling")
     \/ job' = job /\ Goes(c, ReturnsTo(c))
  /\ UNCHANGED <<sandbox, socket, service, starts, sup, backlog, conns, settings, stopAll, sure>>

\* The unit does not listen after five seconds, or the socket went after is_active.
GiveUp(c) ==
  /\ client[c] \in {"polling", "asked"} /\ ~socket
  /\ Goes(c, ReturnsTo(c))
  /\ UNCHANGED <<sandbox, units, sup, backlog, conns, settings, stopAll, sure>>

\* Mutant: the socket unit is left to the supervisor, which stops it when it shuts down.
StopsSocketNot(c) == UNCHANGED job

\* The end of sandbox: systemd is asked to stop the socket unit.
StopsSocket(c) == job' = "stop"

\* sandbox after run: the settings are removed, whoever read them, and the unit is stopped.
ClearUp(c) ==
  /\ client[c] = "ended"
  /\ Goes(c, "done")
  /\ settings' = FALSE
  /\ \/ StopsSocket(c) /\ sure' = sure \cup {c}
     \/ UNCHANGED <<job, sure>>
  /\ UNCHANGED <<sandbox, socket, service, starts, sup, backlog, conns, stopAll>>

\* request: a stop goes to a sandbox that runs, and starts none.
Ask(c) ==
  /\ client[c] = "idle" /\ c \in Stopper
  /\ Goes(c, IF service = "on" THEN "asked" ELSE "done")
  /\ UNCHANGED <<sandbox, units, sup, backlog, conns, settings, stopAll, sure>>

\* stop waits for the service to go, or for five seconds.
Watched(c) ==
  /\ client[c] = "watching"
  /\ Goes(c, "done")
  /\ UNCHANGED <<sandbox, units, sup, backlog, conns, settings, stopAll, sure>>

\* A runner is killed; what it queued stays queued.
Kill(c) ==
  /\ c \in Runner /\ client[c] \notin {"idle", "done", "killed"}
  /\ Goes(c, "killed")
  /\ conns' = conns \ {c}
  /\ UNCHANGED <<sandbox, units, sup, backlog, settings, stopAll, sure>>

\* stop_all: the active services are stopped, and the socket unit of an unnamed one.
StopAll ==
  /\ stopAll = "idle"
  /\ stopAll' = IF client[Owner] \in {"done", "killed"} /\ job = "none" THEN "late" ELSE "early"
  /\ service' = IF service = "on" THEN "stopping" ELSE service
  /\ job' = IF service = "on" /\ sandbox = "unnamed" THEN "stop" ELSE job
  /\ UNCHANGED <<sandbox, socket, starts, sup, backlog, conns, settings, client, sure>>

\* Then the socket units that unnamed sandboxes left.
Strays ==
  /\ stopAll \in {"late", "early"}
  /\ \/ /\ job' = IF sandbox = "unnamed" /\ socket THEN "stop" ELSE job
        /\ stopAll' = "done"
        /\ sure' = IF stopAll = "late" THEN sure \cup {Owner} ELSE sure
     \/ job' = job /\ stopAll' = "done" /\ sure' = sure
  /\ UNCHANGED <<sandbox, socket, service, starts, sup, backlog, conns, settings, client>>

-----------------------------------------------------------------------------
(* systemd.                                                                 *)

JobStart ==
  /\ job = "start"
  /\ socket' = TRUE /\ job' = "none"
  /\ UNCHANGED <<sandbox, service, starts, sup, backlog, conns, settings, client, stopAll, sure>>

JobStop ==
  /\ job = "stop"
  /\ socket' = FALSE /\ job' = "none"
  /\ backlog' = <<>> /\ client' = Closed(Queued)
  /\ service' = IF service = "on" THEN "stopping" ELSE service
  /\ UNCHANGED <<sandbox, starts, sup, conns, settings, stopAll, sure>>

\* A connection waits and nothing runs.
Trigger ==
  /\ socket /\ backlog # <<>> /\ service = "off"
  /\ IF starts < MaxStarts
     THEN /\ service' = "on" /\ sup' = "starting" /\ starts' = starts + 1
          /\ UNCHANGED <<socket, backlog, client>>
     ELSE /\ socket' = FALSE /\ backlog' = <<>> /\ client' = Closed(Queued)
          /\ UNCHANGED <<service, sup, starts>>
  /\ UNCHANGED <<sandbox, job, conns, settings, stopAll, sure>>

\* The supervisor is gone: what it served is closed, what waits stays with the socket.
Gone ==
  /\ sup' = "none" /\ service' = "off" /\ conns' = {}
  /\ client' = Closed(conns)

Stopped ==
  /\ service = "stopping"
  /\ Gone
  /\ UNCHANGED <<sandbox, socket, job, starts, backlog, settings, stopAll, sure>>

-----------------------------------------------------------------------------
(* The supervisor.                                                          *)

\* start: the settings of an unnamed sandbox are read and removed.
Start ==
  /\ sup = "starting" /\ service = "on"
  /\ sandbox = "unnamed" => settings
  /\ sup' = "up" /\ settings' = FALSE
  /\ UNCHANGED <<sandbox, units, backlog, conns, client, stopAll, sure>>

\* It fails, before or after it read them, or because they are not there.
StartFails ==
  /\ sup = "starting" /\ service = "on"
  /\ sup' = "refusing" /\ settings' \in {settings, FALSE}
  /\ UNCHANGED <<sandbox, units, backlog, conns, client, stopAll, sure>>

\* refuse_waiting answers those that wait with the failure, and the supervisor exits.
RefuseWaiting ==
  /\ sup = "refusing" /\ service = "on" /\ backlog # <<>>
  /\ backlog' = Tail(backlog)
  /\ client' = Closed({Head(backlog)})
  /\ UNCHANGED <<sandbox, units, sup, conns, settings, stopAll, sure>>

Refused ==
  /\ sup = "refusing" /\ service = "on" /\ backlog = <<>>
  /\ Gone
  /\ UNCHANGED <<sandbox, socket, job, starts, backlog, settings, stopAll, sure>>

Accept ==
  /\ sup = "up" /\ service = "on" /\ backlog # <<>>
  /\ backlog' = Tail(backlog)
  /\ conns' = IF client[Head(backlog)] = "waiting" THEN conns \cup {Head(backlog)} ELSE conns
  /\ UNCHANGED <<sandbox, units, sup, settings, client, stopAll, sure>>

\* Mutant: one connection is served after another, an app's until it exits.
ServedOneByOne(c) == c \in conns /\ client[c] = "waiting" /\ \A d \in conns : client[d] # "running"

\* Each connection has a thread that reads its requests.
Served(c) == c \in conns /\ client[c] = "waiting"

\* A spawn is answered, and its exit later; a stop is answered, and the supervisor shuts down.
AnswerClient(c) ==
  /\ sup = "up" /\ service = "on" /\ Served(c)
  /\ IF c \in Stopper
     THEN Goes(c, "watching") /\ conns' = conns \ {c} /\ sup' = "leaving"
     ELSE /\ sup' = sup
          /\ \/ Goes(c, "running") /\ conns' = conns
             \/ Goes(c, ReturnsTo(c)) /\ conns' = conns \ {c}
  /\ UNCHANGED <<sandbox, units, backlog, settings, stopAll, sure>>

Exited(c) ==
  /\ sup = "up" /\ c \in conns /\ client[c] = "running"
  /\ Goes(c, ReturnsTo(c)) /\ conns' = conns \ {c}
  /\ UNCHANGED <<sandbox, units, sup, backlog, settings, stopAll, sure>>

\* Idle, or the init is gone.
SupervisorLeaves ==
  /\ sup = "up"
  /\ sup' = "leaving"
  /\ UNCHANGED <<sandbox, units, backlog, conns, settings, client, stopAll, sure>>

\* shutdown: an unnamed sandbox has its socket unit stopped, which systemd may refuse.
Shutdown ==
  /\ sup = "leaving"
  /\ Gone
  /\ job' \in (IF sandbox = "unnamed" THEN {"stop", job} ELSE {job})
  /\ UNCHANGED <<sandbox, socket, starts, backlog, settings, stopAll, sure>>

-----------------------------------------------------------------------------
ActivationNext ==
  \/ \E c \in Client : \/ Begin(c) \/ Connect(c) \/ StartUnit(c) \/ GiveUp(c) \/ ClearUp(c) \/ Ask(c)
                       \/ Watched(c) \/ Kill(c) \/ AnswerClient(c) \/ Exited(c)
  \/ StopAll \/ Strays
  \/ JobStart \/ JobStop \/ Trigger \/ Stopped
  \/ Start \/ StartFails \/ RefuseWaiting \/ Refused \/ Accept \/ SupervisorLeaves \/ Shutdown

\* systemd carries out its jobs and starts what is waited for; the supervisor's start has time
\* limits of its own, its accept loop runs, and each connection has a thread that answers it.
Fairness ==
  /\ WF_activationVars(JobStop) /\ WF_activationVars(Trigger) /\ WF_activationVars(Stopped)
  /\ WF_activationVars(Start \/ StartFails) /\ WF_activationVars(RefuseWaiting \/ Refused)
  /\ WF_activationVars(Accept) /\ WF_activationVars(Shutdown)
  /\ \A c \in Client : WF_activationVars(AnswerClient(c))

ActivationSpec == ActivationInit /\ [][ActivationNext]_activationVars
FairActivationSpec == ActivationSpec /\ Fairness

-----------------------------------------------------------------------------
\* When `psbox sandbox` has returned, or its client was killed and `psbox stop --all` has run since,
\* and systemd has done what it was asked to, nothing of the unnamed sandbox is left: no supervisor
\* and no socket unit, whether it started, failed to start, never listened or was stopped by others
\* meanwhile; and the settings are gone once the client has returned.
NothingLeft ==
  sandbox = "unnamed" =>
    /\ Owner \in sure /\ job = "none" /\ service # "stopping" => ~socket /\ service = "off" /\ backlog = <<>>
    /\ client[Owner] = "done" => ~settings

\* Every client whose request waits is answered, or told that the sandbox stopped: by the supervisor
\* that accepts it, by one that fails to start, by the next one that systemd starts for what is left
\* in the queue, or by systemd when the socket unit fails or is stopped.
Answered == \A c \in Client : client[c] = "waiting" ~> client[c] # "waiting"
=============================================================================
