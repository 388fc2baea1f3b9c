------------------------------ MODULE Clients ------------------------------
(***************************************************************************)
(* The gateway's map of clients (gateway.rs serve, name_changed, client,   *)
(* on_bus, identity, serve_host's end) and the portal identity of a        *)
(* client's process (identity.rs process_cgroup, supervisor.rs identity).  *)
(*                                                                         *)
(* Several readers, one for each private bus connection, make host         *)
(* connections for the apps whose calls they read; only the reader of the  *)
(* portal connection is told that an app has left.  What happens on one    *)
(* host connection is the matter of Gateway, how it is opened that of      *)
(* Connector.                                                              *)
(***************************************************************************)
EXTENDS Naturals, Sequences, FiniteSets

CONSTANTS
    Apps,           \* apps, each a process with its own unique bus name
    Readers,        \* the gateway's readers: "portal" and those of talk names
    Pids,           \* process ids
    MaxCalls,       \* calls the apps make
    MaxConns        \* host connections made

None == 0

VARIABLES
    pid,            \* pid[a]: the pid of the app's process, None before and after
    left,           \* apps that have left the private bus
    launch,         \* launch[a]: the launch whose cgroup the app runs in
    calls,          \* calls made so far
    queue,          \* queue[r]: what reader r has still to read
    clients,        \* Gateway::clients: clients[a] a connection, or None
    creating,       \* the reader that holds Gateway::creating, or None
    conns,          \* host connections: [app, id, open, gone, served, waits, held]
    pc,             \* pc[r]: where reader r is
    cur,            \* cur[r]: the app whose call it handles
    conn,           \* conn[r]: the connection it sets up, or will send on
    seenPid,        \* seenPid[r]: the pid process_cgroup read first
    seenLaunch      \* seenLaunch[r]: the launch whose cgroup it read

apps == <<pid, left, launch, calls>>
reader == <<pc, cur, conn, seenPid, seenLaunch>>
vars == <<apps, queue, clients, creating, conns, reader>>

\* The launches' identities: the host portal knows an application for the
\* first and for the bus; the second has none.
Launches == {"first", "second", "bus"}
Identity(l) == IF l = "second" THEN "none" ELSE l

Init ==
    /\ pid = [a \in Apps |-> None] /\ left = {} /\ calls = 0
    /\ launch \in [Apps -> Launches] /\ \A a, b \in Apps : a # b => launch[a] # launch[b]
    /\ queue = [r \in Readers |-> <<>>]
    /\ clients = [a \in Apps |-> None] /\ creating = "none" /\ conns = <<>>
    /\ pc = [r \in Readers |-> "idle"]
    /\ cur = [r \in Readers |-> None] /\ conn = [r \in Readers |-> None]
    /\ seenPid = [r \in Readers |-> None] /\ seenLaunch = [r \in Readers |-> "none"]

-----------------------------------------------------------------------------
(* The apps and the host bus (external). *)

\* A pid is used again once its process is gone.
AppStarts(a, p) ==
    /\ pid[a] = None /\ a \notin left
    /\ \A b \in Apps : pid[b] # p
    /\ pid' = [pid EXCEPT ![a] = p]
    /\ UNCHANGED <<left, launch, calls, queue, clients, creating, conns, reader>>

AppCalls(a, r) ==
    /\ pid[a] # None /\ calls < MaxCalls
    /\ calls' = calls + 1
    /\ queue' = [queue EXCEPT ![r] = Append(@, [type |-> "call", app |-> a])]
    /\ UNCHANGED <<pid, left, launch, clients, creating, conns, reader>>

AppExits(a) ==
    /\ pid[a] # None
    /\ pid' = [pid EXCEPT ![a] = None]
    /\ left' = left \cup {a}
    /\ queue' = [queue EXCEPT !["portal"] = Append(@, [type |-> "left", app |-> a])]
    /\ UNCHANGED <<launch, calls, clients, creating, conns, reader>>

HostCloses(k) ==
    /\ conns[k].open
    /\ conns' = [conns EXCEPT ![k].open = FALSE]
    /\ UNCHANGED <<apps, queue, clients, creating, reader>>

-----------------------------------------------------------------------------
(* The readers of the private bus.  A connection `waits' while an OpenURI call *)
(* or request made on it is unanswered; `held' is a call put off while the app *)
(* is registered again.  Which calls are either is Gateway's matter.           *)

Go(r, where) == pc' = [pc EXCEPT ![r] = where]

\* The reader has done with a call, and forgets what it kept for it.
Done(r) ==
    /\ Go(r, "idle")
    /\ cur' = [cur EXCEPT ![r] = None] /\ conn' = [conn EXCEPT ![r] = None]
    /\ seenPid' = [seenPid EXCEPT ![r] = None] /\ seenLaunch' = [seenLaunch EXCEPT ![r] = "none"]

\* close_if_done, of a client that has left: only an OpenURI call or request that
\* is waited for keeps its connection open.
OpenAfter(c) == c.open /\ c.waits

\* name_changed
NameChanged(r) ==
    /\ pc[r] = "idle" /\ queue[r] # <<>> /\ Head(queue[r]).type = "left"
    /\ LET a == Head(queue[r]).app IN
       /\ clients' = [clients EXCEPT ![a] = None]
       /\ conns' = IF clients[a] = None THEN conns
                   ELSE [conns EXCEPT ![clients[a]].gone = TRUE, ![clients[a]].open = OpenAfter(conns[clients[a]])]
    /\ queue' = [queue EXCEPT ![r] = Tail(@)]
    /\ UNCHANGED <<apps, creating, reader>>

\* client: the connection the app has.
Call(r) ==
    /\ pc[r] = "idle" /\ queue[r] # <<>> /\ Head(queue[r]).type = "call"
    /\ LET a == Head(queue[r]).app IN
       /\ cur' = [cur EXCEPT ![r] = a]
       /\ conn' = [conn EXCEPT ![r] = clients[a]]
       /\ Go(r, IF clients[a] # None THEN "send" ELSE "lock")
    /\ queue' = [queue EXCEPT ![r] = Tail(@)]
    /\ UNCHANGED <<apps, clients, creating, conns, seenPid, seenLaunch>>

\* Mutant: the map is not looked at again.
LockBlind(r) ==
    /\ pc[r] = "lock" /\ creating = "none"
    /\ creating' = r /\ Go(r, "connect")
    /\ UNCHANGED <<apps, queue, clients, conns, cur, conn, seenPid, seenLaunch>>

\* The `creating` lock, and the connection another reader has made meanwhile.
Lock(r) ==
    /\ pc[r] = "lock" /\ creating = "none"
    /\ IF clients[cur[r]] # None
       THEN conn' = [conn EXCEPT ![r] = clients[cur[r]]] /\ Go(r, "send") /\ UNCHANGED creating
       ELSE creating' = r /\ Go(r, "connect") /\ UNCHANGED conn
    /\ UNCHANGED <<apps, queue, clients, conns, cur, seenPid, seenLaunch>>

\* connect_host and Conn::over.
Connect(r) ==
    /\ pc[r] = "connect" /\ Len(conns) < MaxConns
    /\ conns' = Append(conns, [app |-> cur[r], id |-> "none", open |-> TRUE, gone |-> FALSE,
                              served |-> FALSE, waits |-> FALSE, held |-> FALSE])
    /\ conn' = [conn EXCEPT ![r] = Len(conns) + 1]
    /\ Go(r, "credentials")
    /\ UNCHANGED <<apps, queue, clients, creating, cur, seenPid, seenLaunch>>

\* The call is answered with an error; the lock and the connection are dropped.
Fail(r) ==
    /\ pc[r] \in {"connect", "insert"}
    /\ creating' = "none" /\ Done(r)
    /\ conns' = IF pc[r] = "insert" THEN [conns EXCEPT ![conn[r]].open = FALSE] ELSE conns
    /\ UNCHANGED <<apps, queue, clients>>

\* identity: a pidfd of the app's process, while the bus knows it; pidfd_pid.
Credentials(r) ==
    /\ pc[r] = "credentials"
    /\ seenPid' = [seenPid EXCEPT ![r] = pid[cur[r]]]
    /\ Go(r, IF pid[cur[r]] = None THEN "insert" ELSE "cgroup")
    /\ UNCHANGED <<apps, queue, clients, creating, conns, cur, conn, seenLaunch>>

\* process_cgroup reads the cgroup of whatever process has the pid.
ReadCgroup(r) ==
    /\ pc[r] = "cgroup"
    /\ LET there == {a \in Apps : pid[a] = seenPid[r]} IN
       IF there = {} THEN Go(r, "insert") /\ UNCHANGED seenLaunch
       ELSE /\ seenLaunch' = [seenLaunch EXCEPT ![r] = launch[CHOOSE a \in there : TRUE]]
            /\ Go(r, "recheck")
    /\ UNCHANGED <<apps, queue, clients, creating, conns, cur, conn, seenPid>>

\* Mutant: what was read is taken for the process's.
StillRunsNot(r) == TRUE

\* The process still has the pid.
StillRuns(r) == pid[cur[r]] = seenPid[r]

\* The launch's identity, registered with the host portal, which may fail.
Register(r) ==
    /\ pc[r] = "recheck"
    /\ conns' = IF StillRuns(r) THEN [conns EXCEPT ![conn[r]].id = Identity(seenLaunch[r])] ELSE conns
    /\ Go(r, "insert")
    /\ UNCHANGED <<apps, queue, clients, creating, cur, conn, seenPid, seenLaunch>>

RegisterFails(r) ==
    /\ pc[r] = "recheck"
    /\ Go(r, "insert")
    /\ UNCHANGED <<apps, queue, clients, creating, conns, cur, conn, seenPid, seenLaunch>>

\* The matches and owners are asked for, which needs the connection.
Insert(r) ==
    /\ pc[r] = "insert" /\ conns[conn[r]].open
    /\ clients' = [clients EXCEPT ![cur[r]] = conn[r]]
    /\ Go(r, "onBus")
    /\ UNCHANGED <<apps, queue, creating, conns, cur, conn, seenPid, seenLaunch>>

\* Mutant: the app is taken to be there, as it was when it called.
OnBusBefore(r) == TRUE

\* on_bus
OnBus(r) == cur[r] \notin left

\* The reader of the connection is started, and the call is sent; a connection
\* of an app that has left is closed with its last reference.
Serve(r) ==
    /\ pc[r] = "onBus"
    /\ creating' = "none"
    /\ IF OnBus(r)
       THEN /\ conns' = [conns EXCEPT ![conn[r]].served = TRUE]
            /\ Go(r, "send") /\ UNCHANGED <<clients, cur, conn, seenPid, seenLaunch>>
       ELSE /\ clients' = [clients EXCEPT ![cur[r]] = None]
            /\ conns' = [conns EXCEPT ![conn[r]].open = FALSE]
            /\ Done(r)
    /\ UNCHANGED <<apps, queue>>

\* forward sends the call, or answers it with an error.
Send(r) ==
    /\ pc[r] = "send" /\ Done(r)
    /\ UNCHANGED <<apps, queue, clients, creating, conns>>

\* forward sends an OpenURI call, which is waited for from then on.
SendOpen(r) ==
    /\ pc[r] = "send" /\ r = "portal" /\ conns[conn[r]].open
    /\ Done(r)
    /\ conns' = [conns EXCEPT ![conn[r]].waits = TRUE]
    /\ UNCHANGED <<apps, queue, clients, creating>>

\* forward holds a call of an app that has an identity.
Hold(r) ==
    /\ pc[r] = "send" /\ r = "portal" /\ conns[conn[r]].id # "none"
    /\ Done(r)
    /\ conns' = [conns EXCEPT ![conn[r]].held = TRUE]
    /\ UNCHANGED <<apps, queue, clients, creating>>

-----------------------------------------------------------------------------
(* The readers of the host connections. *)

\* registered: the held calls are passed on, an OpenURI call perhaps among them.
PassHeld(k) ==
    /\ conns[k].served /\ conns[k].open /\ conns[k].held
    /\ \E opens \in {conns[k].waits, TRUE} :
         conns' = [conns EXCEPT ![k].held = FALSE, ![k].waits = opens]
    /\ UNCHANGED <<apps, queue, clients, creating, reader>>

\* relay_reply, relay_signal, end_open_requests: the last that is waited for ends,
\* and with it the connection of an app that has left.
OpenAnswered(k) ==
    /\ conns[k].served /\ conns[k].waits
    /\ conns' = [conns EXCEPT ![k].waits = FALSE, ![k].open = @ /\ ~conns[k].gone]
    /\ UNCHANGED <<apps, queue, clients, creating, reader>>

\* serve_host, once the connection is closed: the app's entry goes, and nothing is
\* waited for any longer.
ServeEnds(k) ==
    /\ conns[k].served /\ ~conns[k].open
    /\ clients' = [clients EXCEPT ![conns[k].app] = None]
    /\ conns' = [conns EXCEPT ![k].served = FALSE, ![k].waits = FALSE]
    /\ UNCHANGED <<apps, queue, creating, reader>>

Next ==
    \/ \E a \in Apps, p \in Pids : AppStarts(a, p)
    \/ \E a \in Apps, r \in Readers : AppCalls(a, r)
    \/ \E a \in Apps : AppExits(a)
    \/ \E k \in DOMAIN conns : HostCloses(k) \/ PassHeld(k) \/ OpenAnswered(k) \/ ServeEnds(k)
    \/ \E r \in Readers :
         \/ NameChanged(r) \/ Call(r) \/ Lock(r) \/ Connect(r) \/ Fail(r)
         \/ Credentials(r) \/ ReadCgroup(r) \/ Register(r) \/ RegisterFails(r)
         \/ Insert(r) \/ Serve(r) \/ Send(r) \/ SendOpen(r) \/ Hold(r)

Spec == Init /\ [][Next]_vars

-----------------------------------------------------------------------------
(* Properties *)

(* However many readers get an app's first calls at once, and whenever the host  *)
(* closes a connection, an app that is there has one host connection at a time,   *)
(* so what it sends reaches host services in order and from one name; there or    *)
(* gone, one connection at most answers for it (one that has left can have a      *)
(* second for the moment its last call is looked at, beside one that waits for    *)
(* an OpenURI answer); and an open entry of the map that is nobody's to serve is  *)
(* being set up.                                                                  *)
OneConnection ==
    \A a \in Apps :
      /\ a \notin left => Cardinality({k \in DOMAIN conns : conns[k].app = a /\ conns[k].open}) <= 1
      /\ Cardinality({k \in DOMAIN conns : conns[k].app = a /\ conns[k].served}) <= 1
      /\ clients[a] # None /\ conns[clients[a]].open /\ ~conns[clients[a]].served =>
           \E r \in Readers : pc[r] = "onBus" /\ conn[r] = clients[a]

(* Once an app has left and every reader has done with what it sent, it has no    *)
(* entry, and what is left open of it knows that it has left and still waits for  *)
(* an OpenURI answer, with a reader to get it; although the departure is read on  *)
(* one connection and the last call may be read later on another                  *)
(* (gateway.rs:447), calls held are passed on after it, and an answer can come    *)
(* between any two steps.                                                         *)
LeftForgotten ==
    \A a \in left :
      (\A r \in Readers :
         /\ pc[r] # "idle" => cur[r] # a
         /\ \A i \in DOMAIN queue[r] : queue[r][i].app # a)
      => /\ clients[a] = None
         /\ \A k \in DOMAIN conns : conns[k].app = a /\ conns[k].open =>
              conns[k].gone /\ conns[k].waits /\ conns[k].served

(* A host connection is never registered under the identity of another launch     *)
(* than its app's, whatever processes end and whatever takes their pids while     *)
(* the identity is looked up.                                                     *)
RightIdentity ==
    \A k \in DOMAIN conns : conns[k].id \in {"none", Identity(launch[conns[k].app])}
=============================================================================
