----------------------------- MODULE Connector -----------------------------
(***************************************************************************)
(* The host bus connector (connector.rs) and the supervisor that asks it   *)
(* for sockets and replaces it (supervisor.rs connect_host).               *)
(*                                                                         *)
(* A connector is a process that holds the host bus's socket as it was     *)
(* when it was started, and answers each request on its control socket.    *)
(* The host bus may go and come back with another socket.  Only one        *)
(* request is under way at a time: the supervisor holds the `connector`    *)
(* lock while it waits for the answer.                                     *)
(***************************************************************************)
EXTENDS Naturals, Sequences

CONSTANTS
    MaxAsks,        \* sockets the supervisor asks for
    MaxBus,         \* sockets the host bus makes
    MaxProcs        \* connectors started

VARIABLES
    bus,            \* the socket at the host bus's path, 0 for none
    listening,      \* the socket the bus accepts on, 0 for none
    busMade,        \* sockets it has made
    procs,          \* connectors started: [held, up, requests, replies]
    connector,      \* Supervisor::connector: one of them, or 0
    askPc,             \* where connect_host is: "idle", "wait" or "start"
    ask,            \* number of the request under way
    fresh,          \* the connector asked was started for this request
    steady,         \* the bus has accepted since the request began
    result,         \* what the last connect_host came to
    late            \* connectors that were kept although they did not answer

connectorVars == <<bus, listening, busMade, procs, connector, askPc, ask, fresh, steady, result, late>>

NoResult == [kind |-> "none", own |-> TRUE, reached |-> FALSE, steady |-> FALSE, from |-> 0]

ConnectorInit ==
    /\ bus = 1 /\ listening = 1 /\ busMade = 1
    /\ procs = <<>> /\ connector = 0
    /\ askPc = "idle" /\ ask = 0 /\ fresh = FALSE /\ steady = FALSE
    /\ result = NoResult /\ late = {}

-----------------------------------------------------------------------------
(* The host bus (external). *)

BusStops ==
    /\ listening # 0
    /\ listening' = 0
    /\ bus' \in {bus, 0}
    /\ steady' = FALSE
    /\ UNCHANGED <<busMade, procs, connector, askPc, ask, fresh, result, late>>

BusStarts ==
    /\ listening = 0 /\ busMade < MaxBus
    /\ busMade' = busMade + 1
    /\ listening' = busMade' /\ bus' = busMade'
    /\ UNCHANGED <<procs, connector, askPc, ask, fresh, steady, result, late>>

-----------------------------------------------------------------------------
(* The connector's process: serve. *)

\* It connects a new socket to the one it holds, and passes it back.
ServeRequest(p) ==
    /\ procs[p].up /\ procs[p].requests # <<>>
    /\ \E kind \in IF procs[p].held = listening THEN {"ok", "other"} ELSE {"refused", "other"} :
         procs' = [procs EXCEPT ![p].requests = Tail(@),
                                ![p].replies = Append(@, [ask |-> Head(procs[p].requests), kind |-> kind,
                                                          socket |-> procs[p].held])]
    /\ UNCHANGED <<bus, listening, busMade, connector, askPc, ask, fresh, steady, result, late>>

\* It fails before or while it serves, or something in the sandbox kills it.
Exits(p) ==
    /\ procs[p].up
    /\ procs' = [procs EXCEPT ![p].up = FALSE, ![p].requests = <<>>]
    /\ UNCHANGED <<bus, listening, busMade, connector, askPc, ask, fresh, steady, result, late>>

-----------------------------------------------------------------------------
(* connect_host and Connector::connect. *)

\* Connector::connect sends the request; a connector that has exited takes none.
Requested(ps, p, n) == [ps EXCEPT ![p].requests = Append(@, n)]

ConnectHost ==
    /\ askPc = "idle" /\ ask < MaxAsks
    /\ ask' = ask + 1
    /\ fresh' = FALSE /\ steady' = (listening # 0)
    /\ IF connector # 0 /\ procs[connector].up
       THEN procs' = Requested(procs, connector, ask + 1) /\ askPc' = "wait"
       ELSE procs' = procs /\ askPc' = "start"
    /\ result' = NoResult
    /\ UNCHANGED <<bus, listening, busMade, connector, late>>

Return(kind, n, socket) ==
    /\ askPc' = "idle"
    /\ result' = [kind |-> kind, own |-> n = ask, reached |-> socket = listening,
                  steady |-> steady, from |-> connector]

\* Mutant: a connector that does not answer in time is asked again.
ReplacedRefused(kind) == kind = "refused"

\* The answers after which a new connector is started.
Replaced(kind) == kind \in {"refused", "failed"}

\* What becomes of an answer: the new connector's stands.
Answered(kind, n, socket) ==
    IF ~fresh /\ Replaced(kind)
    THEN askPc' = "start" /\ UNCHANGED result
    ELSE Return(kind, n, socket)

TakeReply ==
    /\ askPc = "wait" /\ procs[connector].replies # <<>>
    /\ LET r == Head(procs[connector].replies) IN Answered(r.kind, r.ask, r.socket)
    /\ procs' = [procs EXCEPT ![connector].replies = Tail(@)]
    /\ UNCHANGED <<bus, listening, busMade, connector, ask, fresh, steady, late>>

\* REPLY_TIMEOUT_MS passes, or the control socket is closed.
NoReply ==
    /\ askPc = "wait" /\ procs[connector].replies = <<>>
    /\ Answered("failed", ask, 0)
    /\ late' = IF fresh /\ procs[connector].up THEN late \cup {connector} ELSE late
    /\ UNCHANGED <<bus, listening, busMade, procs, connector, ask, fresh, steady>>

\* The old connector is killed, and Connector::start opens the bus's socket.
StartFails ==
    /\ askPc = "start"
    /\ procs' = IF connector # 0 THEN [procs EXCEPT ![connector].up = FALSE, ![connector].requests = <<>>] ELSE procs
    /\ connector' = 0
    /\ askPc' = "idle" /\ result' = [NoResult EXCEPT !.kind = "failed"]
    /\ UNCHANGED <<bus, listening, busMade, ask, fresh, steady, late>>

Start ==
    /\ askPc = "start" /\ bus # 0 /\ Len(procs) < MaxProcs
    /\ LET killed == IF connector # 0
                     THEN [procs EXCEPT ![connector].up = FALSE, ![connector].requests = <<>>] ELSE procs
       IN procs' = Append(killed, [held |-> bus, up |-> TRUE, requests |-> <<ask>>, replies |-> <<>>])
    /\ connector' = Len(procs) + 1
    /\ fresh' = TRUE /\ askPc' = "wait"
    /\ UNCHANGED <<bus, listening, busMade, ask, steady, result, late>>

ConnectorNext ==
    \/ BusStops \/ BusStarts
    \/ \E p \in DOMAIN procs : ServeRequest(p) \/ Exits(p)
    \/ ConnectHost \/ TakeReply \/ NoReply \/ StartFails \/ Start

ConnectorSpec == ConnectorInit /\ [][ConnectorNext]_connectorVars

-----------------------------------------------------------------------------
(* Properties *)

(* connect_host gives its caller the answer to its own request, whatever         *)
(* connectors did not answer in time before; and while the host bus accepts       *)
(* connections throughout the call, its caller is not refused for a socket the    *)
(* bus has replaced, and a socket it gets is one of the bus that runs.  This      *)
(* leaves out a connector that was kept although it did not answer (see           *)
(* OwnAnswer).                                                                    *)
HostReached ==
    result.kind # "none" /\ result.from \notin late =>
      /\ result.own
      /\ result.steady => result.kind # "refused" /\ (result.kind = "ok" => result.reached)

(* "The outer error means the connector failed (it exited, or did not answer in   *)
(* time) and must be replaced" (connector.rs:145): a late answer is nobody's.     *)
(* Violated: a connector that was just started and does not answer in time stays  *)
(* (supervisor.rs:2115), and the next caller takes the answer meant for this one. *)
OwnAnswer == result.kind \in {"ok", "refused", "other"} => result.own
=============================================================================
