----------------------------- MODULE MCWatchers -----------------------------
(***************************************************************************)
(* The two watchers of the supervisor for TLC: the one of devices, with one *)
(* device and failures, and the one of the config.  They share nothing that *)
(* changes, so each behaviour is one of one part, and the other rests.      *)
(***************************************************************************)
EXTENDS MCDevices

CONSTANTS MaxChanges, None                         \* ConfigWatch

VARIABLES part
VARIABLES files, dir, dirs, changes, watches, wds, queue, watched, phase, read, want, lastRead, blind

W == INSTANCE ConfigWatch WITH seen <- lastRead

wVars == <<files, dir, dirs, changes, watches, wds, queue, watched, phase, read, want, lastRead, blind>>

\* A part that rests is in one of its initial states.
MCInit ==
  /\ part \in {"devices", "config"}
  /\ part # "devices" => host = [d \in Device |-> Absent] /\ plan = {}
  /\ part # "config" => dir = None /\ files = [main |-> 1, import |-> 0, kind |-> CHOOSE k \in W!Kinds : TRUE]
  /\ Init /\ W!Init

MCNext ==
  \/ part = "devices" /\ Next /\ UNCHANGED <<part, wVars>>
  \/ part = "config" /\ W!Next /\ UNCHANGED <<part, vars>>

\* The threads are never stopped: each takes its next step once it can.
MCFairness ==
  WF_<<part, vars, wVars>>(
    \/ part = "devices" /\ ThreadStep /\ UNCHANGED <<part, wVars>>
    \/ part = "config" /\ W!Thread /\ UNCHANGED <<part, vars>>)

MCSpec == MCInit /\ [][MCNext]_<<part, vars, wVars>> /\ MCFairness

\* The supervisor comes to have read what the config files say (supervisor.rs watch_config).
ConfigFollows == part = "config" => W!ConfigFollows
=============================================================================
