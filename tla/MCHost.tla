------------------------------- MODULE MCHost -------------------------------
(***************************************************************************)
(* What surrounds the gateway, for TLC: the map of clients, the host bus    *)
(* connector, a D-Bus connection, the portal policy, the marshalling of a   *)
(* message and the installation of desktop entries.  They share nothing     *)
(* that changes, so each behaviour is one of one part, and the others rest. *)
(***************************************************************************)
EXTENDS Clients, Connector, BusConn, Portal, Install

CONSTANTS MaxDepth                                 \* Marshal

VARIABLES part
VARIABLES at, big, args, declared, wire, edit, near, far

\* The segment of one app's name on the host bus is that of another's on the private bus.
Private == [c \in Client |-> IF c = 1 THEN 5 ELSE 7]
Host    == [c \in Client |-> IF c = 1 THEN 7 ELSE 5]

\* What a config asks for: nothing, both kinds of entry, and entries two sandboxes can both claim.
Asks == {[app |-> "none", auto |-> "none"], [app |-> "scratch", auto |-> "copy"],
         [app |-> "copy", auto |-> "none"]}

M == INSTANCE Marshal

mVars == <<at, big, args, declared, wire, edit, near, far>>

\* A part that rests is in one of its initial states.
MCInit ==
  /\ part \in {"clients", "connector", "connection", "portal", "message", "install"}
  /\ part # "clients" =>
       launch = CHOOSE l \in [Apps -> Launches] : \A a, b \in Apps : a # b => l[a] # l[b]
  /\ part # "message" =>
       big = FALSE /\ args = <<>> /\ declared = <<>> /\ edit = "none"
  /\ part # "install" =>
       /\ config = [s \in Sandboxes |-> Config("broken", 1, NoEntries)]
       /\ hostEntry = [f \in Entry |-> FALSE]
       /\ disk = [f \in Entry |-> Absent]
  /\ Init /\ ConnectorInit /\ BusInit /\ PortalInit /\ M!Init /\ InstallInit

MCNext ==
  \/ part = "clients" /\ Next /\ UNCHANGED <<part, connectorVars, busVars, portalVars, mVars, installVars>>
  \/ part = "connector" /\ ConnectorNext /\ UNCHANGED <<part, vars, busVars, portalVars, mVars, installVars>>
  \/ part = "connection" /\ BusNext /\ UNCHANGED <<part, vars, connectorVars, portalVars, mVars, installVars>>
  \/ part = "portal" /\ PortalNext /\ UNCHANGED <<part, vars, connectorVars, busVars, mVars, installVars>>
  \/ part = "message" /\ M!Next /\ UNCHANGED <<part, vars, connectorVars, busVars, portalVars, installVars>>
  \/ part = "install" /\ InstallNext /\ UNCHANGED <<part, vars, connectorVars, busVars, portalVars, mVars>>

MCSpec == MCInit /\ [][MCNext]_<<part, vars, connectorVars, busVars, portalVars, mVars, installVars>>

\* A message means to its receiver what it meant to its sender (dbus/message.rs parse, encode).
MeaningKept == M!MeaningKept
=============================================================================
