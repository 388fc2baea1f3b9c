----------------------------- MODULE MCAnswers -----------------------------
(***************************************************************************)
(* Everyone who asks is answered, for TLC: the calls of an app through the  *)
(* gateway, and the requests of clients to a sandbox that socket activation *)
(* starts.  Each behaviour is one of one part, and the other rests.         *)
(***************************************************************************)
EXTENDS Gateway, Activation

VARIABLES part

\* A part that rests is in one of its initial states.
MCInit ==
  /\ part \in {"calls", "activation"}
  /\ part # "calls" => kind = [c \in Call |-> "plain"] /\ inst = NoInst
  /\ part # "activation" => sandbox = "named"
  /\ Init /\ ActivationInit

MCNext ==
  \/ part = "calls" /\ Next /\ UNCHANGED <<part, activationVars>>
  \/ part = "activation" /\ ActivationNext /\ UNCHANGED <<part, vars>>

\* Fairness of the part that runs.  That of Activation asks for nothing while it rests.
MCFairness == WF_vars(part = "calls" /\ Progress) /\ Fairness

MCSpec == MCInit /\ [][MCNext]_<<part, vars, activationVars>> /\ MCFairness
=============================================================================
