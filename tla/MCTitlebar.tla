----------------------------- MODULE MCTitlebar -----------------------------
(***************************************************************************)
(* The four parts of the title bar proxy for TLC.  They share nothing that  *)
(* changes, so each behaviour is one of one part, and the others rest.      *)
(***************************************************************************)
EXTENDS ProxyObjects, Wire, Frames, OutputModes

VARIABLES part

\* A mode at a whole scale of one logical size, and one at a fraction of the other.
MCModes    == {<<6, 4>>, <<5, 3>>}
MCLogicals == {<<4, 2>>, <<3, 2>>}

allVars == <<part, vars, frameVars, outputVars, wireVars>>

\* A part that rests is in one of its initial states.
MCInit ==
  /\ part \in {"objects", "frames", "outputs", "wire"}
  /\ Init /\ FrameInit /\ OutputInit /\ WireInit
  /\ part # "frames" => aspect = "size"
  /\ part # "outputs" =>
       /\ kind = "native" /\ xdgVersion = 3 /\ own.logical = <<0, 0>>
       /\ host = [mode |-> <<6, 4>>, logical |-> <<3, 2>>, rotated |-> FALSE, scale |-> 2]

MCNext ==
  \/ part = "objects" /\ Next /\ UNCHANGED <<part, frameVars, outputVars, wireVars>>
  \/ part = "frames" /\ FrameNext /\ UNCHANGED <<part, vars, outputVars, wireVars>>
  \/ part = "outputs" /\ OutputNext /\ UNCHANGED <<part, vars, frameVars, wireVars>>
  \/ part = "wire" /\ WireNext /\ UNCHANGED <<part, vars, frameVars, outputVars>>

MCSpec == MCInit /\ [][MCNext]_allVars
=============================================================================
