---------------------------- MODULE MCLifecycle ----------------------------
(***************************************************************************)
(* Two clients of a sandbox with an idle timeout, and of a task, which has  *)
(* none and for which a restart may become pending.  Each behaviour is one  *)
(* of one of them.                                                          *)
(***************************************************************************)
EXTENDS Lifecycle, TLC

VARIABLE kind

Task == INSTANCE Lifecycle WITH IdleTimeout <- 0, Events <- {"leave", "pending"}

MCInit == \/ kind = "timed" /\ Init
          \/ kind = "task" /\ Task!Init

MCNext ==
  \/ kind = "timed" /\ Next /\ UNCHANGED kind
  \/ kind = "task" /\ Task!Next /\ UNCHANGED kind

MCSpec == MCInit /\ [][MCNext]_<<kind, vars>>

Symmetry == Permutations(Client)
=============================================================================
