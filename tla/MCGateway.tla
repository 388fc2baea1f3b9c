----------------------------- MODULE MCGateway -----------------------------
(***************************************************************************)
(* Small instances of Gateway: two calls of any kind with everything that   *)
(* can go wrong, and three calls over up to three portals, which the last   *)
(* calls held for a registration need to be handed back.                    *)
(***************************************************************************)
EXTENDS Gateway

VARIABLE setting

Three == INSTANCE Gateway
  WITH N <- 3, MaxInst <- 3, Kinds <- {"plain"}, HostMayClose <- FALSE, MayLeave <- FALSE,
       BadReplies <- FALSE, ActivationFails <- FALSE

MCInit ==
  \/ setting = "two" /\ Init
  \/ setting = "three" /\ Three!Init

MCNext ==
  \/ setting = "two" /\ Next /\ UNCHANGED setting
  \/ setting = "three" /\ Three!Next /\ UNCHANGED setting

MCSpec == MCInit /\ [][MCNext]_<<setting, vars>>
=============================================================================
