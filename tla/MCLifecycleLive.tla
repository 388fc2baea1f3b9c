-------------------------- MODULE MCLifecycleLive --------------------------
(***************************************************************************)
(* A sandbox with an idle timeout and two clients, and a task, which has no *)
(* timeout and stops when its command or the wait for it is over, with      *)
(* failures.  Each behaviour is one of one of them.                         *)
(***************************************************************************)
EXTENDS Lifecycle

CONSTANTS c1, c2
VARIABLE kind

Task == INSTANCE Lifecycle
  WITH Period <- 2, IdleTimeout <- 0, Unserved <- 2, MaxProcs <- 2,
       Events <- {"leave", "pending", "stop", "init"}, Failures <- TRUE

MCInit == \/ kind = "timed" /\ Init
          \/ kind = "task" /\ Task!Init

\* Only one client comes to the task.
MCNext ==
  \/ kind = "timed" /\ Next /\ UNCHANGED kind
  \/ kind = "task" /\ Task!Next /\ attached'[c2] = FALSE /\ UNCHANGED kind

\* Fairness of the one that runs.
MCFairness ==
  /\ WF_vars((kind = "timed" /\ Ready) \/ (kind = "task" /\ Task!Ready))
  /\ WF_vars((kind = "timed" /\ Tick) \/ (kind = "task" /\ Task!Tick))
  /\ WF_vars((kind = "timed" /\ WatchIdle) \/ (kind = "task" /\ Task!WatchIdle))
  /\ WF_vars((kind = "timed" /\ Shutdown) \/ (kind = "task" /\ Task!Shutdown))
  /\ \A c \in Client :
       /\ WF_vars((kind = "timed" /\ Serve(c)) \/ (kind = "task" /\ Task!Serve(c)))
       /\ WF_vars(pc[c] = "report" /\ FirstExits(c))

MCSpec == MCInit /\ [][MCNext]_<<kind, vars>> /\ MCFairness
=============================================================================
