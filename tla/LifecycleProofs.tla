-------------------------- MODULE LifecycleProofs --------------------------
(***************************************************************************)
(* Proofs about Lifecycle, for any number of clients and processes and any  *)
(* timeouts, while cgroup.events can be read.                               *)
(***************************************************************************)
EXTENDS Lifecycle, FiniteSetTheorems, TLAPS

\* A launch before its first process, and one whose first process has not
\* run its program.
Before == {"away", "backlog", "accepted", "identify", "create", "clone", "failed"}
Starting == {"exec", "report"}

\* From the reservation on until it is recorded as started, a launch keeps
\* its record, and its cgroup once it has one.
Reserved == {"create", "clone", "exec", "report", "failed", "record"}

\* How far serve_spawn is tells how many processes the launch has, and that
\* the idle watcher has no reason to remove it.
PhaseOK ==
  \A c \in Client :
    /\ pc[c] \in Before => procs[c] = 0 /\ ~first[c]
    /\ pc[c] \in Starting => procs[c] = IF first[c] THEN 1 ELSE 0
    /\ first[c] => procs[c] > 0
    /\ pc[c] \in Reserved => launches[c] # NoLaunch /\ ~launches[c].started /\ launches[c].identity = env[c]
    /\ pc[c] \in {"clone", "exec", "report"} => cgroup[c]

\* Without the init nothing runs, and shutdown gets past the init only when
\* it is dead.
KilledOK ==
  /\ ~initUp => \A c \in Client : procs[c] = 0
  /\ stopping \in {"init", "exited"} => ~initUp

\* The inductive invariant.
Inv == TypeOK /\ PhaseOK /\ LaunchKnown /\ KilledOK

-----------------------------------------------------------------------------
(* One lemma per part of the invariant, with one step per action.           *)

\* The number of clients is a natural number.
LEMMA ClientsNat == TypeOK => clients \in Nat
<1> SUFFICES ASSUME TypeOK PROVE clients \in Nat
  OBVIOUS
<1>1. IsFiniteSet(CountedClients)
  BY LifecycleAssumption, FS_Subset DEF CountedClients
<1>2. QED
  BY <1>1, FS_CardinalityType DEF TypeOK

\* Every action keeps the types.
LEMMA TypesStep ==
  ASSUME TypeOK, PhaseOK, [Next]_vars
  PROVE  Types'
<1> USE LifecycleAssumption DEF TypeOK, Types, PC, Causes, connVars, stateVars, procVars,
        watchVars, clockVars, stopVars
<1>1. CASE Ready
  BY <1>1 DEF Ready
<1>2. ASSUME NEW c \in Client, Connect(c) PROVE Types'
  BY <1>2 DEF Connect, Goto
<1>3. ASSUME NEW c \in Client, Disconnect(c) PROVE Types'
  BY <1>3 DEF Disconnect
<1>4. CASE PendingChanges
  BY <1>4 DEF PendingChanges
<1>5. ASSUME NEW c \in Client, Accept(c) PROVE Types'
  BY <1>5 DEF Accept, Goto
<1>6. ASSUME NEW c \in Client, Count(c) PROVE Types'
  BY <1>6 DEF Count, Goto
<1>7. ASSUME NEW c \in Client, NoRequest(c) PROVE Types'
  BY <1>7 DEF NoRequest, Goto
<1>8. ASSUME NEW c \in Client, BadRequest(c) PROVE Types'
  BY <1>8 DEF BadRequest, Goto
<1>9. ASSUME NEW c \in Client, NEW identified \in BOOLEAN, Reserve(c, identified) PROVE Types'
  BY <1>9 DEF Reserve, Goto, Launch
<1>10. ASSUME NEW c \in Client, CreateLaunch(c) PROVE Types'
  BY <1>10 DEF CreateLaunch, Goto
<1>11. ASSUME NEW c \in Client, Clone(c) PROVE Types'
  BY <1>11 DEF Clone, Goto
<1>12. ASSUME NEW c \in Client, StartFails(c) PROVE Types'
  BY <1>12 DEF StartFails, Goto
<1>13. ASSUME NEW c \in Client, ExecDone(c) PROVE Types'
  BY <1>13 DEF ExecDone, Goto
<1>14. ASSUME NEW c \in Client, ExecFails(c) PROVE Types'
  BY <1>14 DEF ExecFails, Goto
<1>15. ASSUME NEW c \in Client, Reap(c) PROVE Types'
  BY <1>15 DEF Reap, Goto
<1>16. ASSUME NEW c \in Client, Unreserve(c) PROVE Types'
  BY <1>16 DEF Unreserve, Goto
<1>17. ASSUME NEW c \in Client, Started(c) PROVE Types'
  <2>1. launches[c] # NoLaunch => [launches[c] EXCEPT !.started = TRUE] \in Launch
    BY DEF Launch
  <2>2. launches' \in [Client -> Launch \cup {NoLaunch}]
    BY <1>17, <2>1 DEF Started
  <2>3. QED
    BY <1>17, <2>2 DEF Started, Goto
<1>18. ASSUME NEW c \in Client, Respond(c) PROVE Types'
  BY <1>18 DEF Respond, Goto
<1>19. ASSUME NEW c \in Client, Exited(c) PROVE Types'
  BY <1>19 DEF Exited, Goto
<1>20. ASSUME NEW c \in Client, Uncount(c) PROVE Types'
  BY <1>20 DEF Uncount, Goto, Forget
<1>21. ASSUME NEW c \in Client, Fork(c) PROVE Types'
  BY <1>21 DEF Fork
<1>22. ASSUME NEW c \in Client, FirstExits(c) PROVE Types'
  <2>1. procs[c] > 0
    BY <1>22 DEF FirstExits, PhaseOK
  <2>2. procs' \in [Client -> 0..MaxProcs]
    BY <1>22, <2>1 DEF FirstExits
  <2>3. first' \in [Client -> BOOLEAN]
    BY <1>22 DEF FirstExits
  <2>4. seen' \subseteq Client
    BY <1>22 DEF FirstExits
  <2>5. QED
    BY <1>22, <2>2, <2>3, <2>4 DEF FirstExits
<1>23. ASSUME NEW c \in Client, OtherExits(c) PROVE Types'
  BY <1>23 DEF OtherExits
<1>24. CASE Tick
  BY <1>24 DEF Tick, Min
<1>25. CASE Sample
  BY <1>25, ClientsNat DEF Sample, Sleep
<1>26. CASE StopUnserved
  BY <1>26 DEF StopUnserved, Call
<1>27. ASSUME NEW unread \in SUBSET Client, RemoveFinished(unread) PROVE Types'
  BY <1>27 DEF RemoveFinished
<1>28. ASSUME NEW unread \in BOOLEAN, CheckBusy(unread) PROVE Types'
  <2>1. idle' \in BOOLEAN
    <3>1. UNCHANGED idle \/ idle' = FALSE
      BY <1>28 DEF CheckBusy
    <3>2. QED
      BY <3>1
  <2>2. wpc' \in {"sleep", "pending"} /\ wakeIn' \in 0..Period /\ idleFor' \in 0..IdleTimeout
    BY <1>28 DEF CheckBusy, Sleep
  <2>3. QED
    BY <1>28, <2>1, <2>2 DEF CheckBusy
<1>29. CASE CheckPending
  BY <1>29 DEF CheckPending, Call
<1>30. CASE CheckIdle
  BY <1>30 DEF CheckIdle, Call, Sleep
<1>31. CASE StopAsked
  BY <1>31 DEF StopAsked, Call
<1>32. CASE InitExits
  <2>1. initUp' = FALSE /\ procs' = [d \in Client |-> 0] /\ first' = [d \in Client |-> FALSE] /\ seen' \subseteq Client
    BY <1>32 DEF InitExits
  <2>2. initUp' \in BOOLEAN /\ first' \in [Client -> BOOLEAN]
    BY <2>1
  <2>3. procs' \in [Client -> 0..MaxProcs]
    BY <2>1
  <2>4. stopping' \in {"no", "called", "workload", "init", "exited"} /\ UNCHANGED cause
    BY <1>32 DEF InitExits
  <2>5. QED
    BY <1>32, <2>1, <2>2, <2>3, <2>4 DEF InitExits
<1>33. CASE WatchInit
  BY <1>33 DEF WatchInit, Call
<1>34. CASE KillWorkload
  BY <1>34 DEF KillWorkload
<1>35. CASE KillInit
  <2>1. initUp' = FALSE /\ procs' = [d \in Client |-> 0] /\ first' = [d \in Client |-> FALSE] /\ seen' \subseteq Client
    BY <1>35 DEF KillInit
  <2>2. initUp' \in BOOLEAN /\ first' \in [Client -> BOOLEAN]
    BY <2>1
  <2>3. procs' \in [Client -> 0..MaxProcs]
    BY <2>1
  <2>4. stopping' \in {"no", "called", "workload", "init", "exited"} /\ UNCHANGED cause
    BY <1>35 DEF KillInit
  <2>5. QED
    BY <1>35, <2>1, <2>2, <2>3, <2>4 DEF KillInit
<1>36. CASE Exit
  BY <1>36 DEF Exit
<1>37. CASE UNCHANGED vars
  BY <1>37 DEF vars
<1>38. QED
  BY <1>1, <1>2, <1>3, <1>4, <1>5, <1>6, <1>7, <1>8, <1>9, <1>10, <1>11, <1>12,
     <1>13, <1>14, <1>15, <1>16, <1>17, <1>18, <1>19, <1>20, <1>21, <1>22, <1>23, <1>24,
     <1>25, <1>26, <1>27, <1>28, <1>29, <1>30, <1>31, <1>32, <1>33, <1>34, <1>35, <1>36,
     <1>37, ZenonT(40)
     DEF Next, Serve, Processes, WatchIdle, Unreadable, Shutdown

\* A request is counted and uncounted once: no other step enters or leaves
\* the counted phases.
LEMMA CountStep ==
  ASSUME TypeOK, [Next]_vars
  PROVE  (clients = Cardinality(CountedClients))'
<1> USE LifecycleAssumption DEF TypeOK, Types, CountedClients, Counted, connVars, stateVars,
        procVars, watchVars, clockVars, stopVars
<1>1. CASE Ready
  BY <1>1 DEF Ready
<1>2. ASSUME NEW c \in Client, Connect(c) PROVE (clients = Cardinality(CountedClients))'
  BY <1>2 DEF Connect, Goto
<1>3. ASSUME NEW c \in Client, Disconnect(c) PROVE (clients = Cardinality(CountedClients))'
  BY <1>3 DEF Disconnect
<1>4. CASE PendingChanges
  BY <1>4 DEF PendingChanges
<1>5. ASSUME NEW c \in Client, Accept(c) PROVE (clients = Cardinality(CountedClients))'
  BY <1>5 DEF Accept, Goto
<1>6. ASSUME NEW c \in Client, Count(c) PROVE (clients = Cardinality(CountedClients))'
  <2>1. IsFiniteSet(CountedClients) /\ c \notin CountedClients
    BY <1>6, FS_Subset DEF Count
  <2>2. CountedClients' = CountedClients \cup {c}
    BY <1>6 DEF Count, Goto
  <2> HIDE DEF CountedClients
  <2>3. Cardinality(CountedClients') = Cardinality(CountedClients) + 1
    BY <2>1, <2>2, FS_AddElement
  <2>4. QED
    BY <1>6, <2>3 DEF Count
<1>7. ASSUME NEW c \in Client, NoRequest(c) PROVE (clients = Cardinality(CountedClients))'
  BY <1>7 DEF NoRequest, Goto
<1>8. ASSUME NEW c \in Client, BadRequest(c) PROVE (clients = Cardinality(CountedClients))'
  BY <1>8 DEF BadRequest, Goto
<1>9. ASSUME NEW c \in Client, NEW identified \in BOOLEAN, Reserve(c, identified) PROVE (clients = Cardinality(CountedClients))'
  BY <1>9 DEF Reserve, Goto
<1>10. ASSUME NEW c \in Client, CreateLaunch(c) PROVE (clients = Cardinality(CountedClients))'
  BY <1>10 DEF CreateLaunch, Goto
<1>11. ASSUME NEW c \in Client, Clone(c) PROVE (clients = Cardinality(CountedClients))'
  BY <1>11 DEF Clone, Goto
<1>12. ASSUME NEW c \in Client, StartFails(c) PROVE (clients = Cardinality(CountedClients))'
  BY <1>12 DEF StartFails, Goto
<1>13. ASSUME NEW c \in Client, ExecDone(c) PROVE (clients = Cardinality(CountedClients))'
  BY <1>13 DEF ExecDone, Goto
<1>14. ASSUME NEW c \in Client, ExecFails(c) PROVE (clients = Cardinality(CountedClients))'
  BY <1>14 DEF ExecFails, Goto
<1>15. ASSUME NEW c \in Client, Reap(c) PROVE (clients = Cardinality(CountedClients))'
  BY <1>15 DEF Reap, Goto
<1>16. ASSUME NEW c \in Client, Unreserve(c) PROVE (clients = Cardinality(CountedClients))'
  BY <1>16 DEF Unreserve, Goto
<1>17. ASSUME NEW c \in Client, Started(c) PROVE (clients = Cardinality(CountedClients))'
  BY <1>17 DEF Started, Goto
<1>18. ASSUME NEW c \in Client, Respond(c) PROVE (clients = Cardinality(CountedClients))'
  BY <1>18 DEF Respond, Goto
<1>19. ASSUME NEW c \in Client, Exited(c) PROVE (clients = Cardinality(CountedClients))'
  BY <1>19 DEF Exited, Goto
<1>20. ASSUME NEW c \in Client, Uncount(c) PROVE (clients = Cardinality(CountedClients))'
  <2>1. IsFiniteSet(CountedClients) /\ c \in CountedClients
    BY <1>20, FS_Subset DEF Uncount
  <2>2. CountedClients' = CountedClients \ {c}
    BY <1>20 DEF Uncount, Goto
  <2> HIDE DEF CountedClients
  <2>3. Cardinality(CountedClients') = Cardinality(CountedClients) - 1
    BY <2>1, <2>2, FS_RemoveElement
  <2>4. QED
    BY <1>20, <2>3 DEF Uncount
<1>21. ASSUME NEW c \in Client, Fork(c) PROVE (clients = Cardinality(CountedClients))'
  BY <1>21 DEF Fork
<1>22. ASSUME NEW c \in Client, FirstExits(c) PROVE (clients = Cardinality(CountedClients))'
  BY <1>22 DEF FirstExits
<1>23. ASSUME NEW c \in Client, OtherExits(c) PROVE (clients = Cardinality(CountedClients))'
  BY <1>23 DEF OtherExits
<1>24. CASE Tick
  BY <1>24 DEF Tick, Min
<1>25. CASE Sample
  BY <1>25 DEF Sample, Sleep
<1>26. CASE StopUnserved
  BY <1>26 DEF StopUnserved, Call
<1>27. ASSUME NEW unread \in SUBSET Client, RemoveFinished(unread) PROVE (clients = Cardinality(CountedClients))'
  BY <1>27 DEF RemoveFinished
<1>28. ASSUME NEW unread \in BOOLEAN, CheckBusy(unread) PROVE (clients = Cardinality(CountedClients))'
  BY <1>28 DEF CheckBusy, Sleep
<1>29. CASE CheckPending
  BY <1>29 DEF CheckPending, Call
<1>30. CASE CheckIdle
  BY <1>30 DEF CheckIdle, Call, Sleep
<1>31. CASE StopAsked
  BY <1>31 DEF StopAsked, Call
<1>32. CASE InitExits
  BY <1>32 DEF InitExits
<1>33. CASE WatchInit
  BY <1>33 DEF WatchInit, Call
<1>34. CASE KillWorkload
  BY <1>34 DEF KillWorkload
<1>35. CASE KillInit
  BY <1>35 DEF KillInit
<1>36. CASE Exit
  BY <1>36 DEF Exit
<1>37. CASE UNCHANGED vars
  BY <1>37 DEF vars
<1>38. QED
  BY <1>1, <1>2, <1>3, <1>4, <1>5, <1>6, <1>7, <1>8, <1>9, <1>10, <1>11, <1>12,
     <1>13, <1>14, <1>15, <1>16, <1>17, <1>18, <1>19, <1>20, <1>21, <1>22, <1>23, <1>24,
     <1>25, <1>26, <1>27, <1>28, <1>29, <1>30, <1>31, <1>32, <1>33, <1>34, <1>35, <1>36,
     <1>37, ZenonT(40)
     DEF Next, Serve, Processes, WatchIdle, Unreadable, Shutdown

\* Only the client's own thread moves the launch through its phases; the
\* watcher passes over launches that have not started.
LEMMA PhaseStep ==
  ASSUME ~ReadFails, TypeOK, PhaseOK, [Next]_vars
  PROVE  PhaseOK'
<1> USE LifecycleAssumption DEF TypeOK, Types, PhaseOK, Before, Starting, Reserved, Launch,
        connVars, stateVars, procVars, watchVars, clockVars, stopVars
<1>1. CASE Ready
  BY <1>1 DEF Ready
<1>2. ASSUME NEW c \in Client, Connect(c) PROVE PhaseOK'
  BY <1>2 DEF Connect, Goto
<1>3. ASSUME NEW c \in Client, Disconnect(c) PROVE PhaseOK'
  BY <1>3 DEF Disconnect
<1>4. CASE PendingChanges
  BY <1>4 DEF PendingChanges
<1>5. ASSUME NEW c \in Client, Accept(c) PROVE PhaseOK'
  BY <1>5 DEF Accept, Goto
<1>6. ASSUME NEW c \in Client, Count(c) PROVE PhaseOK'
  BY <1>6 DEF Count, Goto
<1>7. ASSUME NEW c \in Client, NoRequest(c) PROVE PhaseOK'
  BY <1>7 DEF NoRequest, Goto
<1>8. ASSUME NEW c \in Client, BadRequest(c) PROVE PhaseOK'
  BY <1>8 DEF BadRequest, Goto
<1>9. ASSUME NEW c \in Client, NEW identified \in BOOLEAN, Reserve(c, identified) PROVE PhaseOK'
  <2>1. launches'[c].identity = env'[c] /\ launches'[c].started = FALSE /\ launches'[c] \in Launch
    BY <1>9 DEF Reserve
  <2>2. launches'[c] # NoLaunch
    BY <2>1
  <2>3. \A d \in Client \ {c} : launches'[d] = launches[d] /\ env'[d] = env[d] /\ pc'[d] = pc[d]
    BY <1>9 DEF Reserve, Goto
  <2>4. pc'[c] = "create" /\ procs[c] = 0 /\ ~first[c]
    BY <1>9 DEF Reserve, Goto
  <2>5. UNCHANGED <<procs, first, cgroup>>
    BY <1>9 DEF Reserve
  <2>6. QED
    BY <2>1, <2>2, <2>3, <2>4, <2>5
<1>10. ASSUME NEW c \in Client, CreateLaunch(c) PROVE PhaseOK'
  BY <1>10 DEF CreateLaunch, Goto
<1>11. ASSUME NEW c \in Client, Clone(c) PROVE PhaseOK'
  BY <1>11 DEF Clone, Goto
<1>12. ASSUME NEW c \in Client, StartFails(c) PROVE PhaseOK'
  BY <1>12 DEF StartFails, Goto
<1>13. ASSUME NEW c \in Client, ExecDone(c) PROVE PhaseOK'
  BY <1>13 DEF ExecDone, Goto
<1>14. ASSUME NEW c \in Client, ExecFails(c) PROVE PhaseOK'
  BY <1>14 DEF ExecFails, Goto
<1>15. ASSUME NEW c \in Client, Reap(c) PROVE PhaseOK'
  BY <1>15 DEF Reap, Goto
<1>16. ASSUME NEW c \in Client, Unreserve(c) PROVE PhaseOK'
  BY <1>16 DEF Unreserve, Goto
<1>17. ASSUME NEW c \in Client, Started(c) PROVE PhaseOK'
  BY <1>17 DEF Started, Goto
<1>18. ASSUME NEW c \in Client, Respond(c) PROVE PhaseOK'
  BY <1>18 DEF Respond, Goto
<1>19. ASSUME NEW c \in Client, Exited(c) PROVE PhaseOK'
  BY <1>19 DEF Exited, Goto
<1>20. ASSUME NEW c \in Client, Uncount(c) PROVE PhaseOK'
  BY <1>20 DEF Uncount, Goto, Forget
<1>21. ASSUME NEW c \in Client, Fork(c) PROVE PhaseOK'
  BY <1>21 DEF Fork
<1>22. ASSUME NEW c \in Client, FirstExits(c) PROVE PhaseOK'
  BY <1>22 DEF FirstExits
<1>23. ASSUME NEW c \in Client, OtherExits(c) PROVE PhaseOK'
  BY <1>23 DEF OtherExits
<1>24. CASE Tick
  BY <1>24 DEF Tick, Min
<1>25. CASE Sample
  BY <1>25 DEF Sample, Sleep
<1>26. CASE StopUnserved
  BY <1>26 DEF StopUnserved, Call
<1>27. ASSUME NEW unread \in {{}}, RemoveFinished(unread) PROVE PhaseOK'
  BY <1>27 DEF RemoveFinished, Over
<1>28. ASSUME NEW unread \in BOOLEAN, CheckBusy(unread) PROVE PhaseOK'
  BY <1>28 DEF CheckBusy, Sleep
<1>29. CASE CheckPending
  BY <1>29 DEF CheckPending, Call
<1>30. CASE CheckIdle
  BY <1>30 DEF CheckIdle, Call, Sleep
<1>31. CASE StopAsked
  BY <1>31 DEF StopAsked, Call
<1>32. CASE InitExits
  BY <1>32 DEF InitExits
<1>33. CASE WatchInit
  BY <1>33 DEF WatchInit, Call
<1>34. CASE KillWorkload
  BY <1>34 DEF KillWorkload
<1>35. CASE KillInit
  BY <1>35 DEF KillInit
<1>36. CASE Exit
  BY <1>36 DEF Exit
<1>37. CASE UNCHANGED vars
  BY <1>37 DEF vars
<1>38. QED
  BY <1>1, <1>2, <1>3, <1>4, <1>5, <1>6, <1>7, <1>8, <1>9, <1>10, <1>11, <1>12,
     <1>13, <1>14, <1>15, <1>16, <1>17, <1>18, <1>19, <1>20, <1>21, <1>22, <1>23, <1>24,
     <1>25, <1>26, <1>27, <1>28, <1>29, <1>30, <1>31, <1>32, <1>33, <1>34, <1>35, <1>36,
     <1>37, ZenonT(40)
     DEF Next, Serve, Processes, WatchIdle, Unreadable, Shutdown

\* A record goes only when its launch has no process.
LEMMA KnownStep ==
  ASSUME ~ReadFails, TypeOK, PhaseOK, LaunchKnown, [Next]_vars
  PROVE  LaunchKnown'
<1> USE LifecycleAssumption DEF TypeOK, Types, PhaseOK, LaunchKnown, Before, Starting, Reserved,
        Launch, connVars, stateVars, procVars, watchVars, clockVars, stopVars
<1>1. CASE Ready
  BY <1>1 DEF Ready
<1>2. ASSUME NEW c \in Client, Connect(c) PROVE LaunchKnown'
  BY <1>2 DEF Connect, Goto
<1>3. ASSUME NEW c \in Client, Disconnect(c) PROVE LaunchKnown'
  BY <1>3 DEF Disconnect
<1>4. CASE PendingChanges
  BY <1>4 DEF PendingChanges
<1>5. ASSUME NEW c \in Client, Accept(c) PROVE LaunchKnown'
  BY <1>5 DEF Accept, Goto
<1>6. ASSUME NEW c \in Client, Count(c) PROVE LaunchKnown'
  BY <1>6 DEF Count, Goto
<1>7. ASSUME NEW c \in Client, NoRequest(c) PROVE LaunchKnown'
  BY <1>7 DEF NoRequest, Goto
<1>8. ASSUME NEW c \in Client, BadRequest(c) PROVE LaunchKnown'
  BY <1>8 DEF BadRequest, Goto
<1>9. ASSUME NEW c \in Client, NEW identified \in BOOLEAN, Reserve(c, identified) PROVE LaunchKnown'
  BY <1>9 DEF Reserve, Goto
<1>10. ASSUME NEW c \in Client, CreateLaunch(c) PROVE LaunchKnown'
  BY <1>10 DEF CreateLaunch, Goto
<1>11. ASSUME NEW c \in Client, Clone(c) PROVE LaunchKnown'
  BY <1>11 DEF Clone, Goto
<1>12. ASSUME NEW c \in Client, StartFails(c) PROVE LaunchKnown'
  BY <1>12 DEF StartFails, Goto
<1>13. ASSUME NEW c \in Client, ExecDone(c) PROVE LaunchKnown'
  BY <1>13 DEF ExecDone, Goto
<1>14. ASSUME NEW c \in Client, ExecFails(c) PROVE LaunchKnown'
  BY <1>14 DEF ExecFails, Goto
<1>15. ASSUME NEW c \in Client, Reap(c) PROVE LaunchKnown'
  BY <1>15 DEF Reap, Goto
<1>16. ASSUME NEW c \in Client, Unreserve(c) PROVE LaunchKnown'
  BY <1>16 DEF Unreserve, Goto
<1>17. ASSUME NEW c \in Client, Started(c) PROVE LaunchKnown'
  <2> DEFINE new == [launches[c] EXCEPT !.started = TRUE]
  <2>1. launches[c] \in Launch /\ launches[c] # NoLaunch
    BY <1>17 DEF Started
  <2>2. new \in Launch /\ new.identity = launches[c].identity
    BY <2>1
  <2>3. launches'[c] = new
    BY <1>17, <2>1 DEF Started
  <2>4. launches'[c] # NoLaunch /\ launches'[c].identity = launches[c].identity
    BY <2>2, <2>3
  <2>5. \A d \in Client \ {c} : launches'[d] = launches[d]
    BY <1>17 DEF Started
  <2>6. launches[c].identity = env[c] /\ UNCHANGED <<procs, env>>
    BY <1>17 DEF Started
  <2>7. QED
    BY <2>4, <2>5, <2>6
<1>18. ASSUME NEW c \in Client, Respond(c) PROVE LaunchKnown'
  BY <1>18 DEF Respond, Goto
<1>19. ASSUME NEW c \in Client, Exited(c) PROVE LaunchKnown'
  BY <1>19 DEF Exited, Goto
<1>20. ASSUME NEW c \in Client, Uncount(c) PROVE LaunchKnown'
  BY <1>20 DEF Uncount, Goto, Forget
<1>21. ASSUME NEW c \in Client, Fork(c) PROVE LaunchKnown'
  BY <1>21 DEF Fork
<1>22. ASSUME NEW c \in Client, FirstExits(c) PROVE LaunchKnown'
  BY <1>22 DEF FirstExits
<1>23. ASSUME NEW c \in Client, OtherExits(c) PROVE LaunchKnown'
  BY <1>23 DEF OtherExits
<1>24. CASE Tick
  BY <1>24 DEF Tick, Min
<1>25. CASE Sample
  BY <1>25 DEF Sample, Sleep
<1>26. CASE StopUnserved
  BY <1>26 DEF StopUnserved, Call
<1>27. ASSUME NEW unread \in {{}}, RemoveFinished(unread) PROVE LaunchKnown'
  BY <1>27 DEF RemoveFinished, Over
<1>28. ASSUME NEW unread \in BOOLEAN, CheckBusy(unread) PROVE LaunchKnown'
  BY <1>28 DEF CheckBusy, Sleep
<1>29. CASE CheckPending
  BY <1>29 DEF CheckPending, Call
<1>30. CASE CheckIdle
  BY <1>30 DEF CheckIdle, Call, Sleep
<1>31. CASE StopAsked
  BY <1>31 DEF StopAsked, Call
<1>32. CASE InitExits
  BY <1>32 DEF InitExits
<1>33. CASE WatchInit
  BY <1>33 DEF WatchInit, Call
<1>34. CASE KillWorkload
  BY <1>34 DEF KillWorkload
<1>35. CASE KillInit
  BY <1>35 DEF KillInit
<1>36. CASE Exit
  BY <1>36 DEF Exit
<1>37. CASE UNCHANGED vars
  BY <1>37 DEF vars
<1>38. QED
  BY <1>1, <1>2, <1>3, <1>4, <1>5, <1>6, <1>7, <1>8, <1>9, <1>10, <1>11, <1>12,
     <1>13, <1>14, <1>15, <1>16, <1>17, <1>18, <1>19, <1>20, <1>21, <1>22, <1>23, <1>24,
     <1>25, <1>26, <1>27, <1>28, <1>29, <1>30, <1>31, <1>32, <1>33, <1>34, <1>35, <1>36,
     <1>37, ZenonT(40)
     DEF Next, Serve, Processes, WatchIdle, Unreadable, Shutdown

\* A process starts only while the init is alive.
LEMMA KilledStep ==
  ASSUME TypeOK, PhaseOK, KilledOK, [Next]_vars
  PROVE  KilledOK'
<1> USE LifecycleAssumption DEF TypeOK, Types, KilledOK, connVars, stateVars, procVars,
        watchVars, clockVars, stopVars
<1>1. CASE Ready
  BY <1>1 DEF Ready
<1>2. ASSUME NEW c \in Client, Connect(c) PROVE KilledOK'
  BY <1>2 DEF Connect, Goto
<1>3. ASSUME NEW c \in Client, Disconnect(c) PROVE KilledOK'
  BY <1>3 DEF Disconnect
<1>4. CASE PendingChanges
  BY <1>4 DEF PendingChanges
<1>5. ASSUME NEW c \in Client, Accept(c) PROVE KilledOK'
  BY <1>5 DEF Accept, Goto
<1>6. ASSUME NEW c \in Client, Count(c) PROVE KilledOK'
  BY <1>6 DEF Count, Goto
<1>7. ASSUME NEW c \in Client, NoRequest(c) PROVE KilledOK'
  BY <1>7 DEF NoRequest, Goto
<1>8. ASSUME NEW c \in Client, BadRequest(c) PROVE KilledOK'
  BY <1>8 DEF BadRequest, Goto
<1>9. ASSUME NEW c \in Client, NEW identified \in BOOLEAN, Reserve(c, identified) PROVE KilledOK'
  BY <1>9 DEF Reserve, Goto
<1>10. ASSUME NEW c \in Client, CreateLaunch(c) PROVE KilledOK'
  BY <1>10 DEF CreateLaunch, Goto
<1>11. ASSUME NEW c \in Client, Clone(c) PROVE KilledOK'
  BY <1>11 DEF Clone, Goto
<1>12. ASSUME NEW c \in Client, StartFails(c) PROVE KilledOK'
  BY <1>12 DEF StartFails, Goto
<1>13. ASSUME NEW c \in Client, ExecDone(c) PROVE KilledOK'
  BY <1>13 DEF ExecDone, Goto
<1>14. ASSUME NEW c \in Client, ExecFails(c) PROVE KilledOK'
  BY <1>14 DEF ExecFails, Goto
<1>15. ASSUME NEW c \in Client, Reap(c) PROVE KilledOK'
  BY <1>15 DEF Reap, Goto
<1>16. ASSUME NEW c \in Client, Unreserve(c) PROVE KilledOK'
  BY <1>16 DEF Unreserve, Goto
<1>17. ASSUME NEW c \in Client, Started(c) PROVE KilledOK'
  BY <1>17 DEF Started, Goto
<1>18. ASSUME NEW c \in Client, Respond(c) PROVE KilledOK'
  BY <1>18 DEF Respond, Goto
<1>19. ASSUME NEW c \in Client, Exited(c) PROVE KilledOK'
  BY <1>19 DEF Exited, Goto
<1>20. ASSUME NEW c \in Client, Uncount(c) PROVE KilledOK'
  BY <1>20 DEF Uncount, Goto, Forget
<1>21. ASSUME NEW c \in Client, Fork(c) PROVE KilledOK'
  BY <1>21 DEF Fork
<1>22. ASSUME NEW c \in Client, FirstExits(c) PROVE KilledOK'
  BY <1>22 DEF FirstExits, PhaseOK
<1>23. ASSUME NEW c \in Client, OtherExits(c) PROVE KilledOK'
  BY <1>23 DEF OtherExits
<1>24. CASE Tick
  BY <1>24 DEF Tick, Min
<1>25. CASE Sample
  BY <1>25 DEF Sample, Sleep
<1>26. CASE StopUnserved
  BY <1>26 DEF StopUnserved, Call
<1>27. ASSUME NEW unread \in SUBSET Client, RemoveFinished(unread) PROVE KilledOK'
  BY <1>27 DEF RemoveFinished
<1>28. ASSUME NEW unread \in BOOLEAN, CheckBusy(unread) PROVE KilledOK'
  BY <1>28 DEF CheckBusy, Sleep
<1>29. CASE CheckPending
  BY <1>29 DEF CheckPending, Call
<1>30. CASE CheckIdle
  BY <1>30 DEF CheckIdle, Call, Sleep
<1>31. CASE StopAsked
  BY <1>31 DEF StopAsked, Call
<1>32. CASE InitExits
  BY <1>32 DEF InitExits
<1>33. CASE WatchInit
  BY <1>33 DEF WatchInit, Call
<1>34. CASE KillWorkload
  BY <1>34 DEF KillWorkload
<1>35. CASE KillInit
  BY <1>35 DEF KillInit
<1>36. CASE Exit
  BY <1>36 DEF Exit
<1>37. CASE UNCHANGED vars
  BY <1>37 DEF vars
<1>38. QED
  BY <1>1, <1>2, <1>3, <1>4, <1>5, <1>6, <1>7, <1>8, <1>9, <1>10, <1>11, <1>12,
     <1>13, <1>14, <1>15, <1>16, <1>17, <1>18, <1>19, <1>20, <1>21, <1>22, <1>23, <1>24,
     <1>25, <1>26, <1>27, <1>28, <1>29, <1>30, <1>31, <1>32, <1>33, <1>34, <1>35, <1>36,
     <1>37, ZenonT(40)
     DEF Next, Serve, Processes, WatchIdle, Unreadable, Shutdown

-----------------------------------------------------------------------------
\* The inductive invariant holds throughout.
LEMMA InvHolds ==
  ASSUME ~ReadFails
  PROVE  Spec => []Inv
<1>1. Init => Inv
  <2> SUFFICES ASSUME Init PROVE Inv
    OBVIOUS
  <2>1. CountedClients = {}
    BY DEF Init, CountedClients, Counted
  <2>2. clients = Cardinality(CountedClients)
    BY <2>1, FS_EmptySet DEF Init
  <2>3. first \in [Client -> BOOLEAN] /\ attached \in [Client -> BOOLEAN]
        /\ cgroup \in [Client -> BOOLEAN] /\ env \in [Client -> BOOLEAN]
    BY DEF Init
  <2>4. ready \in BOOLEAN /\ served \in BOOLEAN /\ pending \in BOOLEAN /\ idle \in BOOLEAN /\ initUp \in BOOLEAN
    BY DEF Init
  <2>5. Types
    BY <2>3, <2>4, LifecycleAssumption DEF Init, Types, PC, Causes
  <2>6. QED
    BY <2>2, <2>5 DEF Init, Inv, TypeOK, PhaseOK, LaunchKnown, KilledOK, Before, Starting, Reserved
<1>2. Inv /\ [Next]_vars => Inv'
  BY TypesStep, CountStep, PhaseStep, KnownStep, KilledStep DEF Inv, TypeOK
<1>3. QED
  BY <1>1, <1>2, PTL DEF Spec

\* The variables keep their types, and State::clients counts the requests
\* being served on every path through serve_spawn.
THEOREM TypeCorrect ==
  ASSUME ~ReadFails
  PROVE  Spec => []TypeOK
<1>1. Inv => TypeOK
  BY DEF Inv
<1>2. QED
  BY <1>1, InvHolds, PTL

\* A live process always has the record of its launch, with the identity it
\* was started for, for any number of clients and any timeouts.
THEOREM LaunchesKnown ==
  ASSUME ~ReadFails
  PROVE  Spec => []LaunchKnown
<1>1. Inv => LaunchKnown
  BY DEF Inv
<1>2. QED
  BY <1>1, InvHolds, PTL

\* A launch keeps its cgroup and its record until its first process is in.
THEOREM CgroupsKept ==
  ASSUME ~ReadFails
  PROVE  Spec => []CgroupKept
<1>1. Inv => CgroupKept
  BY DEF Inv, PhaseOK, CgroupKept, Reserved
<1>2. QED
  BY <1>1, InvHolds, PTL

\* The supervisor's exit leaves no process in the workload.
THEOREM NoneSurvive ==
  ASSUME ~ReadFails
  PROVE  Spec => []NothingSurvives
<1>1. Inv => NothingSurvives
  BY DEF Inv, TypeOK, Types, KilledOK, NothingSurvives, Populated
<1>2. QED
  BY <1>1, InvHolds, PTL

-----------------------------------------------------------------------------
(* What the idle watcher's sample began with.                                *)

\* A client of the sample is counted or has a process; when the watcher read no
\* clients, each is one whose request is over; and once it has found no process
\* either, none is left.
SeenOK ==
  /\ \A c \in seen : pc[c] \in Counted \/ procs[c] > 0
  /\ wpc \in {"remove", "check"} /\ wClients = 0 => \A c \in seen : pc[c] = "gone"
  /\ wpc \in {"pending", "idle"} => seen = {}

\* A client leaves the sample when it goes, and only a sample adds one.
LEMMA SeenStep ==
  ASSUME TypeOK, PhaseOK, SeenOK, ~ReadFails, [Next]_vars
  PROVE  SeenOK'
<1> USE LifecycleAssumption DEF TypeOK, Types, SeenOK, Counted, PC, connVars, stateVars,
        procVars, watchVars, clockVars, stopVars
<1>1. CASE Ready
  BY <1>1 DEF Ready
<1>2. ASSUME NEW c \in Client, Connect(c) PROVE SeenOK'
  BY <1>2 DEF Connect, Goto
<1>3. ASSUME NEW c \in Client, Disconnect(c) PROVE SeenOK'
  BY <1>3 DEF Disconnect
<1>4. CASE PendingChanges
  BY <1>4 DEF PendingChanges
<1>5. ASSUME NEW c \in Client, Accept(c) PROVE SeenOK'
  BY <1>5 DEF Accept, Goto
<1>6. ASSUME NEW c \in Client, Count(c) PROVE SeenOK'
  BY <1>6 DEF Count, Goto
<1>7. ASSUME NEW c \in Client, NoRequest(c) PROVE SeenOK'
  BY <1>7 DEF NoRequest, Goto
<1>8. ASSUME NEW c \in Client, BadRequest(c) PROVE SeenOK'
  BY <1>8 DEF BadRequest, Goto
<1>9. ASSUME NEW c \in Client, NEW identified \in BOOLEAN, Reserve(c, identified) PROVE SeenOK'
  BY <1>9 DEF Reserve, Goto
<1>10. ASSUME NEW c \in Client, CreateLaunch(c) PROVE SeenOK'
  BY <1>10 DEF CreateLaunch, Goto
<1>11. ASSUME NEW c \in Client, Clone(c) PROVE SeenOK'
  BY <1>11 DEF Clone, Goto
<1>12. ASSUME NEW c \in Client, StartFails(c) PROVE SeenOK'
  BY <1>12 DEF StartFails, Goto
<1>13. ASSUME NEW c \in Client, ExecDone(c) PROVE SeenOK'
  BY <1>13 DEF ExecDone, Goto
<1>14. ASSUME NEW c \in Client, ExecFails(c) PROVE SeenOK'
  BY <1>14 DEF ExecFails, Goto
<1>15. ASSUME NEW c \in Client, Reap(c) PROVE SeenOK'
  BY <1>15 DEF Reap, Goto
<1>16. ASSUME NEW c \in Client, Unreserve(c) PROVE SeenOK'
  BY <1>16 DEF Unreserve, Goto
<1>17. ASSUME NEW c \in Client, Started(c) PROVE SeenOK'
  BY <1>17 DEF Started, Goto
<1>18. ASSUME NEW c \in Client, Respond(c) PROVE SeenOK'
  BY <1>18 DEF Respond, Goto
<1>19. ASSUME NEW c \in Client, Exited(c) PROVE SeenOK'
  BY <1>19 DEF Exited, Goto
<1>20. ASSUME NEW c \in Client, Uncount(c) PROVE SeenOK'
  BY <1>20 DEF Uncount, Goto, Forget
<1>21. ASSUME NEW c \in Client, Fork(c) PROVE SeenOK'
  BY <1>21 DEF Fork
<1>22. ASSUME NEW c \in Client, FirstExits(c) PROVE SeenOK'
  BY <1>22 DEF FirstExits
<1>23. ASSUME NEW c \in Client, OtherExits(c) PROVE SeenOK'
  BY <1>23 DEF OtherExits
<1>24. CASE Tick
  BY <1>24 DEF Tick
<1>25. CASE Sample
  <2>1. seen' = {c \in Client : pc[c] \in Counted \/ procs[c] > 0} /\ wClients' = clients
        /\ wpc' \notin {"pending", "idle"} /\ UNCHANGED <<pc, procs>>
    BY <1>25 DEF Sample, Sleep
  <2>2. ASSUME clients = 0, NEW c \in Client PROVE pc[c] \notin Counted
    <3>1. IsFiniteSet(CountedClients) /\ Cardinality(CountedClients) = 0
      BY <2>2, FS_Subset DEF CountedClients
    <3>2. CountedClients = {}
      BY <3>1, FS_EmptySet
    <3>3. QED
      BY <3>2 DEF CountedClients
  <2>3. \A c \in Client : pc[c] \in Counted \cup Before \cup {"gone"}
    BY DEF Before
  <2>4. ASSUME clients = 0, NEW c \in Client, procs[c] > 0 PROVE pc[c] = "gone"
    <3>1. pc[c] \notin Counted /\ pc[c] \notin Before
      BY <2>2, <2>4 DEF PhaseOK
    <3>2. QED
      BY <2>3, <3>1
  <2>5. QED
    BY <2>1, <2>2, <2>4
<1>26. CASE StopUnserved
  BY <1>26 DEF StopUnserved, Call
<1>27. ASSUME NEW unread \in SUBSET Client, RemoveFinished(unread) PROVE SeenOK'
  BY <1>27 DEF RemoveFinished
<1>28. ASSUME NEW unread \in Unreadable, CheckBusy(unread) PROVE SeenOK'
  <2>1. unread = FALSE
    BY DEF Unreadable
  <2>2. CASE wClients > 0 \/ Populated
    <3>1. wpc' = "sleep" /\ UNCHANGED <<pc, procs, seen, wClients>>
      BY <1>28, <2>1, <2>2 DEF CheckBusy, Sleep
    <3>2. QED
      BY <3>1
  <2>3. CASE ~(wClients > 0 \/ Populated)
    <3>1. wpc = "check" /\ wpc' = "pending" /\ UNCHANGED <<pc, procs, seen, wClients>>
      BY <1>28, <2>1, <2>3 DEF CheckBusy
    <3>2. wClients = 0 /\ \A c \in Client : ~(procs[c] > 0)
      BY <2>3 DEF Populated
    <3>3. \A c \in seen : FALSE
      BY <3>1, <3>2
    <3>4. QED
      BY <3>1, <3>3
  <2>4. QED
    BY <2>2, <2>3
<1>29. CASE CheckPending
  BY <1>29 DEF CheckPending, Call
<1>30. CASE CheckIdle
  BY <1>30 DEF CheckIdle, Sleep, Call
<1>31. CASE StopAsked
  BY <1>31 DEF StopAsked, Call
<1>32. CASE InitExits
  BY <1>32 DEF InitExits
<1>33. CASE WatchInit
  BY <1>33 DEF WatchInit, Call
<1>34. CASE KillWorkload
  BY <1>34 DEF KillWorkload
<1>35. CASE KillInit
  BY <1>35 DEF KillInit
<1>36. CASE Exit
  BY <1>36 DEF Exit
<1>37. CASE UNCHANGED vars
  BY <1>37 DEF vars
<1>38. QED
  BY <1>1, <1>2, <1>3, <1>4, <1>5, <1>6, <1>7, <1>8, <1>9, <1>10, <1>11, <1>12, <1>13, <1>14,
     <1>15, <1>16, <1>17, <1>18,
     <1>19, <1>20, <1>21, <1>22, <1>23, <1>24, <1>25, <1>26, <1>27, <1>28, <1>29, <1>30, <1>31, <1>32, <1>33, <1>34, <1>35,
     <1>36, <1>37
     DEF Next, Serve, Processes, WatchIdle, Unreadable, Shutdown

\* Only the watcher's last two steps stop the sandbox for being idle.
LEMMA StopStep ==
  ASSUME TypeOK, SeenOK, [Next]_vars
  PROVE  (cause = "none" /\ cause' \in {"idle", "pending"} => seen = {})
<1> USE LifecycleAssumption DEF SeenOK, connVars, stateVars, procVars, watchVars, clockVars,
        stopVars
<1>1. CASE Ready
  BY <1>1 DEF Ready
<1>2. ASSUME NEW c \in Client, Connect(c) PROVE (cause = "none" /\ cause' \in {"idle", "pending"} => seen = {})
  BY <1>2 DEF Connect, Goto
<1>3. ASSUME NEW c \in Client, Disconnect(c) PROVE (cause = "none" /\ cause' \in {"idle", "pending"} => seen = {})
  BY <1>3 DEF Disconnect
<1>4. CASE PendingChanges
  BY <1>4 DEF PendingChanges
<1>5. ASSUME NEW c \in Client, Accept(c) PROVE (cause = "none" /\ cause' \in {"idle", "pending"} => seen = {})
  BY <1>5 DEF Accept, Goto
<1>6. ASSUME NEW c \in Client, Count(c) PROVE (cause = "none" /\ cause' \in {"idle", "pending"} => seen = {})
  BY <1>6 DEF Count, Goto
<1>7. ASSUME NEW c \in Client, NoRequest(c) PROVE (cause = "none" /\ cause' \in {"idle", "pending"} => seen = {})
  BY <1>7 DEF NoRequest, Goto
<1>8. ASSUME NEW c \in Client, BadRequest(c) PROVE (cause = "none" /\ cause' \in {"idle", "pending"} => seen = {})
  BY <1>8 DEF BadRequest, Goto
<1>9. ASSUME NEW c \in Client, NEW identified \in BOOLEAN, Reserve(c, identified) PROVE (cause = "none" /\ cause' \in {"idle", "pending"} => seen = {})
  BY <1>9 DEF Reserve, Goto
<1>10. ASSUME NEW c \in Client, CreateLaunch(c) PROVE (cause = "none" /\ cause' \in {"idle", "pending"} => seen = {})
  BY <1>10 DEF CreateLaunch, Goto
<1>11. ASSUME NEW c \in Client, Clone(c) PROVE (cause = "none" /\ cause' \in {"idle", "pending"} => seen = {})
  BY <1>11 DEF Clone, Goto
<1>12. ASSUME NEW c \in Client, StartFails(c) PROVE (cause = "none" /\ cause' \in {"idle", "pending"} => seen = {})
  BY <1>12 DEF StartFails, Goto
<1>13. ASSUME NEW c \in Client, ExecDone(c) PROVE (cause = "none" /\ cause' \in {"idle", "pending"} => seen = {})
  BY <1>13 DEF ExecDone, Goto
<1>14. ASSUME NEW c \in Client, ExecFails(c) PROVE (cause = "none" /\ cause' \in {"idle", "pending"} => seen = {})
  BY <1>14 DEF ExecFails, Goto
<1>15. ASSUME NEW c \in Client, Reap(c) PROVE (cause = "none" /\ cause' \in {"idle", "pending"} => seen = {})
  BY <1>15 DEF Reap, Goto
<1>16. ASSUME NEW c \in Client, Unreserve(c) PROVE (cause = "none" /\ cause' \in {"idle", "pending"} => seen = {})
  BY <1>16 DEF Unreserve, Goto
<1>17. ASSUME NEW c \in Client, Started(c) PROVE (cause = "none" /\ cause' \in {"idle", "pending"} => seen = {})
  BY <1>17 DEF Started, Goto
<1>18. ASSUME NEW c \in Client, Respond(c) PROVE (cause = "none" /\ cause' \in {"idle", "pending"} => seen = {})
  BY <1>18 DEF Respond, Goto
<1>19. ASSUME NEW c \in Client, Exited(c) PROVE (cause = "none" /\ cause' \in {"idle", "pending"} => seen = {})
  BY <1>19 DEF Exited, Goto
<1>20. ASSUME NEW c \in Client, Uncount(c) PROVE (cause = "none" /\ cause' \in {"idle", "pending"} => seen = {})
  BY <1>20 DEF Uncount, Goto, Forget
<1>21. ASSUME NEW c \in Client, Fork(c) PROVE (cause = "none" /\ cause' \in {"idle", "pending"} => seen = {})
  BY <1>21 DEF Fork
<1>22. ASSUME NEW c \in Client, FirstExits(c) PROVE (cause = "none" /\ cause' \in {"idle", "pending"} => seen = {})
  BY <1>22 DEF FirstExits
<1>23. ASSUME NEW c \in Client, OtherExits(c) PROVE (cause = "none" /\ cause' \in {"idle", "pending"} => seen = {})
  BY <1>23 DEF OtherExits
<1>24. CASE Tick
  BY <1>24 DEF Tick
<1>25. CASE Sample
  BY <1>25 DEF Sample, Sleep
<1>26. CASE StopUnserved
  BY <1>26 DEF StopUnserved, Call
<1>27. ASSUME NEW unread \in SUBSET Client, RemoveFinished(unread) PROVE (cause = "none" /\ cause' \in {"idle", "pending"} => seen = {})
  BY <1>27 DEF RemoveFinished
<1>28. ASSUME NEW unread \in Unreadable, CheckBusy(unread) PROVE (cause = "none" /\ cause' \in {"idle", "pending"} => seen = {})
  BY <1>28 DEF CheckBusy, Sleep
<1>29. CASE CheckPending
  BY <1>29 DEF CheckPending, Call
<1>30. CASE CheckIdle
  BY <1>30 DEF CheckIdle, Sleep, Call
<1>31. CASE StopAsked
  BY <1>31 DEF StopAsked, Call
<1>32. CASE InitExits
  BY <1>32 DEF InitExits
<1>33. CASE WatchInit
  BY <1>33 DEF WatchInit, Call
<1>34. CASE KillWorkload
  BY <1>34 DEF KillWorkload
<1>35. CASE KillInit
  BY <1>35 DEF KillInit
<1>36. CASE Exit
  BY <1>36 DEF Exit
<1>37. CASE UNCHANGED vars
  BY <1>37 DEF vars
<1>38. QED
  BY <1>1, <1>2, <1>3, <1>4, <1>5, <1>6, <1>7, <1>8, <1>9, <1>10, <1>11, <1>12, <1>13, <1>14,
     <1>15, <1>16, <1>17, <1>18,
     <1>19, <1>20, <1>21, <1>22, <1>23, <1>24, <1>25, <1>26, <1>27, <1>28, <1>29, <1>30, <1>31, <1>32, <1>33, <1>34, <1>35,
     <1>36, <1>37
     DEF Next, Serve, Processes, WatchIdle, Unreadable, Shutdown

-----------------------------------------------------------------------------
\* The idle watcher stops the sandbox only when every client and every process that
\* its sample began with has gone, for any number of clients and processes and any
\* timeouts: reading the clients first and the cgroups later, without the lock,
\* misses none of them (watch_idle).
THEOREM EstablishedKeptHolds ==
  ASSUME ~ReadFails
  PROVE  Spec => EstablishedKept
<1>1. Init => SeenOK
  BY DEF Init, SeenOK
<1>2. Inv /\ SeenOK /\ [Next]_vars => SeenOK'
  BY SeenStep DEF Inv
<1>3. Inv /\ SeenOK /\ [Next]_vars => [cause = "none" /\ cause' \in {"idle", "pending"} => seen = {}]_vars
  <2> SUFFICES ASSUME Inv, SeenOK, [Next]_vars
               PROVE  cause = "none" /\ cause' \in {"idle", "pending"} => seen = {}
    OBVIOUS
  <2>1. TypeOK
    BY DEF Inv
  <2>2. QED
    BY <2>1, StopStep
<1>4. Spec => []Inv
  BY InvHolds
<1>5. QED
  BY <1>1, <1>2, <1>3, <1>4, PTL DEF Spec, EstablishedKept
=============================================================================
