--------------------------- MODULE DevicesProofs ---------------------------
(***************************************************************************)
(* Proofs about Devices, for every set of devices, names and classes, any  *)
(* number of host changes and reloads, and failing operations.             *)
(***************************************************************************)
EXTENDS Devices, TLAPS

\* The steps of reconcile that work on a record, and those that make one.
WithRecord == {"mark", "unlink", "detach", "forget", "link"}
WithoutRecord == {"clone", "attach", "record"}

\* The lock is free exactly when nobody is inside reconcile; publish runs
\* only for a device that was read and has no record, unpublish and the
\* linking only for a device that has one; publish links only names it has
\* recorded.
StepOK ==
  /\ holder = "none" <=> step = "free"
  /\ step \in WithRecord => Recorded(cur)
  /\ step \in WithoutRecord => ~Recorded(cur) /\ seen # Absent
  /\ step = "link" => left \subseteq devices[cur].names

\* A name below /dev belongs to a device that has recorded it, and whose
\* node is not being detached.
LinkOwned ==
  \A n \in Name : links[n] # NoDevice =>
    /\ Recorded(links[n])
    /\ n \in devices[links[n]].names
    /\ step \in {"detach", "forget"} => links[n] # cur

\* The inductive invariant.
Inv == TypeOK /\ StepOK /\ NodeRecorded /\ LinkOwned /\ UnappliedPending

-----------------------------------------------------------------------------
(* One lemma per part of the invariant, with one step per action.           *)

\* Every action keeps the types; marking a record needs one to be there.
LEMMA TypeStep ==
  ASSUME TypeOK, StepOK, [Next]_vars
  PROVE  TypeOK'
<1> USE DevicesAssumption DEF TypeOK, hostVars, planVars, stateVars, devVars, localVars, Thread,
        Step
<1>1. ASSUME NEW d \in Device, NEW e \in Entries[d] \cup {Absent}, HostChange(d, e) PROVE TypeOK'
  <2>1. e \in Entry \cup {Absent}
    OBVIOUS
  <2>2. host' \in [Device -> Entry \cup {Absent}] /\ hostLeft' \in Nat
    BY <1>1, <2>1 DEF HostChange
  <2>3. UNCHANGED events \/ events' = [events EXCEPT ![d] = @ + 1]
    BY <1>1 DEF HostChange
  <2>4. events' \in [Device -> Nat]
    BY <2>3
  <2>5. UNCHANGED lost \/ lost' = TRUE
    BY <1>1 DEF HostChange
  <2>6. lost' \in BOOLEAN
    BY <2>5
  <2>7. QED
    BY <1>1, <2>2, <2>4, <2>6 DEF HostChange
<1>2. CASE WatcherNew
  BY <1>2 DEF WatcherNew, PC
<1>3. CASE WatcherFails
  BY <1>3, ZenonT(30) DEF WatcherFails, PC
<1>4. ASSUME NEW d \in Device, WatcherEvent(d) PROVE TypeOK'
  BY <1>4 DEF WatcherEvent, PC
<1>5. CASE WatcherRescan
  BY <1>5, ZenonT(30) DEF WatcherRescan, PC
<1>6. CASE ReloadRestart
  BY <1>6 DEF ReloadRestart, CanReload, Reason
<1>7. ASSUME NEW classes \in SUBSET Class, ReloadPlan(classes) PROVE TypeOK'
  BY <1>7 DEF ReloadPlan, CanReload, PC
<1>8. ASSUME NEW failed \in SUBSET {"mount"}, ReloadReasons(failed) PROVE TypeOK'
  <2>1. pending' \in SUBSET Reason
    BY <1>8 DEF ReloadReasons, Reason
  <2>2. UNCHANGED <<hostVars, devVars, localVars, intact>>
    BY <1>8 DEF ReloadReasons
  <2>3. QED
    BY <1>8, <2>1, <2>2 DEF ReloadReasons, PC
<1>9. ASSUME NEW t \in Thread, Scan(t) PROVE TypeOK'
  BY <1>9 DEF Scan, PC
<1>10. ASSUME NEW t \in Thread, AddRecorded(t) PROVE TypeOK'
  BY <1>10 DEF AddRecorded, PC
<1>11. ASSUME NEW t \in Thread, AllReconciled(t) PROVE TypeOK'
  BY <1>11 DEF AllReconciled, PC
<1>12. ASSUME NEW t \in Thread, NEW d \in Device, Acquire(t, d) PROVE TypeOK'
  BY <1>12 DEF Acquire
<1>13. CASE ReadDevice
  BY <1>13 DEF ReadDevice
<1>14. CASE Classify
  BY <1>14 DEF Classify, classify
<1>15. CASE CheckIncomplete
  BY <1>15 DEF CheckIncomplete, Recorded
<1>16. CASE Decide
  BY <1>16 DEF Decide
<1>17. CASE Release
  BY <1>17 DEF Release
<1>18. CASE PublishClone
  BY <1>18 DEF PublishClone
<1>19. CASE PublishAttach
  BY <1>19 DEF PublishAttach
<1>20. CASE PublishFails
  BY <1>20 DEF PublishFails
<1>21. CASE PublishRecord
  BY <1>21 DEF PublishRecord, StepOK, WithoutRecord, Names, Entry, Published
<1>22. ASSUME NEW n \in Name, PublishLink(n) PROVE TypeOK'
  BY <1>22 DEF PublishLink
<1>23. CASE PublishLinkFails
  BY <1>23 DEF PublishLinkFails
<1>24. CASE PublishComplete
  BY <1>24, ZenonT(60) DEF PublishComplete, StepOK, WithRecord, Recorded, Published
<1>25. CASE UnpublishMark
  <2>1. devices[cur] # Absent /\ cur \in Device
    BY <1>25 DEF UnpublishMark, StepOK, WithRecord, Recorded
  <2>2. devices[cur] \in Published
    BY <2>1
  <2>3. [devices[cur] EXCEPT !.complete = FALSE] \in Published
    BY <2>2 DEF Published
  <2>4. devices' = [devices EXCEPT ![cur] = [devices[cur] EXCEPT !.complete = FALSE]]
    BY <1>25 DEF UnpublishMark
  <2>5. devices' \in [Device -> Published \cup {Absent}]
    BY <2>1, <2>3, <2>4
  <2>6. step' \in Step
    BY <1>25 DEF UnpublishMark
  <2>7. UNCHANGED <<hostVars, planVars, unapplied, pending, devVars, pc, todo, holder, localVars,
                    intact>>
    BY <1>25 DEF UnpublishMark
  <2>8. QED
    BY <2>5, <2>6, <2>7
<1>26. CASE UnpublishLinks
  BY <1>26 DEF UnpublishLinks
<1>27. CASE UnpublishDetach
  BY <1>27 DEF UnpublishDetach
<1>28. CASE UnpublishFails
  BY <1>28 DEF UnpublishFails, Reason
<1>29. CASE UnpublishForget
  BY <1>29 DEF UnpublishForget
<1>30. CASE UNCHANGED vars
  BY <1>30 DEF vars
<1>31. QED
  BY <1>1, <1>2, <1>3, <1>4, <1>5, <1>6, <1>7, <1>8, <1>9, <1>10, <1>11, <1>12, <1>13, <1>14,
     <1>15, <1>16, <1>17, <1>18,
     <1>19, <1>20, <1>21, <1>22, <1>23, <1>24, <1>25, <1>26, <1>27, <1>28, <1>29, <1>30
     DEF Next, HostNext, ReloadNext, ThreadStep, Reconcile

\* Where reconcile is tells whether the device has a record: only the holder
\* of the lock moves, and only it adds or removes the record of cur.
LEMMA StepStep ==
  ASSUME TypeOK, StepOK, [Next]_vars
  PROVE  StepOK'
<1> USE DevicesAssumption DEF TypeOK, StepOK, WithRecord, WithoutRecord, Recorded, hostVars,
        planVars, stateVars, devVars, localVars, Thread, Step, Published
<1>1. ASSUME NEW d \in Device, NEW e \in Entries[d] \cup {Absent}, HostChange(d, e) PROVE StepOK'
  BY <1>1 DEF HostChange
<1>2. CASE WatcherNew
  BY <1>2 DEF WatcherNew
<1>3. CASE WatcherFails
  BY <1>3 DEF WatcherFails
<1>4. ASSUME NEW d \in Device, WatcherEvent(d) PROVE StepOK'
  BY <1>4 DEF WatcherEvent
<1>5. CASE WatcherRescan
  BY <1>5 DEF WatcherRescan
<1>6. CASE ReloadRestart
  BY <1>6 DEF ReloadRestart
<1>7. ASSUME NEW classes \in SUBSET Class, ReloadPlan(classes) PROVE StepOK'
  BY <1>7 DEF ReloadPlan
<1>8. ASSUME NEW failed \in SUBSET {"mount"}, ReloadReasons(failed) PROVE StepOK'
  BY <1>8 DEF ReloadReasons
<1>9. ASSUME NEW t \in Thread, Scan(t) PROVE StepOK'
  BY <1>9 DEF Scan
<1>10. ASSUME NEW t \in Thread, AddRecorded(t) PROVE StepOK'
  BY <1>10 DEF AddRecorded
<1>11. ASSUME NEW t \in Thread, AllReconciled(t) PROVE StepOK'
  BY <1>11 DEF AllReconciled
<1>12. ASSUME NEW t \in Thread, NEW d \in Device, Acquire(t, d) PROVE StepOK'
  BY <1>12 DEF Acquire
<1>13. CASE ReadDevice
  BY <1>13 DEF ReadDevice
<1>14. CASE Classify
  BY <1>14 DEF Classify
<1>15. CASE CheckIncomplete
  BY <1>15 DEF CheckIncomplete
<1>16. CASE Decide
  BY <1>16 DEF Decide
<1>17. CASE Release
  BY <1>17 DEF Release
<1>18. CASE PublishClone
  BY <1>18 DEF PublishClone
<1>19. CASE PublishAttach
  BY <1>19 DEF PublishAttach
<1>20. CASE PublishFails
  BY <1>20 DEF PublishFails
<1>21. CASE PublishRecord
  <2>1. seen \in Entry
    BY <1>21 DEF PublishRecord
  <2>2. [names |-> Names(seen), classes |-> cls, complete |-> FALSE] \in Published
    BY <2>1 DEF Names, Entry
  <2>3. Recorded(cur)'
    BY <1>21, <2>2 DEF PublishRecord
  <2>4. QED
    BY <1>21, <2>3 DEF PublishRecord
<1>22. ASSUME NEW n \in Name, PublishLink(n) PROVE StepOK'
  BY <1>22 DEF PublishLink
<1>23. CASE PublishLinkFails
  BY <1>23 DEF PublishLinkFails
<1>24. CASE PublishComplete
  BY <1>24 DEF PublishComplete
<1>25. CASE UnpublishMark
  BY <1>25 DEF UnpublishMark
<1>26. CASE UnpublishLinks
  BY <1>26 DEF UnpublishLinks
<1>27. CASE UnpublishDetach
  BY <1>27 DEF UnpublishDetach
<1>28. CASE UnpublishFails
  BY <1>28 DEF UnpublishFails
<1>29. CASE UnpublishForget
  BY <1>29 DEF UnpublishForget
<1>30. CASE UNCHANGED vars
  BY <1>30 DEF vars
<1>31. QED
  BY <1>1, <1>2, <1>3, <1>4, <1>5, <1>6, <1>7, <1>8, <1>9, <1>10, <1>11, <1>12, <1>13, <1>14,
     <1>15, <1>16, <1>17, <1>18,
     <1>19, <1>20, <1>21, <1>22, <1>23, <1>24, <1>25, <1>26, <1>27, <1>28, <1>29, <1>30
     DEF Next, HostNext, ReloadNext, ThreadStep, Reconcile

\* A node is attached and recorded, detached and forgotten, by one step each.
LEMMA NodeStep ==
  ASSUME TypeOK, StepOK, NodeRecorded, [Next]_vars
  PROVE  NodeRecorded'
<1> USE DevicesAssumption DEF TypeOK, StepOK, NodeRecorded, WithRecord, WithoutRecord, Recorded,
        hostVars, planVars, stateVars, devVars, localVars, Step, Published
<1>1. ASSUME NEW d \in Device, NEW e \in Entries[d] \cup {Absent}, HostChange(d, e) PROVE NodeRecorded'
  BY <1>1 DEF HostChange
<1>2. CASE WatcherNew
  BY <1>2 DEF WatcherNew
<1>3. CASE WatcherFails
  BY <1>3 DEF WatcherFails
<1>4. ASSUME NEW d \in Device, WatcherEvent(d) PROVE NodeRecorded'
  BY <1>4 DEF WatcherEvent
<1>5. CASE WatcherRescan
  BY <1>5 DEF WatcherRescan
<1>6. CASE ReloadRestart
  BY <1>6 DEF ReloadRestart
<1>7. ASSUME NEW classes \in SUBSET Class, ReloadPlan(classes) PROVE NodeRecorded'
  BY <1>7 DEF ReloadPlan
<1>8. ASSUME NEW failed \in SUBSET {"mount"}, ReloadReasons(failed) PROVE NodeRecorded'
  BY <1>8 DEF ReloadReasons
<1>9. ASSUME NEW t \in Thread, Scan(t) PROVE NodeRecorded'
  BY <1>9 DEF Scan
<1>10. ASSUME NEW t \in Thread, AddRecorded(t) PROVE NodeRecorded'
  BY <1>10 DEF AddRecorded
<1>11. ASSUME NEW t \in Thread, AllReconciled(t) PROVE NodeRecorded'
  BY <1>11 DEF AllReconciled
<1>12. ASSUME NEW t \in Thread, NEW d \in Device, Acquire(t, d) PROVE NodeRecorded'
  BY <1>12 DEF Acquire
<1>13. CASE ReadDevice
  BY <1>13 DEF ReadDevice
<1>14. CASE Classify
  BY <1>14 DEF Classify
<1>15. CASE CheckIncomplete
  BY <1>15 DEF CheckIncomplete
<1>16. CASE Decide
  BY <1>16 DEF Decide
<1>17. CASE Release
  BY <1>17 DEF Release
<1>18. CASE PublishClone
  BY <1>18 DEF PublishClone
<1>19. CASE PublishAttach
  BY <1>19 DEF PublishAttach
<1>20. CASE PublishFails
  BY <1>20 DEF PublishFails
<1>21. CASE PublishRecord
  <2>1. seen \in Entry
    BY <1>21 DEF PublishRecord
  <2>2. [names |-> Names(seen), classes |-> cls, complete |-> FALSE] \in Published
    BY <2>1 DEF Names, Entry
  <2>3. Recorded(cur)'
    BY <1>21, <2>2 DEF PublishRecord
  <2>4. QED
    BY <1>21, <2>3 DEF PublishRecord
<1>22. ASSUME NEW n \in Name, PublishLink(n) PROVE NodeRecorded'
  BY <1>22 DEF PublishLink
<1>23. CASE PublishLinkFails
  BY <1>23 DEF PublishLinkFails
<1>24. CASE PublishComplete
  BY <1>24 DEF PublishComplete
<1>25. CASE UnpublishMark
  BY <1>25 DEF UnpublishMark
<1>26. CASE UnpublishLinks
  BY <1>26 DEF UnpublishLinks
<1>27. CASE UnpublishDetach
  BY <1>27 DEF UnpublishDetach
<1>28. CASE UnpublishFails
  BY <1>28 DEF UnpublishFails
<1>29. CASE UnpublishForget
  BY <1>29 DEF UnpublishForget
<1>30. CASE UNCHANGED vars
  BY <1>30 DEF vars
<1>31. QED
  BY <1>1, <1>2, <1>3, <1>4, <1>5, <1>6, <1>7, <1>8, <1>9, <1>10, <1>11, <1>12, <1>13, <1>14,
     <1>15, <1>16, <1>17, <1>18,
     <1>19, <1>20, <1>21, <1>22, <1>23, <1>24, <1>25, <1>26, <1>27, <1>28, <1>29, <1>30
     DEF Next, HostNext, ReloadNext, ThreadStep, Reconcile

\* A name is linked only to the device being published, and no name leads to
\* a device whose node is being detached.
LEMMA LinkStep ==
  ASSUME TypeOK, StepOK, LinkOwned, [Next]_vars
  PROVE  LinkOwned'
<1> USE DevicesAssumption DEF TypeOK, StepOK, LinkOwned, WithRecord, WithoutRecord, Recorded,
        hostVars, planVars, stateVars, devVars, localVars, Step, Published
<1>1. ASSUME NEW d \in Device, NEW e \in Entries[d] \cup {Absent}, HostChange(d, e) PROVE LinkOwned'
  BY <1>1 DEF HostChange
<1>2. CASE WatcherNew
  BY <1>2 DEF WatcherNew
<1>3. CASE WatcherFails
  BY <1>3 DEF WatcherFails
<1>4. ASSUME NEW d \in Device, WatcherEvent(d) PROVE LinkOwned'
  BY <1>4 DEF WatcherEvent
<1>5. CASE WatcherRescan
  BY <1>5 DEF WatcherRescan
<1>6. CASE ReloadRestart
  BY <1>6 DEF ReloadRestart
<1>7. ASSUME NEW classes \in SUBSET Class, ReloadPlan(classes) PROVE LinkOwned'
  BY <1>7 DEF ReloadPlan
<1>8. ASSUME NEW failed \in SUBSET {"mount"}, ReloadReasons(failed) PROVE LinkOwned'
  BY <1>8 DEF ReloadReasons
<1>9. ASSUME NEW t \in Thread, Scan(t) PROVE LinkOwned'
  BY <1>9 DEF Scan
<1>10. ASSUME NEW t \in Thread, AddRecorded(t) PROVE LinkOwned'
  BY <1>10 DEF AddRecorded
<1>11. ASSUME NEW t \in Thread, AllReconciled(t) PROVE LinkOwned'
  BY <1>11 DEF AllReconciled
<1>12. ASSUME NEW t \in Thread, NEW d \in Device, Acquire(t, d) PROVE LinkOwned'
  BY <1>12 DEF Acquire
<1>13. CASE ReadDevice
  BY <1>13 DEF ReadDevice
<1>14. CASE Classify
  BY <1>14 DEF Classify
<1>15. CASE CheckIncomplete
  BY <1>15 DEF CheckIncomplete
<1>16. CASE Decide
  BY <1>16 DEF Decide
<1>17. CASE Release
  BY <1>17 DEF Release
<1>18. CASE PublishClone
  BY <1>18 DEF PublishClone
<1>19. CASE PublishAttach
  BY <1>19 DEF PublishAttach
<1>20. CASE PublishFails
  BY <1>20 DEF PublishFails
<1>21. CASE PublishRecord
  BY <1>21 DEF PublishRecord
<1>22. ASSUME NEW n \in Name, PublishLink(n) PROVE LinkOwned'
  BY <1>22 DEF PublishLink
<1>23. CASE PublishLinkFails
  BY <1>23 DEF PublishLinkFails
<1>24. CASE PublishComplete
  BY <1>24 DEF PublishComplete
<1>25. CASE UnpublishMark
  BY <1>25 DEF UnpublishMark
<1>26. CASE UnpublishLinks
  BY <1>26 DEF UnpublishLinks
<1>27. CASE UnpublishDetach
  BY <1>27 DEF UnpublishDetach
<1>28. CASE UnpublishFails
  BY <1>28 DEF UnpublishFails
<1>29. CASE UnpublishForget
  BY <1>29 DEF UnpublishForget
<1>30. CASE UNCHANGED vars
  BY <1>30 DEF vars
<1>31. QED
  BY <1>1, <1>2, <1>3, <1>4, <1>5, <1>6, <1>7, <1>8, <1>9, <1>10, <1>11, <1>12, <1>13, <1>14,
     <1>15, <1>16, <1>17, <1>18,
     <1>19, <1>20, <1>21, <1>22, <1>23, <1>24, <1>25, <1>26, <1>27, <1>28, <1>29, <1>30
     DEF Next, HostNext, ReloadNext, ThreadStep, Reconcile

\* Reasons that outlive a reload are copied into the new list.
LEMMA PendingStep ==
  ASSUME TypeOK, UnappliedPending, [Next]_vars
  PROVE  UnappliedPending'
<1> USE DevicesAssumption DEF UnappliedPending, hostVars, planVars, stateVars, devVars, localVars
<1>1. ASSUME NEW d \in Device, NEW e \in Entries[d] \cup {Absent}, HostChange(d, e) PROVE UnappliedPending'
  BY <1>1 DEF HostChange
<1>2. CASE WatcherNew
  BY <1>2 DEF WatcherNew
<1>3. CASE WatcherFails
  BY <1>3 DEF WatcherFails
<1>4. ASSUME NEW d \in Device, WatcherEvent(d) PROVE UnappliedPending'
  BY <1>4 DEF WatcherEvent
<1>5. CASE WatcherRescan
  BY <1>5 DEF WatcherRescan
<1>6. CASE ReloadRestart
  BY <1>6 DEF ReloadRestart
<1>7. ASSUME NEW classes \in SUBSET Class, ReloadPlan(classes) PROVE UnappliedPending'
  BY <1>7 DEF ReloadPlan
<1>8. ASSUME NEW failed \in SUBSET {"mount"}, ReloadReasons(failed) PROVE UnappliedPending'
  BY <1>8 DEF ReloadReasons
<1>9. ASSUME NEW t \in Thread, Scan(t) PROVE UnappliedPending'
  BY <1>9 DEF Scan
<1>10. ASSUME NEW t \in Thread, AddRecorded(t) PROVE UnappliedPending'
  BY <1>10 DEF AddRecorded
<1>11. ASSUME NEW t \in Thread, AllReconciled(t) PROVE UnappliedPending'
  BY <1>11 DEF AllReconciled
<1>12. ASSUME NEW t \in Thread, NEW d \in Device, Acquire(t, d) PROVE UnappliedPending'
  BY <1>12 DEF Acquire
<1>13. CASE ReadDevice
  BY <1>13 DEF ReadDevice
<1>14. CASE Classify
  BY <1>14 DEF Classify
<1>15. CASE CheckIncomplete
  BY <1>15 DEF CheckIncomplete
<1>16. CASE Decide
  BY <1>16 DEF Decide
<1>17. CASE Release
  BY <1>17 DEF Release
<1>18. CASE PublishClone
  BY <1>18 DEF PublishClone
<1>19. CASE PublishAttach
  BY <1>19 DEF PublishAttach
<1>20. CASE PublishFails
  BY <1>20 DEF PublishFails
<1>21. CASE PublishRecord
  BY <1>21 DEF PublishRecord
<1>22. ASSUME NEW n \in Name, PublishLink(n) PROVE UnappliedPending'
  BY <1>22 DEF PublishLink
<1>23. CASE PublishLinkFails
  BY <1>23 DEF PublishLinkFails
<1>24. CASE PublishComplete
  BY <1>24 DEF PublishComplete
<1>25. CASE UnpublishMark
  BY <1>25 DEF UnpublishMark
<1>26. CASE UnpublishLinks
  BY <1>26 DEF UnpublishLinks
<1>27. CASE UnpublishDetach
  BY <1>27 DEF UnpublishDetach
<1>28. CASE UnpublishFails
  BY <1>28 DEF UnpublishFails
<1>29. CASE UnpublishForget
  BY <1>29 DEF UnpublishForget
<1>30. CASE UNCHANGED vars
  BY <1>30 DEF vars
<1>31. QED
  BY <1>1, <1>2, <1>3, <1>4, <1>5, <1>6, <1>7, <1>8, <1>9, <1>10, <1>11, <1>12, <1>13, <1>14,
     <1>15, <1>16, <1>17, <1>18,
     <1>19, <1>20, <1>21, <1>22, <1>23, <1>24, <1>25, <1>26, <1>27, <1>28, <1>29, <1>30
     DEF Next, HostNext, ReloadNext, ThreadStep, Reconcile

-----------------------------------------------------------------------------
\* The invariant holds when the supervisor starts.
LEMMA InitInv == ASSUME Init PROVE Inv
<1> USE DevicesAssumption DEF Init
<1>1. host \in [Device -> Entry \cup {Absent}]
  <2>1. \A d \in Device : Entries[d] \subseteq Entry
    OBVIOUS
  <2>2. QED
    BY <2>1
<1>2. pc \in [Thread -> PC] /\ todo \in [Thread -> SUBSET Device]
  BY DEF PC
<1>3. devices \in [Device -> Published \cup {Absent}] /\ nodes \in [Device -> Int]
  OBVIOUS
<1>4. links \in [Name -> Device \cup {NoDevice}] /\ events \in [Device -> Nat]
  OBVIOUS
<1>5. TypeOK
  BY <1>1, <1>2, <1>3, <1>4 DEF TypeOK, Step
<1>6. StepOK
  BY DEF StepOK, WithRecord, WithoutRecord
<1>7. NodeRecorded /\ LinkOwned /\ UnappliedPending
  BY DEF NodeRecorded, LinkOwned, UnappliedPending, Recorded
<1>8. QED
  BY <1>5, <1>6, <1>7 DEF Inv

\* Every step keeps the invariant.
LEMMA NextInv == ASSUME Inv, [Next]_vars PROVE Inv'
BY TypeStep, StepStep, NodeStep, LinkStep, PendingStep DEF Inv

\* The invariant holds always.
LEMMA InvHolds == Spec => []Inv
<1>1. Init => Inv
  BY InitInv
<1>2. Inv /\ [Next]_vars => Inv'
  BY NextInv
<1>3. QED
  BY <1>1, <1>2, PTL DEF Spec

\* Every variable of the device model keeps its type, the records of
\* State::devices in particular.
THEOREM TypeCorrect == Spec => []TypeOK
BY InvHolds, PTL DEF Inv

\* A device has a record exactly while its node is attached, once, but for
\* the two single steps in between, whatever fails and however the watcher
\* and reloads interleave (publish, unpublish).
THEOREM NodesRecorded == Spec => []NodeRecorded
BY InvHolds, PTL DEF Inv

\* No name below /dev ever leads to a missing node (publish_link after
\* attach, unlink_if_ours before detach).
THEOREM LinksReady == Spec => []LinkReady
<1>1. Inv => LinkReady
  <2> SUFFICES ASSUME Inv, NEW n \in Name, links[n] # NoDevice
               PROVE  nodes[links[n]] = 1
    BY DEF LinkReady
  <2>1. links[n] \in Device /\ Recorded(links[n])
    BY DEF Inv, TypeOK, LinkOwned
  <2>2. ~(step = "forget" /\ cur = links[n])
    BY DEF Inv, LinkOwned
  <2>3. QED
    BY <2>1, <2>2 DEF Inv, NodeRecorded
<1>2. QED
  BY <1>1, InvHolds, PTL

\* A node that could not be removed stays a restart reason through every
\* reload (apply, unpublish).
THEOREM UnappliedStaysPending == Spec => []UnappliedPending
BY InvHolds, PTL DEF Inv

-----------------------------------------------------------------------------
(* Both threads catch up: what makes a node that is there a granted one, and *)
(* a granted device one that is there.                                       *)

\* A thread is inside reconcile only from the loop of reconcile_all, and has a list
\* only from making it to the end of that loop.
HoldOK ==
  \A t \in Thread :
    /\ holder = t => pc[t] = "loop"
    /\ pc[t] \notin {"keys", "loop"} => todo[t] = {}

\* The host's changes are seen once the watch exists.
WatchOK == watching \/ pc["watcher"] \in {"new", "dead"}

\* No rescan overlaps a reload.
Apart == pc["reload"] # "idle" => pc["watcher"] \notin {"new", "scan", "keys"} /\ ~lost

\* A thread will reconcile d, or list every device that udev knows.
Queued(d) ==
  \/ events[d] > 0 \/ lost
  \/ pc["watcher"] \in {"new", "scan", "dead"} \/ pc["reload"] \in {"reasons", "scan"}
  \/ \E t \in Thread : d \in todo[t]

\* The steps of reconcile that act on the classes found.
Late == {"check", "decide"} \cup WithRecord \cup WithoutRecord

\* What reconcile has read is what udev says, or the watcher is told of the change;
\* it publishes only what it found classes for.
ReadOK ==
  /\ step \notin {"free", "read"} /\ seen # host[cur] =>
       events[cur] > 0 \/ lost \/ cur \in todo["watcher"] \/ pc["watcher"] = "dead"
  /\ step \in Late /\ cls # {} => seen # Absent
  /\ step \in WithoutRecord \cup {"link"} => cls # {}

\* A device that may be published matches, or is reconciled again.
AimOK == step \in Late /\ cls # {} => Matches(cur) \/ Queued(cur)

\* Reconcile will leave d without a node, or as a restart reason, or as a match.
Sure(d) ==
  /\ cur = d
  /\ \/ step = "read" \/ (step = "classify" /\ seen = host[d])
     \/ step \in Late /\ cls = {}
     \/ step \in {"mark", "unlink", "detach", "forget"} /\ ret = "release"

\* A device that has a record matches, could not be removed, or is reconciled again.
Stays(d) ==
  Recorded(d) =>
    \/ Matches(d) \/ d \in unapplied \/ Queued(d)
    \/ \E t \in Thread : pc[t] = "keys"
    \/ Sure(d)
StayOK == \A d \in Device : Stays(d)

\* The invariant when no rescan overlaps a reload.
GrantInv == Inv /\ HoldOK /\ WatchOK /\ Apart /\ ReadOK /\ AimOK /\ StayOK

\* Who holds the lock is in the loop, and a list is used up.
LEMMA HoldStep ==
  ASSUME TypeOK, StepOK, HoldOK, [Next]_vars
  PROVE  HoldOK'
<1> USE DevicesAssumption DEF TypeOK, StepOK, HoldOK, Thread, Step, hostVars, planVars,
        stateVars, devVars, localVars
<1>1. ASSUME NEW e \in Device, NEW x \in Entries[e] \cup {Absent}, HostChange(e, x) PROVE HoldOK'
  BY <1>1 DEF HostChange
<1>2. CASE WatcherNew
  BY <1>2 DEF WatcherNew
<1>3. CASE WatcherFails
  BY <1>3 DEF WatcherFails
<1>4. ASSUME NEW e \in Device, WatcherEvent(e) PROVE HoldOK'
  BY <1>4 DEF WatcherEvent
<1>5. CASE WatcherRescan
  BY <1>5 DEF WatcherRescan
<1>6. CASE ReloadRestart
  BY <1>6 DEF ReloadRestart
<1>7. ASSUME NEW classes \in SUBSET Class, ReloadPlan(classes) PROVE HoldOK'
  BY <1>7 DEF ReloadPlan, CanReload
<1>8. ASSUME NEW failed \in SUBSET {"mount"}, ReloadReasons(failed) PROVE HoldOK'
  BY <1>8 DEF ReloadReasons
<1>9. ASSUME NEW t \in Thread, Scan(t) PROVE HoldOK'
  BY <1>9 DEF Scan
<1>10. ASSUME NEW t \in Thread, AddRecorded(t) PROVE HoldOK'
  BY <1>10 DEF AddRecorded
<1>11. ASSUME NEW t \in Thread, AllReconciled(t) PROVE HoldOK'
  BY <1>11 DEF AllReconciled
<1>12. ASSUME NEW t \in Thread, NEW e \in Device, Acquire(t, e) PROVE HoldOK'
  BY <1>12 DEF Acquire
<1>13. CASE ReadDevice
  BY <1>13 DEF ReadDevice
<1>14. CASE Classify
  BY <1>14 DEF Classify
<1>15. CASE CheckIncomplete
  BY <1>15 DEF CheckIncomplete
<1>16. CASE Decide
  BY <1>16 DEF Decide
<1>17. CASE Release
  BY <1>17 DEF Release
<1>18. CASE PublishClone
  BY <1>18 DEF PublishClone
<1>19. CASE PublishAttach
  BY <1>19 DEF PublishAttach
<1>20. CASE PublishFails
  BY <1>20 DEF PublishFails
<1>21. CASE PublishRecord
  BY <1>21 DEF PublishRecord
<1>22. ASSUME NEW n \in Name, PublishLink(n) PROVE HoldOK'
  BY <1>22 DEF PublishLink
<1>23. CASE PublishLinkFails
  BY <1>23 DEF PublishLinkFails
<1>24. CASE PublishComplete
  BY <1>24 DEF PublishComplete
<1>25. CASE UnpublishMark
  BY <1>25 DEF UnpublishMark
<1>26. CASE UnpublishLinks
  BY <1>26 DEF UnpublishLinks
<1>27. CASE UnpublishDetach
  BY <1>27 DEF UnpublishDetach
<1>28. CASE UnpublishFails
  BY <1>28 DEF UnpublishFails
<1>29. CASE UnpublishForget
  BY <1>29 DEF UnpublishForget
<1>30. CASE UNCHANGED vars
  BY <1>30 DEF vars
<1>31. QED
  BY <1>1, <1>2, <1>3, <1>4, <1>5, <1>6, <1>7, <1>8, <1>9, <1>10, <1>11, <1>12, <1>13, <1>14,
     <1>15, <1>16, <1>17, <1>18,
     <1>19, <1>20, <1>21, <1>22, <1>23, <1>24, <1>25, <1>26, <1>27, <1>28, <1>29, <1>30
     DEF Next, HostNext, ReloadNext, ThreadStep, Reconcile

\* The watch is made before the first scan.
LEMMA WatchStep ==
  ASSUME TypeOK, WatchOK, [Next]_vars
  PROVE  WatchOK'
<1> USE DevicesAssumption DEF TypeOK, WatchOK, Thread, hostVars, planVars, stateVars, devVars,
        localVars
<1>1. ASSUME NEW e \in Device, NEW x \in Entries[e] \cup {Absent}, HostChange(e, x) PROVE WatchOK'
  BY <1>1 DEF HostChange
<1>2. CASE WatcherNew
  BY <1>2 DEF WatcherNew
<1>3. CASE WatcherFails
  BY <1>3 DEF WatcherFails
<1>4. ASSUME NEW e \in Device, WatcherEvent(e) PROVE WatchOK'
  BY <1>4 DEF WatcherEvent
<1>5. CASE WatcherRescan
  BY <1>5 DEF WatcherRescan
<1>6. CASE ReloadRestart
  BY <1>6 DEF ReloadRestart
<1>7. ASSUME NEW classes \in SUBSET Class, ReloadPlan(classes) PROVE WatchOK'
  BY <1>7 DEF ReloadPlan, CanReload
<1>8. ASSUME NEW failed \in SUBSET {"mount"}, ReloadReasons(failed) PROVE WatchOK'
  BY <1>8 DEF ReloadReasons
<1>9. ASSUME NEW t \in Thread, Scan(t) PROVE WatchOK'
  BY <1>9 DEF Scan
<1>10. ASSUME NEW t \in Thread, AddRecorded(t) PROVE WatchOK'
  BY <1>10 DEF AddRecorded
<1>11. ASSUME NEW t \in Thread, AllReconciled(t) PROVE WatchOK'
  BY <1>11 DEF AllReconciled
<1>12. ASSUME NEW t \in Thread, NEW e \in Device, Acquire(t, e) PROVE WatchOK'
  BY <1>12 DEF Acquire
<1>13. CASE ReadDevice
  BY <1>13 DEF ReadDevice
<1>14. CASE Classify
  BY <1>14 DEF Classify
<1>15. CASE CheckIncomplete
  BY <1>15 DEF CheckIncomplete
<1>16. CASE Decide
  BY <1>16 DEF Decide
<1>17. CASE Release
  BY <1>17 DEF Release
<1>18. CASE PublishClone
  BY <1>18 DEF PublishClone
<1>19. CASE PublishAttach
  BY <1>19 DEF PublishAttach
<1>20. CASE PublishFails
  BY <1>20 DEF PublishFails
<1>21. CASE PublishRecord
  BY <1>21 DEF PublishRecord
<1>22. ASSUME NEW n \in Name, PublishLink(n) PROVE WatchOK'
  BY <1>22 DEF PublishLink
<1>23. CASE PublishLinkFails
  BY <1>23 DEF PublishLinkFails
<1>24. CASE PublishComplete
  BY <1>24 DEF PublishComplete
<1>25. CASE UnpublishMark
  BY <1>25 DEF UnpublishMark
<1>26. CASE UnpublishLinks
  BY <1>26 DEF UnpublishLinks
<1>27. CASE UnpublishDetach
  BY <1>27 DEF UnpublishDetach
<1>28. CASE UnpublishFails
  BY <1>28 DEF UnpublishFails
<1>29. CASE UnpublishForget
  BY <1>29 DEF UnpublishForget
<1>30. CASE UNCHANGED vars
  BY <1>30 DEF vars
<1>31. QED
  BY <1>1, <1>2, <1>3, <1>4, <1>5, <1>6, <1>7, <1>8, <1>9, <1>10, <1>11, <1>12, <1>13, <1>14,
     <1>15, <1>16, <1>17, <1>18,
     <1>19, <1>20, <1>21, <1>22, <1>23, <1>24, <1>25, <1>26, <1>27, <1>28, <1>29, <1>30
     DEF Next, HostNext, ReloadNext, ThreadStep, Reconcile

\* A reload waits for a rescan, and a rescan for a reload.
LEMMA ApartStep ==
  ASSUME TypeOK, ~RescanRace, Apart, [Next]_vars
  PROVE  Apart'
<1> USE DevicesAssumption DEF TypeOK, Apart, Thread, hostVars, planVars, stateVars, devVars,
        localVars
<1>1. ASSUME NEW e \in Device, NEW x \in Entries[e] \cup {Absent}, HostChange(e, x) PROVE Apart'
  BY <1>1 DEF HostChange
<1>2. CASE WatcherNew
  BY <1>2 DEF WatcherNew
<1>3. CASE WatcherFails
  BY <1>3 DEF WatcherFails
<1>4. ASSUME NEW e \in Device, WatcherEvent(e) PROVE Apart'
  BY <1>4 DEF WatcherEvent
<1>5. CASE WatcherRescan
  BY <1>5 DEF WatcherRescan
<1>6. CASE ReloadRestart
  BY <1>6 DEF ReloadRestart
<1>7. ASSUME NEW classes \in SUBSET Class, ReloadPlan(classes) PROVE Apart'
  BY <1>7 DEF ReloadPlan, CanReload
<1>8. ASSUME NEW failed \in SUBSET {"mount"}, ReloadReasons(failed) PROVE Apart'
  BY <1>8 DEF ReloadReasons
<1>9. ASSUME NEW t \in Thread, Scan(t) PROVE Apart'
  BY <1>9 DEF Scan
<1>10. ASSUME NEW t \in Thread, AddRecorded(t) PROVE Apart'
  BY <1>10 DEF AddRecorded
<1>11. ASSUME NEW t \in Thread, AllReconciled(t) PROVE Apart'
  BY <1>11 DEF AllReconciled
<1>12. ASSUME NEW t \in Thread, NEW e \in Device, Acquire(t, e) PROVE Apart'
  BY <1>12 DEF Acquire
<1>13. CASE ReadDevice
  BY <1>13 DEF ReadDevice
<1>14. CASE Classify
  BY <1>14 DEF Classify
<1>15. CASE CheckIncomplete
  BY <1>15 DEF CheckIncomplete
<1>16. CASE Decide
  BY <1>16 DEF Decide
<1>17. CASE Release
  BY <1>17 DEF Release
<1>18. CASE PublishClone
  BY <1>18 DEF PublishClone
<1>19. CASE PublishAttach
  BY <1>19 DEF PublishAttach
<1>20. CASE PublishFails
  BY <1>20 DEF PublishFails
<1>21. CASE PublishRecord
  BY <1>21 DEF PublishRecord
<1>22. ASSUME NEW n \in Name, PublishLink(n) PROVE Apart'
  BY <1>22 DEF PublishLink
<1>23. CASE PublishLinkFails
  BY <1>23 DEF PublishLinkFails
<1>24. CASE PublishComplete
  BY <1>24 DEF PublishComplete
<1>25. CASE UnpublishMark
  BY <1>25 DEF UnpublishMark
<1>26. CASE UnpublishLinks
  BY <1>26 DEF UnpublishLinks
<1>27. CASE UnpublishDetach
  BY <1>27 DEF UnpublishDetach
<1>28. CASE UnpublishFails
  BY <1>28 DEF UnpublishFails
<1>29. CASE UnpublishForget
  BY <1>29 DEF UnpublishForget
<1>30. CASE UNCHANGED vars
  BY <1>30 DEF vars
<1>31. QED
  BY <1>1, <1>2, <1>3, <1>4, <1>5, <1>6, <1>7, <1>8, <1>9, <1>10, <1>11, <1>12, <1>13, <1>14,
     <1>15, <1>16, <1>17, <1>18,
     <1>19, <1>20, <1>21, <1>22, <1>23, <1>24, <1>25, <1>26, <1>27, <1>28, <1>29, <1>30
     DEF Next, HostNext, ReloadNext, ThreadStep, Reconcile

\* A change after the device was read is still to be handled by the watcher: it is
\* the holder of the lock, or waits for it.
LEMMA ReadStep ==
  ASSUME TypeOK, StepOK, HoldOK, WatchOK, Apart, ReadOK, [Next]_vars
  PROVE  ReadOK'
<1> USE DevicesAssumption DEF TypeOK, StepOK, HoldOK, WatchOK, Apart, ReadOK, Late, WithRecord,
        WithoutRecord, Thread, Step, hostVars, planVars, stateVars, devVars, localVars
<1>1. ASSUME NEW e \in Device, NEW x \in Entries[e] \cup {Absent}, HostChange(e, x) PROVE ReadOK'
  BY <1>1 DEF HostChange
<1>2. CASE WatcherNew
  BY <1>2 DEF WatcherNew
<1>3. CASE WatcherFails
  BY <1>3 DEF WatcherFails
<1>4. ASSUME NEW e \in Device, WatcherEvent(e) PROVE ReadOK'
  BY <1>4 DEF WatcherEvent
<1>5. CASE WatcherRescan
  BY <1>5 DEF WatcherRescan
<1>6. CASE ReloadRestart
  BY <1>6 DEF ReloadRestart
<1>7. ASSUME NEW classes \in SUBSET Class, ReloadPlan(classes) PROVE ReadOK'
  BY <1>7 DEF ReloadPlan, CanReload
<1>8. ASSUME NEW failed \in SUBSET {"mount"}, ReloadReasons(failed) PROVE ReadOK'
  BY <1>8 DEF ReloadReasons
<1>9. ASSUME NEW t \in Thread, Scan(t) PROVE ReadOK'
  BY <1>9 DEF Scan
<1>10. ASSUME NEW t \in Thread, AddRecorded(t) PROVE ReadOK'
  BY <1>10 DEF AddRecorded
<1>11. ASSUME NEW t \in Thread, AllReconciled(t) PROVE ReadOK'
  BY <1>11 DEF AllReconciled
<1>12. ASSUME NEW t \in Thread, NEW e \in Device, Acquire(t, e) PROVE ReadOK'
  BY <1>12 DEF Acquire
<1>13. CASE ReadDevice
  BY <1>13 DEF ReadDevice
<1>14. CASE Classify
  BY <1>14 DEF Classify, classify
<1>15. CASE CheckIncomplete
  BY <1>15 DEF CheckIncomplete
<1>16. CASE Decide
  BY <1>16 DEF Decide
<1>17. CASE Release
  BY <1>17 DEF Release
<1>18. CASE PublishClone
  BY <1>18 DEF PublishClone
<1>19. CASE PublishAttach
  BY <1>19 DEF PublishAttach
<1>20. CASE PublishFails
  BY <1>20 DEF PublishFails
<1>21. CASE PublishRecord
  BY <1>21 DEF PublishRecord
<1>22. ASSUME NEW n \in Name, PublishLink(n) PROVE ReadOK'
  BY <1>22 DEF PublishLink
<1>23. CASE PublishLinkFails
  BY <1>23 DEF PublishLinkFails
<1>24. CASE PublishComplete
  BY <1>24 DEF PublishComplete
<1>25. CASE UnpublishMark
  BY <1>25 DEF UnpublishMark
<1>26. CASE UnpublishLinks
  BY <1>26 DEF UnpublishLinks
<1>27. CASE UnpublishDetach
  BY <1>27 DEF UnpublishDetach
<1>28. CASE UnpublishFails
  BY <1>28 DEF UnpublishFails
<1>29. CASE UnpublishForget
  BY <1>29 DEF UnpublishForget
<1>30. CASE UNCHANGED vars
  BY <1>30 DEF vars
<1>31. QED
  BY <1>1, <1>2, <1>3, <1>4, <1>5, <1>6, <1>7, <1>8, <1>9, <1>10, <1>11, <1>12, <1>13, <1>14,
     <1>15, <1>16, <1>17, <1>18,
     <1>19, <1>20, <1>21, <1>22, <1>23, <1>24, <1>25, <1>26, <1>27, <1>28, <1>29, <1>30
     DEF Next, HostNext, ReloadNext, ThreadStep, Reconcile

\* A plan that changes makes a reload list the devices, and that list has the one
\* being published unless udev has removed it.
LEMMA AimStep ==
  ASSUME TypeOK, StepOK, HoldOK, WatchOK, Apart, ReadOK, AimOK, [Next]_vars
  PROVE  AimOK'
<1> USE DevicesAssumption DEF TypeOK, StepOK, HoldOK, WatchOK, Apart, ReadOK, AimOK, Queued,
        Matches, Late, WithRecord, WithoutRecord, Thread, Step, hostVars, planVars, stateVars,
        devVars, localVars
<1>1. ASSUME NEW e \in Device, NEW x \in Entries[e] \cup {Absent}, HostChange(e, x) PROVE AimOK'
  BY <1>1 DEF HostChange
<1>2. CASE WatcherNew
  BY <1>2 DEF WatcherNew
<1>3. CASE WatcherFails
  BY <1>3 DEF WatcherFails
<1>4. ASSUME NEW e \in Device, WatcherEvent(e) PROVE AimOK'
  BY <1>4 DEF WatcherEvent
<1>5. CASE WatcherRescan
  BY <1>5 DEF WatcherRescan
<1>6. CASE ReloadRestart
  BY <1>6 DEF ReloadRestart
<1>7. ASSUME NEW classes \in SUBSET Class, ReloadPlan(classes) PROVE AimOK'
  BY <1>7 DEF ReloadPlan, CanReload
<1>8. ASSUME NEW failed \in SUBSET {"mount"}, ReloadReasons(failed) PROVE AimOK'
  BY <1>8 DEF ReloadReasons
<1>9. ASSUME NEW t \in Thread, Scan(t) PROVE AimOK'
  BY <1>9 DEF Scan
<1>10. ASSUME NEW t \in Thread, AddRecorded(t) PROVE AimOK'
  BY <1>10 DEF AddRecorded
<1>11. ASSUME NEW t \in Thread, AllReconciled(t) PROVE AimOK'
  BY <1>11 DEF AllReconciled
<1>12. ASSUME NEW t \in Thread, NEW e \in Device, Acquire(t, e) PROVE AimOK'
  BY <1>12 DEF Acquire
<1>13. CASE ReadDevice
  BY <1>13 DEF ReadDevice
<1>14. CASE Classify
  BY <1>14 DEF Classify, classify
<1>15. CASE CheckIncomplete
  BY <1>15 DEF CheckIncomplete
<1>16. CASE Decide
  BY <1>16 DEF Decide
<1>17. CASE Release
  BY <1>17 DEF Release
<1>18. CASE PublishClone
  BY <1>18 DEF PublishClone
<1>19. CASE PublishAttach
  BY <1>19 DEF PublishAttach
<1>20. CASE PublishFails
  BY <1>20 DEF PublishFails
<1>21. CASE PublishRecord
  BY <1>21 DEF PublishRecord
<1>22. ASSUME NEW n \in Name, PublishLink(n) PROVE AimOK'
  BY <1>22 DEF PublishLink
<1>23. CASE PublishLinkFails
  BY <1>23 DEF PublishLinkFails
<1>24. CASE PublishComplete
  BY <1>24 DEF PublishComplete
<1>25. CASE UnpublishMark
  BY <1>25 DEF UnpublishMark
<1>26. CASE UnpublishLinks
  BY <1>26 DEF UnpublishLinks
<1>27. CASE UnpublishDetach
  BY <1>27 DEF UnpublishDetach
<1>28. CASE UnpublishFails
  BY <1>28 DEF UnpublishFails
<1>29. CASE UnpublishForget
  BY <1>29 DEF UnpublishForget
<1>30. CASE UNCHANGED vars
  BY <1>30 DEF vars
<1>31. QED
  BY <1>1, <1>2, <1>3, <1>4, <1>5, <1>6, <1>7, <1>8, <1>9, <1>10, <1>11, <1>12, <1>13, <1>14,
     <1>15, <1>16, <1>17, <1>18,
     <1>19, <1>20, <1>21, <1>22, <1>23, <1>24, <1>25, <1>26, <1>27, <1>28, <1>29, <1>30
     DEF Next, HostNext, ReloadNext, ThreadStep, Reconcile

\* A record that does not match does not stay.
LEMMA StayStep ==
  ASSUME TypeOK, StepOK, HoldOK, WatchOK, Apart, ReadOK, AimOK, NEW d \in Device, Stays(d),
         [Next]_vars
  PROVE  Stays(d)'
<1> USE DevicesAssumption DEF TypeOK, StepOK, HoldOK, WatchOK, Apart, ReadOK, AimOK, Queued,
        Matches, Sure, Stays, Recorded, Late, WithRecord, WithoutRecord, Thread, Step, hostVars,
        planVars, stateVars, devVars, localVars
<1>1. ASSUME NEW e \in Device, NEW x \in Entries[e] \cup {Absent}, HostChange(e, x) PROVE Stays(d)'
  BY <1>1 DEF HostChange
<1>2. CASE WatcherNew
  BY <1>2 DEF WatcherNew
<1>3. CASE WatcherFails
  BY <1>3 DEF WatcherFails
<1>4. ASSUME NEW e \in Device, WatcherEvent(e) PROVE Stays(d)'
  BY <1>4 DEF WatcherEvent
<1>5. CASE WatcherRescan
  BY <1>5 DEF WatcherRescan
<1>6. CASE ReloadRestart
  BY <1>6 DEF ReloadRestart
<1>7. ASSUME NEW classes \in SUBSET Class, ReloadPlan(classes) PROVE Stays(d)'
  BY <1>7 DEF ReloadPlan, CanReload
<1>8. ASSUME NEW failed \in SUBSET {"mount"}, ReloadReasons(failed) PROVE Stays(d)'
  BY <1>8 DEF ReloadReasons
<1>9. ASSUME NEW t \in Thread, Scan(t) PROVE Stays(d)'
  BY <1>9 DEF Scan
<1>10. ASSUME NEW t \in Thread, AddRecorded(t) PROVE Stays(d)'
  BY <1>10 DEF AddRecorded
<1>11. ASSUME NEW t \in Thread, AllReconciled(t) PROVE Stays(d)'
  BY <1>11 DEF AllReconciled
<1>12. ASSUME NEW t \in Thread, NEW e \in Device, Acquire(t, e) PROVE Stays(d)'
  BY <1>12 DEF Acquire
<1>13. CASE ReadDevice
  BY <1>13 DEF ReadDevice
<1>14. CASE Classify
  BY <1>14 DEF Classify, classify
<1>15. CASE CheckIncomplete
  BY <1>15 DEF CheckIncomplete
<1>16. CASE Decide
  BY <1>16 DEF Decide
<1>17. CASE Release
  BY <1>17 DEF Release
<1>18. CASE PublishClone
  BY <1>18 DEF PublishClone
<1>19. CASE PublishAttach
  BY <1>19 DEF PublishAttach
<1>20. CASE PublishFails
  BY <1>20 DEF PublishFails
<1>21. CASE PublishRecord
  BY <1>21 DEF PublishRecord
<1>22. ASSUME NEW n \in Name, PublishLink(n) PROVE Stays(d)'
  BY <1>22 DEF PublishLink
<1>23. CASE PublishLinkFails
  BY <1>23 DEF PublishLinkFails
<1>24. CASE PublishComplete
  BY <1>24 DEF PublishComplete
<1>25. CASE UnpublishMark
  BY <1>25 DEF UnpublishMark
<1>26. CASE UnpublishLinks
  BY <1>26 DEF UnpublishLinks
<1>27. CASE UnpublishDetach
  BY <1>27 DEF UnpublishDetach
<1>28. CASE UnpublishFails
  BY <1>28 DEF UnpublishFails
<1>29. CASE UnpublishForget
  BY <1>29 DEF UnpublishForget
<1>30. CASE UNCHANGED vars
  BY <1>30 DEF vars
<1>31. QED
  BY <1>1, <1>2, <1>3, <1>4, <1>5, <1>6, <1>7, <1>8, <1>9, <1>10, <1>11, <1>12, <1>13, <1>14,
     <1>15, <1>16, <1>17, <1>18,
     <1>19, <1>20, <1>21, <1>22, <1>23, <1>24, <1>25, <1>26, <1>27, <1>28, <1>29, <1>30
     DEF Next, HostNext, ReloadNext, ThreadStep, Reconcile

\* What reconcile has read is what udev says, unless the device is gone or is
\* reconciled again.
ReadNow == step \notin {"free", "read"} /\ seen # host[cur] => host[cur] = Absent \/ Queued(cur)

\* When nothing fails, it publishes what it found classes for and unpublishes the rest.
FoundOK ==
  /\ step \in {"clone", "attach", "record", "link"} => cls # {}
  /\ step \in {"mark", "unlink", "detach", "forget"} => cls = {}
  /\ step \in Late /\ cls # {} => seen # Absent

\* When nothing fails, only the device at hand has a record that is not complete.
CompleteOK ==
  \A d \in Device : Recorded(d) /\ ~devices[d].complete =>
    cur = d /\ step \in {"link", "unlink", "detach", "forget"}

\* A device that matches and for which no classes were found is reconciled again.
MissOK == step \in Late /\ cls = {} /\ Matches(cur) => Queued(cur)

\* Reconcile will publish d.
Coming(d) ==
  /\ cur = d
  /\ \/ step = "read" \/ (step = "classify" /\ seen = host[d])
     \/ step \in {"check", "decide"} /\ cls # {}
     \/ step \in {"clone", "attach"} /\ seen = host[d]
     \/ step \in {"record", "link"}

\* A device that matches is published with all its links, or will be.
Comes(d) == Matches(d) => Queued(d) \/ (Recorded(d) /\ devices[d].complete) \/ Coming(d)
ComeOK == \A d \in Device : Comes(d)

\* The invariant when nothing fails.
PublishInv ==
  Inv /\ HoldOK /\ WatchOK /\ pc["watcher"] # "dead" /\ ReadNow /\ FoundOK /\ CompleteOK /\ MissOK /\ ComeOK


\* When nothing fails, the watcher goes on.
LEMMA LivesStep ==
  ASSUME TypeOK, intact', pc["watcher"] # "dead", [Next]_vars
  PROVE  pc'["watcher"] # "dead"
<1> USE DevicesAssumption DEF TypeOK, Thread, hostVars, planVars, stateVars, devVars, localVars
<1>1. ASSUME NEW e \in Device, NEW x \in Entries[e] \cup {Absent}, HostChange(e, x) PROVE pc'["watcher"] # "dead"
  BY <1>1 DEF HostChange
<1>2. CASE WatcherNew
  BY <1>2 DEF WatcherNew
<1>3. CASE WatcherFails
  BY <1>3 DEF WatcherFails
<1>4. ASSUME NEW e \in Device, WatcherEvent(e) PROVE pc'["watcher"] # "dead"
  BY <1>4 DEF WatcherEvent
<1>5. CASE WatcherRescan
  BY <1>5 DEF WatcherRescan
<1>6. CASE ReloadRestart
  BY <1>6 DEF ReloadRestart
<1>7. ASSUME NEW classes \in SUBSET Class, ReloadPlan(classes) PROVE pc'["watcher"] # "dead"
  BY <1>7 DEF ReloadPlan, CanReload
<1>8. ASSUME NEW failed \in SUBSET {"mount"}, ReloadReasons(failed) PROVE pc'["watcher"] # "dead"
  BY <1>8 DEF ReloadReasons
<1>9. ASSUME NEW t \in Thread, Scan(t) PROVE pc'["watcher"] # "dead"
  BY <1>9 DEF Scan
<1>10. ASSUME NEW t \in Thread, AddRecorded(t) PROVE pc'["watcher"] # "dead"
  BY <1>10 DEF AddRecorded
<1>11. ASSUME NEW t \in Thread, AllReconciled(t) PROVE pc'["watcher"] # "dead"
  BY <1>11 DEF AllReconciled
<1>12. ASSUME NEW t \in Thread, NEW e \in Device, Acquire(t, e) PROVE pc'["watcher"] # "dead"
  BY <1>12 DEF Acquire
<1>13. CASE ReadDevice
  BY <1>13 DEF ReadDevice
<1>14. CASE Classify
  BY <1>14 DEF Classify
<1>15. CASE CheckIncomplete
  BY <1>15 DEF CheckIncomplete
<1>16. CASE Decide
  BY <1>16 DEF Decide
<1>17. CASE Release
  BY <1>17 DEF Release
<1>18. CASE PublishClone
  BY <1>18 DEF PublishClone
<1>19. CASE PublishAttach
  BY <1>19 DEF PublishAttach
<1>20. CASE PublishFails
  BY <1>20 DEF PublishFails
<1>21. CASE PublishRecord
  BY <1>21 DEF PublishRecord
<1>22. ASSUME NEW n \in Name, PublishLink(n) PROVE pc'["watcher"] # "dead"
  BY <1>22 DEF PublishLink
<1>23. CASE PublishLinkFails
  BY <1>23 DEF PublishLinkFails
<1>24. CASE PublishComplete
  BY <1>24 DEF PublishComplete
<1>25. CASE UnpublishMark
  BY <1>25 DEF UnpublishMark
<1>26. CASE UnpublishLinks
  BY <1>26 DEF UnpublishLinks
<1>27. CASE UnpublishDetach
  BY <1>27 DEF UnpublishDetach
<1>28. CASE UnpublishFails
  BY <1>28 DEF UnpublishFails
<1>29. CASE UnpublishForget
  BY <1>29 DEF UnpublishForget
<1>30. CASE UNCHANGED vars
  BY <1>30 DEF vars
<1>31. QED
  BY <1>1, <1>2, <1>3, <1>4, <1>5, <1>6, <1>7, <1>8, <1>9, <1>10, <1>11, <1>12, <1>13, <1>14,
     <1>15, <1>16, <1>17, <1>18,
     <1>19, <1>20, <1>21, <1>22, <1>23, <1>24, <1>25, <1>26, <1>27, <1>28, <1>29, <1>30
     DEF Next, HostNext, ReloadNext, ThreadStep, Reconcile

\* What udev still knows and has changed is read again.
LEMMA ReadNowStep ==
  ASSUME TypeOK, StepOK, HoldOK, WatchOK, intact', pc["watcher"] # "dead", ReadNow, [Next]_vars
  PROVE  ReadNow'
<1> USE DevicesAssumption DEF TypeOK, StepOK, HoldOK, WatchOK, ReadNow, Queued, Thread, Step,
        hostVars, planVars, stateVars, devVars, localVars
<1>1. ASSUME NEW e \in Device, NEW x \in Entries[e] \cup {Absent}, HostChange(e, x) PROVE ReadNow'
  BY <1>1 DEF HostChange
<1>2. CASE WatcherNew
  BY <1>2 DEF WatcherNew
<1>3. CASE WatcherFails
  BY <1>3 DEF WatcherFails
<1>4. ASSUME NEW e \in Device, WatcherEvent(e) PROVE ReadNow'
  BY <1>4 DEF WatcherEvent
<1>5. CASE WatcherRescan
  BY <1>5 DEF WatcherRescan
<1>6. CASE ReloadRestart
  BY <1>6 DEF ReloadRestart
<1>7. ASSUME NEW classes \in SUBSET Class, ReloadPlan(classes) PROVE ReadNow'
  BY <1>7 DEF ReloadPlan, CanReload
<1>8. ASSUME NEW failed \in SUBSET {"mount"}, ReloadReasons(failed) PROVE ReadNow'
  BY <1>8 DEF ReloadReasons
<1>9. ASSUME NEW t \in Thread, Scan(t) PROVE ReadNow'
  BY <1>9 DEF Scan
<1>10. ASSUME NEW t \in Thread, AddRecorded(t) PROVE ReadNow'
  BY <1>10 DEF AddRecorded
<1>11. ASSUME NEW t \in Thread, AllReconciled(t) PROVE ReadNow'
  BY <1>11 DEF AllReconciled
<1>12. ASSUME NEW t \in Thread, NEW e \in Device, Acquire(t, e) PROVE ReadNow'
  BY <1>12 DEF Acquire
<1>13. CASE ReadDevice
  BY <1>13 DEF ReadDevice
<1>14. CASE Classify
  BY <1>14 DEF Classify, classify
<1>15. CASE CheckIncomplete
  BY <1>15 DEF CheckIncomplete
<1>16. CASE Decide
  BY <1>16 DEF Decide
<1>17. CASE Release
  BY <1>17 DEF Release
<1>18. CASE PublishClone
  BY <1>18 DEF PublishClone
<1>19. CASE PublishAttach
  BY <1>19 DEF PublishAttach
<1>20. CASE PublishFails
  BY <1>20 DEF PublishFails
<1>21. CASE PublishRecord
  BY <1>21 DEF PublishRecord
<1>22. ASSUME NEW n \in Name, PublishLink(n) PROVE ReadNow'
  BY <1>22 DEF PublishLink
<1>23. CASE PublishLinkFails
  BY <1>23 DEF PublishLinkFails
<1>24. CASE PublishComplete
  BY <1>24 DEF PublishComplete
<1>25. CASE UnpublishMark
  BY <1>25 DEF UnpublishMark
<1>26. CASE UnpublishLinks
  BY <1>26 DEF UnpublishLinks
<1>27. CASE UnpublishDetach
  BY <1>27 DEF UnpublishDetach
<1>28. CASE UnpublishFails
  BY <1>28 DEF UnpublishFails
<1>29. CASE UnpublishForget
  BY <1>29 DEF UnpublishForget
<1>30. CASE UNCHANGED vars
  BY <1>30 DEF vars
<1>31. QED
  BY <1>1, <1>2, <1>3, <1>4, <1>5, <1>6, <1>7, <1>8, <1>9, <1>10, <1>11, <1>12, <1>13, <1>14,
     <1>15, <1>16, <1>17, <1>18,
     <1>19, <1>20, <1>21, <1>22, <1>23, <1>24, <1>25, <1>26, <1>27, <1>28, <1>29, <1>30
     DEF Next, HostNext, ReloadNext, ThreadStep, Reconcile

\* Reconcile follows the classes it found.
LEMMA FoundStep ==
  ASSUME TypeOK, StepOK, HoldOK, WatchOK, intact', pc["watcher"] # "dead", CompleteOK,
         FoundOK, [Next]_vars
  PROVE  FoundOK'
<1> USE DevicesAssumption DEF TypeOK, StepOK, FoundOK, CompleteOK, Recorded, Published, Late,
        WithRecord, WithoutRecord, Step, hostVars, planVars, stateVars, devVars, localVars
<1>1. ASSUME NEW e \in Device, NEW x \in Entries[e] \cup {Absent}, HostChange(e, x) PROVE FoundOK'
  BY <1>1 DEF HostChange
<1>2. CASE WatcherNew
  BY <1>2 DEF WatcherNew
<1>3. CASE WatcherFails
  BY <1>3 DEF WatcherFails
<1>4. ASSUME NEW e \in Device, WatcherEvent(e) PROVE FoundOK'
  BY <1>4 DEF WatcherEvent
<1>5. CASE WatcherRescan
  BY <1>5 DEF WatcherRescan
<1>6. CASE ReloadRestart
  BY <1>6 DEF ReloadRestart
<1>7. ASSUME NEW classes \in SUBSET Class, ReloadPlan(classes) PROVE FoundOK'
  BY <1>7 DEF ReloadPlan, CanReload
<1>8. ASSUME NEW failed \in SUBSET {"mount"}, ReloadReasons(failed) PROVE FoundOK'
  BY <1>8 DEF ReloadReasons
<1>9. ASSUME NEW t \in Thread, Scan(t) PROVE FoundOK'
  BY <1>9 DEF Scan
<1>10. ASSUME NEW t \in Thread, AddRecorded(t) PROVE FoundOK'
  BY <1>10 DEF AddRecorded
<1>11. ASSUME NEW t \in Thread, AllReconciled(t) PROVE FoundOK'
  BY <1>11 DEF AllReconciled
<1>12. ASSUME NEW t \in Thread, NEW e \in Device, Acquire(t, e) PROVE FoundOK'
  BY <1>12 DEF Acquire
<1>13. CASE ReadDevice
  BY <1>13 DEF ReadDevice
<1>14. CASE Classify
  BY <1>14 DEF Classify, classify
<1>15. CASE CheckIncomplete
  BY <1>15 DEF CheckIncomplete
<1>16. CASE Decide
  BY <1>16 DEF Decide
<1>17. CASE Release
  BY <1>17 DEF Release
<1>18. CASE PublishClone
  BY <1>18 DEF PublishClone
<1>19. CASE PublishAttach
  BY <1>19 DEF PublishAttach
<1>20. CASE PublishFails
  BY <1>20 DEF PublishFails
<1>21. CASE PublishRecord
  BY <1>21 DEF PublishRecord
<1>22. ASSUME NEW n \in Name, PublishLink(n) PROVE FoundOK'
  BY <1>22 DEF PublishLink
<1>23. CASE PublishLinkFails
  BY <1>23 DEF PublishLinkFails
<1>24. CASE PublishComplete
  BY <1>24 DEF PublishComplete
<1>25. CASE UnpublishMark
  BY <1>25 DEF UnpublishMark
<1>26. CASE UnpublishLinks
  BY <1>26 DEF UnpublishLinks
<1>27. CASE UnpublishDetach
  BY <1>27 DEF UnpublishDetach
<1>28. CASE UnpublishFails
  BY <1>28 DEF UnpublishFails
<1>29. CASE UnpublishForget
  BY <1>29 DEF UnpublishForget
<1>30. CASE UNCHANGED vars
  BY <1>30 DEF vars
<1>31. QED
  BY <1>1, <1>2, <1>3, <1>4, <1>5, <1>6, <1>7, <1>8, <1>9, <1>10, <1>11, <1>12, <1>13, <1>14,
     <1>15, <1>16, <1>17, <1>18,
     <1>19, <1>20, <1>21, <1>22, <1>23, <1>24, <1>25, <1>26, <1>27, <1>28, <1>29, <1>30
     DEF Next, HostNext, ReloadNext, ThreadStep, Reconcile

\* No record is left half made.
LEMMA CompleteStep ==
  ASSUME TypeOK, StepOK, HoldOK, WatchOK, intact', pc["watcher"] # "dead", CompleteOK, [Next]_vars
  PROVE  CompleteOK'
<1> USE DevicesAssumption DEF TypeOK, StepOK, CompleteOK, Recorded, Published, WithRecord,
        WithoutRecord, Step, hostVars, planVars, stateVars, devVars, localVars
<1>1. ASSUME NEW e \in Device, NEW x \in Entries[e] \cup {Absent}, HostChange(e, x) PROVE CompleteOK'
  BY <1>1 DEF HostChange
<1>2. CASE WatcherNew
  BY <1>2 DEF WatcherNew
<1>3. CASE WatcherFails
  BY <1>3 DEF WatcherFails
<1>4. ASSUME NEW e \in Device, WatcherEvent(e) PROVE CompleteOK'
  BY <1>4 DEF WatcherEvent
<1>5. CASE WatcherRescan
  BY <1>5 DEF WatcherRescan
<1>6. CASE ReloadRestart
  BY <1>6 DEF ReloadRestart
<1>7. ASSUME NEW classes \in SUBSET Class, ReloadPlan(classes) PROVE CompleteOK'
  BY <1>7 DEF ReloadPlan, CanReload
<1>8. ASSUME NEW failed \in SUBSET {"mount"}, ReloadReasons(failed) PROVE CompleteOK'
  BY <1>8 DEF ReloadReasons
<1>9. ASSUME NEW t \in Thread, Scan(t) PROVE CompleteOK'
  BY <1>9 DEF Scan
<1>10. ASSUME NEW t \in Thread, AddRecorded(t) PROVE CompleteOK'
  BY <1>10 DEF AddRecorded
<1>11. ASSUME NEW t \in Thread, AllReconciled(t) PROVE CompleteOK'
  BY <1>11 DEF AllReconciled
<1>12. ASSUME NEW t \in Thread, NEW e \in Device, Acquire(t, e) PROVE CompleteOK'
  BY <1>12 DEF Acquire
<1>13. CASE ReadDevice
  BY <1>13 DEF ReadDevice
<1>14. CASE Classify
  BY <1>14 DEF Classify, classify
<1>15. CASE CheckIncomplete
  BY <1>15 DEF CheckIncomplete
<1>16. CASE Decide
  BY <1>16 DEF Decide
<1>17. CASE Release
  BY <1>17 DEF Release
<1>18. CASE PublishClone
  BY <1>18 DEF PublishClone
<1>19. CASE PublishAttach
  BY <1>19 DEF PublishAttach
<1>20. CASE PublishFails
  BY <1>20 DEF PublishFails
<1>21. CASE PublishRecord
  BY <1>21 DEF PublishRecord
<1>22. ASSUME NEW n \in Name, PublishLink(n) PROVE CompleteOK'
  BY <1>22 DEF PublishLink
<1>23. CASE PublishLinkFails
  BY <1>23 DEF PublishLinkFails
<1>24. CASE PublishComplete
  BY <1>24 DEF PublishComplete
<1>25. CASE UnpublishMark
  BY <1>25 DEF UnpublishMark
<1>26. CASE UnpublishLinks
  BY <1>26 DEF UnpublishLinks
<1>27. CASE UnpublishDetach
  BY <1>27 DEF UnpublishDetach
<1>28. CASE UnpublishFails
  BY <1>28 DEF UnpublishFails
<1>29. CASE UnpublishForget
  BY <1>29 DEF UnpublishForget
<1>30. CASE UNCHANGED vars
  BY <1>30 DEF vars
<1>31. QED
  BY <1>1, <1>2, <1>3, <1>4, <1>5, <1>6, <1>7, <1>8, <1>9, <1>10, <1>11, <1>12, <1>13, <1>14,
     <1>15, <1>16, <1>17, <1>18,
     <1>19, <1>20, <1>21, <1>22, <1>23, <1>24, <1>25, <1>26, <1>27, <1>28, <1>29, <1>30
     DEF Next, HostNext, ReloadNext, ThreadStep, Reconcile

\* A device that matches and was taken for one that does not is reconciled again.
LEMMA MissStep ==
  ASSUME TypeOK, StepOK, HoldOK, WatchOK, intact', pc["watcher"] # "dead", ReadNow, MissOK,
         [Next]_vars
  PROVE  MissOK'
<1> USE DevicesAssumption DEF TypeOK, StepOK, HoldOK, WatchOK, ReadNow, MissOK, Queued, Matches,
        Late, WithRecord, WithoutRecord, Thread, Step, hostVars, planVars, stateVars, devVars,
        localVars
<1>1. ASSUME NEW e \in Device, NEW x \in Entries[e] \cup {Absent}, HostChange(e, x) PROVE MissOK'
  BY <1>1 DEF HostChange, classify
<1>2. CASE WatcherNew
  BY <1>2 DEF WatcherNew
<1>3. CASE WatcherFails
  BY <1>3 DEF WatcherFails
<1>4. ASSUME NEW e \in Device, WatcherEvent(e) PROVE MissOK'
  BY <1>4 DEF WatcherEvent
<1>5. CASE WatcherRescan
  BY <1>5 DEF WatcherRescan
<1>6. CASE ReloadRestart
  BY <1>6 DEF ReloadRestart
<1>7. ASSUME NEW classes \in SUBSET Class, ReloadPlan(classes) PROVE MissOK'
  BY <1>7 DEF ReloadPlan, CanReload
<1>8. ASSUME NEW failed \in SUBSET {"mount"}, ReloadReasons(failed) PROVE MissOK'
  BY <1>8 DEF ReloadReasons
<1>9. ASSUME NEW t \in Thread, Scan(t) PROVE MissOK'
  BY <1>9 DEF Scan, classify
<1>10. ASSUME NEW t \in Thread, AddRecorded(t) PROVE MissOK'
  BY <1>10 DEF AddRecorded
<1>11. ASSUME NEW t \in Thread, AllReconciled(t) PROVE MissOK'
  BY <1>11 DEF AllReconciled
<1>12. ASSUME NEW t \in Thread, NEW e \in Device, Acquire(t, e) PROVE MissOK'
  BY <1>12 DEF Acquire
<1>13. CASE ReadDevice
  BY <1>13 DEF ReadDevice
<1>14. CASE Classify
  BY <1>14 DEF Classify, classify
<1>15. CASE CheckIncomplete
  BY <1>15 DEF CheckIncomplete
<1>16. CASE Decide
  BY <1>16 DEF Decide
<1>17. CASE Release
  BY <1>17 DEF Release
<1>18. CASE PublishClone
  BY <1>18 DEF PublishClone
<1>19. CASE PublishAttach
  BY <1>19 DEF PublishAttach
<1>20. CASE PublishFails
  BY <1>20 DEF PublishFails
<1>21. CASE PublishRecord
  BY <1>21 DEF PublishRecord
<1>22. ASSUME NEW n \in Name, PublishLink(n) PROVE MissOK'
  BY <1>22 DEF PublishLink
<1>23. CASE PublishLinkFails
  BY <1>23 DEF PublishLinkFails
<1>24. CASE PublishComplete
  BY <1>24 DEF PublishComplete
<1>25. CASE UnpublishMark
  BY <1>25 DEF UnpublishMark
<1>26. CASE UnpublishLinks
  BY <1>26 DEF UnpublishLinks
<1>27. CASE UnpublishDetach
  BY <1>27 DEF UnpublishDetach
<1>28. CASE UnpublishFails
  BY <1>28 DEF UnpublishFails
<1>29. CASE UnpublishForget
  BY <1>29 DEF UnpublishForget
<1>30. CASE UNCHANGED vars
  BY <1>30 DEF vars
<1>31. QED
  BY <1>1, <1>2, <1>3, <1>4, <1>5, <1>6, <1>7, <1>8, <1>9, <1>10, <1>11, <1>12, <1>13, <1>14,
     <1>15, <1>16, <1>17, <1>18,
     <1>19, <1>20, <1>21, <1>22, <1>23, <1>24, <1>25, <1>26, <1>27, <1>28, <1>29, <1>30
     DEF Next, HostNext, ReloadNext, ThreadStep, Reconcile

\* A device that matches is published, or will be.
LEMMA ComesStep ==
  ASSUME TypeOK, StepOK, HoldOK, WatchOK, intact', pc["watcher"] # "dead", ReadNow, FoundOK,
         CompleteOK, MissOK, NEW d \in Device, Comes(d), [Next]_vars
  PROVE  Comes(d)'
<1> USE DevicesAssumption DEF TypeOK, StepOK, HoldOK, WatchOK, ReadNow, FoundOK, CompleteOK,
        MissOK, Comes, Coming, Queued, Matches, Recorded, Published, Late, WithRecord,
        WithoutRecord, Thread, Step, hostVars, planVars, stateVars, devVars, localVars
<1>1. ASSUME NEW e \in Device, NEW x \in Entries[e] \cup {Absent}, HostChange(e, x) PROVE Comes(d)'
  BY <1>1 DEF HostChange, classify
<1>2. CASE WatcherNew
  BY <1>2 DEF WatcherNew
<1>3. CASE WatcherFails
  BY <1>3 DEF WatcherFails
<1>4. ASSUME NEW e \in Device, WatcherEvent(e) PROVE Comes(d)'
  BY <1>4 DEF WatcherEvent
<1>5. CASE WatcherRescan
  BY <1>5 DEF WatcherRescan
<1>6. CASE ReloadRestart
  BY <1>6 DEF ReloadRestart
<1>7. ASSUME NEW classes \in SUBSET Class, ReloadPlan(classes) PROVE Comes(d)'
  BY <1>7 DEF ReloadPlan, CanReload
<1>8. ASSUME NEW failed \in SUBSET {"mount"}, ReloadReasons(failed) PROVE Comes(d)'
  BY <1>8 DEF ReloadReasons
<1>9. ASSUME NEW t \in Thread, Scan(t) PROVE Comes(d)'
  BY <1>9 DEF Scan, classify
<1>10. ASSUME NEW t \in Thread, AddRecorded(t) PROVE Comes(d)'
  BY <1>10 DEF AddRecorded
<1>11. ASSUME NEW t \in Thread, AllReconciled(t) PROVE Comes(d)'
  BY <1>11 DEF AllReconciled
<1>12. ASSUME NEW t \in Thread, NEW e \in Device, Acquire(t, e) PROVE Comes(d)'
  BY <1>12 DEF Acquire
<1>13. CASE ReadDevice
  BY <1>13 DEF ReadDevice
<1>14. CASE Classify
  BY <1>14 DEF Classify, classify
<1>15. CASE CheckIncomplete
  BY <1>15 DEF CheckIncomplete
<1>16. CASE Decide
  BY <1>16 DEF Decide, classify
<1>17. CASE Release
  BY <1>17 DEF Release
<1>18. CASE PublishClone
  BY <1>18 DEF PublishClone
<1>19. CASE PublishAttach
  BY <1>19 DEF PublishAttach
<1>20. CASE PublishFails
  BY <1>20 DEF PublishFails, NodeThere, classify
<1>21. CASE PublishRecord
  BY <1>21 DEF PublishRecord
<1>22. ASSUME NEW n \in Name, PublishLink(n) PROVE Comes(d)'
  BY <1>22 DEF PublishLink
<1>23. CASE PublishLinkFails
  BY <1>23 DEF PublishLinkFails
<1>24. CASE PublishComplete
  <2>1. cur \in Device /\ Recorded(cur) /\ devices[cur] \in Published
    BY <1>24 DEF PublishComplete
  <2>2. devices'[cur] = [devices[cur] EXCEPT !.complete = TRUE] /\ \A e \in Device \ {cur} : devices'[e] = devices[e]
    BY <1>24 DEF PublishComplete
  <2>3. devices'[cur].complete /\ devices'[cur] \in Published
    BY <2>1, <2>2
  <2>4. devices'[cur] # Absent
    BY <2>3
  <2>5. CASE d = cur
    BY <1>24, <2>3, <2>4, <2>5 DEF PublishComplete
  <2>6. CASE d # cur
    BY <1>24, <2>2, <2>6 DEF PublishComplete
  <2>7. QED
    BY <2>5, <2>6
<1>25. CASE UnpublishMark
  BY <1>25 DEF UnpublishMark
<1>26. CASE UnpublishLinks
  BY <1>26 DEF UnpublishLinks
<1>27. CASE UnpublishDetach
  BY <1>27 DEF UnpublishDetach
<1>28. CASE UnpublishFails
  BY <1>28 DEF UnpublishFails
<1>29. CASE UnpublishForget
  BY <1>29 DEF UnpublishForget
<1>30. CASE UNCHANGED vars
  BY <1>30 DEF vars
<1>31. QED
  BY <1>1, <1>2, <1>3, <1>4, <1>5, <1>6, <1>7, <1>8, <1>9, <1>10, <1>11, <1>12, <1>13, <1>14,
     <1>15, <1>16, <1>17, <1>18,
     <1>19, <1>20, <1>21, <1>22, <1>23, <1>24, <1>25, <1>26, <1>27, <1>28, <1>29, <1>30
     DEF Next, HostNext, ReloadNext, ThreadStep, Reconcile

-----------------------------------------------------------------------------
\* Once the watcher and a reload have caught up with udev and with the config, a node
\* is there only for a device that the classes of the plan grant, or a restart is
\* pending because it could not be removed: whatever fails, as long as no rescan
\* overlaps a reload (reconcile_all, reconcile, unpublish).
THEOREM OnlyGrantedHolds == ASSUME ~RescanRace PROVE Spec => []OnlyGranted
<1>1. Init => GrantInv
  <2> SUFFICES ASSUME Init PROVE GrantInv
    OBVIOUS
  <2>1. Inv
    BY InitInv
  <2>2. HoldOK /\ WatchOK /\ Apart
    BY DEF Init, HoldOK, WatchOK, Apart, Thread
  <2>3. ReadOK /\ AimOK /\ StayOK
    BY DEF Init, ReadOK, AimOK, StayOK, Stays, Recorded, Late, WithRecord, WithoutRecord
  <2>4. QED
    BY <2>1, <2>2, <2>3 DEF GrantInv
<1>2. GrantInv /\ [Next]_vars => GrantInv'
  <2> SUFFICES ASSUME GrantInv, [Next]_vars PROVE GrantInv'
    OBVIOUS
  <2>1. TypeOK /\ StepOK /\ HoldOK /\ WatchOK /\ Apart /\ ReadOK /\ AimOK
    BY DEF GrantInv, Inv
  <2>2. StayOK'
    <3>1. ASSUME NEW d \in Device PROVE Stays(d)'
      <4>1. Stays(d)
        BY DEF GrantInv, StayOK
      <4>2. QED
        BY <2>1, <4>1, StayStep
    <3>2. QED
      BY <3>1 DEF StayOK
  <2>3. Inv'
    BY NextInv DEF GrantInv
  <2>4. QED
    BY <2>1, <2>2, <2>3, HoldStep, WatchStep, ApartStep, ReadStep, AimStep DEF GrantInv
<1>3. GrantInv => OnlyGranted
  <2> SUFFICES ASSUME GrantInv, Quiescent, NEW d \in Device, nodes[d] > 0
               PROVE  Matches(d) \/ d \in pending
    BY DEF OnlyGranted
  <2>1. step = "free"
    BY DEF GrantInv, Inv, StepOK, Quiescent
  <2>2. Recorded(d)
    BY <2>1 DEF GrantInv, Inv, NodeRecorded
  <2>3. Stays(d)
    BY DEF GrantInv, StayOK
  <2>4. ~Queued(d) /\ \A t \in Thread : pc[t] # "keys"
    BY DEF GrantInv, HoldOK, Quiescent, Queued, Thread
  <2>5. ~Sure(d)
    BY <2>1 DEF Sure, Late, WithRecord, WithoutRecord
  <2>6. Matches(d) \/ d \in unapplied
    BY <2>2, <2>3, <2>4, <2>5 DEF Stays
  <2>7. QED
    BY <2>6 DEF GrantInv, Inv, UnappliedPending
<1>4. QED
  BY <1>1, <1>2, <1>3, PTL DEF Spec

\* What has failed stays so.
LEMMA IntactStep == ASSUME TypeOK, [Next]_vars, intact' PROVE intact
<1> USE DEF TypeOK
<1>1. CASE WatcherFails
  BY <1>1 DEF WatcherFails
<1>2. CASE PublishFails
  BY <1>2 DEF PublishFails
<1>3. CASE PublishLinkFails
  BY <1>3 DEF PublishLinkFails
<1>4. CASE UnpublishFails
  BY <1>4 DEF UnpublishFails
<1>5. CASE intact' = intact
  BY <1>5
<1>6. QED
  BY <1>1, <1>2, <1>3, <1>4, <1>5 DEF Next, vars, HostNext, HostChange, ReloadNext,
     ReloadRestart, ReloadPlan,
     ThreadStep, WatcherNew, WatcherEvent, WatcherRescan, ReloadReasons, Scan, AddRecorded, AllReconciled,
     Reconcile, Acquire, ReadDevice, Classify, CheckIncomplete, Decide, Release, PublishClone, PublishAttach,
     PublishRecord, PublishComplete, PublishLink, UnpublishMark, UnpublishLinks, UnpublishDetach, UnpublishForget

-----------------------------------------------------------------------------
(* The names of a device that no other device has.                           *)

\* What udev says of a device is one of its entries, and so is what was read of it.
SaidOK ==
  /\ \A d \in Device : host[d] \in Entries[d] \cup {Absent}
  /\ step \notin {"free", "read"} => seen \in Entries[cur] \cup {Absent}

\* udev has given each name in a record to its device.
GivenOK ==
  \A d \in Device : Recorded(d) => \A n \in devices[d].names : \E x \in Entries[d] : n \in Names(x)

\* A device is complete neither while its links are made nor while they are taken away.
UndoneOK == step \in {"link", "unlink", "detach", "forget"} => ~devices[cur].complete

\* The names of its own that a complete device has lead to it, and so do those that
\* publish has made so far.
LinkedAt(d) ==
  Recorded(d) /\ (devices[d].complete \/ (step = "link" /\ cur = d)) =>
    \A n \in devices[d].names :
      OwnName(d, n) => links[n] = d \/ (step = "link" /\ cur = d /\ n \in left)
LinkedOK == \A d \in Device : LinkedAt(d)

\* What was read of a device stays one of its entries.
LEMMA SaidStep ==
  ASSUME TypeOK, SaidOK, [Next]_vars
  PROVE  SaidOK'
<1> USE DevicesAssumption DEF TypeOK, SaidOK, hostVars, planVars, stateVars, devVars, localVars,
        Thread
<1>1. ASSUME NEW e \in Device, NEW x \in Entries[e] \cup {Absent}, HostChange(e, x) PROVE SaidOK'
  BY <1>1 DEF HostChange
<1>2. CASE WatcherNew
  BY <1>2 DEF WatcherNew
<1>3. CASE WatcherFails
  BY <1>3 DEF WatcherFails
<1>4. ASSUME NEW e \in Device, WatcherEvent(e) PROVE SaidOK'
  BY <1>4 DEF WatcherEvent
<1>5. CASE WatcherRescan
  BY <1>5 DEF WatcherRescan
<1>6. CASE ReloadRestart
  BY <1>6 DEF ReloadRestart
<1>7. ASSUME NEW classes \in SUBSET Class, ReloadPlan(classes) PROVE SaidOK'
  BY <1>7 DEF ReloadPlan, CanReload
<1>8. ASSUME NEW failed \in SUBSET {"mount"}, ReloadReasons(failed) PROVE SaidOK'
  BY <1>8 DEF ReloadReasons
<1>9. ASSUME NEW t \in Thread, Scan(t) PROVE SaidOK'
  BY <1>9 DEF Scan
<1>10. ASSUME NEW t \in Thread, AddRecorded(t) PROVE SaidOK'
  BY <1>10 DEF AddRecorded
<1>11. ASSUME NEW t \in Thread, AllReconciled(t) PROVE SaidOK'
  BY <1>11 DEF AllReconciled
<1>12. ASSUME NEW t \in Thread, NEW e \in Device, Acquire(t, e) PROVE SaidOK'
  BY <1>12 DEF Acquire
<1>13. CASE ReadDevice
  BY <1>13 DEF ReadDevice
<1>14. CASE Classify
  BY <1>14 DEF Classify
<1>15. CASE CheckIncomplete
  BY <1>15 DEF CheckIncomplete
<1>16. CASE Decide
  BY <1>16 DEF Decide
<1>17. CASE Release
  BY <1>17 DEF Release
<1>18. CASE PublishClone
  BY <1>18 DEF PublishClone
<1>19. CASE PublishAttach
  BY <1>19 DEF PublishAttach
<1>20. CASE PublishFails
  BY <1>20 DEF PublishFails
<1>21. CASE PublishRecord
  BY <1>21 DEF PublishRecord
<1>22. ASSUME NEW m \in Name, PublishLink(m) PROVE SaidOK'
  BY <1>22 DEF PublishLink
<1>23. CASE PublishLinkFails
  BY <1>23 DEF PublishLinkFails
<1>24. CASE PublishComplete
  BY <1>24 DEF PublishComplete
<1>25. CASE UnpublishMark
  BY <1>25 DEF UnpublishMark
<1>26. CASE UnpublishLinks
  BY <1>26 DEF UnpublishLinks
<1>27. CASE UnpublishDetach
  BY <1>27 DEF UnpublishDetach
<1>28. CASE UnpublishFails
  BY <1>28 DEF UnpublishFails
<1>29. CASE UnpublishForget
  BY <1>29 DEF UnpublishForget
<1>30. CASE UNCHANGED vars
  BY <1>30 DEF vars
<1>31. QED
  BY <1>1, <1>2, <1>3, <1>4, <1>5, <1>6, <1>7, <1>8, <1>9, <1>10, <1>11, <1>12, <1>13, <1>14,
     <1>15, <1>16, <1>17, <1>18,
     <1>19, <1>20, <1>21, <1>22, <1>23, <1>24, <1>25, <1>26, <1>27, <1>28, <1>29, <1>30
     DEF Next, HostNext, ReloadNext, ThreadStep, Reconcile

\* A name is recorded as udev gave it.
LEMMA GivenStep ==
  ASSUME TypeOK, StepOK, SaidOK, GivenOK, [Next]_vars
  PROVE  GivenOK'
<1> USE DevicesAssumption DEF TypeOK, GivenOK, Recorded, Published, hostVars, planVars,
        stateVars, devVars, localVars, Thread
<1>1. ASSUME NEW e \in Device, NEW x \in Entries[e] \cup {Absent}, HostChange(e, x) PROVE GivenOK'
  BY <1>1 DEF HostChange
<1>2. CASE WatcherNew
  BY <1>2 DEF WatcherNew
<1>3. CASE WatcherFails
  BY <1>3 DEF WatcherFails
<1>4. ASSUME NEW e \in Device, WatcherEvent(e) PROVE GivenOK'
  BY <1>4 DEF WatcherEvent
<1>5. CASE WatcherRescan
  BY <1>5 DEF WatcherRescan
<1>6. CASE ReloadRestart
  BY <1>6 DEF ReloadRestart
<1>7. ASSUME NEW classes \in SUBSET Class, ReloadPlan(classes) PROVE GivenOK'
  BY <1>7 DEF ReloadPlan, CanReload
<1>8. ASSUME NEW failed \in SUBSET {"mount"}, ReloadReasons(failed) PROVE GivenOK'
  BY <1>8 DEF ReloadReasons
<1>9. ASSUME NEW t \in Thread, Scan(t) PROVE GivenOK'
  BY <1>9 DEF Scan
<1>10. ASSUME NEW t \in Thread, AddRecorded(t) PROVE GivenOK'
  BY <1>10 DEF AddRecorded
<1>11. ASSUME NEW t \in Thread, AllReconciled(t) PROVE GivenOK'
  BY <1>11 DEF AllReconciled
<1>12. ASSUME NEW t \in Thread, NEW e \in Device, Acquire(t, e) PROVE GivenOK'
  BY <1>12 DEF Acquire
<1>13. CASE ReadDevice
  BY <1>13 DEF ReadDevice
<1>14. CASE Classify
  BY <1>14 DEF Classify
<1>15. CASE CheckIncomplete
  BY <1>15 DEF CheckIncomplete
<1>16. CASE Decide
  BY <1>16 DEF Decide
<1>17. CASE Release
  BY <1>17 DEF Release
<1>18. CASE PublishClone
  BY <1>18 DEF PublishClone
<1>19. CASE PublishAttach
  BY <1>19 DEF PublishAttach
<1>20. CASE PublishFails
  BY <1>20 DEF PublishFails
<1>21. CASE PublishRecord
  <2>1. seen \in Entries[cur] /\ Names(seen) \in SUBSET Name
    BY <1>21, ZenonT(30) DEF PublishRecord, StepOK, SaidOK, WithoutRecord, Entry, Names
  <2>2. devices' = [devices EXCEPT ![cur] = [names |-> Names(seen), classes |-> cls, complete |-> FALSE]]
    BY <1>21 DEF PublishRecord
  <2>3. QED
    BY <2>1, <2>2
<1>22. ASSUME NEW m \in Name, PublishLink(m) PROVE GivenOK'
  BY <1>22 DEF PublishLink
<1>23. CASE PublishLinkFails
  BY <1>23 DEF PublishLinkFails
<1>24. CASE PublishComplete
  <2>1. \A d \in Device : Recorded(d)' => Recorded(d) /\ devices'[d].names = devices[d].names
    BY <1>24 DEF PublishComplete, StepOK, WithRecord
  <2>2. QED
    BY <2>1
<1>25. CASE UnpublishMark
  <2>1. \A d \in Device : Recorded(d)' => Recorded(d) /\ devices'[d].names = devices[d].names
    BY <1>25 DEF UnpublishMark, StepOK, WithRecord
  <2>2. QED
    BY <2>1
<1>26. CASE UnpublishLinks
  BY <1>26 DEF UnpublishLinks
<1>27. CASE UnpublishDetach
  BY <1>27 DEF UnpublishDetach
<1>28. CASE UnpublishFails
  BY <1>28 DEF UnpublishFails
<1>29. CASE UnpublishForget
  BY <1>29 DEF UnpublishForget
<1>30. CASE UNCHANGED vars
  BY <1>30 DEF vars
<1>31. QED
  BY <1>1, <1>2, <1>3, <1>4, <1>5, <1>6, <1>7, <1>8, <1>9, <1>10, <1>11, <1>12, <1>13, <1>14,
     <1>15, <1>16, <1>17, <1>18,
     <1>19, <1>20, <1>21, <1>22, <1>23, <1>24, <1>25, <1>26, <1>27, <1>28, <1>29, <1>30
     DEF Next, HostNext, ReloadNext, ThreadStep, Reconcile

\* Publishing and unpublishing leave a record incomplete until they are done.
LEMMA UndoneStep ==
  ASSUME TypeOK, StepOK, UndoneOK, [Next]_vars
  PROVE  UndoneOK'
<1> USE DevicesAssumption DEF TypeOK, StepOK, UndoneOK, WithRecord, WithoutRecord, Recorded,
        Published, hostVars, planVars, stateVars, devVars, localVars, Thread
<1>1. ASSUME NEW e \in Device, NEW x \in Entries[e] \cup {Absent}, HostChange(e, x) PROVE UndoneOK'
  BY <1>1 DEF HostChange
<1>2. CASE WatcherNew
  BY <1>2 DEF WatcherNew
<1>3. CASE WatcherFails
  BY <1>3 DEF WatcherFails
<1>4. ASSUME NEW e \in Device, WatcherEvent(e) PROVE UndoneOK'
  BY <1>4 DEF WatcherEvent
<1>5. CASE WatcherRescan
  BY <1>5 DEF WatcherRescan
<1>6. CASE ReloadRestart
  BY <1>6 DEF ReloadRestart
<1>7. ASSUME NEW classes \in SUBSET Class, ReloadPlan(classes) PROVE UndoneOK'
  BY <1>7 DEF ReloadPlan, CanReload
<1>8. ASSUME NEW failed \in SUBSET {"mount"}, ReloadReasons(failed) PROVE UndoneOK'
  BY <1>8 DEF ReloadReasons
<1>9. ASSUME NEW t \in Thread, Scan(t) PROVE UndoneOK'
  BY <1>9 DEF Scan
<1>10. ASSUME NEW t \in Thread, AddRecorded(t) PROVE UndoneOK'
  BY <1>10 DEF AddRecorded
<1>11. ASSUME NEW t \in Thread, AllReconciled(t) PROVE UndoneOK'
  BY <1>11 DEF AllReconciled
<1>12. ASSUME NEW t \in Thread, NEW e \in Device, Acquire(t, e) PROVE UndoneOK'
  BY <1>12 DEF Acquire
<1>13. CASE ReadDevice
  BY <1>13 DEF ReadDevice
<1>14. CASE Classify
  BY <1>14 DEF Classify
<1>15. CASE CheckIncomplete
  BY <1>15 DEF CheckIncomplete
<1>16. CASE Decide
  BY <1>16 DEF Decide
<1>17. CASE Release
  BY <1>17 DEF Release
<1>18. CASE PublishClone
  BY <1>18 DEF PublishClone
<1>19. CASE PublishAttach
  BY <1>19 DEF PublishAttach
<1>20. CASE PublishFails
  BY <1>20 DEF PublishFails
<1>21. CASE PublishRecord
  BY <1>21 DEF PublishRecord
<1>22. ASSUME NEW m \in Name, PublishLink(m) PROVE UndoneOK'
  BY <1>22 DEF PublishLink
<1>23. CASE PublishLinkFails
  BY <1>23 DEF PublishLinkFails
<1>24. CASE PublishComplete
  BY <1>24 DEF PublishComplete
<1>25. CASE UnpublishMark
  BY <1>25 DEF UnpublishMark
<1>26. CASE UnpublishLinks
  BY <1>26 DEF UnpublishLinks
<1>27. CASE UnpublishDetach
  BY <1>27 DEF UnpublishDetach
<1>28. CASE UnpublishFails
  BY <1>28 DEF UnpublishFails
<1>29. CASE UnpublishForget
  BY <1>29 DEF UnpublishForget
<1>30. CASE UNCHANGED vars
  BY <1>30 DEF vars
<1>31. QED
  BY <1>1, <1>2, <1>3, <1>4, <1>5, <1>6, <1>7, <1>8, <1>9, <1>10, <1>11, <1>12, <1>13, <1>14,
     <1>15, <1>16, <1>17, <1>18,
     <1>19, <1>20, <1>21, <1>22, <1>23, <1>24, <1>25, <1>26, <1>27, <1>28, <1>29, <1>30
     DEF Next, HostNext, ReloadNext, ThreadStep, Reconcile

\* Nothing else takes a name of its own from a device.
LEMMA LinkedStep ==
  ASSUME TypeOK, StepOK, SaidOK, GivenOK, UndoneOK, NEW d \in Device, LinkedAt(d), [Next]_vars
  PROVE  LinkedAt(d)'
<1> USE DevicesAssumption DEF TypeOK, StepOK, UndoneOK, LinkedAt, WithRecord, WithoutRecord,
        Recorded, Published, hostVars, planVars, stateVars, devVars, localVars, Thread
<1>1. ASSUME NEW e \in Device, NEW x \in Entries[e] \cup {Absent}, HostChange(e, x) PROVE LinkedAt(d)'
  BY <1>1 DEF HostChange
<1>2. CASE WatcherNew
  BY <1>2 DEF WatcherNew
<1>3. CASE WatcherFails
  BY <1>3 DEF WatcherFails
<1>4. ASSUME NEW e \in Device, WatcherEvent(e) PROVE LinkedAt(d)'
  BY <1>4 DEF WatcherEvent
<1>5. CASE WatcherRescan
  BY <1>5 DEF WatcherRescan
<1>6. CASE ReloadRestart
  BY <1>6 DEF ReloadRestart
<1>7. ASSUME NEW classes \in SUBSET Class, ReloadPlan(classes) PROVE LinkedAt(d)'
  BY <1>7 DEF ReloadPlan, CanReload
<1>8. ASSUME NEW failed \in SUBSET {"mount"}, ReloadReasons(failed) PROVE LinkedAt(d)'
  BY <1>8 DEF ReloadReasons
<1>9. ASSUME NEW t \in Thread, Scan(t) PROVE LinkedAt(d)'
  BY <1>9 DEF Scan
<1>10. ASSUME NEW t \in Thread, AddRecorded(t) PROVE LinkedAt(d)'
  BY <1>10 DEF AddRecorded
<1>11. ASSUME NEW t \in Thread, AllReconciled(t) PROVE LinkedAt(d)'
  BY <1>11 DEF AllReconciled
<1>12. ASSUME NEW t \in Thread, NEW e \in Device, Acquire(t, e) PROVE LinkedAt(d)'
  BY <1>12 DEF Acquire
<1>13. CASE ReadDevice
  BY <1>13 DEF ReadDevice
<1>14. CASE Classify
  BY <1>14 DEF Classify
<1>15. CASE CheckIncomplete
  BY <1>15 DEF CheckIncomplete
<1>16. CASE Decide
  BY <1>16 DEF Decide
<1>17. CASE Release
  BY <1>17 DEF Release
<1>18. CASE PublishClone
  BY <1>18 DEF PublishClone
<1>19. CASE PublishAttach
  BY <1>19 DEF PublishAttach
<1>20. CASE PublishFails
  BY <1>20 DEF PublishFails
<1>21. CASE PublishRecord
  <2>1. Names(seen) \in SUBSET Name
    BY <1>21 DEF PublishRecord, SaidOK, Entry, Names
  <2>2. devices' = [devices EXCEPT ![cur] = [names |-> Names(seen), classes |-> cls, complete |-> FALSE]]
    BY <1>21 DEF PublishRecord
  <2>3. CASE d = cur
    BY <1>21, <2>2, <2>3 DEF PublishRecord
  <2>4. CASE d # cur
    BY <1>21, <2>2, <2>4 DEF PublishRecord
  <2>5. QED
    BY <2>3, <2>4
<1>22. ASSUME NEW m \in Name, PublishLink(m) PROVE LinkedAt(d)'
  <2>1. ASSUME d # cur, Recorded(d), NEW n \in devices[d].names, OwnName(d, n) PROVE n # m
    <3>1. \E x \in Entries[cur] : m \in Names(x)
      BY <1>22 DEF PublishLink, GivenOK
    <3>2. QED
      BY <2>1, <3>1 DEF OwnName
  <2>2. CASE d = cur
    BY <1>22, <2>2 DEF PublishLink
  <2>3. CASE d # cur
    BY <1>22, <2>1, <2>3 DEF PublishLink
  <2>4. QED
    BY <2>2, <2>3
<1>23. CASE PublishLinkFails
  BY <1>23 DEF PublishLinkFails
<1>24. CASE PublishComplete
  <2>1. CASE d = cur
    BY <1>24, <2>1 DEF PublishComplete
  <2>2. CASE d # cur
    BY <1>24, <2>2 DEF PublishComplete
  <2>3. QED
    BY <2>1, <2>2
<1>25. CASE UnpublishMark
  BY <1>25 DEF UnpublishMark
<1>26. CASE UnpublishLinks
  <2>1. CASE d = cur
    BY <1>26, <2>1 DEF UnpublishLinks
  <2>2. CASE d # cur
    BY <1>26, <2>2 DEF UnpublishLinks
  <2>3. QED
    BY <2>1, <2>2
<1>27. CASE UnpublishDetach
  BY <1>27 DEF UnpublishDetach
<1>28. CASE UnpublishFails
  BY <1>28 DEF UnpublishFails
<1>29. CASE UnpublishForget
  BY <1>29 DEF UnpublishForget
<1>30. CASE UNCHANGED vars
  BY <1>30 DEF vars
<1>31. QED
  BY <1>1, <1>2, <1>3, <1>4, <1>5, <1>6, <1>7, <1>8, <1>9, <1>10, <1>11, <1>12, <1>13, <1>14,
     <1>15, <1>16, <1>17, <1>18,
     <1>19, <1>20, <1>21, <1>22, <1>23, <1>24, <1>25, <1>26, <1>27, <1>28, <1>29, <1>30
     DEF Next, HostNext, ReloadNext, ThreadStep, Reconcile

\* Where names lead, in every state.
LinksInv == SaidOK /\ GivenOK /\ UndoneOK /\ LinkedOK

\* Every step keeps that.
LEMMA LinksStep == ASSUME Inv, LinksInv, [Next]_vars PROVE LinksInv'
<1>1. TypeOK /\ StepOK /\ SaidOK /\ GivenOK /\ UndoneOK /\ LinkedOK
  BY DEF Inv, LinksInv
<1>2. SaidOK' /\ GivenOK' /\ UndoneOK'
  BY <1>1, SaidStep, GivenStep, UndoneStep
<1>3. ASSUME NEW d \in Device PROVE LinkedAt(d)'
  <2>1. LinkedAt(d)
    BY <1>1 DEF LinkedOK
  <2>2. QED
    BY <1>1, <2>1, LinkedStep
<1>4. QED
  BY <1>2, <1>3 DEF LinksInv, LinkedOK

\* As long as nothing has failed, every device that the classes of the plan grant is
\* there once both threads have caught up, and every name it was published with that
\* udev gives to no other device leads to it, whatever events were lost and although
\* the lists of devices are made outside the lock (reconcile_all, publish).
THEOREM AllPublishedHolds == Spec => []AllPublished
<1>1. Init => Inv /\ LinksInv /\ (intact => PublishInv)
  <2> SUFFICES ASSUME Init PROVE Inv /\ LinksInv /\ PublishInv
    OBVIOUS
  <2>1. Inv
    BY InitInv
  <2>2. HoldOK /\ WatchOK /\ pc["watcher"] # "dead"
    BY DEF Init, HoldOK, WatchOK, Thread
  <2>3. ReadNow /\ FoundOK /\ CompleteOK /\ MissOK
    BY DEF Init, ReadNow, FoundOK, CompleteOK, MissOK, Recorded, Late, WithRecord, WithoutRecord
  <2>4. \A d \in Device : Queued(d)
    BY DEF Init, Queued, Thread
  <2>5. LinksInv
    BY DEF Init, LinksInv, SaidOK, GivenOK, UndoneOK, LinkedOK, LinkedAt, Recorded
  <2>6. QED
    BY <2>1, <2>2, <2>3, <2>4, <2>5 DEF PublishInv, ComeOK, Comes
<1>2. Inv /\ LinksInv /\ (intact => PublishInv) /\ [Next]_vars => (Inv /\ LinksInv /\ (intact => PublishInv))'
  <2> SUFFICES ASSUME Inv, LinksInv, intact => PublishInv, [Next]_vars PROVE Inv' /\ LinksInv' /\ (intact' => PublishInv')
    OBVIOUS
  <2>1. Inv' /\ LinksInv'
    BY NextInv, LinksStep
  <2>2. ASSUME intact' PROVE PublishInv'
    <3>1. PublishInv
      BY <2>2, IntactStep DEF Inv
    <3>2. /\ TypeOK /\ StepOK /\ HoldOK /\ WatchOK /\ pc["watcher"] # "dead"
          /\ ReadNow /\ FoundOK /\ CompleteOK /\ MissOK
      BY <3>1 DEF PublishInv, Inv
    <3>3. ComeOK'
      <4>1. ASSUME NEW d \in Device PROVE Comes(d)'
        <5>1. Comes(d)
          BY <3>1 DEF PublishInv, ComeOK
        <5>2. QED
          BY <2>2, <3>2, <5>1, ComesStep
      <4>2. QED
        BY <4>1 DEF ComeOK
    <3>4. pc'["watcher"] # "dead"
      BY <2>2, <3>2, LivesStep
    <3>5. HoldOK' /\ WatchOK'
      BY <3>2, HoldStep, WatchStep
    <3>6. ReadNow' /\ FoundOK' /\ CompleteOK' /\ MissOK'
      BY <2>2, <3>2, ReadNowStep, FoundStep, CompleteStep, MissStep
    <3>7. QED
      BY <2>1, <3>3, <3>4, <3>5, <3>6 DEF PublishInv
  <2>3. QED
    BY <2>1, <2>2
<1>3. Inv /\ LinksInv /\ (intact => PublishInv) => AllPublished
  <2> SUFFICES ASSUME LinksInv, PublishInv, Quiescent, NEW d \in Device, Matches(d)
               PROVE  /\ Recorded(d) /\ devices[d].complete
                      /\ \A n \in devices[d].names : OwnName(d, n) => links[n] = d
    BY DEF AllPublished
  <2>1. step = "free"
    BY DEF PublishInv, Inv, StepOK, Quiescent
  <2>2. Comes(d)
    BY DEF PublishInv, ComeOK
  <2>3. ~Queued(d)
    BY DEF PublishInv, HoldOK, Quiescent, Queued, Thread
  <2>4. ~Coming(d)
    BY <2>1 DEF Coming
  <2>5. Recorded(d) /\ devices[d].complete
    BY <2>2, <2>3, <2>4 DEF Comes
  <2>6. QED
    BY <2>1, <2>5 DEF LinksInv, LinkedOK, LinkedAt
<1>4. QED
  BY <1>1, <1>2, <1>3, PTL DEF Spec
=============================================================================
