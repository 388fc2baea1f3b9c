------------------------------ MODULE Devices ------------------------------
(***************************************************************************)
(* Device nodes in a running sandbox: src/src/supervisor.rs (watch_devices, *)
(* reconcile_all, reconcile, publish, unpublish, and the part of apply that *)
(* changes the device classes) and src/src/devices.rs (the udev database    *)
(* and the inotify watcher).                                                *)
(*                                                                          *)
(* Two threads reconcile: the device watcher, on every udev event, and the  *)
(* config reloader, after the device classes change.  `reconciling' is a    *)
(* lock held for one device at a time.  Its holder's local variables (cur,  *)
(* seen, cls, left, ret) are modelled once, since only one thread is inside.*)
(*                                                                          *)
(* Device names are opaque; a udev entry is a record of the node's name,    *)
(* its symlinks and the classes it matches.  The inotify queue is a count   *)
(* per device: reconcile reads everything again, so the order of the events *)
(* of different devices carries no information.                             *)
(***************************************************************************)
EXTENDS Integers

CONSTANTS
  Device,         \* device numbers (major, minor)
  Name,           \* names below /dev
  Class,          \* device classes a plan can grant
  Entries,        \* Entries[d]: what udev may say about d while it exists
  NoDevice,       \* "no device": the target of a link that does not exist
  Absent,         \* a device udev does not know, and one that has no record
  Failures,       \* whether mount and link operations may fail
  MaxHostChanges, \* bound on changes of the udev database
  MaxReloads,     \* bound on config reloads
  RescanRace      \* whether the watcher may list all devices during a reload

Entry == [node : Name, links : SUBSET Name, classes : SUBSET Class]

ASSUME DevicesAssumption ==
  /\ NoDevice \notin Device
  /\ "config" \notin Device /\ "mount" \notin Device
  /\ Entries \in [Device -> SUBSET Entry]
  /\ Absent \notin Entry
  /\ Absent \notin [names : SUBSET Name, classes : SUBSET Class, complete : BOOLEAN]
  /\ Failures \in BOOLEAN /\ RescanRace \in BOOLEAN
  /\ MaxHostChanges \in Nat /\ MaxReloads \in Nat

Thread == {"watcher", "reload"}
Reason == Device \cup {"config", "mount"}
Published == [names : SUBSET Name, classes : SUBSET Class, complete : BOOLEAN]
PC == {"new", "idle", "dead", "reasons", "same", "scan", "keys", "loop"}
Step == {"free", "read", "classify", "check", "decide", "mark", "unlink",
         "detach", "forget", "clone", "attach", "record", "link", "release"}

VARIABLES
  host,      \* the udev database: an entry or Absent for each device
  hostLeft,  \* changes of the database still to come (bound)
  watching,  \* the inotify watch exists
  events,    \* events[d]: queued inotify events for d
  lost,      \* an overflow event is queued (Change::Rescan)
  plan,      \* Plan::node_classes of the current plan
  reloadsLeft, \* reloads still to come (bound)
  unapplied, \* State::unapplied
  pending,   \* State::pending_restart
  devices,   \* State::devices: Published records, or Absent
  nodes,     \* nodes[d]: mounts stacked at /dev/.psbox/c<maj>-<min>
  links,     \* links[n]: the device /dev/n points to, or NoDevice
  pc,        \* where each thread is, outside reconcile
  todo,      \* todo[t]: devices thread t has still to reconcile
  holder,    \* the thread that holds `reconciling', or "none"
  step,      \* where the holder is inside reconcile
  cur,       \* the device being reconciled
  seen,      \* what read_device returned for it
  cls,       \* the classes classify returned for it
  left,      \* names publish has still to link
  ret,       \* where unpublish returns to
  intact     \* no operation of the two threads has failed so far (for properties only)

hostVars  == <<host, hostLeft, watching, events, lost>>
planVars  == <<plan, reloadsLeft>>
stateVars == <<unapplied, pending, devices>>
devVars   == <<nodes, links>>
localVars == <<cur, seen, cls, left, ret>>
vars == <<hostVars, planVars, stateVars, devVars, pc, todo, holder, step, localVars, intact>>

Recorded(d) == devices[d] # Absent

\* devices::classify: the configured classes that the udev entry e matches.
classify(e, classes) == IF e = Absent THEN {} ELSE e.classes \cap classes

\* Every name under which publish makes a device visible.
Names(e) == {e.node} \cup e.links

Init ==
  /\ host \in {h \in [Device -> UNION {Entries[d] : d \in Device} \cup {Absent}] :
                 \A d \in Device : h[d] \in Entries[d] \cup {Absent}}
  /\ hostLeft = MaxHostChanges
  /\ watching = FALSE
  /\ events = [d \in Device |-> 0]
  /\ lost = FALSE
  /\ plan \in SUBSET Class
  /\ reloadsLeft = MaxReloads
  /\ unapplied = {}
  /\ pending = {}
  /\ devices = [d \in Device |-> Absent]
  /\ nodes = [d \in Device |-> 0]
  /\ links = [n \in Name |-> NoDevice]
  /\ pc = [t \in Thread |-> IF t = "watcher" THEN "new" ELSE "idle"]
  /\ todo = [t \in Thread |-> {}]
  /\ holder = "none"
  /\ step = "free"
  /\ cur \in Device
  /\ seen = Absent
  /\ cls = {}
  /\ left = {}
  /\ ret = "release"
  /\ intact = TRUE

-----------------------------------------------------------------------------
(* The host: udev rewrites, adds or deletes one entry, and inotify queues   *)
(* an event for it, or an overflow event when the queue is full (entries    *)
(* that are not character devices fill the same queue).                     *)

HostChange(d, e) ==
  /\ hostLeft > 0
  /\ host[d] # e
  /\ hostLeft' = hostLeft - 1
  /\ host' = [host EXCEPT ![d] = e]
  /\ \/ ~watching /\ UNCHANGED <<events, lost>>
     \/ watching /\ events' = [events EXCEPT ![d] = @ + 1] /\ UNCHANGED lost
     \/ watching /\ (RescanRace \/ pc["reload"] = "idle")
                 /\ lost' = TRUE /\ UNCHANGED events
  /\ UNCHANGED <<watching, planVars, stateVars, devVars, pc, todo, holder, step, localVars, intact>>

-----------------------------------------------------------------------------
(* The watcher thread, outside reconcile.                                   *)

\* Watcher::new, before the first scan.
WatcherNew ==
  /\ pc["watcher"] = "new"
  /\ watching' = TRUE
  /\ pc' = [pc EXCEPT !["watcher"] = "scan"]
  /\ UNCHANGED <<host, hostLeft, events, lost, planVars, stateVars, devVars, todo, holder,
                 step, localVars, intact>>

\* The watch cannot be made or read: the thread returns.
WatcherFails ==
  /\ Failures
  /\ pc["watcher"] \in {"new", "idle"}
  /\ pc' = [pc EXCEPT !["watcher"] = "dead"]
  /\ intact' = FALSE
  /\ UNCHANGED <<hostVars, planVars, stateVars, devVars, todo, holder, step, localVars>>

\* Change::Updated or Change::Removed: one device.
WatcherEvent(d) ==
  /\ pc["watcher"] = "idle"
  /\ events[d] > 0
  /\ events' = [events EXCEPT ![d] = @ - 1]
  /\ todo' = [todo EXCEPT !["watcher"] = {d}]
  /\ pc' = [pc EXCEPT !["watcher"] = "loop"]
  /\ UNCHANGED <<host, hostLeft, watching, lost, planVars, stateVars, devVars, holder, step,
                 localVars, intact>>

\* Change::Rescan: reconcile_all.
WatcherRescan ==
  /\ pc["watcher"] = "idle"
  /\ lost
  /\ lost' = FALSE
  /\ pc' = [pc EXCEPT !["watcher"] = "scan"]
  /\ UNCHANGED <<host, hostLeft, watching, events, planVars, stateVars, devVars, todo, holder,
                 step, localVars, intact>>

-----------------------------------------------------------------------------
(* The reloader, as far as it concerns devices.                             *)

\* A config change arrives.  Nothing in the code keeps a reload from running
\* while the watcher lists all devices; ~RescanRace leaves that case out.
CanReload ==
  /\ pc["reload"] = "idle"
  /\ reloadsLeft > 0
  /\ RescanRace \/ (pc["watcher"] \notin {"new", "scan", "keys"} /\ ~lost)

\* Mutant: the reasons of failed removals are dropped.
ReloadRestartOnly ==
  /\ CanReload
  /\ reloadsLeft' = reloadsLeft - 1
  /\ pending' = {"config"}
  /\ UNCHANGED <<hostVars, plan, unapplied, devices, devVars, pc, todo, holder, step,
                 localVars, intact>>

\* apply: the change needs a restart, so nothing changes live.
ReloadRestart ==
  /\ CanReload
  /\ reloadsLeft' = reloadsLeft - 1
  /\ pending' = {"config"} \cup unapplied
  /\ UNCHANGED <<hostVars, plan, unapplied, devices, devVars, pc, todo, holder, step,
                 localVars, intact>>

\* apply: the mounts have been changed and the new plan is installed.
ReloadPlan(classes) ==
  /\ CanReload
  /\ reloadsLeft' = reloadsLeft - 1
  /\ plan' = classes
  /\ pc' = [pc EXCEPT !["reload"] = IF classes # plan THEN "reasons" ELSE "same"]
  /\ UNCHANGED <<hostVars, stateVars, devVars, todo, holder, step, localVars, intact>>

\* apply: mounts that could not be changed become restart reasons, and the
\* reasons of earlier configs are dropped; then the devices are reconciled
\* when the classes changed.
ReloadReasons(failed) ==
  /\ pc["reload"] \in {"reasons", "same"}
  /\ unapplied' = unapplied \cup failed
  /\ pending' = unapplied \cup failed
  /\ pc' = [pc EXCEPT !["reload"] = IF pc["reload"] = "reasons" THEN "scan" ELSE "idle"]
  /\ UNCHANGED <<hostVars, planVars, devices, devVars, todo, holder, step, localVars, intact>>

-----------------------------------------------------------------------------
(* reconcile_all: every device udev knows, then every recorded one.         *)

Scan(t) ==
  /\ pc[t] = "scan"
  /\ todo' = [todo EXCEPT ![t] = {d \in Device : host[d] # Absent}]
  /\ pc' = [pc EXCEPT ![t] = "keys"]
  /\ UNCHANGED <<hostVars, planVars, stateVars, devVars, holder, step, localVars, intact>>

\* Mutant: only the devices udev knows are reconciled.
AddNothing(t) ==
  /\ pc[t] = "keys"
  /\ pc' = [pc EXCEPT ![t] = "loop"]
  /\ UNCHANGED <<hostVars, planVars, stateVars, devVars, todo, holder, step, localVars, intact>>

AddRecorded(t) ==
  /\ pc[t] = "keys"
  /\ todo' = [todo EXCEPT ![t] = @ \cup {d \in Device : Recorded(d)}]
  /\ pc' = [pc EXCEPT ![t] = "loop"]
  /\ UNCHANGED <<hostVars, planVars, stateVars, devVars, holder, step, localVars, intact>>

AllReconciled(t) ==
  /\ pc[t] = "loop"
  /\ todo[t] = {}
  /\ holder # t
  /\ pc' = [pc EXCEPT ![t] = "idle"]
  /\ UNCHANGED <<hostVars, planVars, stateVars, devVars, todo, holder, step, localVars, intact>>

-----------------------------------------------------------------------------
(* reconcile, one device at a time.                                         *)

Acquire(t, d) ==
  /\ pc[t] = "loop"
  /\ d \in todo[t]
  /\ holder = "none"
  /\ holder' = t
  /\ cur' = d
  /\ todo' = [todo EXCEPT ![t] = @ \ {d}]
  /\ step' = "read"
  /\ UNCHANGED <<hostVars, planVars, stateVars, devVars, pc, seen, cls, left, ret, intact>>

ReadDevice ==
  /\ step = "read"
  /\ seen' = host[cur]
  /\ step' = "classify"
  /\ UNCHANGED <<hostVars, planVars, stateVars, devVars, pc, todo, holder, cur, cls, left, ret,
                 intact>>

Classify ==
  /\ step = "classify"
  /\ cls' = classify(seen, plan)
  /\ step' = "check"
  /\ UNCHANGED <<hostVars, planVars, stateVars, devVars, pc, todo, holder, cur, seen, left,
                 ret, intact>>

\* A failed publish is cleaned up before anything else.
CheckIncomplete ==
  /\ step = "check"
  /\ IF Recorded(cur) /\ ~devices[cur].complete
       THEN step' = "mark" /\ ret' = "decide"
       ELSE step' = "decide" /\ UNCHANGED ret
  /\ UNCHANGED <<hostVars, planVars, stateVars, devVars, pc, todo, holder, cur, seen, cls,
                 left, intact>>

\* Mutant: only a device that is gone is unpublished.
DecideGoneOnly ==
  /\ step = "decide"
  /\ ret' = "release"
  /\ step' = CASE ~Recorded(cur) /\ seen # Absent /\ cls # {} -> "clone"
               [] Recorded(cur) /\ seen = Absent -> "mark"
               [] OTHER -> "release"
  /\ UNCHANGED <<hostVars, planVars, stateVars, devVars, pc, todo, holder, cur, seen, cls,
                 left, intact>>

Decide ==
  /\ step = "decide"
  /\ ret' = "release"
  /\ step' = CASE ~Recorded(cur) /\ seen # Absent /\ cls # {} -> "clone"
               [] Recorded(cur) /\ cls = {} -> "mark"
               [] OTHER -> "release"
  /\ UNCHANGED <<hostVars, planVars, stateVars, devVars, pc, todo, holder, cur, seen, cls,
                 left, intact>>

Release ==
  /\ step = "release"
  /\ holder' = "none"
  /\ step' = "free"
  /\ UNCHANGED <<hostVars, planVars, stateVars, devVars, pc, todo, localVars, intact>>

-----------------------------------------------------------------------------
(* publish.                                                                 *)

\* clone_tree and fstat: the host has a node of that name with this device
\* number.  The kernel removes a node before udev deletes its entry.
NodeThere == IF host[cur] = Absent THEN FALSE ELSE host[cur].node = seen.node

PublishClone ==
  /\ step = "clone"
  /\ NodeThere
  /\ step' = "attach"
  /\ UNCHANGED <<hostVars, planVars, stateVars, devVars, pc, todo, holder, localVars, intact>>

\* The clone is attached at the hidden name, whatever the host does meanwhile.
PublishAttach ==
  /\ step = "attach"
  /\ nodes' = [nodes EXCEPT ![cur] = @ + 1]
  /\ step' = "record"
  /\ UNCHANGED <<hostVars, planVars, stateVars, links, pc, todo, holder, localVars, intact>>

\* The node is gone or is another device, or an operation failed.
PublishFails ==
  /\ step \in {"clone", "attach"}
  /\ Failures \/ (step = "clone" /\ ~NodeThere)
  /\ step' = "release"
  /\ intact' = (intact /\ step = "clone" /\ ~NodeThere)
  /\ UNCHANGED <<hostVars, planVars, stateVars, devVars, pc, todo, holder, localVars>>

PublishRecord ==
  /\ step = "record"
  /\ devices' = [devices EXCEPT ![cur] =
                   [names |-> Names(seen), classes |-> cls, complete |-> FALSE]]
  /\ left' = Names(seen)
  /\ step' = "link"
  /\ UNCHANGED <<hostVars, planVars, unapplied, pending, devVars, pc, todo, holder, cur, seen,
                 cls, ret, intact>>

\* publish_link: the link is renamed into place.
PublishLink(n) ==
  /\ step = "link"
  /\ n \in left
  /\ links' = [links EXCEPT ![n] = cur]
  /\ left' = left \ {n}
  /\ UNCHANGED <<hostVars, planVars, stateVars, nodes, pc, todo, holder, step, cur, seen, cls,
                 ret, intact>>

\* A link cannot be made: the device is taken away again.
PublishLinkFails ==
  /\ step = "link"
  /\ Failures
  /\ left # {}
  /\ step' = "mark"
  /\ ret' = "release"
  /\ intact' = FALSE
  /\ UNCHANGED <<hostVars, planVars, stateVars, devVars, pc, todo, holder, cur, seen, cls, left>>

\* Mutant: the record is complete with whatever links there are.
PublishCompleteEarly ==
  /\ step = "link"
  /\ devices' = [devices EXCEPT ![cur].complete = TRUE]
  /\ step' = "release"
  /\ UNCHANGED <<hostVars, planVars, unapplied, pending, devVars, pc, todo, holder, localVars,
                 intact>>

PublishComplete ==
  /\ step = "link"
  /\ left = {}
  /\ devices' = [devices EXCEPT ![cur].complete = TRUE]
  /\ step' = "release"
  /\ UNCHANGED <<hostVars, planVars, unapplied, pending, devVars, pc, todo, holder, localVars,
                 intact>>

-----------------------------------------------------------------------------
(* unpublish.                                                               *)

UnpublishMark ==
  /\ step = "mark"
  /\ devices' = [devices EXCEPT ![cur].complete = FALSE]
  /\ step' = "unlink"
  /\ UNCHANGED <<hostVars, planVars, unapplied, pending, devVars, pc, todo, holder, localVars,
                 intact>>

\* Mutant: the links stay.
UnpublishNoLinks ==
  /\ step = "unlink"
  /\ step' = "detach"
  /\ UNCHANGED <<hostVars, planVars, stateVars, devVars, pc, todo, holder, localVars, intact>>

\* unlink_if_ours, for each of the device's names.
UnpublishLinks ==
  /\ step = "unlink"
  /\ links' = [n \in Name |-> IF n \in devices[cur].names /\ links[n] = cur
                                THEN NoDevice ELSE links[n]]
  /\ step' = "detach"
  /\ UNCHANGED <<hostVars, planVars, stateVars, nodes, pc, todo, holder, localVars, intact>>

UnpublishDetach ==
  /\ step = "detach"
  /\ nodes' = [nodes EXCEPT ![cur] = @ - 1]
  /\ step' = "forget"
  /\ UNCHANGED <<hostVars, planVars, stateVars, links, pc, todo, holder, localVars, intact>>

\* Mutant: the record goes although the node stays.
UnpublishFailsForgets ==
  /\ step = "detach"
  /\ Failures
  /\ devices' = [devices EXCEPT ![cur] = Absent]
  /\ unapplied' = unapplied \cup {cur}
  /\ pending' = pending \cup {cur}
  /\ step' = "release"
  /\ intact' = FALSE
  /\ UNCHANGED <<hostVars, planVars, devVars, pc, todo, holder, localVars>>

\* The node stays: it becomes a restart reason, and reconcile returns.
UnpublishFails ==
  /\ step = "detach"
  /\ Failures
  /\ unapplied' = unapplied \cup {cur}
  /\ pending' = IF cur \in unapplied THEN pending ELSE pending \cup {cur}
  /\ step' = "release"
  /\ intact' = FALSE
  /\ UNCHANGED <<hostVars, planVars, devices, devVars, pc, todo, holder, localVars>>

UnpublishForget ==
  /\ step = "forget"
  /\ devices' = [devices EXCEPT ![cur] = Absent]
  /\ unapplied' = unapplied \ {cur}
  /\ pending' = pending \ {cur}
  /\ step' = ret
  /\ UNCHANGED <<hostVars, planVars, devVars, pc, todo, holder, localVars, intact>>

-----------------------------------------------------------------------------
HostNext == \E d \in Device : \E e \in Entries[d] \cup {Absent} : HostChange(d, e)

ReloadNext ==
  \/ ReloadRestart
  \/ \E classes \in SUBSET Class : ReloadPlan(classes)

\* What the two threads do once they have something to do.
Reconcile ==
  \/ \E t \in Thread, d \in Device : Acquire(t, d)
  \/ ReadDevice \/ Classify \/ CheckIncomplete \/ Decide \/ Release
  \/ PublishClone \/ PublishAttach \/ PublishFails \/ PublishRecord \/ PublishLinkFails \/ PublishComplete
  \/ \E n \in Name : PublishLink(n)
  \/ UnpublishMark \/ UnpublishLinks \/ UnpublishDetach \/ UnpublishFails \/ UnpublishForget

ThreadStep ==
  \/ WatcherNew
  \/ \E d \in Device : WatcherEvent(d)
  \/ WatcherRescan
  \/ ReloadReasons({})
  \/ \E t \in Thread : Scan(t) \/ AddRecorded(t) \/ AllReconciled(t)
  \/ Reconcile

Next ==
  \/ HostNext
  \/ ReloadNext
  \/ WatcherFails
  \/ Failures /\ ReloadReasons({"mount"})
  \/ ThreadStep

Spec == Init /\ [][Next]_vars

\* The threads are never stopped: each takes its next step once it can.
FairSpec == Spec /\ WF_vars(ThreadStep)

-----------------------------------------------------------------------------
(* Properties.                                                              *)

TypeOK ==
  /\ host \in [Device -> Entry \cup {Absent}]
  /\ hostLeft \in Nat /\ reloadsLeft \in Nat
  /\ watching \in BOOLEAN /\ lost \in BOOLEAN
  /\ events \in [Device -> Nat]
  /\ plan \in SUBSET Class
  /\ unapplied \in SUBSET Reason /\ pending \in SUBSET Reason
  /\ devices \in [Device -> Published \cup {Absent}]
  /\ nodes \in [Device -> Int]
  /\ links \in [Name -> Device \cup {NoDevice}]
  /\ pc \in [Thread -> PC]
  /\ todo \in [Thread -> SUBSET Device]
  /\ holder \in Thread \cup {"none"}
  /\ step \in Step
  /\ cur \in Device
  /\ seen \in Entry \cup {Absent}
  /\ cls \in SUBSET Class
  /\ left \in SUBSET Name
  /\ ret \in {"decide", "release"}
  /\ intact \in BOOLEAN

\* The udev entry of d matches a class of the current plan.
Matches(d) == classify(host[d], plan) # {}

\* A device has a record exactly while its node is attached, once, except
\* between attaching it and recording it, and between detaching it and
\* forgetting it: publish records "as soon as the node is attached, so a
\* failure from here on can always be undone", and no node is attached
\* over another that would survive one detach.
NodeRecorded ==
  \A d \in Device :
    nodes[d] = IF \/ Recorded(d) /\ ~(step = "forget" /\ cur = d)
                  \/ step = "record" /\ cur = d
                 THEN 1 ELSE 0

\* A name below /dev never points to a hidden name without a node: "an app
\* watching /dev never sees a half-ready node", and removing a device takes
\* its names away before its node.
LinkReady == \A n \in Name : links[n] # NoDevice => nodes[links[n]] = 1

\* A device whose node could not be detached stays a restart reason through
\* every config reload, until the node is gone: State::unapplied is part of
\* State::pending_restart.
UnappliedPending == unapplied \subseteq pending

\* Nothing is left to do: both threads wait and no event is queued.
Quiescent ==
  /\ pc["watcher"] = "idle" /\ pc["reload"] = "idle"
  /\ holder = "none"
  /\ ~lost
  /\ \A d \in Device : events[d] = 0

\* Once both threads have caught up with the host and with the config, a node
\* is reachable only for a device that the current classes grant, or the
\* sandbox is marked for a restart because the node could not be removed.
OnlyGranted ==
  Quiescent => \A d \in Device : nodes[d] > 0 => Matches(d) \/ d \in pending

\* udev gives the name n to no device but d.
OwnName(d, n) == \A e \in Device \ {d} : \A x \in Entries[e] : n \notin Names(x)

\* As long as no operation has failed, every granted device is there once both
\* threads have caught up, marked complete, and every name it was published with
\* leads to it, but for names that udev gives to another device too: such a
\* link is taken over by that device and goes with it (CompleteLinksExist below).
AllPublished ==
  Quiescent /\ intact =>
    \A d \in Device : Matches(d) =>
      /\ Recorded(d) /\ devices[d].complete
      /\ \A n \in devices[d].names : OwnName(d, n) => links[n] = d

\* A device that is no longer granted does not stay for ever: it goes, is
\* granted again, or becomes a restart reason (the watcher thread lives).
StaleGoes ==
  \A d \in Device :
    (Recorded(d) /\ ~Matches(d) /\ pc["watcher"] # "dead")
      ~> (~Recorded(d) \/ Matches(d) \/ d \in pending \/ pc["watcher"] = "dead")

\* reconcile's own description: it acts "so /dev matches the host".  Once
\* both threads have caught up, a published device has the names udev gives
\* it now.
NamesMatchHost ==
  Quiescent =>
    \A d \in Device :
      Recorded(d) /\ devices[d].complete /\ host[d] # Absent =>
        devices[d].names = Names(host[d])

\* Published::complete says "all links are in place": while nobody is
\* reconciling, each name of a complete device exists.
CompleteLinksExist ==
  holder = "none" =>
    \A d \in Device :
      Recorded(d) /\ devices[d].complete =>
        \A n \in devices[d].names : links[n] # NoDevice
=============================================================================
