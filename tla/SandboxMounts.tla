--------------------------- MODULE SandboxMounts ---------------------------
(***************************************************************************)
(* The mounts of a running sandbox: the plan's, changed by config reloads, *)
(* forwarded host sockets, the live mounts of `psbox mount` and the file   *)
(* chooser, and overlays refreshed after a task (supervisor.rs, inject.rs).*)
(*                                                                         *)
(* Everything that changes the tree holds the `mounting` lock.  A reload   *)
(* is two steps, since the host goes on while it prepares its mounts; the  *)
(* rest is one step each.  The socket watcher chooses what to attach       *)
(* before it takes the lock.                                               *)
(***************************************************************************)
EXTENDS Plan, TLC

CONSTANTS
    Specs,          \* the configs a reload can find; the first plan is Build of one
    Hosts,          \* host paths users mount
    LiveAt,         \* where they mount them
    Files,          \* host files the file chooser exposes
    Lowers,         \* host directories tasks write
    Sockets,        \* the forwarded sockets that come and go
    FailAt,         \* where attaching or detaching can fail
    MaxLive,        \* bound on live mounts
    MaxGen,         \* bound on the times a socket is made or a lower written
    MaxDocs,        \* bound on exposed documents
    Nothing         \* no mount, no reload, no path

\* Paths are names from the root down, and nothing is mounted at the root.
ASSUME MountsAssumption ==
    /\ MaxDepth \in Nat
    /\ LiveAt \subseteq Seq(STRING) \ {<<>>}
    /\ \A s \in Specs : s.shares \in Seq([source   : Seq(STRING),
                                         at       : Seq(STRING),
                                         mode     : {"read-only", "read-write", "empty", "overlay"},
                                         optional : BOOLEAN,
                                         create   : BOOLEAN])

VARIABLES
    plan,           \* the running plan
    tree,           \* what is mounted (MountTree)
    live,           \* State.mounts: the live mounts, as recorded
    sockets,        \* State.sockets: forwarded sockets taken for attached
    unapplied,      \* State.unapplied: mounts that failed, until a restart
    pending,        \* State.pending_restart
    docs,           \* State.docs
    up,             \* forwarded sockets that exist on the host
    gen,            \* how often each socket was made, and each lower written
    events,         \* inotify events of the runtime directory
    chosen,         \* the mount the socket watcher is about to attach
    applying,       \* the reload that holds the lock
    astray          \* a detach took a mount it was not meant for, an unmounted
                    \* live mount is left hidden under a newer mount, the mount
                    \* of a replaced plan was attached, or a socket was
                    \* attached over a live mount

vars == << plan, tree, live, sockets, unapplied, pending, docs, up, gen,
           events, chosen, applying, astray >>

\* The plans of the configs.
Plans == {p \in {Build(s) : s \in Specs} : Preflight(p, HostPaths \union Sockets)}

\* How to get from each plan to each other one, or to itself.
Changes == {[old |-> o, new |-> n, change |-> Diff(o, n)] : o \in Plans, n \in Plans}

\* The mounting lock is free.
Unlocked == applying = Nothing

\* A mount as it is made: its generation tells a new socket, or a new view of
\* a lower directory, from an older one.
Made(m, g) == [kind |-> m.kind, src |-> m.src, ro |-> m.ro,
               gen |-> IF m.src \in DOMAIN g THEN g[m.src] ELSE 0]

\* The source exists (open_source).
Present(m, there) == m.src \in Sockets => m.src \in there

\* Mounts of a plan attached in order, those whose source is there.
AttachMade(tr, mounts, there, g) ==
    FoldLeft(LAMBDA t, m : IF Present(m, there) THEN Attach(t, m.at, Made(m, g)) ELSE t,
             tr, mounts)

\* What a plan's mounts look like on a fresh root.
BuildRoot(mounts, there, g) == AttachMade(Bare, mounts, there, g)

\* The mount point exists or can be made in what is mounted above it: only a
\* read-only bind cannot take a new one.
EnsurePoint(t, at) ==
    LET k == Top(t, at) IN
    k # <<>> => \/ Last(k) = at
                \/ t[k].kind # "bind" \/ ~t[k].ro
                \/ t[k].src \o Below(Last(k), at) \in HostPaths

\* The destinations at which a reload's steps fail for reasons of their own.
Bad == {{}} \union {{at} : at \in FailAt}

ForwardedSocket(m) == m.kind = "bind" /\ IsPrefix(Rt, m.src)

Init ==
    /\ plan \in Plans
    /\ up \in SUBSET Sockets
    /\ gen = [s \in Sockets \union Lowers |-> 1]
    /\ tree = BuildRoot(plan.mounts, up, gen)
    \* init_sockets
    /\ sockets = {m.at : m \in {x \in ToSet(plan.mounts) : ForwardedSocket(x) /\ Present(x, up)}}
    /\ live = <<>>
    /\ unapplied = {}
    /\ pending = {}
    /\ docs = 0
    /\ events = <<>>
    /\ chosen = Nothing
    /\ applying = Nothing
    /\ astray = FALSE

(***************************************************************************)
(* Live mounts.                                                            *)
(***************************************************************************)

LiveRecord(host, at, rw) == [host |-> host, at |-> at, rw |-> rw]

LiveMade(l) == [kind |-> "bind", src |-> l.host, ro |-> ~l.rw, gen |-> 0]

Record(records, l) == Append(records, l)

MountRequest(host, at, rw) ==
    LET l == LiveRecord(host, at, rw) IN
    /\ Unlocked
    /\ Len(live) < MaxLive
    /\ host \in HostPaths
    /\ EnsurePoint(tree, at)
    /\ tree' = Attach(tree, at, LiveMade(l))
    /\ live' = Record(live, l)
    /\ UNCHANGED << plan, sockets, unapplied, pending, docs, up, gen, events,
                    chosen, applying, astray >>

\* The first live mount at that path loses its record; the mount on top at
\* the path goes, with everything on it.
Umount(at) ==
    LET at_ == {i \in DOMAIN live : live[i].at = at}
        idx == CHOOSE i \in at_ : \A j \in at_ : i <= j
        top == Top(tree, at)
    IN
    /\ Unlocked
    /\ at_ # {}
    /\ IsMountPoint(tree, at)
    /\ tree' = Detach(tree, at)
    /\ live' = RemoveAt(live, idx)
    /\ astray' = \/ astray
                 \/ Subtree(tree, top) # {top}
                 \/ tree[top] # LiveMade(live[idx])
                 \/ \E k \in DOMAIN tree \ {top} : Last(k) = at /\ tree[k] = tree[top]
    /\ UNCHANGED << plan, sockets, unapplied, pending, docs, up, gen, events, chosen, applying >>

\* Every mount with its writable source, in the order it was made as far as
\* the records tell (visible_at).
Listed ==
    [i \in 1 .. Len(plan.mounts) + Len(live) |->
        IF i <= Len(plan.mounts)
        THEN LET m == plan.mounts[i] IN
             [rw |-> m.kind = "bind" /\ ~m.ro, src |-> m.src, at |-> m.at]
        ELSE LET l == live[i - Len(plan.mounts)] IN
             [rw |-> l.rw, src |-> l.host, at |-> l.at]]

\* Mutant: the last mount containing the path will do.
TopmostLast(listed, p) ==
    LET over == {i \in DOMAIN listed : IsPrefix(listed[i].at, p)}
    IN IF over = {} THEN 0 ELSE CHOOSE i \in over : \A j \in over : j <= i

\* The mount seen at p, if the list is clear about it: the last to contain p,
\* with none deeper and no other as deep.
Topmost(listed, p) ==
    LET over == {i \in DOMAIN listed : IsPrefix(listed[i].at, p)}
        last == IF over = {} THEN 0 ELSE CHOOSE i \in over : \A j \in over : j <= i
    IN IF /\ over # {}
          /\ \A j \in over \ {last} : Len(listed[j].at) < Len(listed[last].at)
       THEN last ELSE 0

\* Where a host file is already seen through a writable bind, or Nothing.  Of
\* several binds the one with the deepest source counts (visible_through).
VisibleAt(file) ==
    LET listed == Listed
        seen(i) == listed[i].at \o Below(listed[i].src, file)
        clear == {i \in DOMAIN listed : /\ listed[i].rw
                                        /\ IsPrefix(listed[i].src, file)
                                        /\ Topmost(listed, seen(i)) = i}
    IN IF clear = {} THEN Nothing
       ELSE seen(CHOOSE i \in clear : \A j \in clear :
                    \/ Len(listed[j].src) < Len(listed[i].src)
                    \/ Len(listed[j].src) = Len(listed[i].src) /\ j <= i)

DocAt(n) == <<"rt", "doc", ToString(n)>>

\* The file chooser: a file that no writable bind shows is mounted at a path
\* of its own (expose).
Expose(file) ==
    LET l == LiveRecord(file, DocAt(docs + 1), TRUE) IN
    /\ Unlocked
    /\ docs < MaxDocs /\ Len(live) < MaxLive
    /\ VisibleAt(file) = Nothing
    /\ docs' = docs + 1
    /\ IF EnsurePoint(tree, l.at)
       THEN tree' = Attach(tree, l.at, LiveMade(l)) /\ live' = Record(live, l)
       ELSE UNCHANGED << tree, live >>
    /\ UNCHANGED << plan, sockets, unapplied, pending, up, gen, events, chosen,
                    applying, astray >>

(***************************************************************************)
(* Reloads (apply).                                                        *)
(***************************************************************************)

\* What the restart is pending for.
PendingFor(reasons, failed) == reasons \union {<<"mount", at>> : at \in failed}

\* A reload whose plan fails its checks, or one of whose mounts cannot be
\* prepared, changes nothing.  One that needs a restart is only recorded.
ApplyRestart(new, change) ==
    /\ Unlocked
    /\ change.restart # {}
    /\ pending' = PendingFor(change.restart, unapplied)
    /\ UNCHANGED << plan, tree, live, sockets, unapplied, docs, up, gen, events,
                    chosen, applying, astray >>

\* Otherwise every new mount is prepared before anything is detached; an
\* optional one whose source is missing is passed over.
ApplyPrepare(new, change) ==
    /\ Unlocked
    /\ change.restart = {}
    /\ \A m \in ToSet(change.attach) : m.optional \/ Present(m, up)
    /\ applying' = [new    |-> new,
                    change |-> change,
                    got    |-> [i \in DOMAIN change.attach |->
                                    IF Present(change.attach[i], up)
                                    THEN Made(change.attach[i], gen) ELSE Nothing]]
    /\ UNCHANGED << plan, tree, live, sockets, unapplied, pending, docs, up, gen,
                    events, chosen, astray >>

\* One detach.  It takes whatever is on top at the path; with nothing mounted
\* there it fails, which is right for an optional bind that had no source.
DetachStep(bad, acc, m) ==
    LET there == IsMountPoint(acc.tree, m.at)
        top == Top(acc.tree, m.at)
        gone == ~there /\ m.kind = "bind" /\ m.optional
        others == {j \in Subtree(acc.tree, top) :
                    \A l \in ToSet(live) : LiveMade(l) # acc.tree[j] \/ l.at # Last(j)}
    IN IF m.at \in bad \/ ~(there \/ gone)
       THEN [acc EXCEPT !.failed = @ \union {m.at}]
       ELSE [tree    |-> IF there THEN Detach(acc.tree, m.at) ELSE acc.tree,
             sockets |-> acc.sockets \ {m.at},
             failed  |-> acc.failed,
             astray  |-> acc.astray \/ (there /\ (\/ acc.tree[top].src # m.src
                                                  \/ acc.tree[top].kind # m.kind
                                                  \/ others # {top}))]

DetachAll(bad, zero, mounts) ==
    FoldLeft(LAMBDA acc, m : DetachStep(bad, acc, m), zero, mounts)

PlaceStep(bad, acc, m, made) ==
    IF made = Nothing THEN acc
    ELSE IF m.at \in bad \/ ~EnsurePoint(acc.tree, m.at)
    THEN [acc EXCEPT !.failed = @ \union {m.at}]
    ELSE [acc EXCEPT !.tree = Attach(@, m.at, made),
                     !.sockets = IF ForwardedSocket(m) THEN @ \union {m.at} ELSE @]

PlaceAll(bad, zero, mounts, got, order) ==
    FoldLeft(LAMBDA acc, i : PlaceStep(bad, acc, mounts[i], got[i]), zero, order)

\* Mutant: only live mounts below what was detached are mounted again.
LostDetached(l, change) == \E m \in ToSet(change.detach) : IsPrefix(m.at, l.at)

\* Live mounts at or below a changed mount went with it or are hidden by it.
Lost(l, change) == \E m \in ToSet(change.detach \o change.attach) : IsPrefix(m.at, l.at)

\* A lost live mount is mounted again on top of what is there now; one that
\* cannot be is dropped.
Remount(bad, acc, l) ==
    IF l.at \in bad \/ ~EnsurePoint(acc.tree, l.at) THEN acc
    ELSE [acc EXCEPT !.tree = Attach(@, l.at, LiveMade(l)), !.live = Append(@, l)]

RemountAll(bad, zero, records) ==
    FoldLeft(LAMBDA acc, l : Remount(bad, acc, l), zero, records)

ApplyCommit ==
    /\ ~Unlocked
    /\ \E bad \in Bad :
         LET change == applying.change
             zero == [tree |-> tree, sockets |-> sockets, failed |-> {}, astray |-> astray]
             detached == DetachAll(bad, zero, change.detach)
             placed == PlaceAll(bad, detached, change.attach, applying.got,
                                [i \in DOMAIN change.attach |-> i])
             lost == Those(live, {l \in ToSet(live) : Lost(l, change)})
             kept == Those(live, {l \in ToSet(live) : ~Lost(l, change)})
             again == RemountAll(bad, [tree |-> placed.tree, live |-> kept], lost)
         IN
         /\ tree' = again.tree
         /\ live' = again.live
         /\ sockets' = placed.sockets
         /\ astray' = placed.astray
         /\ unapplied' = unapplied \union placed.failed
         /\ pending' = PendingFor({}, unapplied')
    /\ plan' = applying.new
    /\ applying' = Nothing
    /\ UNCHANGED << docs, up, gen, events, chosen >>

(***************************************************************************)
(* Forwarded sockets.                                                      *)
(***************************************************************************)

ServerStops(s) ==
    /\ s \in up
    /\ up' = up \ {s}
    /\ UNCHANGED << plan, tree, live, sockets, unapplied, pending, docs, gen,
                    events, chosen, applying, astray >>

ServerStarts(s) ==
    /\ s \notin up
    /\ gen[s] < MaxGen
    /\ up' = up \union {s}
    /\ gen' = [gen EXCEPT ![s] = @ + 1]
    /\ events' = Append(events, s)
    /\ UNCHANGED << plan, tree, live, sockets, unapplied, pending, docs, chosen,
                    applying, astray >>

\* The watcher looks the socket up in the plan of that moment.
ReadEvent ==
    /\ chosen = Nothing
    /\ events # <<>>
    /\ LET found == {m \in ToSet(plan.mounts) : ForwardedSocket(m) /\ m.src = Head(events)}
       IN chosen' = IF found = {} THEN Nothing ELSE CHOOSE m \in found : TRUE
    /\ events' = Tail(events)
    /\ UNCHANGED << plan, tree, live, sockets, unapplied, pending, docs, up, gen,
                    applying, astray >>

\* Then it takes the lock.  A socket taken for attached is replaced, another
\* is attached; a source that has gone again is no error (reattach_socket).
ReattachSocket ==
    /\ chosen # Nothing
    /\ Unlocked
    /\ LET at == chosen.at
           there == Present(chosen, up)
           swap == at \in sockets /\ there /\ IsMountPoint(tree, at)
           fresh == at \notin sockets /\ there /\ EnsurePoint(tree, at)
       IN
       /\ tree' = CASE swap  -> Replace(tree, at, Made(chosen, gen))
                    [] fresh -> Attach(tree, at, Made(chosen, gen))
                    [] OTHER -> tree
       /\ sockets' = IF at \notin sockets /\ (there => fresh) THEN sockets \union {at} ELSE sockets
       /\ astray' = \/ astray
                    \/ chosen \notin ToSet(plan.mounts)
                    \/ swap /\ tree[Top(tree, at)].src # chosen.src
                    \/ (swap \/ fresh) /\ \E l \in ToSet(live) : IsPrefix(at, l.at)
    /\ chosen' = Nothing
    /\ UNCHANGED << plan, live, unapplied, pending, docs, up, gen, events, applying >>

(***************************************************************************)
(* Overlays.                                                               *)
(***************************************************************************)

TaskWrites(d) ==
    /\ gen[d] < MaxGen
    /\ gen' = [gen EXCEPT ![d] = @ + 1]
    /\ UNCHANGED << plan, tree, live, sockets, unapplied, pending, docs, up,
                    events, chosen, applying, astray >>

\* Something else is mounted at the overlay's path or over it.
Covered(i, records) ==
    LET m == plan.mounts[i] IN
    \/ \E j \in DOMAIN plan.mounts \ {i} :
            \/ plan.mounts[j].at = m.at
            \/ j > i /\ IsPrefix(plan.mounts[j].at, m.at)
    \/ \E l \in ToSet(records) : IsPrefix(l.at, m.at)

\* The mounts that go back beneath a new overlay: the later ones of the plan
\* and the live ones, in order.
Beneath(i) ==
    LET at == plan.mounts[i].at
        under(p) == p # at /\ IsPrefix(at, p)
    IN << Those(SubSeq(plan.mounts, i + 1, Len(plan.mounts)), {m \in ToSet(plan.mounts) : under(m.at)}),
          Those(live, {l \in ToSet(live) : under(l.at)}) >>

AttachLive(tr, records) ==
    FoldLeft(LAMBDA t, l : Attach(t, l.at, LiveMade(l)), tr, records)

\* The overlay of plan entry i is made again with everything beneath it, and
\* swapped in as one tree; a tmpfs or overlay beneath it prevents that.
RefreshOverlay(i) ==
    LET m == plan.mounts[i]
        plans == Beneath(i)[1]
        lives == Beneath(i)[2]
        base == IF IsMountPoint(tree, m.at) THEN Replace(tree, m.at, Made(m, gen))
                                            ELSE Attach(tree, m.at, Made(m, gen))
        within == AttachMade(base, plans, up, gen)
    IN
    /\ Unlocked
    /\ m.kind = "overlay"
    /\ ~Covered(i, live)
    /\ \A x \in ToSet(plans) : x.kind \notin {"tmpfs", "overlay"}
    /\ \A x \in ToSet(plans) : x.optional \/ Present(x, up)
    /\ tree' = AttachLive(within, lives)
    /\ UNCHANGED << plan, live, sockets, unapplied, pending, docs, up, gen,
                    events, chosen, applying, astray >>

Next ==
    \/ \E h \in Hosts, a \in LiveAt, rw \in BOOLEAN : MountRequest(h, a, rw)
    \/ \E a \in LiveAt \union {DocAt(n) : n \in 1 .. MaxDocs} : Umount(a)
    \/ \E f \in Files : Expose(f)
    \/ \E c \in Changes : c.old = plan /\ (ApplyRestart(c.new, c.change) \/ ApplyPrepare(c.new, c.change))
    \/ ApplyCommit
    \/ \E s \in Sockets : ServerStops(s) \/ ServerStarts(s)
    \/ ReadEvent
    \/ ReattachSocket
    \/ \E d \in Lowers : TaskWrites(d)
    \/ \E i \in DOMAIN plan.mounts : RefreshOverlay(i)

Spec == Init /\ [][Next]_vars

(***************************************************************************)
(* Properties.                                                             *)
(***************************************************************************)

\* What a path shows: the host path behind it, and whether it can be written.
Shown(t, p) ==
    LET k == Top(t, p) IN
    IF k = <<>> THEN [kind |-> "root", host |-> p, ro |-> TRUE]
    ELSE [kind |-> t[k].kind,
          host |-> IF t[k].kind \in {"bind", "overlay"} THEN t[k].src \o Below(Last(k), p) ELSE Below(Last(k), p),
          ro   |-> t[k].ro]

\* The places something is ever mounted at.
Points == {m.at : m \in UNION {ToSet(p.mounts) : p \in Plans}}

\* The plan as a restart would mount it, with the sockets that are attached.
Restarted ==
    BuildRoot(plan.mounts, {s \in Sockets : \E k \in DOMAIN tree : Last(k) = s}, gen)

\* After any sequence of reloads, refreshes, live mounts and socket changes,
\* every path shows what the running plan puts there, unless a restart is
\* pending, or a live mount is over it (apply, diff, refresh).
ShownAsPlanned ==
    (Unlocked /\ pending = {} /\ ~astray) =>
        \A p \in Points :
            (\A l \in ToSet(live) : ~IsPrefix(l.at, p)) => Shown(tree, p) = Shown(Restarted, p)

\* A recorded live mount is what its path shows, although reloads and
\* refreshes take down and cover the mounts it is mounted on; only another
\* live mount hides it (apply, refresh_overlay).
LiveKept ==
    (Unlocked /\ ~astray) =>
        \A i \in DOMAIN live :
            \/ \E j \in DOMAIN live \ {i} : IsPrefix(live[j].at, live[i].at)
            \/ /\ IsMountPoint(tree, live[i].at)
               /\ tree[Top(tree, live[i].at)] = LiveMade(live[i])

\* The paths an app is given for a file: where it is visible already, or else
\* where it was mounted for it.
Handed(f) ==
    ({VisibleAt(f)} \ {Nothing})
    \union {l.at : l \in {r \in ToSet(live) : r.host = f /\ r.at \in {DocAt(n) : n \in 1 .. docs}}}

\* A path an app is given for a file shows that file, writable, although the
\* order of the mounts is only known from the records (visible_at, expose).
\* Left out are paths at or below a mount that could not be attached or
\* detached: it stays recorded as in the plan, and visible_at believes that.
ExposedSeen ==
    (Unlocked /\ ~astray) =>
        \A f \in Files : \A p \in Handed(f) :
            (\A u \in unapplied : ~IsPrefix(u, p)) =>
                Shown(tree, p) = [kind |-> "bind", host |-> f, ro |-> FALSE]

\* Forwarded sockets are attached when they first appear, and attached again
\* when their server makes them again (watch_sockets).
SocketsShown ==
    (Unlocked /\ events = <<>> /\ chosen = Nothing) =>
        \A m \in ToSet(plan.mounts) :
            (ForwardedSocket(m) /\ m.src \in up) =>
                \E k \in DOMAIN tree : Last(k) = m.at /\ tree[k] = Made(m, gen)

============================================================================
