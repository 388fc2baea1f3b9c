------------------------------- MODULE Plan -------------------------------
(***************************************************************************)
(* Plans (plan.rs): what a sandbox's root is made of, the checks before it *)
(* is built, and how a running sandbox gets from one plan to another.      *)
(*                                                                         *)
(* A plan keeps its mounts in order, the settings a reload compares, and   *)
(* the problems found while planning.  Of the mounts every sandbox has,    *)
(* /usr stands for the read-only host directories and /tmp for the tmpfs   *)
(* ones; environment, apps and links to directories are left out.          *)
(***************************************************************************)
EXTENDS Integers, FiniteSets, Sequences, SequencesExt, MountTree

CONSTANTS
    HostPaths,      \* the host paths that exist, forwarded sockets aside
    WaylandKnown,   \* HostEnv names a Wayland socket
    Pasta,          \* pasta is installed
    SessionBus,     \* the host's session bus has a path
    MaxDepth        \* no destination is deeper

Usr == <<"usr">>
Tmp == <<"tmp">>
X11Dir == <<"tmp", "X11">>
Rt == <<"rt">>
Wayland == <<"rt", "wayland">>
Pipewire == <<"rt", "pipewire">>
BusSocket == <<"rt", "bus">>
HomeDir == <<"home">>
CacheDir == <<"home", "cache">>
PsboxBin == <<"psbox", "bin">>
Handler == <<"psbox", "config">>
Resolv == <<"resolv">>
Resolve == <<"resolve">>
SandboxRoot == <<"Sandbox">>
HostHome == <<"Sandbox", "box">>
Exe == <<"usr", "psbox">>

\* Mounts, with the fields of every kind.
Mount(kind, src, at, ro, optional) ==
    [kind |-> kind, src |-> src, at |-> at, ro |-> ro, optional |-> optional]
Bind(src, at, ro, optional) == Mount("bind", src, at, ro, optional)
Tmpfs(at) == Mount("tmpfs", <<>>, at, FALSE, FALSE)
File(at) == Mount("file", <<>>, at, TRUE, FALSE)
Overlay(lower, at, optional) == Mount("overlay", lower, at, FALSE, optional)

When(condition, seq) == IF condition THEN seq ELSE <<>>

\* automatic is isolated with pasta and host without; isolated without pasta
\* is a problem.
ResolveNetwork(setting) ==
    IF setting = "automatic" THEN (IF Pasta THEN "isolated" ELSE "host") ELSE setting

NetworkMount(network) ==
    CASE network = "host"     -> << Bind(Resolve, Resolve, TRUE, TRUE) >>
      [] network = "isolated" -> << File(Resolv) >>
      [] OTHER                -> <<>>

\* Sockets of the host's runtime directory, at the same place in the sandbox.
SocketMounts(spec) ==
    When(spec.display /\ WaylandKnown, << Bind(Wayland, Wayland, TRUE, TRUE) >>)
    \o When(spec.audio, << Bind(Pipewire, Pipewire, TRUE, TRUE) >>)

HomeMounts(spec) ==
    CASE spec.home = "path" ->
            << Bind(HostHome, HomeDir, FALSE, FALSE) >>
            \o When(spec.cache = "temporary", << Tmpfs(CacheDir) >>)
      [] spec.home = "temporary" -> << Tmpfs(HomeDir) >>
      [] OTHER -> <<>>

Xwayland(spec) == IF spec.display /\ WaylandKnown THEN spec.xwayland ELSE "none"

OpenUrls(spec) == IF spec.dbus = "none" THEN FALSE ELSE spec.links

\* The host's bus, and the link handler with the executable it runs, which
\* title bars run too.
OwnMounts(spec) ==
    When(spec.dbus = "host" /\ SessionBus, << Bind(BusSocket, BusSocket, TRUE, FALSE) >>)
    \o When(OpenUrls(spec) \/ Xwayland(spec) = "builtin", << Bind(Exe, PsboxBin, TRUE, FALSE) >>)
    \o When(OpenUrls(spec), << File(Handler) >>)

\* psbox sets up the root itself; a share there is a problem and no mount.
Planned(share) == share.at # <<>>

ShareMount(share) ==
    CASE share.mode = "empty"   -> Tmpfs(share.at)
      [] share.mode = "overlay" -> Overlay(share.source, share.at, share.optional)
      [] OTHER -> Bind(share.source, share.at, share.mode = "read-only", share.optional)

\* The shares, parents before children, in the order of their names.
ShareMounts(spec) ==
    LET shares == ToSet(spec.shares)
        At(d) == Those(spec.shares, {s \in shares : Planned(s) /\ Len(s.at) = d})
    IN [i \in DOMAIN FlattenSeq([d \in 1 .. MaxDepth |-> At(d)]) |->
            ShareMount(FlattenSeq([d \in 1 .. MaxDepth |-> At(d)])[i])]

Mounts(spec) ==
    << Bind(Usr, Usr, TRUE, FALSE), Tmpfs(Tmp) >>
    \o NetworkMount(ResolveNetwork(spec.network))
    \o << Tmpfs(Rt) >>
    \o SocketMounts(spec)
    \o HomeMounts(spec)
    \o OwnMounts(spec)
    \o ShareMounts(spec)
    \o When(Xwayland(spec) # "none", << Tmpfs(X11Dir) >>)

\* What stops a sandbox whatever the host has.
PlanningProblems(spec) ==
    {p \in {<<"setting", "network">>} : spec.network = "isolated" /\ ~Pasta}
    \union {p \in {<<"setting", "dbus">>} : spec.dbus = "host" /\ ~SessionBus}
    \union {<<"config", s.at>> : s \in {t \in ToSet(spec.shares) : ~Planned(t)}}

\* The host paths a plan shares and does not mark optional.
Sources(spec) ==
    {[path |-> s.source, dir |-> s.create] :
        s \in {t \in ToSet(spec.shares) : ~t.optional /\ t.mode # "empty"}}

Build(spec) ==
    [mounts   |-> Mounts(spec),
     settings |-> [home     |-> IF spec.home = "path" THEN HostHome ELSE <<>>,
                   dbus     |-> spec.dbus,
                   talk     |-> IF spec.dbus = "portal" THEN spec.talk ELSE {},
                   xwayland |-> Xwayland(spec),
                   scale    |-> IF Xwayland(spec) = "builtin" THEN spec.scale ELSE "native",
                   network  |-> ResolveNetwork(spec.network),
                   bits     |-> spec.bits,
                   links    |-> OpenUrls(spec)],
     sources  |-> Sources(spec),
     problems |-> PlanningProblems(spec)]

(***************************************************************************)
(* Checks before a plan is used.                                           *)
(***************************************************************************)

\* Shared host paths that do not exist and are not made at the start either:
\* directories below the sandbox root are.
MissingSources(plan, host) ==
    {s.path : s \in {t \in plan.sources :
        t.path \notin host /\ ~(t.dir /\ IsPrefix(SandboxRoot, t.path))}}

\* Whether a plan entry puts a mount in the tree.
Mounted(m, host) ==
    CASE m.kind \in {"bind", "overlay"} -> ~(m.optional /\ m.src \notin host)
      [] m.kind = "tmpfs" -> TRUE
      [] OTHER -> FALSE

\* The deepest of the mounts made before mount i that contain its
\* destination, the last of them if several are as deep; 0 for the root.
Above(mounts, i, host) ==
    LET over == {j \in 1 .. i - 1 :
                    Mounted(mounts[j], host) /\ IsPrefix(mounts[j].at, mounts[i].at)}
    IN IF over = {} THEN 0
       ELSE CHOOSE j \in over : \A k \in over :
                \/ Len(mounts[k].at) < Len(mounts[j].at)
                \/ Len(mounts[k].at) = Len(mounts[j].at) /\ k <= j

\* Mount points that cannot be made: those missing from a read-only bind
\* above them.
BlockedPoints(plan, host) ==
    {plan.mounts[i].at : i \in {j \in DOMAIN plan.mounts :
        /\ Mounted(plan.mounts[j], host)
        /\ \A k \in 1 .. j - 1 : plan.mounts[k].at # plan.mounts[j].at
        /\ LET a == Above(plan.mounts, j, host) IN
           /\ a # 0
           /\ plan.mounts[a].kind = "bind" /\ plan.mounts[a].ro
           /\ plan.mounts[a].src \o Below(plan.mounts[a].at, plan.mounts[j].at) \notin host}}

Preflight(plan, host) ==
    /\ plan.problems = {}
    /\ MissingSources(plan, host) = {}
    /\ BlockedPoints(plan, host) = {}

(***************************************************************************)
(* From one plan to another.                                               *)
(***************************************************************************)

\* Mounts a running sandbox can gain and lose.
LiveMount(m) == m.kind \in {"bind", "tmpfs"} /\ m.at # X11Dir

\* Settings that differ and take a restart.
SettingReasons(old, new) ==
    LET o == old.settings
        n == new.settings
        cached(p) == Tmpfs(CacheDir) \in ToSet(p.mounts)
    IN {s \in {"home", "dbus", "talk", "xwayland", "network", "bits"} : o[s] # n[s]}
       \union {s \in {"scale"} : o.scale # n.scale /\ o.xwayland = n.xwayland}
       \union {s \in {"links"} : o.links # n.links /\ o.dbus = n.dbus}
       \union {s \in {"cache"} : o.home = n.home /\ cached(old) # cached(new)}

\* A mount's own reason is left out when a setting's reason explains it.
Explained(at, settings) ==
    \/ "xwayland" \in settings /\ at \in {X11Dir, PsboxBin}
    \/ settings \intersect {"links", "dbus"} # {} /\ IsPrefix(Parent(Handler), at)
    \/ "network" \in settings /\ at \in {Resolv, Resolve}
    \/ "home" \in settings /\ IsPrefix(HomeDir, at)

\* Where two plans differ: at the destination of a mount only one of them has.
Changed(old, new) ==
    LET o == ToSet(old.mounts)
        n == ToSet(new.mounts)
    IN {m.at : m \in (o \ n) \union (n \ o)}

\* Mutant: only what differs is changed.
BeneathNothing(m, changed) == FALSE

\* Detaching a mount takes what is on it along, and attaching one hides what
\* is there, so a mount below a changed one is made again.
BeneathChanged(m, changed) == \E d \in changed : m.at # d /\ IsPrefix(d, m.at)

Redone(m, other, changed) == m \notin ToSet(other.mounts) \/ BeneathChanged(m, changed)

Diff(old, new) ==
    LET changed  == Changed(old, new)
        detach   == Those(Reverse(old.mounts), {m \in ToSet(old.mounts) : Redone(m, new, changed)})
        attach   == Those(new.mounts, {m \in ToSet(new.mounts) : Redone(m, old, changed)})
        settings == SettingReasons(old, new)
        fixed    == {m.at : m \in {x \in ToSet(detach) \union ToSet(attach) : ~LiveMount(x)}}
        restart  == {<<s>> : s \in settings}
                    \union {<<"mount", at>> : at \in {a \in fixed : ~Explained(a, settings)}}
    IN [restart |-> restart,
        detach  |-> IF restart = {} THEN detach ELSE <<>>,
        attach  |-> IF restart = {} THEN attach ELSE <<>>]

============================================================================
