----------------------------- MODULE OutputModes -----------------------------
(***************************************************************************)
(* The mode the title bar proxy tells the bridge for an output, when        *)
(* xwayland.scale asks for another scale than the compositor's              *)
(* (decorations/proxy.rs and scale.rs).  The compositor describes an output *)
(* in several events, on the wl_output and on the bridge's zxdg_output_v1,  *)
(* and ends each change with a `done`; the proxy's own connection describes *)
(* it too.                                                                  *)
(***************************************************************************)
EXTENDS Integers, Sequences

CONSTANTS
  Modes,     \* modes of the output, in pixels
  Logicals,  \* its logical sizes
  Scales,    \* its whole scales
  MaxScale,  \* the largest scale (16)
  MaxChanges \* changes the compositor makes

NoSize == <<0, 0>>

ASSUME OutputAssumption == NoSize \notin Modes /\ NoSize \notin Logicals

VARIABLES
  kind,      \* XwaylandScale
  xdgVersion, \* version of the bridge's zxdg_output_v1
  host,      \* the output as the compositor has it: [mode, logical, rotated, scale]
  queue,     \* its events, not yet read by the proxy
  changes,   \* changes so far
  out,       \* Role::Output: [scale, rotated, logical, mode, told]
  own,       \* Proxy::outputs of it: [logical, rotated], NoSize when not known
  xdg,       \* the bridge has a zxdg_output_v1 for it
  bridgeMode, \* the current mode the bridge knows
  sized      \* it has had a logical_size since, on its zxdg_output_v1

outputVars == <<kind, xdgVersion, host, queue, changes, out, own, xdg, bridgeMode, sized>>

Clamp(lo, v, hi) == IF v < lo THEN lo ELSE IF v > hi THEN hi ELSE v
Abs(n) == IF n < 0 THEN 0 - n ELSE n
CeilDiv(a, b) == (a + b - 1) \div b

\* scale::mode: `whole` is the compositor's scale, 0 when it sends none.
ScaleMode(k, mode, logical, rotated, whole) ==
  LET l == IF rotated THEN <<logical[2], logical[1]>> ELSE logical
      ratio == CeilDiv((240 * mode[1] + l[1]) \div (2 * l[1]), 120)
      s == Clamp(1, IF whole # 0 THEN whole ELSE ratio, MaxScale)
      big == <<l[1] * s, l[2] * s>>
  IN IF logical = NoSize \/ k = "native" THEN mode
     ELSE IF k = "compositor" THEN l
     ELSE IF Abs(mode[1] - big[1]) < s /\ Abs(mode[2] - big[2]) < s THEN mode ELSE big

\* Proxy::told_mode: the bridge's own zxdg_output_v1 before the proxy's connection.
ToldMode(o, g) ==
  LET known == o.logical # NoSize IN
  ScaleMode(kind, o.mode, IF known THEN o.logical ELSE g.logical,
            IF ~known /\ g.logical # NoSize THEN g.rotated ELSE o.rotated, o.scale)

OutputInit ==
  /\ kind \in {"native", "roundUp", "compositor"} /\ xdgVersion \in {2, 3}
  /\ host \in [mode : Modes, logical : Logicals, rotated : BOOLEAN, scale : Scales]
  /\ queue = <<>> /\ changes = 0
  /\ out = [scale |-> 0, rotated |-> FALSE, logical |-> NoSize, mode |-> NoSize, told |-> NoSize]
  /\ own \in {[logical |-> host.logical, rotated |-> host.rotated], [logical |-> NoSize, rotated |-> FALSE]}
  /\ xdg = FALSE /\ bridgeMode = NoSize /\ sized = FALSE

\* What the compositor sends on a wl_output (from version 2).
Description(h) == <<[ev |-> "geometry", rotated |-> h.rotated], [ev |-> "mode", size |-> h.mode],
                    [ev |-> "scale", scale |-> h.scale], [ev |-> "done"]>>
XdgDescription(h) == <<[ev |-> "logical", size |-> h.logical],
                       [ev |-> IF xdgVersion < 3 THEN "xdg_done" ELSE "done"]>>

Described == out.mode # NoSize \/ queue # <<>>

\* The bridge binds the output, and later asks for its zxdg_output_v1.
BindOutput ==
  /\ ~Described
  /\ queue' = Description(host)
  /\ UNCHANGED <<kind, xdgVersion, host, changes, out, own, xdg, bridgeMode, sized>>

GetXdgOutput ==
  /\ Described /\ ~xdg
  /\ xdg' = TRUE
  /\ queue' = queue \o XdgDescription(host)
  /\ UNCHANGED <<kind, xdgVersion, host, changes, out, own, bridgeMode, sized>>

\* The output changes: the compositor tells both objects, the proxy's own
\* connection is read at any time after.
OutputChanges(h) ==
  /\ changes < MaxChanges /\ Described /\ h # host
  /\ changes' = changes + 1
  /\ host' = h
  /\ queue' = queue \o SubSeq(Description(h), 1, 3)
                \o (IF xdg THEN XdgDescription(h) ELSE <<>>)
                \o (IF xdg /\ xdgVersion >= 3 THEN <<>> ELSE <<[ev |-> "done"]>>)
  /\ UNCHANGED <<kind, xdgVersion, out, own, xdg, bridgeMode, sized>>

\* State::take_output, Proxy::set_output.
SetOutput ==
  /\ own # [logical |-> host.logical, rotated |-> host.rotated]
  /\ own' = [logical |-> host.logical, rotated |-> host.rotated]
  /\ UNCHANGED <<kind, xdgVersion, host, queue, changes, out, xdg, bridgeMode, sized>>

Read(ev) == queue # <<>> /\ Head(queue).ev = ev /\ queue' = Tail(queue)
OutputFixed == UNCHANGED <<kind, xdgVersion, host, changes, own, xdg>>

\* wl_output.geometry and wl_output.scale.
Geometry ==
  /\ Read("geometry")
  /\ out' = [out EXCEPT !.rotated = Head(queue).rotated]
  /\ OutputFixed /\ UNCHANGED <<bridgeMode, sized>>

Scale ==
  /\ Read("scale")
  /\ out' = [out EXCEPT !.scale = Head(queue).scale]
  /\ OutputFixed /\ UNCHANGED <<bridgeMode, sized>>

\* wl_output.mode is held until `done`, unless the scale is the compositor's own.
Mode ==
  /\ Read("mode")
  /\ IF kind = "native"
     THEN bridgeMode' = Head(queue).size /\ sized' = FALSE /\ out' = [out EXCEPT !.mode = Head(queue).size]
     ELSE out' = [out EXCEPT !.mode = Head(queue).size] /\ UNCHANGED <<bridgeMode, sized>>
  /\ OutputFixed

\* zxdg_output_v1.logical_size is kept and passed on.
LogicalSize ==
  /\ Read("logical")
  /\ out' = [out EXCEPT !.logical = Head(queue).size]
  /\ sized' = TRUE
  /\ OutputFixed /\ UNCHANGED bridgeMode

\* Mutant: the bridge's zxdg_output_v1 is not told of the new mode.
TellModeOnly ==
  LET told == ToldMode(out, own) IN
  IF kind = "native" \/ out.mode = NoSize \/ out.told = told
  THEN UNCHANGED <<out, bridgeMode, sized>>
  ELSE out' = [out EXCEPT !.told = told] /\ bridgeMode' = told /\ sized' = FALSE

\* Proxy::tell_mode: a mode that is new, and a logical_size for it.
TellMode ==
  LET told == ToldMode(out, own) IN
  IF kind = "native" \/ out.mode = NoSize \/ out.told = told
  THEN UNCHANGED <<out, bridgeMode, sized>>
  ELSE out' = [out EXCEPT !.told = told] /\ bridgeMode' = told /\ sized' = xdg

Done == (Read("done") \/ Read("xdg_done")) /\ TellMode /\ OutputFixed

OutputNext ==
  \/ BindOutput \/ GetXdgOutput \/ SetOutput
  \/ \E m \in Modes, l \in Logicals, r \in BOOLEAN, s \in Scales :
       OutputChanges([mode |-> m, logical |-> l, rotated |-> r, scale |-> s])
  \/ Geometry \/ Scale \/ Mode \/ LogicalSize \/ Done

OutputSpec == OutputInit /\ [][OutputNext]_outputVars

(* Once the bridge has read everything about an output for which it has a         *)
(* zxdg_output_v1, in whatever order the objects were made and the proxy's own    *)
(* connection was read, its mode is the one the scale gives for the output as it  *)
(* is, and a logical_size has followed, which is what makes it size its screen.   *)
ScreenFits ==
  queue = <<>> /\ xdg =>
    /\ bridgeMode = ScaleMode(kind, host.mode, host.logical, host.rotated, host.scale)
    /\ kind # "native" => sized
=============================================================================
