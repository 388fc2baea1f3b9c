------------------------------- MODULE Frames -------------------------------
(***************************************************************************)
(* A window of the bridge's and its title bar (decorations/proxy.rs and     *)
(* frame.rs): what the proxy changes on the way to and from the compositor  *)
(* while the bar is there, and puts back when it goes.  A title bar lies    *)
(* above the window, so sizes are heights and positions are vertical.       *)
(* Which object an id stands for is the matter of ProxyObjects.             *)
(***************************************************************************)
EXTENDS Integers

CONSTANTS
  Header,   \* the height of a title bar
  Sizes,    \* heights of buffers, destinations, limits and geometries, 0 for none
  Tops,     \* upper edges of the geometries the bridge asks for
  MaxSide,  \* MAX_SIZE: the largest height a bar is drawn for
  IntMax,   \* the largest number of the protocol's signed integers
  Buffers   \* ids of buffers

ASSUME FramesAssumption ==
  /\ Header \in Nat /\ IntMax \in Nat /\ MaxSide \in Nat \ {0}
  /\ Sizes \subseteq 0..IntMax /\ Tops \subseteq Nat /\ Buffers \subseteq Nat \ {0}

NoValue == -1   \* no value

VARIABLES
  aspect,    \* what the bridge does besides asking for title bars
  toplevel,  \* the window has its xdg_toplevel
  deco,      \* and its zxdg_toplevel_decoration_v1
  frame,     \* Proxy::frames of it, or NoFrame
  surface,   \* Role::Surface: double-buffered attach, scale and destination
  buffer,    \* Role::Buffer of each id, NoValue without one
  limits,    \* Toplevel::{min, max}
  positioner, \* Role::Positioner: [anchor, size]
  popup,     \* whether the bridge has a popup on the window
  compLimits, compGeo, compPositioner, \* what the compositor has of them
  asked,     \* the geometry the window is to have without a bar, or Dropped
  shown,     \* the height of the content the surface really has
  reused,    \* a buffer id the surface has attached was used again
  wasFull,   \* the bar was hidden (fullscreen) since it is there
  wanted,    \* where the popup is: [bridge, comp, bar], the bar's height when it was placed
  popupTold  \* where the bridge was last told its popup is, and the bar's height then

winVars == <<toplevel, deco, frame, limits, compLimits, wasFull>>
surfVars == <<surface, buffer, shown, reused>>
popVars == <<positioner, popup, compPositioner, wanted, popupTold>>
geoVars == <<compGeo, asked>>
frameVars == <<aspect, winVars, geoVars, surfVars, popVars>>

Kinds == {"min", "max"}
NoGeo == [y |-> NoValue, h |-> NoValue]
Geo(y, h) == [y |-> y, h |-> h]
Dropped == Geo(NoValue, 0)   \* asked for under a bar that went before it was drawn
NoFrame == [there |-> FALSE, full |-> FALSE, content |-> NoValue, geometry |-> NoGeo, bridge |-> NoGeo]
NewFrame == [NoFrame EXCEPT !.there = TRUE]
NoSurface == [attached |-> 0, pendingAttach |-> NoValue, scale |-> 1, pendingScale |-> NoValue,
              destination |-> 0, pendingDestination |-> NoValue]
NoPlace == [bridge |-> NoValue, comp |-> NoValue, bar |-> 0]

SatAdd(a, b) == IF a + b > IntMax THEN IntMax ELSE a + b

\* Frame::offset: a bar is not shown on a fullscreen window.
Offset(f) == IF f.there /\ ~f.full THEN Header ELSE 0

FrameInit ==
  /\ aspect \in {"size", "limits", "popups"}
  /\ toplevel = TRUE /\ deco = FALSE /\ frame = NoFrame
  /\ surface = NoSurface /\ buffer = [b \in Buffers |-> NoValue]
  /\ limits = [k \in Kinds |-> 0] /\ compLimits = limits
  /\ positioner = [anchor |-> NoValue, size |-> NoValue] /\ compPositioner = positioner
  /\ popup = FALSE /\ wanted = NoPlace /\ popupTold = NoPlace
  /\ compGeo = NoGeo /\ asked = NoGeo
  /\ shown = NoValue /\ reused = FALSE /\ wasFull = FALSE

-----------------------------------------------------------------------------
(* The decoration manager and its objects, which are the proxy's own. *)

\* The bridge's size limits, which leave out the bar.
Adjusted(v, offset) == IF v > 0 THEN SatAdd(v, offset) ELSE v

\* A limit that was never set, or was taken back, is not sent.
ResendSizeLimits(offset) ==
  compLimits' = [k \in Kinds |-> IF limits[k] # 0 THEN Adjusted(limits[k], offset) ELSE compLimits[k]]

AddFrame ==
  IF frame.there THEN UNCHANGED <<frame, compLimits, wasFull>>
  ELSE frame' = NewFrame /\ ResendSizeLimits(Offset(NewFrame)) /\ wasFull' = FALSE

\* Frame::remove: the window keeps the geometry the bridge asked for, or its content.
RemovedGeo == IF frame.bridge # NoGeo THEN frame.bridge ELSE Geo(0, frame.content)

Drawn == frame.geometry # NoGeo /\ frame.content # NoValue

\* Mutant: the geometry is only put back if the bridge asked for one.
RemoveFrameGeometry ==
  IF ~frame.there THEN UNCHANGED <<frame, geoVars, compLimits>>
  ELSE /\ frame' = NoFrame
       /\ compGeo' = IF Drawn /\ frame.bridge # NoGeo THEN RemovedGeo ELSE compGeo
       /\ asked' = IF frame.bridge # NoGeo /\ ~Drawn THEN Dropped ELSE asked
       /\ ResendSizeLimits(0)

\* What the bridge asked for under a bar that was not drawn yet is sent by nobody.
RemoveFrame ==
  IF ~frame.there THEN UNCHANGED <<frame, geoVars, compLimits>>
  ELSE /\ frame' = NoFrame
       /\ compGeo' = IF Drawn THEN RemovedGeo ELSE compGeo
       /\ asked' = IF frame.bridge # NoGeo /\ ~Drawn THEN Dropped ELSE asked
       /\ ResendSizeLimits(0)

ManagerRequest ==
  /\ toplevel /\ ~deco
  /\ deco' = TRUE
  /\ UNCHANGED <<aspect, toplevel, frame, limits, compLimits, wasFull, geoVars, surfVars, popVars>>

\* set_mode and unset_mode; unset_mode leaves the choice to the proxy.
DecorationMode(mode) ==
  /\ deco
  /\ IF mode = "server" THEN AddFrame /\ UNCHANGED geoVars ELSE RemoveFrame /\ UNCHANGED wasFull
  /\ UNCHANGED <<aspect, toplevel, deco, limits, surfVars, popVars>>

DecorationDestroy ==
  /\ deco
  /\ deco' = FALSE
  /\ RemoveFrame
  /\ UNCHANGED <<aspect, toplevel, limits, wasFull, surfVars, popVars>>

-----------------------------------------------------------------------------
(* Requests on the window: before_request, after_request and apply. *)

GetToplevel ==
  /\ ~toplevel
  /\ toplevel' = TRUE
  /\ limits' = [k \in Kinds |-> 0] /\ compLimits' = limits'
  /\ UNCHANGED <<aspect, deco, frame, wasFull, geoVars, surfVars, popVars>>

\* The bridge destroys the decoration and the popup first, as the protocol has it.
\* The frame goes with the toplevel; the compositor forgets its geometry.
ToplevelDestroy ==
  /\ toplevel /\ ~deco /\ ~popup
  /\ toplevel' = FALSE /\ frame' = NoFrame
  /\ compGeo' = NoGeo /\ asked' = NoGeo
  /\ UNCHANGED <<aspect, deco, limits, compLimits, wasFull, surfVars, popVars>>

SetSize(k, v) ==
  /\ aspect = "limits" /\ toplevel
  /\ limits' = [limits EXCEPT ![k] = v]
  /\ compLimits' = [compLimits EXCEPT ![k] = Adjusted(v, Offset(frame))]
  /\ UNCHANGED <<aspect, toplevel, deco, frame, wasFull, geoVars, surfVars, popVars>>

\* Under a frame the geometry is kept for its next commit.
SetWindowGeometry(y, h) ==
  /\ aspect = "size" /\ toplevel
  /\ IF frame.there THEN frame' = [frame EXCEPT !.bridge = Geo(y, h)] /\ UNCHANGED compGeo
     ELSE compGeo' = Geo(y, h) /\ UNCHANGED frame
  /\ asked' = Geo(y, h)
  /\ UNCHANGED <<aspect, toplevel, deco, limits, compLimits, wasFull, surfVars, popVars>>

\* xdg_toplevel.configure: Frame::configure takes the states; the height goes on
\* to the bridge without the bar (not kept here).
Configure(full) ==
  /\ frame.there /\ frame.full # full
  /\ frame' = [frame EXCEPT !.full = full]
  /\ wasFull' = (wasFull \/ full)
  /\ UNCHANGED <<aspect, toplevel, deco, limits, compLimits, geoVars, surfVars, popVars>>

-----------------------------------------------------------------------------
(* The surface's size. *)

CreateBuffer(b, h) ==
  /\ aspect = "size" /\ buffer[b] = NoValue /\ h > 0
  /\ buffer' = [buffer EXCEPT ![b] = h]
  /\ reused' = (reused \/ b \in {surface.attached, surface.pendingAttach})
  /\ UNCHANGED <<aspect, winVars, geoVars, surface, shown, popVars>>

DestroyBuffer(b) ==
  /\ buffer[b] # NoValue
  /\ buffer' = [buffer EXCEPT ![b] = NoValue]
  /\ UNCHANGED <<aspect, winVars, geoVars, surface, shown, reused, popVars>>

\* 0 attaches no buffer.
Attach(b) ==
  /\ aspect = "size" /\ (b = 0 \/ (b \in Buffers /\ buffer[b] # NoValue))
  /\ surface' = [surface EXCEPT !.pendingAttach = b]
  /\ UNCHANGED <<aspect, winVars, geoVars, buffer, shown, reused, popVars>>

SetBufferScale(s) ==
  /\ aspect = "size"
  /\ surface' = [surface EXCEPT !.pendingScale = s]
  /\ UNCHANGED <<aspect, winVars, geoVars, buffer, shown, reused, popVars>>

\* wp_viewport.set_destination; 0 unsets it, as destroying the viewport does.
SetDestination(d) ==
  /\ aspect = "size"
  /\ surface' = [surface EXCEPT !.pendingDestination = d]
  /\ UNCHANGED <<aspect, winVars, geoVars, buffer, shown, reused, popVars>>

\* Proxy::commit_surface: the pending state applied, and the size it gives.
Applied ==
  LET Take(pending, old) == IF pending # NoValue THEN pending ELSE old IN
  [NoSurface EXCEPT !.attached = Take(surface.pendingAttach, surface.attached),
                    !.scale = Take(surface.pendingScale, surface.scale),
                    !.destination = Take(surface.pendingDestination, surface.destination)]
SizeOf(s) ==
  IF s.destination > 0 THEN s.destination
  ELSE IF s.attached \in Buffers /\ buffer[s.attached] # NoValue THEN buffer[s.attached] \div s.scale ELSE NoValue

\* clamp_size of a height there is.
ClampSize(v) == IF v > MaxSide THEN MaxSide ELSE v

\* Mutant: the bar's height as it was when the frame was made.
CommittedShown(f, size) ==
  LET content == IF size > 0 THEN ClampSize(size) ELSE f.content
      base == IF f.bridge # NoGeo THEN f.bridge ELSE Geo(0, content)
  IN IF content = NoValue THEN f
     ELSE [f EXCEPT !.content = content, !.geometry = Geo(base.y - Header, ClampSize(base.h) + Header)]

\* Frame::commit: the content, and the geometry when it is not what was last set.
Committed(f, size) ==
  LET content == IF size > 0 THEN ClampSize(size) ELSE f.content
      base == IF f.bridge # NoGeo THEN f.bridge ELSE Geo(0, content)
      off == Offset(f)
  IN IF content = NoValue THEN f
     ELSE [f EXCEPT !.content = content, !.geometry = Geo(base.y - off, ClampSize(base.h) + off)]

\* What a buffer that is destroyed shows stays; a surface with a destination but
\* no buffer shows nothing, and is none the bridge makes.
Commit ==
  /\ aspect = "size"
  /\ LET s == Applied
         really == IF surface.pendingAttach = NoValue THEN shown
                   ELSE IF s.attached \in Buffers THEN buffer[s.attached] ELSE NoValue
         f == IF frame.there THEN Committed(frame, SizeOf(s)) ELSE frame
     IN /\ surface' = s
        /\ shown' = really
        /\ frame' = f
        /\ compGeo' = IF f.geometry # frame.geometry THEN f.geometry ELSE compGeo
        /\ asked' = IF f.geometry # NoGeo /\ f.bridge = NoGeo THEN Geo(0, f.content) ELSE asked
  /\ UNCHANGED <<aspect, toplevel, deco, limits, compLimits, wasFull, buffer, reused, popVars>>

-----------------------------------------------------------------------------
(* Popups. *)

SetPositioner(a, h) ==
  /\ aspect = "popups"
  /\ positioner' = [anchor |-> a, size |-> h]
  /\ compPositioner' = positioner'
  /\ UNCHANGED <<aspect, winVars, geoVars, surfVars, popup, wanted, popupTold>>

\* Proxy::set_positioner: what the compositor has of the positioner, moved down.
Moved(offset) ==
  [anchor |-> IF positioner.anchor = NoValue THEN compPositioner.anchor ELSE SatAdd(positioner.anchor, offset),
   size   |-> IF positioner.size = NoValue THEN compPositioner.size ELSE SatAdd(positioner.size, offset)]

\* The positioner the compositor reads.
Offsetted == IF Offset(frame) # 0 THEN Moved(Offset(frame)) ELSE compPositioner

\* The positioner the compositor is left with.
Restored  == IF Offset(frame) # 0 THEN Moved(0) ELSE compPositioner

\* get_popup and reposition: the compositor places the popup by the anchor.
Place ==
  /\ aspect = "popups" /\ toplevel /\ positioner.anchor # NoValue
  /\ popup' = TRUE
  /\ wanted' = [bridge |-> positioner.anchor, comp |-> Offsetted.anchor, bar |-> Offset(frame)]
  /\ compPositioner' = Restored
  /\ popupTold' = NoPlace
  /\ UNCHANGED <<aspect, winVars, geoVars, surfVars, positioner>>

\* xdg_popup.configure: where the popup is below the window's geometry, less the bar.
PopupConfigure ==
  /\ popup
  /\ popupTold' = [bridge |-> wanted.comp - Offset(frame), comp |-> wanted.comp, bar |-> Offset(frame)]
  /\ UNCHANGED <<aspect, winVars, geoVars, surfVars, positioner, popup, compPositioner, wanted>>

PopupDestroy ==
  /\ popup
  /\ popup' = FALSE /\ wanted' = NoPlace /\ popupTold' = NoPlace
  /\ UNCHANGED <<aspect, winVars, geoVars, surfVars, positioner, compPositioner>>

FrameNext ==
  \/ ManagerRequest \/ DecorationDestroy
  \/ \E m \in {"client", "server"} : DecorationMode(m)
  \/ GetToplevel \/ ToplevelDestroy
  \/ \E k \in Kinds, v \in Sizes : SetSize(k, v)
  \/ \E y \in Tops, h \in Sizes \ {0} : SetWindowGeometry(y, h)
  \/ \E full \in BOOLEAN : Configure(full)
  \/ \E b \in Buffers, h \in Sizes : CreateBuffer(b, h)
  \/ \E b \in Buffers : DestroyBuffer(b)
  \/ \E b \in Buffers \cup {0} : Attach(b)
  \/ \E s \in {1, 2} : SetBufferScale(s)
  \/ \E d \in Sizes : SetDestination(d)
  \/ Commit
  \/ \E a \in Sizes, h \in Sizes \cup {NoValue} : SetPositioner(a, h)
  \/ Place \/ PopupConfigure \/ PopupDestroy

FrameSpec == FrameInit /\ [][FrameNext]_frameVars

-----------------------------------------------------------------------------
(* Properties *)

(* The bridge's positioner is its own again after each popup, and the bridge is   *)
(* told the place it asked for whenever the bar is as it was when it asked.       *)
PopupsFit ==
  /\ compPositioner = positioner
  /\ popupTold # NoPlace /\ popupTold.bar = wanted.bar /\ wanted.bridge + Header <= IntMax
       => popupTold.bridge = wanted.bridge

(* Without a bar the compositor has the bridge's own size limits, and of the      *)
(* window's geometry the one the bridge last asked for, or all of the content if  *)
(* it asked for none since a bar was drawn around the window; the exception is    *)
(* one asked for under a bar that went before it was ever drawn, which the code   *)
(* drops, and even then no bar is left in the geometry.  Under a bar the limits   *)
(* have the bar's height, or may have been left without or with it while the bar  *)
(* was hidden and shown, and the geometry is what the frame last set, which is    *)
(* why the frame may leave out one that has not changed.  Popups fit too.         *)
BarAccounted ==
  /\ toplevel => \A k \in Kinds :
       IF ~frame.there \/ ~wasFull THEN compLimits[k] = Adjusted(limits[k], Offset(frame))
       ELSE compLimits[k] \in {Adjusted(limits[k], off) : off \in {0, Header}}
  /\ ~frame.there =>
       IF asked # Dropped THEN compGeo = asked ELSE compGeo = NoGeo \/ compGeo.y >= 0
  /\ frame.geometry # NoGeo => compGeo = frame.geometry
  /\ PopupsFit

(* The geometry takes in the bar as it is shown when the window commits, around   *)
(* the content the surface really has or the geometry the bridge last asked for,  *)
(* either of them up to MaxSide high, as long as the surface's buffer is still    *)
(* there and its id was not used again.                                           *)
CommitFits ==
  [][Commit /\ frame.there /\ frame'.geometry # NoGeo /\ ~reused =>
       LET h == IF surface'.destination > 0 THEN surface'.destination ELSE shown' \div surface'.scale
           base == IF frame.bridge # NoGeo THEN frame.bridge ELSE Geo(0, frame'.content)
       IN /\ compGeo' = Geo(base.y - Offset(frame), ClampSize(base.h) + Offset(frame))
          /\ SizeOf(surface') # NoValue /\ shown' # NoValue /\ h > 0 => frame'.content = ClampSize(h)]_frameVars
=============================================================================
