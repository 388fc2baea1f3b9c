---------------------------- MODULE ProxyObjects ----------------------------
(***************************************************************************)
(* The object ids of the title bar proxy (decorations/proxy.rs): the        *)
(* bridge's objects and the compositor's, the requests and events that pass *)
(* between them, and the input focus that keeps title bars from the bridge. *)
(*                                                                         *)
(* An object of the compositor's connection is a number that is never used  *)
(* again: the backend's ObjectId carries a serial.  The bridge's ids are    *)
(* used again once the proxy has freed them.  The bridge's requests are     *)
(* handled where it makes them and the compositor's learns of them at once; *)
(* what is under way is the events, in both queues.                         *)
(***************************************************************************)
EXTENDS Integers, Sequences, FiniteSets, Functions, SequencesExt

CONSTANTS
  NumIds,      \* ids the bridge has for objects it creates
  MaxObjects,  \* objects created by either side
  MaxServer,   \* ids the proxy has for objects created by events
  MaxEvents,   \* events the compositor sends
  Globals,     \* names of globals the compositor may advertise
  Points       \* touch points

ASSUME ProxyAssumption ==
  /\ NumIds \in Nat /\ MaxObjects \in Nat /\ MaxServer \in Nat /\ MaxEvents \in Nat

\* Objects there from the start: a title bar, and what the bridge has bound.
None     == 0
Bar      == 1
Pointer  == 2
Touch    == 3
Data     == 4
Registry == 5
Fixed    == {Pointer, Touch, Data, Registry}
Objects  == 6..(5 + MaxObjects)

\* The bridge's id of a fixed object is its number below 0, the ids it gives to
\* new objects are 1..NumIds, and those from Start up are the proxy's to give.
Start     == NumIds + 1
FixedId(o) == 0 - o

VARIABLES
  objects,   \* Proxy::objects: the bridge's ids, each with its Kind::Upstream and interface
  nextServerId, \* Proxy::next_server_id
  forward,   \* the bridge id in the Forward data of each compositor object
  focus,     \* Role::Focus of the pointer and of the touch object
  globals,   \* Role::Registry: the globals advertised to the bridge
  failed,    \* "no", or what ended the proxy
  comp,      \* the compositor's objects, by interface
  on,        \* the surface the compositor has the pointer on, or None
  down,      \* the surface each touch point is down on, or None
  inFrame,   \* devices with events since their last frame
  offered,   \* the compositor's globals
  made,      \* objects created so far
  sent,      \* events sent so far
  events,    \* from the compositor, not yet read by the proxy
  toBridge,  \* from the proxy, not yet read by the bridge
  bridge,    \* the bridge's objects: what they stand for, and whether it has destroyed them
  told,      \* globals the bridge knows
  bOn,       \* the bridge has the pointer on a surface of its own
  bDown,     \* touch points the bridge knows to be down
  bFrame     \* devices with events the bridge has not seen a frame for

proxyVars == <<objects, nextServerId, forward, focus, globals, failed>>
compVars  == <<comp, on, down, inFrame, offered>>
bridgeVars == <<bridge, told, bOn, bDown, bFrame>>
vars == <<proxyVars, compVars, made, sent, events, toBridge, bridgeVars>>

Put(f, x, v) == [y \in DOMAIN f \cup {x} |-> IF y = x THEN v ELSE f[y]]
Drop(f, x)   == Restrict(f, DOMAIN f \ {x})

\* A compositor event: its sender, its touch point or global, the object it names,
\* the one it creates, and (for properties only) the surface it is about.
Ev(sender, event, k, arg, new, about) ==
  [sender |-> sender, event |-> event, k |-> k, arg |-> arg, new |-> new, about |-> about]
\* An event for the bridge's object `id`; `up` and `about` are for properties only.
Msg(id, event, k, arg, up, about) ==
  [id |-> id, event |-> event, k |-> k, arg |-> arg, up |-> up, about |-> about]

NoFocus == [hidden |-> FALSE, pending |-> FALSE, touches |-> {}]

Init ==
  /\ objects = [i \in {FixedId(o) : o \in Fixed} |-> [up |-> 0 - i, iface |-> "fixed"]]
  /\ forward = [o \in Fixed |-> FixedId(o)]
  /\ nextServerId = Start
  /\ focus = [d \in {Pointer, Touch} |-> NoFocus]
  /\ globals = {} /\ failed = "no"
  /\ comp = [o \in Fixed \cup {Bar} |-> IF o = Bar THEN "surface" ELSE "fixed"]
  /\ on = None /\ down = [p \in Points |-> None] /\ inFrame = {} /\ offered = {}
  /\ made = 0 /\ sent = 0
  /\ events = <<>> /\ toBridge = <<>>
  /\ bridge = [i \in {FixedId(o) : o \in Fixed} |-> [up |-> 0 - i, iface |-> "fixed", live |-> TRUE]]
  /\ told = {} /\ bOn = FALSE /\ bDown = {} /\ bFrame = {}

-----------------------------------------------------------------------------
(* Requests of the bridge. *)

Fresh == 6 + made

\* An object the bridge makes requests on and names in them; a callback has none.
Usable(id) == id \in DOMAIN bridge /\ bridge[id].live /\ bridge[id].iface # "callback"

\* Frees an id of the bridge's: an id the proxy gave is not announced.
DeleteId(id) == IF id < Start THEN <<Msg(id, "delete_id", None, None, None, None)>> ELSE <<>>

CheckNewId(id) == id < Start /\ id \notin DOMAIN objects

\* The bridge makes an object with an id it holds to be free; the request
\* creates it on the compositor's connection too, unless the proxy gives up.
New(id, iface) ==
  /\ failed = "no"
  /\ id \in 1..NumIds /\ id \notin DOMAIN bridge
  /\ made < MaxObjects
  /\ made' = made + 1
  /\ bridge' = Put(bridge, id, [up |-> Fresh, iface |-> iface, live |-> TRUE])
  /\ IF CheckNewId(id)
     THEN /\ objects' = Put(objects, id, [up |-> Fresh, iface |-> iface])
          /\ forward' = Put(forward, Fresh, id)
          /\ comp' = Put(comp, Fresh, iface)
          /\ UNCHANGED failed
     ELSE failed' = "id" /\ UNCHANGED <<objects, forward, comp>>
  /\ UNCHANGED <<nextServerId, focus, globals, on, down, inFrame, offered, sent, events, toBridge,
                 told, bOn, bDown, bFrame>>

\* wl_display.sync.
DisplayRequest(id) == New(id, "callback")

\* A request that creates an object, such as wl_compositor.create_surface.
ForwardNew(id) == New(id, "surface")

\* wl_registry.bind, of a global the bridge has been told of.
Bind(id, g) ==
  /\ g \in told
  /\ IF g \in globals
     THEN New(id, "output")
     ELSE /\ failed = "no" /\ id \in 1..NumIds /\ id \notin DOMAIN bridge
          /\ failed' = "global"
          /\ UNCHANGED <<objects, nextServerId, forward, focus, globals, compVars, made, sent, events,
                         toBridge, bridgeVars>>

\* The bridge destroys one of its objects other than a callback.  The compositor
\* takes the pointer and the touch points off the surface.
ForwardDestructor(id) ==
  /\ failed = "no"
  /\ Usable(id) /\ id > 0
  /\ IF id \in DOMAIN objects
     THEN LET up == objects[id].up IN
          /\ objects' = Drop(objects, id)
          /\ toBridge' = toBridge \o DeleteId(id)
          /\ bridge' = IF id < Start THEN [bridge EXCEPT ![id].live = FALSE] ELSE Drop(bridge, id)
          /\ comp' = Drop(comp, up)
          /\ on' = IF on = up THEN None ELSE on
          /\ down' = [p \in Points |-> IF down[p] = up THEN None ELSE down[p]]
          /\ UNCHANGED failed
     ELSE /\ failed' = "object"
          /\ UNCHANGED <<objects, toBridge, bridge, comp, on, down>>
  /\ UNCHANGED <<nextServerId, forward, focus, globals, inFrame, offered, made, sent, events,
                 told, bOn, bDown, bFrame>>

-----------------------------------------------------------------------------
(* The compositor (external). *)

Surfaces == {o \in DOMAIN comp : comp[o] = "surface"}

Send(e) ==
  /\ sent < MaxEvents
  /\ sent' = sent + 1
  /\ events' = Append(events, e)
  /\ UNCHANGED <<proxyVars, toBridge, bridgeVars>>

CallbackDone(o) ==
  /\ o \in DOMAIN comp /\ comp[o] = "callback"
  /\ Send(Ev(o, "done", None, None, None, None))
  /\ comp' = Drop(comp, o)
  /\ UNCHANGED <<on, down, inFrame, offered, made>>

SurfaceEnters(s, o) ==
  /\ s \in Surfaces \ {Bar} /\ o \in DOMAIN comp /\ comp[o] = "output"
  /\ Send(Ev(s, "surface_enter", None, o, None, None))
  /\ UNCHANGED <<compVars, made>>

DataOffer ==
  /\ made < MaxObjects
  /\ Send(Ev(Data, "data_offer", None, None, Fresh, None))
  /\ made' = made + 1
  /\ comp' = Put(comp, Fresh, "offer")
  /\ UNCHANGED <<on, down, inFrame, offered>>

PointerEnters(s) ==
  /\ on = None /\ s \in Surfaces
  /\ Send(Ev(Pointer, "enter", None, s, None, s))
  /\ on' = s /\ inFrame' = inFrame \cup {Pointer}
  /\ UNCHANGED <<comp, down, offered, made>>

PointerMoves ==
  /\ on # None
  /\ Send(Ev(Pointer, "motion", None, None, None, on))
  /\ inFrame' = inFrame \cup {Pointer}
  /\ UNCHANGED <<comp, on, down, offered, made>>

PointerLeaves ==
  /\ on # None
  /\ Send(Ev(Pointer, "leave", None, on, None, on))
  /\ on' = None /\ inFrame' = inFrame \cup {Pointer}
  /\ UNCHANGED <<comp, down, offered, made>>

TouchDown(s, p) ==
  /\ down[p] = None /\ s \in Surfaces
  /\ Send(Ev(Touch, "down", p, s, None, s))
  /\ down' = [down EXCEPT ![p] = s] /\ inFrame' = inFrame \cup {Touch}
  /\ UNCHANGED <<comp, on, offered, made>>

TouchMoves(p) ==
  /\ down[p] # None
  /\ Send(Ev(Touch, "touch_motion", p, None, None, down[p]))
  /\ inFrame' = inFrame \cup {Touch}
  /\ UNCHANGED <<comp, on, down, offered, made>>

TouchUp(p) ==
  /\ down[p] # None
  /\ Send(Ev(Touch, "up", p, None, None, down[p]))
  /\ down' = [down EXCEPT ![p] = None] /\ inFrame' = inFrame \cup {Touch}
  /\ UNCHANGED <<comp, on, offered, made>>

DeviceFrame(d) ==
  /\ d \in inFrame
  /\ Send(Ev(d, "frame", None, None, None, None))
  /\ inFrame' = inFrame \ {d}
  /\ UNCHANGED <<comp, on, down, offered, made>>

Advertise(g) ==
  /\ g \notin offered
  /\ Send(Ev(Registry, "global", g, None, None, None))
  /\ offered' = offered \cup {g}
  /\ UNCHANGED <<comp, on, down, inFrame, made>>

Withdraw(g) ==
  /\ g \in offered
  /\ Send(Ev(Registry, "global_remove", g, None, None, None))
  /\ offered' = offered \ {g}
  /\ UNCHANGED <<comp, on, down, inFrame, made>>

-----------------------------------------------------------------------------
(* The proxy reads an event: Proxy::event. *)

\* Mutant: by the Forward data alone.
BridgeIdByData(up) == IF up \in DOMAIN forward THEN forward[up] ELSE None

\* The bridge's id for a forwarded object; None for the proxy's own, and for one
\* the bridge has destroyed.
BridgeId(up) ==
  IF up \in DOMAIN forward /\ forward[up] \in DOMAIN objects /\ objects[forward[up]].up = up
  THEN forward[up] ELSE None

\* Mutant: a leave is judged by its own surface, as an enter is.
PassLeave(f, event, k, hidden) ==
  IF event = "leave" THEN [forwarded |-> ~hidden, focus |-> [f EXCEPT !.pending = @ \/ ~hidden]]
  ELSE IF event \in {"enter", "frame", "motion"}
  THEN [forwarded |-> CASE event = "enter" -> ~hidden [] event = "frame" -> f.pending [] OTHER -> ~f.hidden,
        focus |-> [f EXCEPT !.hidden = IF event = "enter" THEN hidden ELSE @, !.pending = event # "frame"]]
  ELSE [forwarded |-> ~hidden, focus |-> f]

\* Focus::pass: whether an event of a pointer or touch object goes on, and the
\* focus it leaves.
Pass(f, event, k, hidden) ==
  LET Kept(forwarded, g) ==
        [forwarded |-> forwarded,
         focus |-> [g EXCEPT !.pending = IF event = "frame" THEN FALSE ELSE @ \/ forwarded]]
  IN CASE event = "enter"  -> Kept(~hidden, [f EXCEPT !.hidden = hidden])
       [] event = "leave"  -> Kept(~f.hidden, [f EXCEPT !.hidden = FALSE])
       [] event = "frame"  -> Kept(f.pending, f)
       [] event = "motion" -> Kept(~f.hidden, f)
       [] event = "down"   -> Kept(~hidden, IF hidden THEN [f EXCEPT !.touches = @ \cup {k}] ELSE f)
       [] event = "up"     -> Kept(k \notin f.touches, [f EXCEPT !.touches = @ \ {k}])
       [] event = "touch_motion" -> Kept(k \notin f.touches, f)

\* Proxy::before_event and Proxy::focus: whether the event goes on, and what is
\* kept of it.
BeforeEvent(e, hidden) ==
  IF e.sender \in {Pointer, Touch}
  THEN LET r == Pass(focus[e.sender], e.event, e.k, hidden) IN
       [forwarded |-> r.forwarded, focus |-> [focus EXCEPT ![e.sender] = r.focus], globals |-> globals]
  ELSE IF e.sender = Registry
  THEN IF e.event = "global"
       THEN [forwarded |-> TRUE, focus |-> focus, globals |-> globals \cup {e.k}]
       ELSE [forwarded |-> e.k \in globals, focus |-> focus, globals |-> globals \ {e.k}]
  ELSE [forwarded |-> ~hidden, focus |-> focus, globals |-> globals]

\* Whether the event's object is still the one the bridge has at the id.
Current(e, id) == id \in DOMAIN objects /\ objects[id].up = e.sender

\* An event of an object the bridge has destroyed is dropped.
EventDiscarded ==
  /\ failed = "no" /\ events # <<>>
  /\ LET e == Head(events) IN ~Current(e, forward[e.sender])
  /\ events' = Tail(events)
  /\ UNCHANGED <<proxyVars, compVars, made, sent, toBridge, bridgeVars>>

\* An object an event creates takes the next of the proxy's own ids.
EventIdsGone ==
  /\ failed = "no" /\ events # <<>>
  /\ Head(events).new # None /\ nextServerId - Start >= MaxServer
  /\ failed' = "server ids"
  /\ events' = Tail(events)
  /\ UNCHANGED <<objects, nextServerId, forward, focus, globals, compVars, made, sent, toBridge, bridgeVars>>

Event ==
  /\ failed = "no" /\ events # <<>>
  /\ LET e  == Head(events)
         id == forward[e.sender]
         arg == IF e.arg = None THEN None ELSE BridgeId(e.arg)
         r  == BeforeEvent(e, e.arg # None /\ arg = None)
     IN /\ Current(e, id)
        /\ e.new # None => nextServerId - Start < MaxServer
        /\ focus' = r.focus /\ globals' = r.globals
        /\ toBridge' = toBridge
             \o (IF r.forwarded
                 THEN <<Msg(id, e.event, e.k, IF e.new # None THEN nextServerId ELSE arg, e.sender, e.about)>>
                 ELSE <<>>)
             \o (IF e.event = "done" THEN DeleteId(id) ELSE <<>>)
        /\ IF e.new # None
           THEN /\ objects' = Put(objects, nextServerId, [up |-> e.new, iface |-> "offer"])
                /\ forward' = Put(forward, e.new, nextServerId)
                /\ nextServerId' = nextServerId + 1
           ELSE /\ objects' = IF e.event = "done" THEN Drop(objects, id) ELSE objects
                /\ UNCHANGED <<forward, nextServerId>>
  /\ events' = Tail(events)
  /\ UNCHANGED <<failed, compVars, made, sent, bridgeVars>>

-----------------------------------------------------------------------------
(* The bridge reads a message (external). *)

BridgeReads ==
  /\ toBridge # <<>>
  /\ LET m == Head(toBridge) IN
     /\ bridge' = CASE m.event = "delete_id"  -> Drop(bridge, m.id)
                    [] m.event = "data_offer" ->
                         Put(bridge, m.arg, [up |-> CHOOSE o \in DOMAIN forward : forward[o] = m.arg,
                                             iface |-> "offer", live |-> TRUE])
                    [] m.event = "done" /\ m.id \in DOMAIN bridge -> [bridge EXCEPT ![m.id].live = FALSE]
                    [] OTHER -> bridge
     /\ told' = (told \cup {g \in Globals : (m.event = "global" /\ m.k = g)})
                  \ {g \in Globals : (m.event = "global_remove" /\ m.k = g)}
     /\ bOn' = CASE m.event = "enter" -> TRUE [] m.event = "leave" -> FALSE [] OTHER -> bOn
     /\ bDown' = (bDown \cup {p \in Points : (m.event = "down" /\ m.k = p)}) \ {p \in Points : (m.event = "up" /\ m.k = p)}
     /\ bFrame' = LET d == 0 - m.id IN
                  IF d \notin {Pointer, Touch} THEN bFrame
                  ELSE IF m.event = "frame" THEN bFrame \ {d} ELSE bFrame \cup {d}
  /\ toBridge' = Tail(toBridge)
  /\ UNCHANGED <<proxyVars, compVars, made, sent, events>>

Next ==
  \/ \E id \in 1..NumIds : DisplayRequest(id) \/ ForwardNew(id)
  \/ \E id \in 1..NumIds, g \in Globals : Bind(id, g)
  \/ \E id \in 1..(NumIds + MaxServer) : ForwardDestructor(id)
  \/ \E o \in Objects : CallbackDone(o)
  \/ \E s, o \in Objects : SurfaceEnters(s, o)
  \/ DataOffer
  \/ \E s \in Objects \cup {Bar} : PointerEnters(s)
  \/ PointerMoves \/ PointerLeaves
  \/ \E s \in Objects \cup {Bar}, p \in Points : TouchDown(s, p)
  \/ \E p \in Points : TouchMoves(p) \/ TouchUp(p)
  \/ \E d \in {Pointer, Touch} : DeviceFrame(d)
  \/ \E g \in Globals : Advertise(g) \/ Withdraw(g)
  \/ EventDiscarded \/ EventIdsGone \/ Event
  \/ BridgeReads

Spec == Init /\ [][Next]_vars

-----------------------------------------------------------------------------
(* Properties *)

Heading == toBridge # <<>> /\ Head(toBridge).event # "delete_id"

(* An event reaches the object of the bridge's that it was sent for, or one the *)
(* bridge has destroyed and whose id it cannot have used again; an object it    *)
(* names is one the bridge has, or null.                                        *)
EventsReachOwner ==
  Heading => LET m == Head(toBridge) IN
    /\ m.id \in DOMAIN bridge /\ bridge[m.id].up = m.up
    /\ m.event = "enter" => m.arg \in DOMAIN bridge /\ bridge[m.arg].up = m.about

(* An id is freed once, when the bridge has done with its object, and until then *)
(* the proxy has what the bridge has: a bridge that keeps to the protocol never    *)
(* makes the proxy give up over an id or an object, however destructions cross on  *)
(* the way; only by binding a global that has just been withdrawn, or when the     *)
(* compositor uses up the proxy's ids.                                             *)
IdsAgree ==
  /\ failed \in {"no", "global", "server ids"}
  /\ \A id \in DOMAIN bridge : Usable(id) => id \in DOMAIN objects
  /\ \A id \in 1..NumIds :
       LET freed == {i \in DOMAIN toBridge : toBridge[i].event = "delete_id" /\ toBridge[i].id = id} IN
       /\ Cardinality(freed) <= 1
       /\ id \in DOMAIN objects => id \in DOMAIN bridge /\ bridge[id].live /\ freed = {}
       /\ id \in DOMAIN bridge \ DOMAIN objects => freed # {}

(* The bridge and the proxy have the same objects: ids are freed once and in time,  *)
(* and events reach the objects they are for (ObjectMap, forward, on_delete_id).     *)
ObjectsAgree == EventsReachOwner /\ IdsAgree

(* No input on a title bar goes to the bridge, whatever surfaces come and go    *)
(* while events are under way; and what it gets makes sense by itself: motion    *)
(* and leave after an enter, touch events of a point that went down, and a frame *)
(* after something else.                                                         *)
BarInputHidden ==
  Heading => LET m == Head(toBridge) IN
    /\ m.about # Bar
    /\ m.event \in {"motion", "leave"} => bOn
    /\ m.event = "frame" => (0 - m.id) \in bFrame
    /\ \A p \in Points : m.event \in {"touch_motion", "up"} /\ m.k = p => p \in bDown
=============================================================================
