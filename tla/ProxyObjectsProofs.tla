------------------------- MODULE ProxyObjectsProofs -------------------------
(***************************************************************************)
(* Proofs about ProxyObjects, for any number of ids, objects, events,       *)
(* globals and touch points.                                                *)
(***************************************************************************)
EXTENDS ProxyObjects, FiniteSetTheorems, TLAPS

Devices == {Pointer, Touch}
Ids     == 1..NumIds
Ifaces  == {"fixed", "callback", "surface", "output", "offer"}
Keys    == Globals \cup Points \cup {None}
Names   == {"done", "surface_enter", "data_offer", "enter", "motion", "leave", "down", "touch_motion",
            "up", "frame", "global", "global_remove"}
AnEvent  == [sender : Nat, event : Names, k : Keys, arg : Nat, new : Nat, about : Nat]
AMessage == [id : Int, event : Names \cup {"delete_id"}, k : Keys, arg : Int, up : Nat, about : Nat]

\* The operators below take what they speak of, so that a step may be followed from one
\* value of it to the next: obj is `objects`, br is `bridge`, fw is `forward`, q is a
\* queue of messages and ev one of events.

Typed(obj, br, fw) ==
  /\ obj \in [DOMAIN obj -> [up : Nat, iface : Ifaces]]
  /\ br \in [DOMAIN br -> [up : Nat, iface : Ifaces, live : BOOLEAN]]
  /\ fw \in [DOMAIN fw -> Int]

\* The numbers in use are below the next ones, so that those are free.
Below(obj, br, fw, fresh, next) ==
  /\ fresh \in Nat /\ fresh >= 6 /\ next \in Nat /\ next >= Start
  /\ \A id \in DOMAIN obj : id \in Int /\ id < next /\ obj[id].up < fresh
  /\ \A id \in DOMAIN br : id \in Int /\ id < next
  /\ \A o \in DOMAIN fw : o \in Nat /\ o > Bar /\ o < fresh

\* The objects there from the start stay.
FixedKept(obj, br, fw) == \A o \in Fixed :
  /\ o \in DOMAIN fw /\ fw[o] = FixedId(o)
  /\ FixedId(o) \in DOMAIN obj /\ obj[FixedId(o)].up = o
  /\ FixedId(o) \in DOMAIN br /\ br[FixedId(o)].up = o

Frees(m, id) == m.event = "delete_id" /\ m.id = id
Freed(q, id) == \E i \in 1..Len(q) : Frees(q[i], id)

\* Both sides have the same objects, but for those the bridge has done with.
Agree(obj, br, q) ==
  /\ \A id \in DOMAIN obj : id \in Ids =>
       /\ id \in DOMAIN br /\ br[id].live
       /\ br[id].up = obj[id].up /\ br[id].iface = obj[id].iface
  /\ \A id \in DOMAIN br : id \notin DOMAIN obj =>
       id \in Ids /\ (br[id].live => br[id].iface = "callback") /\ Freed(q, id)

\* An object the bridge created, and one it knows as a callback if it still has it.
Created(fw, o) == o \in DOMAIN fw /\ fw[o] \in Ids
IsCallback(obj, o) == \A id \in DOMAIN obj : obj[id].up = o => obj[id].iface = "callback"

CompOK(c, obj, fw, fresh) ==
  /\ c \in [DOMAIN c -> Ifaces]
  /\ \A o \in DOMAIN c :
       /\ o \in Nat /\ 0 < o /\ o < fresh
       /\ c[o] = "callback" => Created(fw, o) /\ IsCallback(obj, o)
       /\ c[o] = "surface" /\ o # Bar => Created(fw, o)

\* What an event under way says, by its name.
EventOK(e, obj, fw, fresh) ==
  /\ e.event \in {"done", "surface_enter"} => Created(fw, e.sender)
  /\ e.event = "done" => IsCallback(obj, e.sender)
  /\ e.event = "data_offer" => e.sender = Data /\ e.new \in 6..(fresh - 1) /\ e.new \notin DOMAIN fw
  /\ e.event # "data_offer" => e.new = None
  /\ e.event \in {"global", "global_remove"} => e.sender = Registry
  /\ e.event \in {"enter", "motion", "leave"} => e.sender = Pointer
  /\ e.event \in {"down", "touch_motion", "up"} => e.sender = Touch /\ e.k \in Points
  /\ e.event = "frame" => e.sender \in Devices
  /\ e.event \in {"enter", "down"} =>
       e.arg = e.about /\ e.about # None /\ (e.about = Bar \/ Created(fw, e.about))
  /\ e.event \in {"done", "data_offer"} => e.arg = None
  /\ e.event \in {"done", "data_offer", "surface_enter", "frame", "global", "global_remove"} => e.about = None
EventsOK(ev, obj, fw, fresh) ==
  /\ \A i \in 1..Len(ev) : EventOK(ev[i], obj, fw, fresh)
  /\ \A i, j \in 1..Len(ev) : i < j /\ ev[j].new # None => ev[i].new # ev[j].new

\* A message under way is for an object of the bridge's, and so is the one it names.
MessageOK(m, obj, br, fw) ==
  IF m.event = "delete_id" THEN m.id \in Ids /\ m.id \in DOMAIN br /\ m.id \notin DOMAIN obj
  ELSE /\ m.id \in DOMAIN br /\ br[m.id].up = m.up /\ m.id < Start /\ m.about # Bar
       /\ m.event = "done" => m.id \in Ids
       /\ m.event = "enter" => m.arg \in Ids /\ m.arg \in DOMAIN br /\ br[m.arg].up = m.about
       /\ m.event = "data_offer" =>
            /\ m.arg \in DOMAIN obj /\ m.arg \notin DOMAIN br /\ m.arg >= Start
            /\ \E o \in DOMAIN fw : fw[o] = m.arg

\* After an id is freed nothing is said of it, and an offer is made once.
About(m, id) == m.id = id \/ (m.event = "enter" /\ m.arg = id)
Apart(m, n) ==
  /\ m.event = "delete_id" => ~About(n, m.id)
  /\ m.event = "data_offer" /\ n.event = "data_offer" => m.arg # n.arg
MessagesOK(q, obj, br, fw) ==
  /\ \A i \in 1..Len(q) : MessageOK(q[i], obj, br, fw)
  /\ \A i, j \in 1..Len(q) : i < j => Apart(q[i], q[j])
\* An object that is done with is freed.
Closed(q) == \A i \in 1..Len(q) : q[i].event = "done" => \E j \in (i + 1)..Len(q) : Frees(q[j], q[i].id)

-----------------------------------------------------------------------------
(* What is on or down before the i-th of a queue: something in On has made  *)
(* it so there, or it was so and nothing in Off has ended it.               *)

Open(q, Off, i) == \A k \in 1..(i - 1) : q[k] \notin Off
Begun(q, On, Off, i) == \E j \in 1..(i - 1) : q[j] \in On /\ \A k \in (j + 1)..(i - 1) : q[k] \notin Off

Enter == {m \in AMessage : m.event = "enter"}
Leave == {m \in AMessage : m.event = "leave"}
Down(p) == {m \in AMessage : m.event = "down" /\ m.k = p}
Up(p)   == {m \in AMessage : m.event = "up" /\ m.k = p}
Frame(d) == {m \in AMessage : m.id = FixedId(d) /\ m.event = "frame"}
Other(d) == {m \in AMessage : m.id = FixedId(d) /\ m.event # "frame"}

\* Whether the bridge will have the pointer, a point down, events without a frame, when it
\* reads the i-th message.
OnAt(q, b, i)       == Begun(q, Enter, Leave, i) \/ (b /\ Open(q, Leave, i))
DownAt(p, q, ds, i) == Begun(q, Down(p), Up(p), i) \/ (p \in ds /\ Open(q, Up(p), i))
FrameAt(d, q, fs, i) == Begun(q, Other(d), Frame(d), i) \/ (d \in fs /\ Open(q, Frame(d), i))

\* Each message makes sense where the bridge reads it.
Sense(m, q, b, ds, fs, i) ==
  /\ m.event \in {"motion", "leave"} => OnAt(q, b, i)
  /\ m.event \in {"touch_motion", "up"} => m.k \in Points /\ DownAt(m.k, q, ds, i)
  /\ m.event = "frame" => \E d \in Devices : m.id = FixedId(d) /\ FrameAt(d, q, fs, i)
Heard(q, b, ds, fs) == \A i \in 1..Len(q) : Sense(q[i], q, b, ds, fs, i)
Owed(fo, q, fs) == \A d \in Devices : fo[d].pending => FrameAt(d, q, fs, Len(q) + 1)

EnterOf(s) == {e \in AnEvent : e.event = "enter" /\ e.about = s}
TurnOf(s)  == {e \in AnEvent : e.event = "leave" \/ (e.event = "enter" /\ e.about # s)}
DownOf(p, s) == {e \in AnEvent : e.event = "down" /\ e.k = p /\ e.about = s}
LiftOf(p, s) == {e \in AnEvent : e.k = p /\ (e.event = "up" \/ (e.event = "down" /\ e.about # s))}

\* What the proxy keeps of the pointer on s, or the point p down on s: that it is hidden, as
\* it is on the bar, or that the bridge has been told.
PointerKept(s, fo, q, b) ==
  /\ s = Bar => fo[Pointer].hidden
  /\ ~fo[Pointer].hidden => OnAt(q, b, Len(q) + 1)
PointKept(p, s, fo, q, ds) ==
  /\ s = Bar => p \in fo[Touch].touches
  /\ p \notin fo[Touch].touches => DownAt(p, q, ds, Len(q) + 1)
PointerAt(s, i, ev, fo, q, b) ==
  Begun(ev, EnterOf(s), TurnOf(s), i) \/ (PointerKept(s, fo, q, b) /\ Open(ev, TurnOf(s), i))
PointAt(p, s, i, ev, fo, q, ds) ==
  Begun(ev, DownOf(p, s), LiftOf(p, s), i) \/ (PointKept(p, s, fo, q, ds) /\ Open(ev, LiftOf(p, s), i))

\* Each event is about the surface the pointer or the point is on where the proxy reads it,
\* and after them all it is where the compositor has it.
Placed(e, i, ev, fo, q, b, ds) ==
  /\ e.event \in {"motion", "leave"} => PointerAt(e.about, i, ev, fo, q, b)
  /\ e.event \in {"touch_motion", "up"} => PointAt(e.k, e.about, i, ev, fo, q, ds)
Sensed(ev, fo, q, b, ds) == \A i \in 1..Len(ev) : Placed(ev[i], i, ev, fo, q, b, ds)
Resting(at, dn, ev, fo, q, b, ds) ==
  /\ at # None => PointerAt(at, Len(ev) + 1, ev, fo, q, b)
  /\ \A p \in Points : dn[p] # None => PointAt(p, dn[p], Len(ev) + 1, ev, fo, q, ds)

-----------------------------------------------------------------------------
AFocus == [Devices -> [hidden : BOOLEAN, pending : BOOLEAN, touches : SUBSET Points]]

Types ==
  /\ made \in Nat /\ nextServerId \in Nat
  /\ Typed(objects, bridge, forward)
  /\ focus \in AFocus /\ on \in Nat /\ down \in [Points -> Nat]
  /\ events \in Seq(AnEvent) /\ toBridge \in Seq(AMessage)
  /\ bOn \in BOOLEAN /\ bDown \subseteq Points /\ bFrame \subseteq Devices
  /\ failed \in {"no", "global", "server ids"}

\* The inductive invariant: of the objects, and of the input.
ObjectsInv ==
  /\ Types
  /\ Below(objects, bridge, forward, Fresh, nextServerId)
  /\ FixedKept(objects, bridge, forward)
  /\ Agree(objects, bridge, toBridge)
  /\ CompOK(comp, objects, forward, Fresh)
  /\ EventsOK(events, objects, forward, Fresh)
  /\ MessagesOK(toBridge, objects, bridge, forward) /\ Closed(toBridge)
InputInv ==
  /\ Heard(toBridge, bOn, bDown, bFrame) /\ Owed(focus, toBridge, bFrame)
  /\ Sensed(events, focus, toBridge, bOn, bDown)
  /\ Resting(on, down, events, focus, toBridge, bOn, bDown)
Inv == ObjectsInv /\ InputInv

-----------------------------------------------------------------------------
(* Queues.                                                                  *)

\* The elements of a queue with one more.
LEMMA Appended ==
  ASSUME NEW S, NEW q \in Seq(S), NEW m \in S
  PROVE  /\ Append(q, m) \in Seq(S) /\ Len(q) \in Nat /\ Len(Append(q, m)) = Len(q) + 1
         /\ \A i \in 1..Len(q) : Append(q, m)[i] = q[i] /\ q[i] \in S
         /\ Append(q, m)[Len(q) + 1] = m
  OBVIOUS

\* The elements of a queue with the first taken.
LEMMA Taken ==
  ASSUME NEW S, NEW q \in Seq(S), q # <<>>
  PROVE  /\ Tail(q) \in Seq(S) /\ Len(q) \in Nat /\ Len(q) >= 1 /\ Len(Tail(q)) = Len(q) - 1
         /\ \A i \in 1..(Len(q) - 1) : Tail(q)[i] = q[i + 1]
         /\ \A i \in 1..Len(q) : q[i] \in S
         /\ Head(q) = q[1]
  OBVIOUS

\* One more message at the end of a queue.
LEMMA Joined ==
  ASSUME NEW S, NEW q \in Seq(S), NEW m \in S
  PROVE  q \o <<m>> = Append(q, m)
  OBVIOUS

\* None at the end of a queue.
LEMMA ConcatNone ==
  ASSUME NEW S, NEW q \in Seq(S)
  PROVE  q \o <<>> = q
  OBVIOUS

\* What is before a place of a queue stays when something is added.
LEMMA BegunAppend ==
  ASSUME NEW S, NEW q \in Seq(S), NEW m \in S, NEW On, NEW Off, NEW i \in 1..(Len(q) + 1)
  PROVE  /\ Open(q, Off, i) => Open(Append(q, m), Off, i)
         /\ Begun(q, On, Off, i) => Begun(Append(q, m), On, Off, i)
<1>1. \A k \in 1..(i - 1) : Append(q, m)[k] = q[k]
  BY Appended
<1>2. Len(q) \in Nat
  BY Appended
<1>3. ASSUME Open(q, Off, i)
      PROVE  Open(Append(q, m), Off, i)
  BY <1>1, <1>3 DEF Open
<1>4. ASSUME Begun(q, On, Off, i)
      PROVE  Begun(Append(q, m), On, Off, i)
  <2>1. PICK j \in 1..(i - 1) : q[j] \in On /\ \A k \in (j + 1)..(i - 1) : q[k] \notin Off
    BY <1>4 DEF Begun
  <2>2. \A k \in (j + 1)..(i - 1) : k \in 1..(i - 1)
    BY <1>2
  <2>3. Append(q, m)[j] \in On /\ \A k \in (j + 1)..(i - 1) : Append(q, m)[k] \notin Off
    BY <1>1, <2>1, <2>2
  <2>4. QED
    BY <2>3 DEF Begun
<1>5. QED
  BY <1>3, <1>4

\* What is so at the end of a queue after something is added.
LEMMA BegunLast ==
  ASSUME NEW S, NEW q \in Seq(S), NEW m \in S, NEW On, NEW Off
  PROVE  /\ m \notin Off /\ Open(q, Off, Len(q) + 1) => Open(Append(q, m), Off, Len(q) + 2)
         /\ m \notin Off /\ Begun(q, On, Off, Len(q) + 1) => Begun(Append(q, m), On, Off, Len(q) + 2)
         /\ m \in On => Begun(Append(q, m), On, Off, Len(q) + 2)
<1> DEFINE n == Len(q)
<1>1. n \in Nat /\ (n + 1) - 1 = n /\ (n + 2) - 1 = n + 1
  BY Appended
<1>2. \A k \in 1..n : Append(q, m)[k] = q[k]
  BY Appended
<1>3. Append(q, m)[n + 1] = m
  BY Appended
<1> HIDE DEF n
<1>4. ASSUME m \notin Off, Open(q, Off, n + 1)
      PROVE  Open(Append(q, m), Off, n + 2)
  <2>1. \A k \in 1..n : q[k] \notin Off
    BY <1>1, <1>4 DEF Open
  <2>2. \A k \in 1..(n + 1) : k = n + 1 \/ k \in 1..n
    BY <1>1
  <2>3. \A k \in 1..(n + 1) : Append(q, m)[k] \notin Off
    BY <1>2, <1>3, <1>4, <2>1, <2>2
  <2>4. QED
    BY <1>1, <2>3 DEF Open
<1>5. ASSUME m \notin Off, Begun(q, On, Off, n + 1)
      PROVE  Begun(Append(q, m), On, Off, n + 2)
  <2>1. PICK j \in 1..n : q[j] \in On /\ \A k \in (j + 1)..n : q[k] \notin Off
    BY <1>1, <1>5 DEF Begun
  <2>2. j \in 1..(n + 1) /\ \A k \in (j + 1)..(n + 1) : k = n + 1 \/ (k \in (j + 1)..n /\ k \in 1..n)
    BY <1>1
  <2>3. Append(q, m)[j] \in On /\ \A k \in (j + 1)..(n + 1) : Append(q, m)[k] \notin Off
    BY <1>2, <1>3, <1>5, <2>1, <2>2
  <2>4. QED
    BY <1>1, <2>2, <2>3 DEF Begun
<1>6. ASSUME m \in On
      PROVE  Begun(Append(q, m), On, Off, n + 2)
  <2>1. n + 1 \in 1..(n + 1) /\ \A k \in ((n + 1) + 1)..(n + 1) : FALSE
    BY <1>1
  <2>2. QED
    BY <1>1, <1>3, <1>6, <2>1 DEF Begun
<1>7. QED
  BY <1>4, <1>5, <1>6 DEF n

\* What is so at a place of a queue once the first has been taken.
LEMMA BegunTail ==
  ASSUME NEW S, NEW q \in Seq(S), q # <<>>, NEW On, NEW Off, NEW i \in 1..Len(q)
  PROVE  /\ Open(q, Off, i + 1) => Head(q) \notin Off /\ Open(Tail(q), Off, i)
         /\ Begun(q, On, Off, i + 1) =>
              Begun(Tail(q), On, Off, i) \/ (Head(q) \in On /\ Open(Tail(q), Off, i))
<1>1. Len(q) \in Nat /\ (i + 1) - 1 = i /\ \A k \in 1..(i - 1) : k + 1 \in 1..i /\ k + 1 \in 2..i
  BY Taken
<1>2. \A k \in 1..(i - 1) : Tail(q)[k] = q[k + 1]
  BY Taken
<1>3. Head(q) = q[1] /\ 1 \in 1..i
  BY Taken
<1>4. ASSUME Open(q, Off, i + 1)
      PROVE  Head(q) \notin Off /\ Open(Tail(q), Off, i)
  BY <1>1, <1>2, <1>3, <1>4 DEF Open
<1>5. ASSUME Begun(q, On, Off, i + 1)
      PROVE  Begun(Tail(q), On, Off, i) \/ (Head(q) \in On /\ Open(Tail(q), Off, i))
  <2>1. PICK j \in 1..i : q[j] \in On /\ \A k \in (j + 1)..i : q[k] \notin Off
    BY <1>1, <1>5 DEF Begun
  <2>2. CASE j = 1
    <3>1. \A k \in 1..(i - 1) : Tail(q)[k] \notin Off
      BY <1>1, <1>2, <2>1, <2>2
    <3>2. QED
      BY <1>3, <2>1, <2>2, <3>1 DEF Open
  <2>3. CASE j # 1
    <3>1. PICK j0 \in 1..(i - 1) : j = j0 + 1
      BY <1>1, <2>3
    <3>2. \A k \in (j0 + 1)..(i - 1) : k + 1 \in (j + 1)..i /\ k \in 1..(i - 1)
      BY <1>1, <3>1
    <3>3. Tail(q)[j0] \in On /\ \A k \in (j0 + 1)..(i - 1) : Tail(q)[k] \notin Off
      BY <1>2, <2>1, <3>1, <3>2
    <3>4. QED
      BY <3>3 DEF Begun
  <2>4. QED
    BY <2>2, <2>3
<1>6. QED
  BY <1>4, <1>5

-----------------------------------------------------------------------------
(* The messages under way.                                                  *)

\* A message that suits the objects joins the others.
LEMMA MessagesAppend ==
  ASSUME NEW q \in Seq(AMessage), NEW m \in AMessage, NEW obj, NEW br, NEW fw,
         MessagesOK(q, obj, br, fw), MessageOK(m, obj, br, fw), \A i \in 1..Len(q) : Apart(q[i], m)
  PROVE  MessagesOK(Append(q, m), obj, br, fw)
<1> DEFINE n == Len(q)
           r == Append(q, m)
<1>1. n \in Nat /\ Len(r) = n + 1 /\ r[n + 1] = m /\ \A i \in 1..n : r[i] = q[i]
  BY Appended
<1> HIDE DEF n, r
<1>2. \A i \in 1..(n + 1) : i = n + 1 \/ i \in 1..n
  BY <1>1
<1>3. \A i, j \in 1..(n + 1) : i < j => i \in 1..n
  BY <1>1
<1>4. \A i \in 1..(n + 1) : MessageOK(r[i], obj, br, fw)
  BY <1>1, <1>2 DEF MessagesOK, n
<1>5. \A i, j \in 1..(n + 1) : i < j => Apart(r[i], r[j])
  BY <1>1, <1>2, <1>3 DEF MessagesOK, n
<1>6. QED
  BY <1>1, <1>4, <1>5 DEF MessagesOK, r

\* The first is taken.
LEMMA MessagesTail ==
  ASSUME NEW q \in Seq(AMessage), q # <<>>, NEW obj, NEW br, NEW fw, MessagesOK(q, obj, br, fw)
  PROVE  /\ MessagesOK(Tail(q), obj, br, fw)
         /\ MessageOK(Head(q), obj, br, fw)
         /\ \A i \in 1..Len(Tail(q)) : Apart(Head(q), Tail(q)[i])
<1> DEFINE r == Tail(q)
<1>1. /\ Len(q) \in Nat /\ Len(q) >= 1 /\ Len(r) = Len(q) - 1 /\ Head(q) = q[1]
      /\ \A i \in 1..(Len(q) - 1) : r[i] = q[i + 1]
  BY Taken
<1> HIDE DEF r
<1>2. \A i \in 1..Len(r) : i + 1 \in 1..Len(q) /\ r[i] = q[i + 1] /\ 1 < i + 1
  BY <1>1
<1>3. 1 \in 1..Len(q) /\ \A i, j \in 1..Len(r) : i < j => i + 1 < j + 1
  BY <1>1
<1>4. \A i \in 1..Len(r) : MessageOK(r[i], obj, br, fw)
  BY <1>2 DEF MessagesOK
<1>5. \A i, j \in 1..Len(r) : i < j => Apart(r[i], r[j])
  BY <1>2, <1>3 DEF MessagesOK
<1>6. MessageOK(Head(q), obj, br, fw) /\ \A i \in 1..Len(r) : Apart(Head(q), r[i])
  BY <1>1, <1>2, <1>3 DEF MessagesOK
<1>7. QED
  BY <1>4, <1>5, <1>6 DEF MessagesOK, r

\* Messages that suit the objects after a step.
LEMMA MessagesMoved ==
  ASSUME NEW q, NEW obj, NEW br, NEW fw, NEW obj2, NEW br2, NEW fw2, MessagesOK(q, obj, br, fw),
         \A i \in 1..Len(q) : MessageOK(q[i], obj, br, fw) => MessageOK(q[i], obj2, br2, fw2)
  PROVE  MessagesOK(q, obj2, br2, fw2)
  BY DEF MessagesOK

\* An id that is freed stays so as messages are added, and once another has been read.
LEMMA FreedAppend ==
  ASSUME NEW q \in Seq(AMessage), NEW m \in AMessage, NEW id
  PROVE  /\ Freed(q, id) => Freed(Append(q, m), id)
         /\ Frees(m, id) => Freed(Append(q, m), id)
<1> DEFINE r == Append(q, m)
<1>1. /\ Len(q) \in Nat /\ Len(r) = Len(q) + 1 /\ r[Len(q) + 1] = m
      /\ \A i \in 1..Len(q) : r[i] = q[i]
  BY Appended
<1> HIDE DEF r
<1>2. Len(q) + 1 \in 1..Len(r) /\ \A i \in 1..Len(q) : i \in 1..Len(r)
  BY <1>1
<1>3. Freed(q, id) => Freed(r, id)
  BY <1>1, <1>2 DEF Freed
<1>4. Frees(m, id) => Freed(r, id)
  BY <1>1, <1>2 DEF Freed
<1>5. QED
  BY <1>3, <1>4 DEF r

\* An id that is freed stays so once another message has been read.
LEMMA FreedTail ==
  ASSUME NEW q \in Seq(AMessage), q # <<>>, NEW id, Freed(q, id), ~Frees(Head(q), id)
  PROVE  Freed(Tail(q), id)
<1>1. PICK i \in 1..Len(q) : Frees(q[i], id)
  BY DEF Freed
<1>2. i # 1 /\ Len(q) \in Nat /\ Len(Tail(q)) = Len(q) - 1
  BY <1>1, Taken
<1>3. i - 1 \in 1..(Len(q) - 1) /\ (i - 1) + 1 = i
  BY <1>2
<1>4. Tail(q)[i - 1] = q[i]
  <2>1. \A j \in 1..(Len(q) - 1) : Tail(q)[j] = q[j + 1]
    BY Taken
  <2>2. QED
    BY <2>1, <1>3
<1>5. QED
  BY <1>1, <1>2, <1>3, <1>4 DEF Freed

\* What is done with is freed, as messages are added.
LEMMA ClosedAppend ==
  ASSUME NEW q \in Seq(AMessage), Closed(q), NEW m \in AMessage
  PROVE  /\ m.event # "done" => Closed(Append(q, m))
         /\ \A d \in AMessage : Frees(d, m.id) => Closed(Append(Append(q, m), d))
<1> DEFINE n == Len(q)
           r == Append(q, m)
<1>1. n \in Nat /\ Len(r) = n + 1 /\ r[n + 1] = m /\ r \in Seq(AMessage) /\ \A i \in 1..n : r[i] = q[i]
  BY Appended
<1> HIDE DEF n, r
<1>2. \A i \in 1..n : r[i].event = "done" => \E j \in (i + 1)..n : Frees(r[j], r[i].id)
  <2>1. \A i \in 1..n : \A j \in (i + 1)..n : j \in 1..n
    BY <1>1
  <2>2. \A i \in 1..n : q[i].event = "done" => \E j \in (i + 1)..n : Frees(q[j], q[i].id)
    BY DEF Closed, n
  <2>3. QED
    BY <1>1, <2>1, <2>2
<1>3. \A i \in 1..n : \A j \in (i + 1)..n : j \in (i + 1)..(n + 1) /\ j \in (i + 1)..(n + 2) /\ j \in 1..(n + 1)
  BY <1>1
<1>4. ASSUME m.event # "done"
      PROVE  Closed(r)
  <2>1. \A i \in 1..(n + 1) : i = n + 1 \/ i \in 1..n
    BY <1>1
  <2>2. \A i \in 1..(n + 1) : r[i].event = "done" => \E j \in (i + 1)..(n + 1) : Frees(r[j], r[i].id)
    BY <1>1, <1>2, <1>3, <1>4, <2>1
  <2>3. QED
    BY <1>1, <2>2 DEF Closed
<1>5. ASSUME NEW d \in AMessage, Frees(d, m.id)
      PROVE  Closed(Append(r, d))
  <2> DEFINE s == Append(r, d)
  <2>1. Len(s) = n + 2 /\ s[n + 2] = d /\ \A i \in 1..(n + 1) : s[i] = r[i]
    <3>1. Len(s) = Len(r) + 1 /\ s[Len(r) + 1] = d /\ \A i \in 1..Len(r) : s[i] = r[i]
      BY <1>1, Appended
    <3>2. Len(r) + 1 = n + 2
      BY <1>1
    <3>3. QED
      BY <1>1, <3>1, <3>2
  <2> HIDE DEF s
  <2>2. \A i \in 1..(n + 2) : i = n + 2 \/ i = n + 1 \/ (i \in 1..n /\ i \in 1..(n + 1))
    BY <1>1
  <2>3. n + 1 \in 1..(n + 1) /\ n + 2 \in ((n + 1) + 1)..(n + 2)
    BY <1>1
  <2>4. d.event # "done"
    BY <1>5 DEF Frees
  <2>5. ASSUME NEW i \in 1..n, s[i].event = "done"
        PROVE  \E j \in (i + 1)..(n + 2) : Frees(s[j], s[i].id)
    <3>1. s[i] = r[i]
      BY <2>1, <2>2, <1>1
    <3>2. PICK j \in (i + 1)..n : Frees(r[j], r[i].id)
      BY <1>2, <2>5, <3>1
    <3>3. s[j] = r[j] /\ j \in (i + 1)..(n + 2)
      BY <1>3, <2>1
    <3>4. QED
      BY <3>1, <3>2, <3>3
  <2>6. Frees(s[n + 2], s[n + 1].id)
    BY <1>1, <1>5, <2>1, <2>3
  <2>7. \A i \in 1..(n + 2) : s[i].event = "done" => \E j \in (i + 1)..(n + 2) : Frees(s[j], s[i].id)
    BY <2>1, <2>2, <2>3, <2>4, <2>5, <2>6
  <2>8. QED
    BY <2>1, <2>7 DEF Closed, s
<1>6. QED
  BY <1>4, <1>5 DEF r

\* What is done with is freed, as messages are read.
LEMMA ClosedTail ==
  ASSUME NEW q \in Seq(AMessage), q # <<>>, Closed(q)
  PROVE  Closed(Tail(q)) /\ (Head(q).event = "done" => Freed(Tail(q), Head(q).id))
<1> DEFINE r == Tail(q)
<1>1. /\ Len(q) \in Nat /\ Len(q) >= 1 /\ Len(r) = Len(q) - 1 /\ Head(q) = q[1]
      /\ \A i \in 1..(Len(q) - 1) : r[i] = q[i + 1]
  BY Taken
<1> HIDE DEF r
<1>2. \A i \in 1..Len(r) : i + 1 \in 1..Len(q) /\ r[i] = q[i + 1]
  BY <1>1
<1>3. \A i \in 0..Len(r), j \in 1..Len(q) : j >= i + 2 => j - 1 \in (i + 1)..Len(r) /\ j - 1 \in 1..Len(r) /\ r[j - 1] = q[j]
  <2>1. \A j \in 1..Len(q) : j >= 2 => (j - 1) + 1 = j /\ j - 1 \in 1..(Len(q) - 1)
    BY <1>1
  <2>2. \A j \in 1..Len(q) : j >= 2 => r[j - 1] = q[j]
    BY <1>1, <2>1
  <2>3. \A i \in 0..Len(r), j \in 1..Len(q) : j >= i + 2 => j - 1 \in (i + 1)..Len(r) /\ j - 1 \in 1..Len(r) /\ j >= 2
    BY <1>1
  <2>4. QED
    BY <2>2, <2>3
<1>4. ASSUME NEW i \in 0..Len(r), q[i + 1].event = "done"
      PROVE  \E j \in (i + 1)..Len(r) : Frees(r[j], q[i + 1].id)
  <2>1. i + 1 \in 1..Len(q)
    BY <1>1
  <2>2. PICK j \in ((i + 1) + 1)..Len(q) : Frees(q[j], q[i + 1].id)
    BY <1>4, <2>1 DEF Closed
  <2>3. j \in 1..Len(q) /\ j >= i + 2
    BY <1>1
  <2>4. QED
    BY <1>3, <2>2, <2>3
<1>5. Closed(r)
  <2>1. \A i \in 1..Len(r) : i \in 0..Len(r)
    BY <1>1
  <2>2. QED
    BY <1>2, <1>4, <2>1 DEF Closed
<1>6. Head(q).event = "done" => Freed(r, Head(q).id)
  <2>1. 0 \in 0..Len(r) /\ 0 + 1 = 1
    BY <1>1
  <2>2. QED
    BY <1>1, <1>4, <2>1 DEF Freed
<1>7. QED
  BY <1>5, <1>6 DEF r

-----------------------------------------------------------------------------
(* What the bridge is told.                                                 *)

\* What the bridge will have at a place stays so when a message is added.
LEMMA AtAppend ==
  ASSUME NEW q \in Seq(AMessage), NEW m \in AMessage, NEW b, NEW ds, NEW fs,
         NEW i \in 1..(Len(q) + 1)
  PROVE  /\ OnAt(q, b, i) => OnAt(Append(q, m), b, i)
         /\ \A p \in Points : DownAt(p, q, ds, i) => DownAt(p, Append(q, m), ds, i)
         /\ \A d \in Devices : FrameAt(d, q, fs, i) => FrameAt(d, Append(q, m), fs, i)
<1>1. \A On, Off : /\ Open(q, Off, i) => Open(Append(q, m), Off, i)
                   /\ Begun(q, On, Off, i) => Begun(Append(q, m), On, Off, i)
  BY BegunAppend
<1>2. OnAt(q, b, i) => OnAt(Append(q, m), b, i)
  BY <1>1 DEF OnAt
<1>3. \A p \in Points : DownAt(p, q, ds, i) => DownAt(p, Append(q, m), ds, i)
  BY <1>1 DEF DownAt
<1>4. \A d \in Devices : FrameAt(d, q, fs, i) => FrameAt(d, Append(q, m), fs, i)
  BY <1>1 DEF FrameAt
<1>5. QED
  BY <1>2, <1>3, <1>4

\* What it will have after a message that is added.
LEMMA AtLast ==
  ASSUME NEW q \in Seq(AMessage), NEW m \in AMessage, NEW b, NEW ds, NEW fs
  PROVE  /\ m \in Enter \/ (m \notin Leave /\ OnAt(q, b, Len(q) + 1)) =>
              OnAt(Append(q, m), b, Len(Append(q, m)) + 1)
         /\ \A p \in Points : m \in Down(p) \/ (m \notin Up(p) /\ DownAt(p, q, ds, Len(q) + 1)) =>
              DownAt(p, Append(q, m), ds, Len(Append(q, m)) + 1)
         /\ \A d \in Devices : m \in Other(d) \/ (m \notin Frame(d) /\ FrameAt(d, q, fs, Len(q) + 1)) =>
              FrameAt(d, Append(q, m), fs, Len(Append(q, m)) + 1)
<1>1. \A On, Off :
        /\ m \notin Off /\ Open(q, Off, Len(q) + 1) => Open(Append(q, m), Off, Len(q) + 2)
        /\ m \notin Off /\ Begun(q, On, Off, Len(q) + 1) => Begun(Append(q, m), On, Off, Len(q) + 2)
        /\ m \in On => Begun(Append(q, m), On, Off, Len(q) + 2)
  BY BegunLast
<1>2. Len(Append(q, m)) + 1 = Len(q) + 2
  BY Appended
<1>3. m \in Enter \/ (m \notin Leave /\ OnAt(q, b, Len(q) + 1)) => OnAt(Append(q, m), b, Len(q) + 2)
  BY <1>1 DEF OnAt
<1>4. \A p \in Points : m \in Down(p) \/ (m \notin Up(p) /\ DownAt(p, q, ds, Len(q) + 1)) =>
        DownAt(p, Append(q, m), ds, Len(q) + 2)
  BY <1>1 DEF DownAt
<1>5. \A d \in Devices : m \in Other(d) \/ (m \notin Frame(d) /\ FrameAt(d, q, fs, Len(q) + 1)) =>
        FrameAt(d, Append(q, m), fs, Len(q) + 2)
  BY <1>1 DEF FrameAt
<1>6. QED
  BY <1>2, <1>3, <1>4, <1>5

\* What the bridge has once it has read a message.
Reads(m, b, ds, fs, b2, ds2, fs2) ==
  /\ m \in Enter \/ (b /\ m \notin Leave) => b2
  /\ \A p \in Points : m \in Down(p) \/ (p \in ds /\ m \notin Up(p)) => p \in ds2
  /\ \A d \in Devices : m \in Other(d) \/ (d \in fs /\ m \notin Frame(d)) => d \in fs2

\* What it will have at a place stays so when it reads a message.
LEMMA AtTail ==
  ASSUME NEW q \in Seq(AMessage), q # <<>>, NEW b, NEW ds, NEW fs, NEW b2, NEW ds2, NEW fs2,
         Reads(Head(q), b, ds, fs, b2, ds2, fs2), NEW i \in 1..Len(q)
  PROVE  /\ OnAt(q, b, i + 1) => OnAt(Tail(q), b2, i)
         /\ \A p \in Points : DownAt(p, q, ds, i + 1) => DownAt(p, Tail(q), ds2, i)
         /\ \A d \in Devices : FrameAt(d, q, fs, i + 1) => FrameAt(d, Tail(q), fs2, i)
<1>1. \A On, Off :
        /\ Open(q, Off, i + 1) => Head(q) \notin Off /\ Open(Tail(q), Off, i)
        /\ Begun(q, On, Off, i + 1) =>
              Begun(Tail(q), On, Off, i) \/ (Head(q) \in On /\ Open(Tail(q), Off, i))
  BY BegunTail
<1>2. OnAt(q, b, i + 1) => OnAt(Tail(q), b2, i)
  BY <1>1 DEF OnAt, Reads
<1>3. \A p \in Points : DownAt(p, q, ds, i + 1) => DownAt(p, Tail(q), ds2, i)
  BY <1>1 DEF DownAt, Reads
<1>4. \A d \in Devices : FrameAt(d, q, fs, i + 1) => FrameAt(d, Tail(q), fs2, i)
  BY <1>1 DEF FrameAt, Reads
<1>5. QED
  BY <1>2, <1>3, <1>4

\* A message that makes sense after the others joins them.
LEMMA HeardAppend ==
  ASSUME NEW q \in Seq(AMessage), NEW m \in AMessage, NEW b, NEW ds, NEW fs,
         Heard(q, b, ds, fs), Sense(m, q, b, ds, fs, Len(q) + 1)
  PROVE  Heard(Append(q, m), b, ds, fs)
<1> DEFINE n == Len(q)
           r == Append(q, m)
<1>1. n \in Nat /\ Len(r) = n + 1 /\ r[n + 1] = m /\ \A i \in 1..n : r[i] = q[i]
  BY Appended
<1>2. \A i \in 1..(n + 1) :
        /\ OnAt(q, b, i) => OnAt(r, b, i)
        /\ \A p \in Points : DownAt(p, q, ds, i) => DownAt(p, r, ds, i)
        /\ \A d \in Devices : FrameAt(d, q, fs, i) => FrameAt(d, r, fs, i)
  BY AtAppend
<1> HIDE DEF r
<1>3. \A i \in 1..(n + 1) : \A x : Sense(x, q, b, ds, fs, i) => Sense(x, r, b, ds, fs, i)
  BY <1>2 DEF Sense
<1> HIDE DEF n
<1>4. \A i \in 1..(n + 1) : i = n + 1 \/ i \in 1..n
  BY <1>1
<1>5. \A i \in 1..(n + 1) : Sense(r[i], q, b, ds, fs, i)
  BY <1>1, <1>4 DEF Heard, n
<1>6. QED
  BY <1>1, <1>3, <1>5 DEF Heard, r

\* The bridge reads a message, and the others make sense after it.
LEMMA HeardTail ==
  ASSUME NEW q \in Seq(AMessage), q # <<>>, NEW b, NEW ds, NEW fs, NEW b2, NEW ds2, NEW fs2,
         Reads(Head(q), b, ds, fs, b2, ds2, fs2), Heard(q, b, ds, fs)
  PROVE  Heard(Tail(q), b2, ds2, fs2)
<1> DEFINE r == Tail(q)
<1>1. Len(q) \in Nat /\ Len(r) = Len(q) - 1 /\ \A i \in 1..(Len(q) - 1) : r[i] = q[i + 1]
  BY Taken
<1>2. \A i \in 1..Len(q) :
        /\ OnAt(q, b, i + 1) => OnAt(r, b2, i)
        /\ \A p \in Points : DownAt(p, q, ds, i + 1) => DownAt(p, r, ds2, i)
        /\ \A d \in Devices : FrameAt(d, q, fs, i + 1) => FrameAt(d, r, fs2, i)
  BY AtTail
<1> HIDE DEF r
<1>3. \A i \in 1..Len(r) : i \in 1..Len(q) /\ i + 1 \in 1..Len(q) /\ r[i] = q[i + 1]
  BY <1>1
<1>4. \A i \in 1..Len(r) : Sense(r[i], q, b, ds, fs, i + 1)
  BY <1>3 DEF Heard
<1>5. \A i \in 1..Len(r) : Sense(r[i], r, b2, ds2, fs2, i)
  BY <1>2, <1>3, <1>4 DEF Sense
<1>6. QED
  BY <1>5 DEF Heard, r

\* What the proxy owes the bridge once it has sent a message.
LEMMA OwedAppend ==
  ASSUME NEW q \in Seq(AMessage), NEW m \in AMessage, NEW fo, NEW fo2, NEW fs, Owed(fo, q, fs),
         \A d \in Devices : fo2[d].pending => m \in Other(d) \/ (m \notin Frame(d) /\ fo[d].pending)
  PROVE  Owed(fo2, Append(q, m), fs)
  BY AtLast DEF Owed

\* It owes it as much when the bridge has read a message.
LEMMA OwedTail ==
  ASSUME NEW q \in Seq(AMessage), q # <<>>, NEW b, NEW ds, NEW fs, NEW b2, NEW ds2, NEW fs2, NEW fo,
         Reads(Head(q), b, ds, fs, b2, ds2, fs2), Owed(fo, q, fs)
  PROVE  Owed(fo, Tail(q), fs2)
<1>1. Len(q) \in 1..Len(q) /\ Len(Tail(q)) + 1 = Len(q)
  BY Taken
<1>2. \A d \in Devices : FrameAt(d, q, fs, Len(q) + 1) => FrameAt(d, Tail(q), fs2, Len(q))
  BY <1>1, AtTail
<1>3. QED
  BY <1>1, <1>2 DEF Owed

-----------------------------------------------------------------------------
(* The events under way.                                                    *)

\* All that the proxy keeps of the input is kept over a step.
KeptOn(fo, q, b, ds, fo2, q2, b2, ds2) ==
  /\ \A s \in Nat : PointerKept(s, fo, q, b) => PointerKept(s, fo2, q2, b2)
  /\ \A p \in Points, s \in Nat : PointKept(p, s, fo, q, ds) => PointKept(p, s, fo2, q2, ds2)

\* Then the events under way are as they were.
LEMMA SensedMoved ==
  ASSUME NEW ev \in Seq(AnEvent), NEW fo, NEW q, NEW b, NEW ds, NEW fo2, NEW q2, NEW b2, NEW ds2,
         KeptOn(fo, q, b, ds, fo2, q2, b2, ds2), Sensed(ev, fo, q, b, ds),
         \A i \in 1..Len(ev) : ev[i].event \in {"touch_motion", "up"} => ev[i].k \in Points,
         NEW at \in Nat, NEW dn \in [Points -> Nat], Resting(at, dn, ev, fo, q, b, ds)
  PROVE  Sensed(ev, fo2, q2, b2, ds2) /\ Resting(at, dn, ev, fo2, q2, b2, ds2)
<1>1. \A s \in Nat, i \in Nat : PointerAt(s, i, ev, fo, q, b) => PointerAt(s, i, ev, fo2, q2, b2)
  BY DEF KeptOn, PointerAt
<1>2. \A p \in Points, s \in Nat, i \in Nat :
        PointAt(p, s, i, ev, fo, q, ds) => PointAt(p, s, i, ev, fo2, q2, ds2)
  BY DEF KeptOn, PointAt
<1>3. Len(ev) + 1 \in Nat /\ \A i \in 1..Len(ev) : i \in Nat /\ ev[i].about \in Nat
  <2>1. Len(ev) \in Nat /\ \A i \in 1..Len(ev) : ev[i] \in AnEvent
    OBVIOUS
  <2>2. QED
    BY <2>1, SMTT(30) DEF AnEvent
<1>4. Sensed(ev, fo2, q2, b2, ds2)
  BY <1>1, <1>2, <1>3 DEF Sensed, Placed
<1>5. Resting(at, dn, ev, fo2, q2, b2, ds2)
  BY <1>1, <1>2, <1>3 DEF Resting
<1>6. QED
  BY <1>4, <1>5

\* An event that is placed after the others joins them.
LEMMA SensedAppend ==
  ASSUME NEW ev \in Seq(AnEvent), NEW e \in AnEvent, NEW fo, NEW q, NEW b, NEW ds,
         Sensed(ev, fo, q, b, ds), Placed(e, Len(ev) + 1, ev, fo, q, b, ds)
  PROVE  Sensed(Append(ev, e), fo, q, b, ds)
<1> DEFINE n == Len(ev)
           r == Append(ev, e)
<1>1. n \in Nat /\ Len(r) = n + 1 /\ r[n + 1] = e /\ \A i \in 1..n : r[i] = ev[i]
  BY Appended
<1>2. \A On, Off : \A i \in 1..(n + 1) :
        /\ Open(ev, Off, i) => Open(r, Off, i)
        /\ Begun(ev, On, Off, i) => Begun(r, On, Off, i)
  BY BegunAppend
<1> HIDE DEF n, r
<1>3. \A i \in 1..(n + 1) : \A x : Placed(x, i, ev, fo, q, b, ds) => Placed(x, i, r, fo, q, b, ds)
  <2>1. \A i \in 1..(n + 1) : \A s : PointerAt(s, i, ev, fo, q, b) => PointerAt(s, i, r, fo, q, b)
    BY <1>2 DEF PointerAt
  <2>2. \A i \in 1..(n + 1) : \A p, s : PointAt(p, s, i, ev, fo, q, ds) => PointAt(p, s, i, r, fo, q, ds)
    BY <1>2 DEF PointAt
  <2>3. QED
    BY <2>1, <2>2 DEF Placed
<1>4. \A i \in 1..(n + 1) : i = n + 1 \/ i \in 1..n
  BY <1>1
<1>5. \A i \in 1..(n + 1) : Placed(r[i], i, ev, fo, q, b, ds)
  BY <1>1, <1>4 DEF Sensed, n
<1>6. QED
  BY <1>1, <1>3, <1>5 DEF Sensed, r

\* Where the compositor has the pointer and the points once it has sent an event.
LEMMA RestingAppend ==
  ASSUME NEW ev \in Seq(AnEvent), NEW e \in AnEvent, NEW fo, NEW q, NEW b, NEW ds,
         NEW at, NEW dn, NEW at2, NEW dn2, Resting(at, dn, ev, fo, q, b, ds),
         at2 # None => e \in EnterOf(at2) \/ (at2 = at /\ e \notin TurnOf(at)),
         \A p \in Points : dn2[p] # None =>
           e \in DownOf(p, dn2[p]) \/ (dn2[p] = dn[p] /\ e \notin LiftOf(p, dn[p]))
  PROVE  Resting(at2, dn2, Append(ev, e), fo, q, b, ds)
<1>1. \A On, Off :
        /\ e \notin Off /\ Open(ev, Off, Len(ev) + 1) => Open(Append(ev, e), Off, Len(ev) + 2)
        /\ e \notin Off /\ Begun(ev, On, Off, Len(ev) + 1) => Begun(Append(ev, e), On, Off, Len(ev) + 2)
        /\ e \in On => Begun(Append(ev, e), On, Off, Len(ev) + 2)
  BY BegunLast
<1>2. Len(Append(ev, e)) + 1 = Len(ev) + 2
  BY Appended
<1>3. at2 # None => PointerAt(at2, Len(ev) + 2, Append(ev, e), fo, q, b)
  BY <1>1 DEF Resting, PointerAt
<1>4. \A p \in Points : dn2[p] # None => PointAt(p, dn2[p], Len(ev) + 2, Append(ev, e), fo, q, ds)
  BY <1>1 DEF Resting, PointAt
<1>5. QED
  BY <1>2, <1>3, <1>4 DEF Resting

\* The proxy reads an event: what it then keeps of the surfaces the event is about, and what
\* it still keeps of the others.
Follows(e, fo, q, b, ds, fo2, q2, b2, ds2) ==
  /\ \A s \in Nat : e \in EnterOf(s) \/ (PointerKept(s, fo, q, b) /\ e \notin TurnOf(s)) =>
       PointerKept(s, fo2, q2, b2)
  /\ \A p \in Points, s \in Nat :
       e \in DownOf(p, s) \/ (PointKept(p, s, fo, q, ds) /\ e \notin LiftOf(p, s)) =>
         PointKept(p, s, fo2, q2, ds2)

\* Then the other events are placed after it.
LEMMA SensedTail ==
  ASSUME NEW ev \in Seq(AnEvent), ev # <<>>, NEW fo, NEW q, NEW b, NEW ds, NEW fo2, NEW q2,
         NEW b2, NEW ds2,
         Follows(Head(ev), fo, q, b, ds, fo2, q2, b2, ds2), Sensed(ev, fo, q, b, ds),
         \A i \in 1..Len(ev) : ev[i].event \in {"touch_motion", "up"} => ev[i].k \in Points,
         NEW at \in Nat, NEW dn \in [Points -> Nat], Resting(at, dn, ev, fo, q, b, ds)
  PROVE  Sensed(Tail(ev), fo2, q2, b2, ds2) /\ Resting(at, dn, Tail(ev), fo2, q2, b2, ds2)
<1> DEFINE r == Tail(ev)
<1>1. /\ Len(ev) \in Nat /\ Len(ev) >= 1 /\ Len(r) = Len(ev) - 1
      /\ \A i \in 1..(Len(ev) - 1) : r[i] = ev[i + 1]
      /\ \A i \in 1..Len(ev) : ev[i] \in AnEvent
  BY Taken
<1>2. \A On, Off : \A i \in 1..Len(ev) :
        /\ Open(ev, Off, i + 1) => Head(ev) \notin Off /\ Open(r, Off, i)
        /\ Begun(ev, On, Off, i + 1) =>
              Begun(r, On, Off, i) \/ (Head(ev) \in On /\ Open(r, Off, i))
  BY BegunTail
<1> HIDE DEF r
<1>3. \A i \in 1..Len(ev), s \in Nat :
        PointerAt(s, i + 1, ev, fo, q, b) => PointerAt(s, i, r, fo2, q2, b2)
  <2> SUFFICES ASSUME NEW i \in 1..Len(ev), NEW s \in Nat, PointerAt(s, i + 1, ev, fo, q, b)
               PROVE  PointerAt(s, i, r, fo2, q2, b2)
    OBVIOUS
  <2>1. Head(ev) \in EnterOf(s) \/ (PointerKept(s, fo, q, b) /\ Head(ev) \notin TurnOf(s)) =>
          PointerKept(s, fo2, q2, b2)
    BY DEF Follows
  <2>2. \/ Begun(ev, EnterOf(s), TurnOf(s), i + 1)
        \/ PointerKept(s, fo, q, b) /\ Open(ev, TurnOf(s), i + 1)
    BY DEF PointerAt
  <2>3. \/ Begun(r, EnterOf(s), TurnOf(s), i)
        \/ Open(r, TurnOf(s), i) /\ Head(ev) \in EnterOf(s)
        \/ Open(r, TurnOf(s), i) /\ PointerKept(s, fo, q, b) /\ Head(ev) \notin TurnOf(s)
    BY <1>2, <2>2
  <2>4. QED
    BY <2>1, <2>3 DEF PointerAt
<1>4. \A i \in 1..Len(ev), p \in Points, s \in Nat :
        PointAt(p, s, i + 1, ev, fo, q, ds) => PointAt(p, s, i, r, fo2, q2, ds2)
  <2> SUFFICES ASSUME NEW i \in 1..Len(ev), NEW p \in Points, NEW s \in Nat,
                      PointAt(p, s, i + 1, ev, fo, q, ds)
               PROVE  PointAt(p, s, i, r, fo2, q2, ds2)
    OBVIOUS
  <2>1. Head(ev) \in DownOf(p, s) \/ (PointKept(p, s, fo, q, ds) /\ Head(ev) \notin LiftOf(p, s)) =>
          PointKept(p, s, fo2, q2, ds2)
    BY DEF Follows
  <2>2. \/ Begun(ev, DownOf(p, s), LiftOf(p, s), i + 1)
        \/ PointKept(p, s, fo, q, ds) /\ Open(ev, LiftOf(p, s), i + 1)
    BY DEF PointAt
  <2>3. \/ Begun(r, DownOf(p, s), LiftOf(p, s), i)
        \/ Open(r, LiftOf(p, s), i) /\ Head(ev) \in DownOf(p, s)
        \/ Open(r, LiftOf(p, s), i) /\ PointKept(p, s, fo, q, ds) /\ Head(ev) \notin LiftOf(p, s)
    BY <1>2, <2>2
  <2>4. QED
    BY <2>1, <2>3 DEF PointAt
<1>5. \A i \in 1..Len(r) : i \in 1..Len(ev) /\ i + 1 \in 1..Len(ev) /\ r[i] = ev[i + 1] /\ ev[i + 1].about \in Nat
  <2>1. \A i \in 1..Len(r) : i \in 1..Len(ev) /\ i + 1 \in 1..Len(ev) /\ r[i] = ev[i + 1]
    BY <1>1
  <2>2. \A i \in 1..Len(ev) : ev[i].about \in Nat
    BY <1>1 DEF AnEvent
  <2>3. QED
    BY <2>1, <2>2
<1>6. \A i \in 1..Len(r) : Placed(r[i], i + 1, ev, fo, q, b, ds)
  BY <1>5 DEF Sensed
<1>7. \A i \in 1..Len(r) : Placed(r[i], i, r, fo2, q2, b2, ds2)
  BY <1>3, <1>4, <1>5, <1>6 DEF Placed
<1>8. Len(ev) \in 1..Len(ev) /\ Len(r) + 1 = Len(ev)
  BY <1>1
<1>9. Resting(at, dn, r, fo2, q2, b2, ds2)
  <2>1. at # None => PointerAt(at, Len(ev), r, fo2, q2, b2)
    BY <1>3, <1>8 DEF Resting
  <2>2. \A p \in Points : dn[p] # None => PointAt(p, dn[p], Len(ev), r, fo2, q2, ds2)
    BY <1>4, <1>8 DEF Resting
  <2>3. QED
    BY <1>8, <2>1, <2>2 DEF Resting
<1>10. QED
  BY <1>7, <1>9 DEF Sensed, r

\* The first event is where the proxy has the pointer and the points.
LEMMA PlacedHead ==
  ASSUME NEW ev \in Seq(AnEvent), ev # <<>>, NEW fo, NEW q, NEW b, NEW ds, Sensed(ev, fo, q, b, ds)
  PROVE  /\ Head(ev).event \in {"motion", "leave"} => PointerKept(Head(ev).about, fo, q, b)
         /\ Head(ev).event \in {"touch_motion", "up"} => PointKept(Head(ev).k, Head(ev).about, fo, q, ds)
<1>1. Head(ev) = ev[1] /\ 1 \in 1..Len(ev)
  BY Taken
<1>2. \A On, Off : ~Begun(ev, On, Off, 1)
  BY DEF Begun
<1>3. Placed(Head(ev), 1, ev, fo, q, b, ds)
  BY <1>1 DEF Sensed
<1>4. QED
  BY <1>2, <1>3 DEF Placed, PointerAt, PointAt

-----------------------------------------------------------------------------
(* Objects come and go.                                                     *)

\* What Put leaves of a function whose values are in a set.
LEMMA PutTyped ==
  ASSUME NEW f, NEW x, NEW T, NEW v \in T, \A y \in DOMAIN f : f[y] \in T
  PROVE  Put(f, x, v) \in [DOMAIN Put(f, x, v) -> T]
  BY DEF Put

\* What Drop leaves.
LEMMA DropIs ==
  ASSUME NEW f, NEW x
  PROVE  /\ DOMAIN Drop(f, x) = DOMAIN f \ {x}
         /\ \A y \in DOMAIN f : y # x => Drop(f, x)[y] = f[y]
         /\ \A T : (\A y \in DOMAIN f : f[y] \in T) => Drop(f, x) \in [DOMAIN Drop(f, x) -> T]
  BY DEF Drop, Restrict

\* The ids are whole numbers below the first the proxy gives.
LEMMA IdsBelow == Start \in Int /\ \A id \in Ids : id \in Int /\ id > 0 /\ id < Start
  BY ProxyAssumption DEF Ids, Start

\* The numbers of the fixed objects, and their ids.
LEMMA FixedIs ==
  /\ Fixed = {2, 3, 4, 5} /\ Devices = {2, 3} /\ None = 0 /\ Bar = 1
  /\ \A o \in Fixed : o \in Int /\ FixedId(o) \in Int /\ FixedId(o) < 0 /\ FixedId(o) \notin Ids
  BY ProxyAssumption DEF Fixed, Devices, None, Bar, Pointer, Touch, Data, Registry, FixedId, Ids

\* An id the bridge holds to be free is free for the proxy too, so that the bridge's object
\* is made on both sides.
LEMMA NewMakes ==
  ASSUME Inv, NEW id, NEW iface, New(id, iface)
  PROVE  /\ id \in Ids /\ id \notin DOMAIN bridge /\ id \notin DOMAIN objects
         /\ failed' = "no" /\ made' = made + 1
         /\ bridge' = Put(bridge, id, [up |-> Fresh, iface |-> iface, live |-> TRUE])
         /\ objects' = Put(objects, id, [up |-> Fresh, iface |-> iface])
         /\ forward' = Put(forward, Fresh, id)
         /\ comp' = Put(comp, Fresh, iface)
<1>1. id \in Ids /\ id \notin DOMAIN bridge
  BY DEF New, Ids
<1>2. id \notin DOMAIN objects
  BY <1>1 DEF Inv, ObjectsInv, Agree
<1>3. CheckNewId(id)
  BY <1>1, <1>2, IdsBelow DEF CheckNewId
<1>4. QED
  BY <1>1, <1>2, <1>3 DEF New

\* The objects agree once the bridge has made one.
LEMMA NewObjects ==
  ASSUME Inv, NEW id, NEW iface \in Ifaces, New(id, iface)
  PROVE  ObjectsInv'
<1> DEFINE F == Fresh
<1>1. id \in Ids /\ id \in Int /\ id > 0 /\ id < Start /\ id \notin DOMAIN bridge /\ id \notin DOMAIN objects
  BY NewMakes, IdsBelow
<1>2. F \in Nat /\ F >= 6 /\ Fresh' = F + 1 /\ made' \in Nat
  <2>1. made \in Nat
    BY DEF Inv, ObjectsInv, Types
  <2>2. made' = made + 1
    BY NewMakes
  <2>3. QED
    BY <2>1, <2>2 DEF Fresh
<1>3. UNCHANGED <<nextServerId, focus, on, down, events, toBridge, bOn, bDown, bFrame>>
  BY DEF New
<1>4. /\ Types /\ Below(objects, bridge, forward, F, nextServerId) /\ FixedKept(objects, bridge, forward)
      /\ Agree(objects, bridge, toBridge) /\ CompOK(comp, objects, forward, F)
      /\ EventsOK(events, objects, forward, F) /\ MessagesOK(toBridge, objects, bridge, forward)
      /\ Closed(toBridge)
  BY DEF Inv, ObjectsInv
<1> DEFINE O == [up |-> F, iface |-> iface]
           B == [up |-> F, iface |-> iface, live |-> TRUE]
<1>5. /\ DOMAIN objects' = DOMAIN objects \cup {id} /\ objects'[id] = O
      /\ objects' \in [DOMAIN objects' -> [up : Nat, iface : Ifaces]]
      /\ \A x \in DOMAIN objects : x # id /\ objects'[x] = objects[x]
  <2>1. O \in [up : Nat, iface : Ifaces] /\ objects \in [DOMAIN objects -> [up : Nat, iface : Ifaces]]
    BY <1>2, <1>4 DEF Types, Typed
  <2>2. objects' = Put(objects, id, O)
    BY NewMakes
  <2> HIDE DEF O
  <2>3. \A y \in DOMAIN objects : objects[y] \in [up : Nat, iface : Ifaces]
    BY <2>1
  <2>4. objects' \in [DOMAIN objects' -> [up : Nat, iface : Ifaces]]
    BY <1>1, <2>1, <2>2, <2>3, PutTyped
  <2>5. DOMAIN objects' = DOMAIN objects \cup {id} /\ objects'[id] = O /\ \A y \in DOMAIN objects : y # id => objects'[y] = objects[y]
    BY <2>1, <2>2 DEF Put
  <2>6. QED
    BY <1>1, <2>2, <2>4, <2>5
<1>6. /\ DOMAIN bridge' = DOMAIN bridge \cup {id} /\ bridge'[id] = B
      /\ bridge' \in [DOMAIN bridge' -> [up : Nat, iface : Ifaces, live : BOOLEAN]]
      /\ \A x \in DOMAIN bridge : x # id /\ bridge'[x] = bridge[x]
  <2>1. /\ B \in [up : Nat, iface : Ifaces, live : BOOLEAN]
        /\ bridge \in [DOMAIN bridge -> [up : Nat, iface : Ifaces, live : BOOLEAN]]
    BY <1>2, <1>4 DEF Types, Typed
  <2>2. bridge' = Put(bridge, id, B)
    BY NewMakes
  <2> HIDE DEF B
  <2>3. \A y \in DOMAIN bridge : bridge[y] \in [up : Nat, iface : Ifaces, live : BOOLEAN]
    BY <2>1
  <2>4. bridge' \in [DOMAIN bridge' -> [up : Nat, iface : Ifaces, live : BOOLEAN]]
    BY <1>1, <2>1, <2>2, <2>3, PutTyped
  <2>5. DOMAIN bridge' = DOMAIN bridge \cup {id} /\ bridge'[id] = B /\ \A y \in DOMAIN bridge : y # id => bridge'[y] = bridge[y]
    BY <2>1, <2>2 DEF Put
  <2>6. QED
    BY <1>1, <2>2, <2>4, <2>5
<1>7. /\ DOMAIN forward' = DOMAIN forward \cup {F} /\ forward'[F] = id
      /\ forward' \in [DOMAIN forward' -> Int]
      /\ \A x \in DOMAIN forward : x # F /\ forward'[x] = forward[x]
  <2>1. forward \in [DOMAIN forward -> Int] /\ forward' = Put(forward, F, id)
    BY <1>4, NewMakes DEF Types, Typed
  <2>2. F \notin DOMAIN forward
    BY <1>4 DEF Below
  <2> HIDE DEF F
  <2>3. \A y \in DOMAIN forward : forward[y] \in Int
    BY <2>1
  <2>4. forward' \in [DOMAIN forward' -> Int]
    BY <1>1, <2>1, <2>2, <2>3, PutTyped
  <2>5. DOMAIN forward' = DOMAIN forward \cup {F} /\ forward'[F] = id /\ \A y \in DOMAIN forward : y # F => forward'[y] = forward[y]
    BY <2>1, <2>2 DEF Put
  <2>6. QED
    BY <1>1, <2>2, <2>4, <2>5
<1>8. /\ DOMAIN comp' = DOMAIN comp \cup {F} /\ comp'[F] = iface
      /\ comp' \in [DOMAIN comp' -> Ifaces]
      /\ \A x \in DOMAIN comp : x # F /\ comp'[x] = comp[x]
  <2>1. comp \in [DOMAIN comp -> Ifaces] /\ comp' = Put(comp, F, iface)
    BY <1>4, NewMakes DEF CompOK
  <2>2. F \notin DOMAIN comp
    BY <1>2, <1>4 DEF CompOK
  <2> HIDE DEF F
  <2>3. \A y \in DOMAIN comp : comp[y] \in Ifaces
    BY <2>1
  <2>4. comp' \in [DOMAIN comp' -> Ifaces]
    BY <1>1, <2>1, <2>2, <2>3, PutTyped
  <2>5. DOMAIN comp' = DOMAIN comp \cup {F} /\ comp'[F] = iface /\ \A y \in DOMAIN comp : y # F => comp'[y] = comp[y]
    BY <2>1, <2>2 DEF Put
  <2>6. QED
    BY <1>1, <2>2, <2>4, <2>5
<1> HIDE DEF F
<1>9. Types'
  <2>1. failed' = "no"
    BY NewMakes
  <2>2. QED
    BY <1>2, <1>3, <1>4, <1>5, <1>6, <1>7, <2>1 DEF Types, Typed
<1>10. Below(objects', bridge', forward', F + 1, nextServerId')
  <2>1. id < nextServerId
    BY <1>1, <1>4, IdsBelow DEF Below
  <2>2. \A x \in DOMAIN objects' : x \in Int /\ x < nextServerId /\ objects'[x].up < F + 1
    <3>1. \A x \in DOMAIN objects : objects[x].up \in Nat
      BY <1>4 DEF Types, Typed
    <3>2. QED
      BY <1>1, <1>2, <1>4, <1>5, <2>1, <3>1 DEF Below
  <2>3. \A x \in DOMAIN bridge' : x \in Int /\ x < nextServerId
    BY <1>1, <1>4, <1>6, <2>1 DEF Below
  <2>4. \A x \in DOMAIN forward' : x \in Nat /\ x > Bar /\ x < F + 1
    BY <1>2, <1>4, <1>7 DEF Below, Bar
  <2>5. QED
    BY <1>2, <1>3, <1>4, <2>2, <2>3, <2>4 DEF Below
<1>11. FixedKept(objects', bridge', forward')
  BY <1>4, <1>5, <1>6, <1>7 DEF FixedKept
<1>12. Agree(objects', bridge', toBridge')
  BY <1>3, <1>4, <1>5, <1>6 DEF Agree
<1>13. \A o : Created(forward, o) => Created(forward', o)
  BY <1>7 DEF Created
<1>14. \A o : Created(forward, o) /\ IsCallback(objects, o) => IsCallback(objects', o)
  BY <1>5, <1>7 DEF Created, IsCallback
<1>15. CompOK(comp', objects', forward', F + 1)
  <2>1. Created(forward', F)
    BY <1>1, <1>7 DEF Created
  <2>2. iface = "callback" => IsCallback(objects', F)
    <3>1. \A x \in DOMAIN objects : objects[x].up # F
      BY <1>2, <1>4 DEF Below
    <3>2. QED
      BY <1>5, <3>1 DEF IsCallback
  <2>3. ASSUME NEW o \in DOMAIN comp'
        PROVE  /\ o \in Nat /\ 0 < o /\ o < F + 1
               /\ comp'[o] = "callback" => Created(forward', o) /\ IsCallback(objects', o)
               /\ comp'[o] = "surface" /\ o # Bar => Created(forward', o)
    <3>1. CASE o = F
      BY <1>2, <1>8, <2>1, <2>2, <3>1
    <3>2. CASE o # F
      BY <1>2, <1>4, <1>8, <1>13, <1>14, <3>2 DEF CompOK
    <3>3. QED
      BY <3>1, <3>2
  <2>4. QED
    BY <1>8, <2>3 DEF CompOK
<1>16. EventsOK(events', objects', forward', F + 1)
  <2>1. ASSUME NEW e, EventOK(e, objects, forward, F)
        PROVE  EventOK(e, objects', forward', F + 1)
    <3>1. e.event = "data_offer" => e.new \in 6..((F + 1) - 1) /\ e.new \notin DOMAIN forward'
      BY <1>2, <1>7, <2>1 DEF EventOK
    <3>2. QED
      BY <1>13, <1>14, <2>1, <3>1 DEF EventOK
  <2>2. QED
    BY <1>3, <1>4, <2>1 DEF EventsOK
<1>17. MessagesOK(toBridge', objects', bridge', forward')
  <2>1. ASSUME NEW m, MessageOK(m, objects, bridge, forward)
        PROVE  MessageOK(m, objects', bridge', forward')
    <3>1. CASE m.event = "delete_id"
      BY <1>5, <1>6, <2>1, <3>1 DEF MessageOK
    <3>2. CASE m.event = "data_offer"
      <4>1. m.arg # id
        BY <1>5, <2>1, <3>2 DEF MessageOK
      <4>2. PICK o \in DOMAIN forward : forward[o] = m.arg
        BY <2>1, <3>2 DEF MessageOK
      <4>3. o \in DOMAIN forward' /\ forward'[o] = m.arg
        BY <1>7, <4>2
      <4>4. QED
        BY <1>5, <1>6, <2>1, <3>2, <4>1, <4>3 DEF MessageOK
    <3>3. CASE m.event \notin {"delete_id", "data_offer"}
      BY <1>6, <2>1, <3>3 DEF MessageOK
    <3>4. QED
      BY <3>1, <3>2, <3>3
  <2>2. QED
    BY <1>3, <1>4, <2>1, MessagesMoved
<1>18. Closed(toBridge')
  BY <1>3, <1>4
<1>19. QED
  BY <1>2, <1>9, <1>10, <1>11, <1>12, <1>15, <1>16, <1>17, <1>18 DEF ObjectsInv

\* The input is as it was when nothing of it changes.
LEMMA InputStays ==
  ASSUME InputInv, UNCHANGED <<focus, on, down, events, toBridge, bOn, bDown, bFrame>>
  PROVE  InputInv'
  BY DEF InputInv

\* The bridge makes an object.
LEMMA NewKeeps ==
  ASSUME Inv, NEW id, NEW iface \in Ifaces, New(id, iface)
  PROVE  Inv'
<1>1. UNCHANGED <<focus, on, down, events, toBridge, bOn, bDown, bFrame>>
  BY DEF New
<1>2. QED
  BY <1>1, NewObjects, InputStays DEF Inv

\* A message that is not about the input.
Quiet(m) ==
  /\ m.event \notin {"enter", "motion", "leave", "down", "touch_motion", "up", "frame"}
  /\ \A d \in Devices : m.id # FixedId(d)

\* Sending one leaves the input as it is.
LEMMA QuietAppend ==
  ASSUME NEW q \in Seq(AMessage), NEW m \in AMessage, Quiet(m), NEW b, NEW ds, NEW fs, NEW fo,
         Heard(q, b, ds, fs), Owed(fo, q, fs)
  PROVE  /\ Heard(Append(q, m), b, ds, fs) /\ Owed(fo, Append(q, m), fs)
         /\ KeptOn(fo, q, b, ds, fo, Append(q, m), b, ds)
<1>1. /\ m \notin Leave
      /\ \A p \in Points : m \notin Up(p)
      /\ \A d \in Devices : m \notin Frame(d)
  BY DEF Quiet, Leave, Up, Frame
<1>2. Heard(Append(q, m), b, ds, fs)
  <2>1. Sense(m, q, b, ds, fs, Len(q) + 1)
    BY DEF Quiet, Sense
  <2>2. QED
    BY <2>1, HeardAppend
<1>3. Owed(fo, Append(q, m), fs)
  BY <1>1, OwedAppend
<1>4. KeptOn(fo, q, b, ds, fo, Append(q, m), b, ds)
  <2>1. OnAt(q, b, Len(q) + 1) => OnAt(Append(q, m), b, Len(Append(q, m)) + 1)
    BY <1>1, AtLast
  <2>2. \A p \in Points : DownAt(p, q, ds, Len(q) + 1) => DownAt(p, Append(q, m), ds, Len(Append(q, m)) + 1)
    BY <1>1, AtLast
  <2>3. QED
    BY <2>1, <2>2 DEF KeptOn, PointerKept, PointKept
<1>5. QED
  BY <1>2, <1>3, <1>4

\* What the bridge takes for an object of its own, the proxy has: the bridge may destroy it.
LEMMA UsableHeld ==
  ASSUME Inv, NEW id, Usable(id)
  PROVE  id \in DOMAIN objects
  BY DEF Inv, ObjectsInv, Agree, Usable

\* The message that frees an id.
LEMMA DeleteIs ==
  ASSUME NEW id \in Ids
  PROVE  \E m \in AMessage : /\ DeleteId(id) = <<m>> /\ Frees(m, id) /\ Quiet(m)
                             /\ ~(m.event = "enter") /\ m.event # "done" /\ m.event # "data_offer"
<1> DEFINE m == Msg(id, "delete_id", None, None, None, None)
<1>1. m \in AMessage
  BY IdsBelow DEF AMessage, Msg, Keys, None
<1>2. DeleteId(id) = <<m>>
  BY IdsBelow DEF DeleteId
<1>3. m.event = "delete_id" /\ m.id = id
  BY DEF Msg
<1> HIDE DEF m
<1>4. \A d \in Devices : m.id # FixedId(d)
  BY <1>3, FixedIs DEF Fixed, Devices
<1>5. QED
  BY <1>1, <1>2, <1>3, <1>4 DEF Frees, Quiet

\* An object is the bridge's and the proxy's: dropping it from both leaves the others.
LEMMA DestroyedObjects ==
  ASSUME Inv, NEW id, ForwardDestructor(id)
  PROVE  ObjectsInv'
<1> DEFINE U == objects[id].up
<1>1. id \in DOMAIN objects /\ id \in DOMAIN bridge /\ id > 0 /\ failed = "no"
  BY UsableHeld DEF ForwardDestructor, Usable
<1>2. /\ objects' = Drop(objects, id) /\ comp' = Drop(comp, U)
      /\ toBridge' = toBridge \o DeleteId(id)
      /\ bridge' = IF id < Start THEN [bridge EXCEPT ![id].live = FALSE] ELSE Drop(bridge, id)
      /\ on' = (IF on = U THEN None ELSE on)
      /\ down' = [p \in Points |-> IF down[p] = U THEN None ELSE down[p]]
      /\ UNCHANGED <<nextServerId, forward, focus, made, events, bOn, bDown, bFrame, failed>>
  BY <1>1 DEF ForwardDestructor
<1>3. Fresh' = Fresh
  BY <1>2 DEF Fresh
<1>4. /\ Types /\ Below(objects, bridge, forward, Fresh, nextServerId) /\ FixedKept(objects, bridge, forward)
      /\ Agree(objects, bridge, toBridge) /\ CompOK(comp, objects, forward, Fresh)
      /\ EventsOK(events, objects, forward, Fresh) /\ MessagesOK(toBridge, objects, bridge, forward)
      /\ Closed(toBridge) /\ toBridge \in Seq(AMessage) /\ id \in Int
  BY <1>1 DEF Inv, ObjectsInv, Types, Below
<1>5. /\ DOMAIN objects' = DOMAIN objects \ {id}
      /\ objects' \in [DOMAIN objects' -> [up : Nat, iface : Ifaces]]
      /\ \A x \in DOMAIN objects : x # id => objects'[x] = objects[x]
  <2>1. \A x \in DOMAIN objects : objects[x] \in [up : Nat, iface : Ifaces]
    BY <1>4 DEF Types, Typed
  <2>2. QED
    BY <1>2, <2>1, DropIs, ZenonT(30)
<1>6. /\ DOMAIN bridge' = (IF id < Start THEN DOMAIN bridge ELSE DOMAIN bridge \ {id})
      /\ bridge' \in [DOMAIN bridge' -> [up : Nat, iface : Ifaces, live : BOOLEAN]]
      /\ \A x \in DOMAIN bridge : x # id => bridge'[x] = bridge[x]
      /\ id < Start => ~bridge'[id].live /\ bridge'[id].up = bridge[id].up
  <2>1. bridge \in [DOMAIN bridge -> [up : Nat, iface : Ifaces, live : BOOLEAN]]
    BY <1>4 DEF Types, Typed
  <2>2. CASE id < Start
    <3>1. bridge' = [bridge EXCEPT ![id].live = FALSE]
      BY <1>2, <2>2
    <3>2. QED
      BY <1>1, <2>1, <2>2, <3>1
  <2>3. CASE ~(id < Start)
    <3>1. bridge' = Drop(bridge, id) /\ \A x \in DOMAIN bridge : bridge[x] \in [up : Nat, iface : Ifaces, live : BOOLEAN]
      BY <1>2, <2>1, <2>3
    <3>2. bridge' \in [DOMAIN bridge' -> [up : Nat, iface : Ifaces, live : BOOLEAN]]
      BY <3>1, DropIs
    <3>3. QED
      BY <2>3, <3>1, <3>2, DropIs
  <2>4. QED
    BY <2>2, <2>3
<1>7. /\ DOMAIN comp' = DOMAIN comp \ {U} /\ comp' \in [DOMAIN comp' -> Ifaces]
      /\ \A x \in DOMAIN comp : x # U => comp'[x] = comp[x]
  <2>1. comp' = Drop(comp, U) /\ \A x \in DOMAIN comp : comp[x] \in Ifaces
    BY <1>2, <1>4 DEF CompOK
  <2> HIDE DEF U
  <2>2. QED
    BY <2>1, DropIs, ZenonT(30)
<1>8. \A o : IsCallback(objects, o) => IsCallback(objects', o)
  BY <1>5 DEF IsCallback
<1>9. Below(objects', bridge', forward', Fresh, nextServerId')
  BY <1>2, <1>4, <1>5, <1>6 DEF Below
<1>10. FixedKept(objects', bridge', forward')
  <2>1. \A o \in Fixed : FixedId(o) # id
    BY <1>1, <1>4, FixedIs
  <2>2. QED
    BY <1>2, <1>4, <1>5, <1>6, <2>1 DEF FixedKept
<1>11. CompOK(comp', objects', forward', Fresh)
  BY <1>2, <1>4, <1>7, <1>8 DEF CompOK
<1>12. EventsOK(events', objects', forward', Fresh)
  <2>1. \A e : EventOK(e, objects, forward, Fresh) => EventOK(e, objects', forward', Fresh)
    BY <1>2, <1>8 DEF EventOK
  <2>2. QED
    BY <1>2, <1>4, <2>1 DEF EventsOK
<1>13. MessagesOK(toBridge, objects', bridge', forward')
  <2>1. ASSUME NEW m, MessageOK(m, objects, bridge, forward)
        PROVE  MessageOK(m, objects', bridge', forward')
    <3>1. CASE m.event = "delete_id"
      <4>1. m.id # id
        BY <1>1, <2>1, <3>1 DEF MessageOK
      <4>2. QED
        BY <1>5, <1>6, <2>1, <3>1, <4>1 DEF MessageOK
    <3>2. CASE m.event = "data_offer"
      <4>1. m.arg # id
        BY <1>1, <2>1, <3>2 DEF MessageOK
      <4>2. m.id \in DOMAIN bridge' /\ bridge'[m.id].up = bridge[m.id].up
        BY <1>6, <2>1, <3>2 DEF MessageOK
      <4>3. QED
        BY <1>2, <1>5, <1>6, <2>1, <3>2, <4>1, <4>2 DEF MessageOK
    <3>3. CASE m.event \notin {"delete_id", "data_offer"}
      <4>1. m.id \in DOMAIN bridge' /\ bridge'[m.id].up = bridge[m.id].up
        BY <1>6, <2>1, <3>3 DEF MessageOK
      <4>2. m.event = "enter" => m.arg \in DOMAIN bridge' /\ bridge'[m.arg].up = bridge[m.arg].up
        BY <1>6, <2>1, <3>3, IdsBelow DEF MessageOK
      <4>3. QED
        BY <2>1, <3>3, <4>1, <4>2 DEF MessageOK
    <3>4. QED
      BY <3>1, <3>2, <3>3
  <2>2. QED
    BY <1>4, <2>1, MessagesMoved
<1>14. on' \in Nat /\ down' \in [Points -> Nat]
  <2>1. None \in Nat /\ on \in Nat /\ down \in [Points -> Nat]
    BY <1>4 DEF Types, None
  <2>2. QED
    BY <1>2, <2>1
<1>15. CASE id < Start
  <2>1. id \in Ids
    BY <1>1, <1>4, <1>15, ProxyAssumption DEF Ids, Start
  <2>2. PICK d \in AMessage : /\ DeleteId(id) = <<d>> /\ Frees(d, id) /\ d.event # "done"
    BY <2>1, DeleteIs
  <2>3. toBridge' = Append(toBridge, d) /\ toBridge' \in Seq(AMessage)
    BY <1>2, <1>4, <2>2, Joined, Appended
  <2>4. MessageOK(d, objects', bridge', forward')
    BY <1>1, <1>5, <1>6, <1>15, <2>1, <2>2 DEF MessageOK, Frees
  <2>5. \A i \in 1..Len(toBridge) : Apart(toBridge[i], d)
    BY <1>1, <1>4, <2>2 DEF MessagesOK, MessageOK, Apart, About, Frees
  <2>6. MessagesOK(toBridge', objects', bridge', forward')
    BY <1>4, <1>13, <2>3, <2>4, <2>5, MessagesAppend
  <2>7. Closed(toBridge')
    BY <1>4, <2>2, <2>3, ClosedAppend
  <2>8. Agree(objects', bridge', toBridge')
    <3>1. \A x : Freed(toBridge, x) => Freed(toBridge', x)
      BY <1>4, <2>3, FreedAppend
    <3>2. Freed(toBridge', id)
      BY <1>4, <2>2, <2>3, FreedAppend
    <3>3. \A x \in DOMAIN objects' : x \in Ids =>
            /\ x \in DOMAIN bridge' /\ bridge'[x].live
            /\ bridge'[x].up = objects'[x].up /\ bridge'[x].iface = objects'[x].iface
      BY <1>4, <1>5, <1>6, <1>15 DEF Agree
    <3>4. \A x \in DOMAIN bridge' : x \notin DOMAIN objects' =>
            x \in Ids /\ (bridge'[x].live => bridge'[x].iface = "callback") /\ Freed(toBridge', x)
      BY <1>4, <1>5, <1>6, <1>15, <2>1, <3>1, <3>2 DEF Agree
    <3>5. QED
      BY <3>3, <3>4 DEF Agree
  <2>9. Types'
    BY <1>2, <1>4, <1>5, <1>6, <1>14, <2>3 DEF Types, Typed
  <2>10. QED
    BY <1>3, <1>9, <1>10, <1>11, <1>12, <2>6, <2>7, <2>8, <2>9 DEF ObjectsInv
<1>16. CASE ~(id < Start)
  <2>1. toBridge' = toBridge
    BY <1>2, <1>4, <1>16, ConcatNone DEF DeleteId
  <2>2. Agree(objects', bridge', toBridge')
    BY <1>4, <1>5, <1>6, <1>16, <2>1, IdsBelow DEF Agree
  <2>3. Types'
    BY <1>2, <1>4, <1>5, <1>6, <1>14, <2>1 DEF Types, Typed
  <2>4. QED
    BY <1>3, <1>4, <1>9, <1>10, <1>11, <1>12, <1>13, <2>1, <2>2, <2>3 DEF ObjectsInv
<1>17. QED
  BY <1>15, <1>16

\* The compositor takes the pointer and the points off the surface, and the bridge is told
\* nothing but that the id is free.
LEMMA DestroyedKeeps ==
  ASSUME Inv, NEW id, ForwardDestructor(id)
  PROVE  Inv'
<1> DEFINE U == objects[id].up
<1>1. id \in DOMAIN objects /\ id > 0 /\ id \in Int
  BY UsableHeld DEF ForwardDestructor, Inv, ObjectsInv, Below
<1>2. /\ toBridge' = toBridge \o DeleteId(id)
      /\ on' = (IF on = U THEN None ELSE on)
      /\ down' = [p \in Points |-> IF down[p] = U THEN None ELSE down[p]]
      /\ UNCHANGED <<focus, events, bOn, bDown, bFrame>>
  BY <1>1 DEF ForwardDestructor
<1>3. /\ toBridge \in Seq(AMessage) /\ events \in Seq(AnEvent) /\ on \in Nat /\ down \in [Points -> Nat]
      /\ EventsOK(events, objects, forward, Fresh) /\ InputInv
  BY DEF Inv, ObjectsInv, Types
<1>4. /\ Heard(toBridge', bOn, bDown, bFrame) /\ Owed(focus, toBridge', bFrame)
      /\ Sensed(events, focus, toBridge', bOn, bDown)
      /\ Resting(on, down, events, focus, toBridge', bOn, bDown)
  <2>1. CASE id < Start
    <3>1. id \in Ids
      BY <1>1, <2>1, ProxyAssumption DEF Ids, Start
    <3>2. PICK d \in AMessage : DeleteId(id) = <<d>> /\ Quiet(d)
      BY <3>1, DeleteIs
    <3>3. toBridge' = Append(toBridge, d)
      BY <1>2, <1>3, <3>2, Joined
    <3>4. /\ Heard(toBridge', bOn, bDown, bFrame) /\ Owed(focus, toBridge', bFrame)
          /\ KeptOn(focus, toBridge, bOn, bDown, focus, toBridge', bOn, bDown)
      BY <1>3, <3>2, <3>3, QuietAppend DEF InputInv
    <3>5. \A i \in 1..Len(events) : events[i].event \in {"touch_motion", "up"} => events[i].k \in Points
      BY <1>3 DEF EventsOK, EventOK
    <3>6. QED
      BY <1>3, <3>4, <3>5, SensedMoved DEF InputInv
  <2>2. CASE ~(id < Start)
    <3>1. toBridge' = toBridge
      BY <1>2, <1>3, <2>2, ConcatNone DEF DeleteId
    <3>2. QED
      BY <1>3, <3>1 DEF InputInv
  <2>3. QED
    BY <2>1, <2>2
<1>5. Resting(on', down', events, focus, toBridge', bOn, bDown)
  <2>1. on' # None => on' = on
    BY <1>2
  <2>2. \A p \in Points : down'[p] # None => down'[p] = down[p]
    BY <1>2
  <2>3. QED
    BY <1>4, <2>1, <2>2 DEF Resting
<1>6. InputInv'
  BY <1>2, <1>4, <1>5 DEF InputInv
<1>7. QED
  BY <1>6, DestroyedObjects DEF Inv

-----------------------------------------------------------------------------
(* The compositor sends an event.                                           *)

\* What an event must be for the objects, and where it leaves the pointer and the points.
Fit(e) ==
  /\ e \in AnEvent /\ EventOK(e, objects, forward, Fresh')
  /\ \A i \in 1..Len(events) : e.new # None => events[i].new # e.new
Moves(e) ==
  /\ on' \in Nat /\ down' \in [Points -> Nat]
  /\ e.event \in {"motion", "leave"} => e.about # None /\ e.about = on
  /\ e.event \in {"touch_motion", "up"} => e.about # None /\ e.about = down[e.k]
  /\ on' # None => e \in EnterOf(on') \/ (on' = on /\ e \notin TurnOf(on))
  /\ \A p \in Points : down'[p] # None =>
       e \in DownOf(p, down'[p]) \/ (down'[p] = down[p] /\ e \notin LiftOf(p, down[p]))

\* The number of the next object never falls.
LEMMA FreshGrows ==
  ASSUME made \in Nat, made' \in Nat, made' >= made
  PROVE  Fresh \in Nat /\ Fresh' \in Nat /\ Fresh' >= Fresh
<1>1. \A m, n \in Nat : n >= m => 6 + m \in Nat /\ 6 + n \in Nat /\ 6 + n >= 6 + m
  OBVIOUS
<1>2. QED
  BY <1>1, Zenon DEF Fresh

\* Such an event keeps the objects and the input.
LEMMA SendKeeps ==
  ASSUME Inv, NEW e, Send(e), Fit(e), Moves(e), made' \in Nat, made' >= made,
         CompOK(comp', objects, forward, Fresh')
  PROVE  Inv'
<1>1. /\ UNCHANGED <<objects, nextServerId, forward, focus, failed, toBridge, bridge, bOn, bDown, bFrame>>
      /\ events' = Append(events, e)
  BY DEF Send, proxyVars, bridgeVars
<1>2. /\ Types /\ Below(objects, bridge, forward, Fresh, nextServerId)
      /\ EventsOK(events, objects, forward, Fresh) /\ events \in Seq(AnEvent) /\ e \in AnEvent
  BY DEF Inv, ObjectsInv, Types, Fit
<1>3. Fresh \in Nat /\ Fresh' \in Nat /\ Fresh' >= Fresh
  <2>1. made \in Nat
    BY <1>2 DEF Types
  <2>2. QED
    BY <2>1, FreshGrows
<1>4. /\ Len(events) \in Nat /\ Len(events') = Len(events) + 1 /\ events' \in Seq(AnEvent)
      /\ events'[Len(events) + 1] = e /\ \A i \in 1..Len(events) : events'[i] = events[i]
  BY <1>1, <1>2, Appended
<1>5. Types'
  BY <1>1, <1>2, <1>4 DEF Types, Typed, Moves
<1>6. Below(objects', bridge', forward', Fresh', nextServerId')
  <2>1. \A x \in DOMAIN objects : objects[x].up \in Nat
    BY <1>2 DEF Types, Typed
  <2>2. \A n \in Nat : n < Fresh => n < Fresh'
    BY <1>3
  <2>3. Fresh' >= 6
    BY <1>2, <1>3 DEF Below
  <2>4. QED
    BY <1>1, <1>2, <1>3, <2>1, <2>2, <2>3 DEF Below
<1>7. EventsOK(events', objects', forward', Fresh')
  <2>1. \A x : EventOK(x, objects, forward, Fresh) => EventOK(x, objects, forward, Fresh')
    BY <1>3 DEF EventOK
  <2>2. \A i \in 1..(Len(events) + 1) : i = Len(events) + 1 \/ i \in 1..Len(events)
    BY <1>4
  <2>3. \A i \in 1..(Len(events) + 1) : EventOK(events'[i], objects, forward, Fresh')
    BY <1>2, <1>4, <2>1, <2>2 DEF EventsOK, Fit
  <2>4. \A i, j \in 1..(Len(events) + 1) : i < j => i \in 1..Len(events)
    BY <1>4
  <2>5. \A i, j \in 1..(Len(events) + 1) : i < j /\ events'[j].new # None => events'[i].new # events'[j].new
    BY <1>2, <1>4, <2>2, <2>4 DEF EventsOK, Fit
  <2>6. QED
    BY <1>1, <1>4, <2>3, <2>5 DEF EventsOK
<1>8. ObjectsInv'
  BY <1>1, <1>5, <1>6, <1>7 DEF Inv, ObjectsInv
<1>9. /\ Sensed(events, focus, toBridge, bOn, bDown) /\ Resting(on, down, events, focus, toBridge, bOn, bDown)
      /\ Heard(toBridge, bOn, bDown, bFrame) /\ Owed(focus, toBridge, bFrame)
  BY DEF Inv, InputInv
<1>10. Placed(e, Len(events) + 1, events, focus, toBridge, bOn, bDown)
  <2>1. e.event \in {"touch_motion", "up"} => e.k \in Points
    BY DEF Fit, EventOK
  <2>2. QED
    BY <1>9, <2>1 DEF Moves, Placed, Resting
<1>11. Sensed(events', focus, toBridge, bOn, bDown)
  BY <1>1, <1>2, <1>9, <1>10, SensedAppend
<1>12. Resting(on', down', events', focus, toBridge, bOn, bDown)
  BY <1>1, <1>2, <1>9, RestingAppend DEF Moves
<1>13. InputInv'
  BY <1>1, <1>9, <1>11, <1>12 DEF InputInv
<1>14. QED
  BY <1>8, <1>13 DEF Inv

\* An event that is not about the input leaves the pointer and the points where they are.
LEMMA StillMoves ==
  ASSUME Inv, NEW e, UNCHANGED <<on, down>>,
         e.event \notin {"enter", "motion", "leave", "down", "touch_motion", "up"}
  PROVE  Moves(e)
<1>1. on' \in Nat /\ down' \in [Points -> Nat]
  BY DEF Inv, ObjectsInv, Types
<1>2. QED
  BY <1>1 DEF Moves, TurnOf, LiftOf

\* The objects of the compositor when none comes or goes, or one goes.
LEMMA CompStays ==
  ASSUME Inv
  PROVE  /\ Fresh \in Nat /\ Fresh >= 6 /\ made \in Nat
         /\ CompOK(comp, objects, forward, Fresh)
         /\ \A o : CompOK(Drop(comp, o), objects, forward, Fresh)
<1>1. CompOK(comp, objects, forward, Fresh)
  BY DEF Inv, ObjectsInv
<1>2. ASSUME NEW o
      PROVE  CompOK(Drop(comp, o), objects, forward, Fresh)
  <2>1. \A x \in DOMAIN comp : comp[x] \in Ifaces
    BY <1>1 DEF CompOK
  <2>2. Drop(comp, o) \in [DOMAIN Drop(comp, o) -> Ifaces]
    BY <2>1, DropIs
  <2>3. \A x \in DOMAIN Drop(comp, o) : x \in DOMAIN comp /\ Drop(comp, o)[x] = comp[x]
    BY DEF Drop, Restrict
  <2>4. QED
    BY <1>1, <2>2, <2>3 DEF CompOK
<1>3. made \in Nat
  BY DEF Inv, ObjectsInv, Types
<1>4. QED
  BY <1>1, <1>2, <1>3 DEF Fresh

\* An event of the kind e that names nothing new, when no object comes.
LEMMA FitPlain ==
  ASSUME NEW e \in AnEvent, e.new = None, EventOK(e, objects, forward, Fresh), made' = made
  PROVE  Fit(e)
  BY DEF Fit, Fresh

\* A callback is done, and goes.
LEMMA CallbackDoneKeeps ==
  ASSUME Inv, NEW o, CallbackDone(o)
  PROVE  Inv'
<1> DEFINE e == Ev(o, "done", None, None, None, None)
<1>1. /\ o \in DOMAIN comp /\ comp[o] = "callback" /\ Send(e) /\ comp' = Drop(comp, o)
      /\ UNCHANGED <<on, down, made>>
  BY DEF CallbackDone
<1>2. o \in Nat /\ Created(forward, o) /\ IsCallback(objects, o)
  BY <1>1, CompStays DEF CompOK
<1>3. e \in AnEvent /\ EventOK(e, objects, forward, Fresh) /\ e.new = None /\ e.event = "done"
  BY <1>2 DEF Ev, AnEvent, Names, Keys, None, EventOK
<1> HIDE DEF e
<1>4. Fresh' = Fresh
  BY <1>1 DEF Fresh
<1>5. Fit(e) /\ Moves(e)
  BY <1>1, <1>3, FitPlain, StillMoves
<1>6. QED
  BY <1>1, <1>4, <1>5, CompStays, SendKeeps

\* A surface comes onto an output.
LEMMA SurfaceEntersKeeps ==
  ASSUME Inv, NEW s, NEW o, SurfaceEnters(s, o)
  PROVE  Inv'
<1> DEFINE e == Ev(s, "surface_enter", None, o, None, None)
<1>1. /\ s \in DOMAIN comp /\ comp[s] = "surface" /\ s # Bar /\ o \in DOMAIN comp /\ Send(e)
      /\ UNCHANGED <<comp, on, down, made>>
  BY DEF SurfaceEnters, Surfaces, compVars
<1>2. s \in Nat /\ o \in Nat /\ Created(forward, s)
  BY <1>1, CompStays DEF CompOK
<1>3. e \in AnEvent /\ EventOK(e, objects, forward, Fresh) /\ e.new = None /\ e.event = "surface_enter"
  BY <1>2 DEF Ev, AnEvent, Names, Keys, None, EventOK
<1> HIDE DEF e
<1>4. Fresh' = Fresh
  BY <1>1 DEF Fresh
<1>5. Fit(e) /\ Moves(e)
  BY <1>1, <1>3, FitPlain, StillMoves
<1>6. QED
  BY <1>1, <1>4, <1>5, CompStays, SendKeeps

\* The compositor makes an object and offers it.
LEMMA DataOfferKeeps ==
  ASSUME Inv, DataOffer
  PROVE  Inv'
<1> DEFINE F == Fresh
           e == Ev(Data, "data_offer", None, None, F, None)
<1>1. /\ Send(e) /\ made' = made + 1 /\ comp' = Put(comp, F, "offer") /\ UNCHANGED <<on, down>>
  BY DEF DataOffer
<1>2. F \in Nat /\ F >= 6 /\ made \in Nat /\ made' \in Nat /\ made' >= made /\ Fresh' = F + 1
  BY <1>1, CompStays DEF Fresh
<1>3. F \notin DOMAIN forward
  BY DEF Inv, ObjectsInv, Below
<1>4. e \in AnEvent /\ e.event = "data_offer" /\ e.new = F
  BY <1>2 DEF Ev, AnEvent, Names, Keys, None, Data
<1>5. EventOK(e, objects, forward, F + 1)
  BY <1>2, <1>3 DEF Ev, EventOK, None
<1>6. \A i \in 1..Len(events) : events[i].new # F
  <2>1. \A i \in 1..Len(events) : EventOK(events[i], objects, forward, F)
    BY DEF Inv, ObjectsInv, EventsOK
  <2>2. \A i \in 1..Len(events) : events[i].new = None \/ events[i].new \in 6..(F - 1)
    BY <2>1 DEF EventOK
  <2>3. QED
    BY <1>2, <2>2 DEF None
<1>7. CompOK(comp', objects, forward, F + 1)
  <2>1. CompOK(comp, objects, forward, F)
    BY CompStays
  <2> HIDE DEF F
  <2>2. DOMAIN comp' = DOMAIN comp \cup {F} /\ comp'[F] = "offer"
        /\ \A x \in DOMAIN comp : x # F => comp'[x] = comp[x]
    BY <1>1 DEF Put
  <2>3. comp' \in [DOMAIN comp' -> Ifaces]
    <3>1. "offer" \in Ifaces /\ \A x \in DOMAIN comp : comp[x] \in Ifaces
      BY <2>1 DEF CompOK, Ifaces
    <3>2. QED
      BY <1>1, <3>1, PutTyped
  <2>4. QED
    BY <1>2, <2>1, <2>2, <2>3 DEF CompOK
<1> HIDE DEF e, F
<1>8. Fit(e)
  BY <1>2, <1>4, <1>5, <1>6 DEF Fit
<1>9. Moves(e)
  BY <1>1, <1>4, StillMoves
<1>10. QED
  BY <1>1, <1>2, <1>7, <1>8, <1>9, SendKeeps

\* An event of the pointer.
LEMMA PointerKeeps ==
  ASSUME Inv, NEW s \in Nat, NEW name \in {"enter", "motion", "leave"}, NEW arg \in Nat,
         Send(Ev(Pointer, name, None, arg, None, s)), s # None,
         name = "enter" => arg = s /\ on' = s /\ (s = Bar \/ Created(forward, s)),
         name # "enter" => s = on, name = "motion" => on' = on, name = "leave" => on' = None,
         UNCHANGED <<comp, down, made>>
  PROVE  Inv'
<1> DEFINE e == Ev(Pointer, name, None, arg, None, s)
<1>1. e \in AnEvent /\ e.event = name /\ e.about = s /\ e.new = None
  BY DEF Ev, AnEvent, Names, Keys, None, Pointer
<1>2. EventOK(e, objects, forward, Fresh)
  BY DEF Ev, EventOK, None
<1> HIDE DEF e
<1>3. Fresh' = Fresh /\ Fit(e)
  BY <1>1, <1>2, FitPlain DEF Fresh
<1>4. on' \in Nat /\ on \in Nat /\ down' \in [Points -> Nat]
  <2>1. on \in Nat /\ down \in [Points -> Nat] /\ None \in Nat
    BY DEF Inv, ObjectsInv, Types, None
  <2>2. QED
    BY <2>1
<1>5. Moves(e)
  <2>1. on' # None => e \in EnterOf(on') \/ (on' = on /\ e \notin TurnOf(on))
    BY <1>1 DEF EnterOf, TurnOf
  <2>2. \A p \in Points : e \notin LiftOf(p, down[p])
    BY <1>1 DEF LiftOf
  <2>3. QED
    BY <1>1, <1>4, <2>1, <2>2 DEF Moves
<1>6. QED
  BY <1>3, <1>5, CompStays, SendKeeps DEF e

\* An event of a touch point.
LEMMA TouchKeeps ==
  ASSUME Inv, NEW s \in Nat, NEW p \in Points, NEW name \in {"down", "touch_motion", "up"},
         NEW arg \in Nat,
         Send(Ev(Touch, name, p, arg, None, s)), s # None,
         name = "down" =>
           arg = s /\ down' = [down EXCEPT ![p] = s] /\ (s = Bar \/ Created(forward, s)),
         name # "down" => s = down[p], name = "touch_motion" => down' = down,
         name = "up" => down' = [down EXCEPT ![p] = None],
         UNCHANGED <<comp, on, made>>
  PROVE  Inv'
<1> DEFINE e == Ev(Touch, name, p, arg, None, s)
<1>1. e \in AnEvent /\ e.event = name /\ e.about = s /\ e.new = None /\ e.k = p
  BY DEF Ev, AnEvent, Names, Keys, None, Touch
<1>2. EventOK(e, objects, forward, Fresh)
  BY DEF Ev, EventOK, None
<1> HIDE DEF e
<1>3. Fresh' = Fresh /\ Fit(e)
  BY <1>1, <1>2, FitPlain DEF Fresh
<1>4. on' \in Nat /\ on \in Nat /\ down \in [Points -> Nat]
  BY DEF Inv, ObjectsInv, Types
<1>5. down' \in [Points -> Nat]
  BY <1>4 DEF None
<1>6. Moves(e)
  <2>1. e \notin TurnOf(on)
    BY <1>1 DEF TurnOf
  <2>2. ASSUME NEW x \in Points, down'[x] # None
        PROVE  e \in DownOf(x, down'[x]) \/ (down'[x] = down[x] /\ e \notin LiftOf(x, down[x]))
    <3>1. CASE x # p
      BY <1>1, <1>4, <3>1 DEF LiftOf
    <3>2. CASE x = p
      BY <1>1, <1>4, <2>2, <3>2 DEF DownOf, LiftOf
    <3>3. QED
      BY <3>1, <3>2
  <2>3. QED
    BY <1>1, <1>4, <1>5, <2>1, <2>2 DEF Moves
<1>7. QED
  BY <1>3, <1>6, CompStays, SendKeeps DEF e

\* A frame, or a global, which are not about an object.
LEMMA PlainKeeps ==
  ASSUME Inv, NEW sender \in Fixed, NEW name \in {"frame", "global", "global_remove"},
         NEW k \in Keys,
         Send(Ev(sender, name, k, None, None, None)), UNCHANGED <<comp, on, down, made>>,
         name = "frame" => sender \in Devices, name # "frame" => sender = Registry
  PROVE  Inv'
<1> DEFINE e == Ev(sender, name, k, None, None, None)
<1>1. e \in AnEvent /\ e.event = name /\ e.new = None
  BY FixedIs DEF Ev, AnEvent, Names, None
<1>2. EventOK(e, objects, forward, Fresh)
  BY DEF Ev, EventOK, None
<1> HIDE DEF e
<1>3. Fresh' = Fresh /\ Fit(e)
  BY <1>1, <1>2, FitPlain DEF Fresh
<1>4. Moves(e)
  BY <1>1, StillMoves
<1>5. QED
  BY <1>3, <1>4, CompStays, SendKeeps DEF e

\* The compositor moves the pointer.
LEMMA PointerActsKeep ==
  ASSUME Inv, (\E s \in Objects \cup {Bar} : PointerEnters(s)) \/ PointerMoves \/ PointerLeaves
  PROVE  Inv'
<1>1. on \in Nat /\ None \in Nat
  BY DEF Inv, ObjectsInv, Types, None
<1>2. ASSUME NEW s, PointerEnters(s)
      PROVE  Inv'
  <2>1. /\ s \in Surfaces /\ Send(Ev(Pointer, "enter", None, s, None, s)) /\ on' = s
        /\ UNCHANGED <<comp, down, made>>
    BY <1>2 DEF PointerEnters
  <2>2. s \in Nat /\ s # None /\ (s = Bar \/ Created(forward, s))
    BY <2>1, CompStays DEF Surfaces, CompOK, None
  <2>3. QED
    BY <2>1, <2>2, PointerKeeps
<1>3. CASE PointerMoves
  <2>1. /\ on # None /\ Send(Ev(Pointer, "motion", None, None, None, on))
        /\ UNCHANGED <<comp, on, down, made>>
    BY <1>3 DEF PointerMoves
  <2>2. QED
    BY <1>1, <2>1, PointerKeeps
<1>4. CASE PointerLeaves
  <2>1. /\ on # None /\ Send(Ev(Pointer, "leave", None, on, None, on)) /\ on' = None
        /\ UNCHANGED <<comp, down, made>>
    BY <1>4 DEF PointerLeaves
  <2>2. QED
    BY <1>1, <2>1, PointerKeeps
<1>5. QED
  BY <1>2, <1>3, <1>4

\* The compositor has a point go down, move or up.
LEMMA TouchActsKeep ==
  ASSUME Inv, NEW p \in Points, (\E s \in Objects \cup {Bar} : TouchDown(s,
         p)) \/ TouchMoves(p) \/ TouchUp(p)
  PROVE  Inv'
<1>1. down[p] \in Nat /\ None \in Nat
  BY DEF Inv, ObjectsInv, Types, None
<1>2. ASSUME NEW s, TouchDown(s, p)
      PROVE  Inv'
  <2>1. /\ s \in Surfaces /\ Send(Ev(Touch, "down", p, s, None, s)) /\ down' = [down EXCEPT ![p] = s]
        /\ UNCHANGED <<comp, on, made>>
    BY <1>2 DEF TouchDown
  <2>2. s \in Nat /\ s # None /\ (s = Bar \/ Created(forward, s))
    BY <2>1, CompStays DEF Surfaces, CompOK, None
  <2>3. QED
    BY <2>1, <2>2, TouchKeeps
<1>3. CASE TouchMoves(p)
  <2>1. /\ down[p] # None /\ Send(Ev(Touch, "touch_motion", p, None, None, down[p]))
        /\ UNCHANGED <<comp, on, down, made>>
    BY <1>3 DEF TouchMoves
  <2>2. QED
    BY <1>1, <2>1, TouchKeeps
<1>4. CASE TouchUp(p)
  <2>1. /\ down[p] # None /\ Send(Ev(Touch, "up", p, None, None, down[p]))
        /\ down' = [down EXCEPT ![p] = None] /\ UNCHANGED <<comp, on, made>>
    BY <1>4 DEF TouchUp
  <2>2. QED
    BY <1>1, <2>1, TouchKeeps
<1>5. QED
  BY <1>2, <1>3, <1>4

\* The compositor ends a frame, or a global comes or goes.
LEMMA PlainActsKeep ==
  ASSUME Inv,
         (\E d \in Devices : DeviceFrame(d)) \/ (\E g \in Globals : Advertise(g) \/ Withdraw(g))
  PROVE  Inv'
<1>1. None \in Keys /\ Devices \subseteq Fixed /\ Registry \in Fixed /\ Globals \subseteq Keys
  BY DEF Keys, Devices, Fixed
<1>2. ASSUME NEW d \in Devices, DeviceFrame(d)
      PROVE  Inv'
  <2>1. Send(Ev(d, "frame", None, None, None, None)) /\ UNCHANGED <<comp, on, down, made>>
    BY <1>2 DEF DeviceFrame
  <2>2. QED
    BY <1>1, <2>1, PlainKeeps
<1>3. ASSUME NEW g \in Globals, Advertise(g) \/ Withdraw(g)
      PROVE  Inv'
  <2>1. /\ \/ Send(Ev(Registry, "global", g, None, None, None))
           \/ Send(Ev(Registry, "global_remove", g, None, None, None))
        /\ UNCHANGED <<comp, on, down, made>>
    BY <1>3 DEF Advertise, Withdraw
  <2>2. QED
    BY <1>1, <2>1, PlainKeeps
<1>4. QED
  BY <1>2, <1>3

-----------------------------------------------------------------------------
(* The proxy reads an event.                                                *)

\* What Focus::pass makes of an event: r.
Judged(f, event, k, hidden, r) ==
  /\ r.focus \in [hidden : BOOLEAN, pending : BOOLEAN, touches : SUBSET Points]
  /\ r.forwarded \in BOOLEAN
  /\ r.focus.pending => event # "frame" /\ (f.pending \/ r.forwarded)
  /\ event = "enter" => (r.forwarded <=> ~hidden) /\ (r.focus.hidden <=> hidden)
  /\ event \in {"motion", "leave"} => (r.forwarded <=> ~f.hidden)
  /\ event \notin {"enter", "leave"} => (r.focus.hidden <=> f.hidden)
  /\ event = "frame" => (r.forwarded <=> f.pending)
  /\ event = "down" => (r.forwarded <=> ~hidden)
  /\ event = "down" => r.focus.touches = IF hidden THEN f.touches \cup {k} ELSE f.touches
  /\ event \in {"touch_motion", "up"} => (r.forwarded <=> k \notin f.touches)
  /\ event = "up" => r.focus.touches = f.touches \ {k}
  /\ event \notin {"down", "up"} => r.focus.touches = f.touches

\* An event is passed on by what the focus says, and what is passed on is owed a frame.
LEMMA PassIs ==
  ASSUME NEW f \in [hidden : BOOLEAN, pending : BOOLEAN, touches : SUBSET Points], NEW k,
         NEW hidden \in BOOLEAN,
         NEW event \in {"enter", "motion", "leave", "down", "touch_motion", "up", "frame"},
         event \in {"down", "touch_motion", "up"} => k \in Points
  PROVE  Judged(f, event, k, hidden, Pass(f, event, k, hidden))
<1>1. CASE event = "enter"
  BY <1>1 DEF Pass, Judged
<1>2. CASE event = "leave"
  BY <1>2 DEF Pass, Judged
<1>3. CASE event = "motion"
  BY <1>3 DEF Pass, Judged
<1>4. CASE event = "frame"
  BY <1>4 DEF Pass, Judged
<1>5. CASE event = "down"
  BY <1>5 DEF Pass, Judged
<1>6. CASE event = "up"
  BY <1>6 DEF Pass, Judged
<1>7. CASE event = "touch_motion"
  BY <1>7 DEF Pass, Judged
<1>8. QED
  BY <1>1, <1>2, <1>3, <1>4, <1>5, <1>6, <1>7

\* What is kept stays so when a message that ends nothing is sent.
LEMMA StaysOn ==
  ASSUME NEW q \in Seq(AMessage), NEW m \in AMessage, NEW b, NEW ds, NEW fs
  PROVE  /\ m.event # "leave" /\ OnAt(q, b, Len(q) + 1) => OnAt(Append(q, m), b, Len(Append(q, m)) + 1)
         /\ m.event = "enter" => OnAt(Append(q, m), b, Len(Append(q, m)) + 1)
         /\ \A p \in Points : ~(m.event = "up" /\ m.k = p) /\ DownAt(p, q, ds, Len(q) + 1) =>
              DownAt(p, Append(q, m), ds, Len(Append(q, m)) + 1)
         /\ \A p \in Points : m.event = "down" /\ m.k = p =>
              DownAt(p, Append(q, m), ds, Len(Append(q, m)) + 1)
<1>1. /\ m.event # "leave" => m \notin Leave
      /\ m.event = "enter" => m \in Enter
      /\ \A p \in Points : ~(m.event = "up" /\ m.k = p) => m \notin Up(p)
      /\ \A p \in Points : m.event = "down" /\ m.k = p => m \in Down(p)
  BY DEF Leave, Enter, Up, Down
<1>2. QED
  BY <1>1, AtLast

\* The event e of the device d, the focus and the queue it leaves, and the message it may be
\* passed on as.
Passed(e, d, m, fo, q, fo2, q2, hidden) ==
  /\ e \in AnEvent /\ d \in Devices /\ hidden \in BOOLEAN /\ fo \in AFocus
  /\ e.event \in (IF d = Pointer THEN {"enter", "motion", "leave", "frame"}
                                 ELSE {"down", "touch_motion", "up", "frame"})
  /\ e.event \in {"down", "touch_motion", "up"} => e.k \in Points
  /\ m \in AMessage /\ m.event = e.event /\ m.k = e.k /\ m.id = FixedId(d) /\ m.about = e.about
  /\ fo2 = [fo EXCEPT ![d] = Pass(fo[d], e.event, e.k, hidden).focus]
  /\ q2 = IF Pass(fo[d], e.event, e.k, hidden).forwarded THEN Append(q, m) ELSE q

\* The devices are two, with ids of their own.
LEMMA DevicesAre ==
  /\ Pointer \in Devices /\ Touch \in Devices /\ Pointer # Touch /\ \A d \in Devices : d = Pointer \/ d = Touch
  /\ \A d, x \in Devices : FixedId(d) = FixedId(x) => d = x
  BY DEF Devices, Pointer, Touch, FixedId

\* A message of a device that is passed on makes sense to the bridge, and is not about the bar.
LEMMA PassedSense ==
  ASSUME NEW e, NEW d, NEW m, NEW fo, NEW q \in Seq(AMessage), NEW fo2, NEW q2, NEW hidden,
         Passed(e, d, m, fo, q, fo2, q2, hidden), NEW b, NEW ds, NEW fs, Owed(fo, q, fs),
         e.event \in {"motion", "leave"} => PointerKept(e.about, fo, q, b),
         e.event \in {"touch_motion", "up"} => PointKept(e.k, e.about, fo, q, ds),
         e.event \in {"enter", "down"} /\ e.about = Bar => hidden,
         e.event = "frame" => e.about = None,
         Pass(fo[d], e.event, e.k, hidden).forwarded
  PROVE  Sense(m, q, b, ds, fs, Len(q) + 1) /\ m.about # Bar
<1> DEFINE r == Pass(fo[d], e.event, e.k, hidden)
<1>1. fo[d] \in [hidden : BOOLEAN, pending : BOOLEAN, touches : SUBSET Points] /\ hidden \in BOOLEAN /\ d \in Devices
  BY DEF Passed, AFocus
<1>2. e.event \in {"enter", "motion", "leave", "down", "touch_motion", "up", "frame"}
  BY DEF Passed
<1>3. /\ m.event = e.event /\ m.k = e.k /\ m.id = FixedId(d) /\ m.about = e.about
      /\ e.event \in {"down", "touch_motion", "up"} => e.k \in Points /\ d = Touch
      /\ e.event \in {"enter", "motion", "leave"} => d = Pointer
  BY DevicesAre DEF Passed
<1>4. /\ e.event \in {"motion", "leave"} => (r.forwarded <=> ~fo[d].hidden)
      /\ e.event \in {"enter", "down"} => (r.forwarded <=> ~hidden)
      /\ e.event = "frame" => (r.forwarded <=> fo[d].pending)
      /\ e.event \in {"touch_motion", "up"} => (r.forwarded <=> e.k \notin fo[d].touches)
  <2>1. Judged(fo[d], e.event, e.k, hidden, r)
    BY <1>1, <1>2, <1>3, PassIs
  <2> HIDE DEF r
  <2>2. QED
    BY <2>1 DEF Judged
<1> HIDE DEF r
<1>5. r.forwarded
  BY DEF r
<1>6. CASE e.event \in {"motion", "leave"}
  BY <1>3, <1>4, <1>5, <1>6 DEF PointerKept, Sense
<1>7. CASE e.event \in {"touch_motion", "up"}
  BY <1>3, <1>4, <1>5, <1>7 DEF PointKept, Sense
<1>8. CASE e.event \in {"enter", "down"}
  BY <1>3, <1>4, <1>5, <1>8 DEF Sense
<1>9. CASE e.event = "frame"
  BY <1>1, <1>3, <1>4, <1>5, <1>9 DEF Owed, Sense, None, Bar
<1>10. QED
  BY <1>2, <1>6, <1>7, <1>8, <1>9

\* What the proxy owes and keeps after it.
LEMMA PassedFollows ==
  ASSUME NEW e, NEW d, NEW m, NEW fo, NEW q \in Seq(AMessage), NEW fo2, NEW q2, NEW hidden,
         Passed(e, d, m, fo, q, fo2, q2, hidden), NEW b, NEW ds, NEW fs, Owed(fo, q, fs),
         e.event \in {"enter", "down"} /\ e.about = Bar => hidden
  PROVE  /\ fo2 \in AFocus /\ Owed(fo2, q2, fs)
         /\ Follows(e, fo, q, b, ds, fo2, q2, b, ds)
<1> DEFINE r == Pass(fo[d], e.event, e.k, hidden)
           g == r.focus
<1>1. fo[d] \in [hidden : BOOLEAN, pending : BOOLEAN, touches : SUBSET Points] /\ hidden \in BOOLEAN /\ d \in Devices
  BY DEF Passed, AFocus
<1>2. e.event \in {"enter", "motion", "leave", "down", "touch_motion", "up", "frame"} /\ e \in AnEvent
  BY DEF Passed
<1>3. /\ m \in AMessage /\ m.event = e.event /\ m.k = e.k /\ m.id = FixedId(d) /\ m.about = e.about
      /\ e.event \in {"down", "touch_motion", "up"} => e.k \in Points /\ d = Touch
      /\ e.event \in {"enter", "motion", "leave"} => d = Pointer
  BY DevicesAre DEF Passed
<1>4. /\ g \in [hidden : BOOLEAN, pending : BOOLEAN, touches : SUBSET Points]
      /\ g.pending => e.event # "frame" /\ (fo[d].pending \/ r.forwarded)
      /\ e.event = "enter" => (r.forwarded <=> ~hidden) /\ (g.hidden <=> hidden)
      /\ e.event \notin {"enter", "leave"} => (g.hidden <=> fo[d].hidden)
      /\ e.event = "down" => (r.forwarded <=> ~hidden)
      /\ e.event = "down" => g.touches = IF hidden THEN fo[d].touches \cup {e.k} ELSE fo[d].touches
      /\ e.event = "up" => g.touches = fo[d].touches \ {e.k}
      /\ e.event \notin {"down", "up"} => g.touches = fo[d].touches
  <2>1. Judged(fo[d], e.event, e.k, hidden, r)
    BY <1>1, <1>2, <1>3, PassIs
  <2> HIDE DEF r
  <2>2. QED
    BY <2>1 DEF Judged
<1>5. fo2 = [fo EXCEPT ![d] = g] /\ q2 = IF r.forwarded THEN Append(q, m) ELSE q
  BY DEF Passed
<1> HIDE DEF r, g
<1>6. fo2 \in AFocus /\ fo2[d] = g /\ \A x \in Devices : x # d => fo2[x] = fo[x]
  <2>1. fo \in AFocus
    BY DEF Passed
  <2>2. QED
    BY <1>1, <1>4, <1>5, <2>1 DEF AFocus
<1>7. Owed(fo2, q2, fs)
  <2>1. CASE r.forwarded
    <3>1. ASSUME NEW x \in Devices, fo2[x].pending
          PROVE  m \in Other(x) \/ (m \notin Frame(x) /\ fo[x].pending)
      <4>1. CASE x = d
        BY <1>3, <1>4, <1>6, <3>1, <4>1 DEF Other
      <4>2. CASE x # d
        BY <1>1, <1>3, <1>6, <3>1, <4>2, DevicesAre DEF Frame
      <4>3. QED
        BY <4>1, <4>2
    <3>2. QED
      BY <1>3, <1>5, <2>1, <3>1, OwedAppend
  <2>2. CASE ~r.forwarded
    BY <1>1, <1>4, <1>5, <1>6, <2>2 DEF Owed
  <2>3. QED
    BY <2>1, <2>2
<1>8. /\ e.event # "leave" /\ OnAt(q, b, Len(q) + 1) => OnAt(q2, b, Len(q2) + 1)
      /\ e.event = "enter" /\ r.forwarded => OnAt(q2, b, Len(q2) + 1)
      /\ \A p \in Points : ~(e.event = "up" /\ e.k = p) /\ DownAt(p, q, ds, Len(q) + 1) => DownAt(p, q2, ds, Len(q2) + 1)
      /\ \A p \in Points : e.event = "down" /\ e.k = p /\ r.forwarded => DownAt(p, q2, ds, Len(q2) + 1)
  BY <1>3, <1>5, StaysOn
<1>9. ASSUME NEW s \in Nat, e \in EnterOf(s) \/ (PointerKept(s, fo, q, b) /\ e \notin TurnOf(s))
      PROVE  PointerKept(s, fo2, q2, b)
  <2>1. CASE e \in EnterOf(s)
    <3>1. e.event = "enter" /\ e.about = s
      BY <2>1 DEF EnterOf
    <3>2. QED
      BY <1>3, <1>4, <1>6, <1>8, <3>1 DEF PointerKept
  <2>2. CASE e \notin EnterOf(s)
    <3>1. e.event \notin {"enter", "leave"} /\ PointerKept(s, fo, q, b)
      BY <1>2, <1>9, <2>2 DEF EnterOf, TurnOf
    <3>2. fo2[Pointer].hidden <=> fo[Pointer].hidden
      BY <1>4, <1>6, <3>1, DevicesAre
    <3>3. QED
      BY <1>8, <3>1, <3>2 DEF PointerKept
  <2>3. QED
    BY <2>1, <2>2
<1>10. ASSUME NEW p \in Points, NEW s \in Nat,
              e \in DownOf(p, s) \/ (PointKept(p, s, fo, q, ds) /\ e \notin LiftOf(p, s))
       PROVE  PointKept(p, s, fo2, q2, ds)
  <2>1. CASE e \in DownOf(p, s)
    <3>1. e.event = "down" /\ e.about = s /\ e.k = p
      BY <2>1 DEF DownOf
    <3>2. QED
      BY <1>3, <1>4, <1>6, <1>8, <3>1 DEF PointKept
  <2>2. CASE e \notin DownOf(p, s)
    <3>1. PointKept(p, s, fo, q, ds) /\ (e.event \in {"down", "up"} => e.k # p)
      BY <1>2, <1>10, <2>2 DEF DownOf, LiftOf
    <3>2. p \in fo2[Touch].touches <=> p \in fo[Touch].touches
      BY <1>3, <1>4, <1>6, <3>1, DevicesAre
    <3>3. QED
      BY <1>8, <3>1, <3>2 DEF PointKept
  <2>3. QED
    BY <2>1, <2>2
<1>11. QED
  BY <1>6, <1>7, <1>9, <1>10 DEF Follows

\* The first event, and the others.
LEMMA HeadIs ==
  ASSUME Inv, events # <<>>
  PROVE  /\ Head(events) \in AnEvent /\ EventOK(Head(events), objects, forward, Fresh)
         /\ Tail(events) \in Seq(AnEvent) /\ EventsOK(Tail(events), objects, forward, Fresh)
         /\ \A i \in 1..Len(Tail(events)) : Tail(events)[i].new # None => Tail(events)[i].new # Head(events).new
         /\ Head(events).sender \in DOMAIN forward
         /\ forward[Head(events).sender] \in Ids \/ Head(events).sender \in Fixed
         /\ \A i \in 1..Len(events) : events[i].event \in {"touch_motion", "up"} => events[i].k \in Points
<1> DEFINE r == Tail(events)
           e == Head(events)
<1>1. events \in Seq(AnEvent) /\ EventsOK(events, objects, forward, Fresh) /\ FixedKept(objects, bridge, forward)
  BY DEF Inv, ObjectsInv, Types
<1>2. /\ r \in Seq(AnEvent) /\ Len(events) \in Nat /\ Len(events) >= 1 /\ Len(r) = Len(events) - 1
      /\ \A i \in 1..(Len(events) - 1) : r[i] = events[i + 1]
      /\ e = events[1] /\ e \in AnEvent
  BY <1>1, Taken
<1> HIDE DEF r, e
<1>3. \A i \in 1..Len(r) : i + 1 \in 1..Len(events) /\ r[i] = events[i + 1] /\ 1 < i + 1
  BY <1>2
<1>4. 1 \in 1..Len(events) /\ \A i, j \in 1..Len(r) : i < j => i + 1 < j + 1
  BY <1>2
<1>5. EventsOK(r, objects, forward, Fresh)
  BY <1>1, <1>3, <1>4 DEF EventsOK
<1>6. EventOK(e, objects, forward, Fresh) /\ \A i \in 1..Len(r) : r[i].new # None => r[i].new # e.new
  BY <1>1, <1>2, <1>3, <1>4 DEF EventsOK
<1>7. Created(forward, e.sender) \/ e.sender \in Fixed
  BY <1>2, <1>6 DEF EventOK, AnEvent, Names, Fixed, Devices
<1>8. e.sender \in DOMAIN forward /\ (forward[e.sender] \in Ids \/ e.sender \in Fixed)
  BY <1>1, <1>7 DEF Created, FixedKept
<1>9. \A i \in 1..Len(events) : events[i].event \in {"touch_motion", "up"} => events[i].k \in Points
  BY <1>1 DEF EventsOK, EventOK
<1>10. QED
  BY <1>2, <1>5, <1>6, <1>8, <1>9 DEF r, e

\* An event that is not about the input leaves what is kept of it.
LEMMA QuietFollows ==
  ASSUME NEW e, e.event \notin {"enter", "leave", "down", "up"}, NEW fo, NEW q, NEW b, NEW ds,
         NEW q2,
         KeptOn(fo, q, b, ds, fo, q2, b, ds)
  PROVE  Follows(e, fo, q, b, ds, fo, q2, b, ds)
  BY DEF Follows, KeptOn, EnterOf, DownOf

\* An event is dropped, or ends the proxy, and nothing else changes.
LEMMA DroppedKeeps ==
  ASSUME Inv, events # <<>>, events' = Tail(events),
         Head(events).event \notin {"enter", "leave", "down", "up"},
         failed' \in {"no", "server ids"},
         UNCHANGED <<objects, nextServerId, forward, focus, comp, on, down, made, toBridge, bridge, bOn, bDown, bFrame>>
  PROVE  Inv'
<1>1. Fresh' = Fresh
  BY DEF Fresh
<1>2. Types'
  BY HeadIs DEF Inv, ObjectsInv, Types, Typed
<1>3. ObjectsInv'
  BY <1>1, <1>2, HeadIs DEF Inv, ObjectsInv
<1>4. KeptOn(focus, toBridge, bOn, bDown, focus, toBridge, bOn, bDown)
  BY DEF KeptOn
<1>5. Follows(Head(events), focus, toBridge, bOn, bDown, focus, toBridge, bOn, bDown)
  BY <1>4, QuietFollows
<1>6. events \in Seq(AnEvent) /\ on \in Nat /\ down \in [Points -> Nat] /\ InputInv
  BY DEF Inv, ObjectsInv, Types
<1>7. Sensed(events', focus, toBridge, bOn, bDown) /\ Resting(on, down, events', focus, toBridge, bOn, bDown)
  BY <1>5, <1>6, HeadIs, SensedTail DEF InputInv
<1>8. InputInv'
  BY <1>6, <1>7 DEF InputInv
<1>9. QED
  BY <1>3, <1>8 DEF Inv

\* Only an event of an object the bridge has made can come too late for it.
LEMMA DiscardedKeeps ==
  ASSUME Inv, EventDiscarded
  PROVE  Inv'
<1> DEFINE e == Head(events)
<1>1. /\ events # <<>> /\ ~Current(e, forward[e.sender]) /\ events' = Tail(events) /\ failed = "no"
      /\ UNCHANGED <<proxyVars, compVars, made, toBridge, bridgeVars>>
  BY DEF EventDiscarded
<1>2. e.sender \notin Fixed
  BY <1>1 DEF Inv, ObjectsInv, FixedKept, Current
<1>3. e.event \notin {"enter", "leave", "down", "up"}
  BY <1>1, <1>2, HeadIs DEF EventOK, Fixed
<1>4. QED
  BY <1>1, <1>3, DroppedKeeps DEF proxyVars, compVars, bridgeVars

\* The ids for the compositor's objects are used up.
LEMMA IdsGoneKeeps ==
  ASSUME Inv, EventIdsGone
  PROVE  Inv'
<1> DEFINE e == Head(events)
<1>1. /\ events # <<>> /\ e.new # None /\ events' = Tail(events) /\ failed' = "server ids"
      /\ UNCHANGED <<objects, nextServerId, forward, focus, compVars, made, toBridge, bridgeVars>>
  BY DEF EventIdsGone
<1>2. e.event = "data_offer"
  BY <1>1, HeadIs DEF EventOK
<1>3. QED
  BY <1>1, <1>2, DroppedKeeps DEF compVars, bridgeVars

-----------------------------------------------------------------------------
(* Proxy::event.                                                            *)

TheEvent == Head(events)
TheId    == forward[TheEvent.sender]
TheArg   == IF TheEvent.arg = None THEN None ELSE BridgeId(TheEvent.arg)
Hidden   == TheEvent.arg # None /\ TheArg = None
TheMessage == Msg(TheId, TheEvent.event, TheEvent.k, IF TheEvent.new # None THEN nextServerId ELSE TheArg,
                  TheEvent.sender, TheEvent.about)
Judgement == BeforeEvent(TheEvent, Hidden)

\* The object an event names is one the bridge has.
LEMMA BridgeIdIs ==
  ASSUME Inv, NEW o
  PROVE  /\ BridgeId(o) \in Int
         /\ BridgeId(o) # None => /\ o \in DOMAIN forward /\ BridgeId(o) = forward[o]
                                  /\ BridgeId(o) \in DOMAIN objects /\ objects[BridgeId(o)].up = o
         /\ BridgeId(Bar) = None
<1>1. Typed(objects, bridge, forward) /\ Bar \notin DOMAIN forward
  <2>1. Typed(objects, bridge, forward) /\ \A x \in DOMAIN forward : x \in Nat /\ x > Bar
    BY DEF Inv, ObjectsInv, Types, Below
  <2>2. \A x \in Nat : x > Bar => x # Bar
    BY DEF Bar
  <2>3. QED
    BY <2>1, <2>2
<1>2. QED
  BY <1>1 DEF BridgeId, Typed, None

\* What the step of the event does.
LEMMA EventIs ==
  ASSUME Inv, Event
  PROVE  /\ events # <<>> /\ failed = "no" /\ TheId \in DOMAIN objects /\ objects[TheId].up = TheEvent.sender
         /\ focus' = Judgement.focus
         /\ toBridge' = toBridge \o (IF Judgement.forwarded THEN <<TheMessage>> ELSE <<>>)
                                 \o (IF TheEvent.event = "done" THEN DeleteId(TheId) ELSE <<>>)
         /\ TheEvent.new # None => /\ objects' = Put(objects, nextServerId, [up |-> TheEvent.new, iface |-> "offer"])
                                   /\ forward' = Put(forward, TheEvent.new, nextServerId)
                                   /\ nextServerId' = nextServerId + 1
         /\ TheEvent.new = None => /\ objects' = IF TheEvent.event = "done" THEN Drop(objects, TheId) ELSE objects
                                   /\ UNCHANGED <<forward, nextServerId>>
         /\ events' = Tail(events)
         /\ UNCHANGED <<failed, comp, on, down, made, bridge, bOn, bDown, bFrame>>
  BY DEF Event, Current, TheEvent, TheId, TheArg, Hidden, TheMessage, Judgement, compVars,
     bridgeVars

\* The message an event may be passed on as.
LEMMA TheMessageIs ==
  ASSUME Inv, Event
  PROVE  /\ TheMessage \in AMessage /\ TheMessage.id = TheId /\ TheMessage.event = TheEvent.event
         /\ TheMessage.k = TheEvent.k /\ TheMessage.up = TheEvent.sender /\ TheMessage.about = TheEvent.about
         /\ TheMessage.arg = (IF TheEvent.new # None THEN nextServerId ELSE TheArg)
         /\ Hidden \in BOOLEAN
<1>1. TheEvent \in AnEvent /\ TheId \in Int
  BY EventIs, HeadIs DEF TheEvent, Inv, ObjectsInv, Below
<1>2. TheArg \in Int /\ nextServerId \in Int
  <2>1. nextServerId \in Nat
    BY DEF Inv, ObjectsInv, Types
  <2>2. BridgeId(TheEvent.arg) \in Int /\ None \in Int
    BY BridgeIdIs DEF None
  <2>3. QED
    BY <2>1, <2>2 DEF TheArg
<1>3. QED
  BY <1>1, <1>2 DEF TheMessage, Msg, AMessage, AnEvent, Hidden

\* The message suits the objects, and comes after no other about its id being free.
LEMMA TheMessageFits ==
  ASSUME Inv, Event, TheEvent.about # Bar, TheEvent.event = "enter" => ~Hidden,
         TheEvent.event # "data_offer"
  PROVE  /\ MessageOK(TheMessage, objects, bridge, forward)
         /\ \A i \in 1..Len(toBridge) : Apart(toBridge[i], TheMessage)
<1> DEFINE m == TheMessage
<1>1. /\ m.id = TheId /\ m.event = TheEvent.event /\ m.up = TheEvent.sender /\ m.about = TheEvent.about
      /\ m.event # "delete_id" /\ TheEvent.event \in Names
      /\ m.arg = (IF TheEvent.new # None THEN nextServerId ELSE TheArg)
  BY TheMessageIs, EventIs, HeadIs DEF TheEvent, AnEvent, Names
<1> HIDE DEF m
<1>2. /\ TheId \in DOMAIN objects /\ objects[TheId].up = TheEvent.sender
      /\ TheId \in Ids \/ (TheEvent.sender \in Fixed /\ TheId = FixedId(TheEvent.sender))
      /\ EventOK(TheEvent, objects, forward, Fresh)
  BY EventIs, HeadIs DEF TheEvent, TheId, Inv, ObjectsInv, FixedKept
<1>3. TheId \in DOMAIN bridge /\ bridge[TheId].up = TheEvent.sender /\ TheId < Start
  <2>1. CASE TheId \in Ids
    BY <1>2, <2>1, IdsBelow DEF Inv, ObjectsInv, Agree
  <2>2. CASE TheEvent.sender \in Fixed /\ TheId = FixedId(TheEvent.sender)
    <3>1. TheId < 0 /\ TheId \in Int /\ Start > 0 /\ Start \in Int
      BY <2>2, FixedIs, ProxyAssumption DEF Start
    <3>2. QED
      BY <2>2, <3>1 DEF Inv, ObjectsInv, FixedKept
  <2>3. QED
    BY <1>2, <2>1, <2>2
<1>4. m.event = "done" => m.id \in Ids
  BY <1>1, <1>2 DEF EventOK, Created, TheId
<1>5. m.event = "enter" => m.arg \in Ids /\ m.arg \in DOMAIN objects /\ m.arg \in DOMAIN bridge /\ bridge[m.arg].up = m.about
  <2> SUFFICES ASSUME m.event = "enter"
               PROVE  m.arg \in Ids /\ m.arg \in DOMAIN objects /\ m.arg \in DOMAIN bridge /\ bridge[m.arg].up = m.about
    OBVIOUS
  <2>1. /\ TheEvent.event = "enter" /\ TheEvent.new = None /\ TheEvent.arg = m.about /\ m.about # None
        /\ Created(forward, m.about)
    BY <1>1, <1>2 DEF EventOK
  <2>2. m.arg = BridgeId(m.about) /\ BridgeId(m.about) # None
    BY <1>1, <2>1 DEF TheArg, Hidden
  <2>3. m.arg \in Ids /\ m.arg \in DOMAIN objects /\ objects[m.arg].up = m.about
    BY <2>1, <2>2, BridgeIdIs DEF Created
  <2>4. QED
    BY <2>3 DEF Inv, ObjectsInv, Agree
<1>6. MessageOK(m, objects, bridge, forward)
  BY <1>1, <1>3, <1>4, <1>5 DEF MessageOK
<1>7. \A i \in 1..Len(toBridge) : Apart(toBridge[i], m)
  <2>1. \A i \in 1..Len(toBridge) : MessageOK(toBridge[i], objects, bridge, forward)
    BY DEF Inv, ObjectsInv, MessagesOK
  <2>2. \A i \in 1..Len(toBridge) : toBridge[i].event = "delete_id" => toBridge[i].id \notin DOMAIN objects
    BY <2>1 DEF MessageOK
  <2>3. QED
    BY <1>1, <1>2, <1>5, <2>2 DEF Apart, About
<1>8. QED
  BY <1>6, <1>7 DEF m

\* An event of the pointer or of a touch point.
LEMMA DevicePasses ==
  ASSUME Inv, Event, TheEvent.sender \in Devices
  PROVE  /\ focus' \in AFocus /\ Owed(focus', toBridge', bFrame) /\ Heard(toBridge', bOn, bDown, bFrame)
         /\ Follows(TheEvent, focus, toBridge, bOn, bDown, focus', toBridge', bOn, bDown)
         /\ toBridge' = (IF Judgement.forwarded THEN Append(toBridge, TheMessage) ELSE toBridge)
         /\ Judgement.forwarded => TheEvent.about # Bar /\ (TheEvent.event = "enter" => ~Hidden)
         /\ TheEvent.event \notin {"done", "data_offer", "surface_enter"}
<1> DEFINE d == TheEvent.sender
           r == Pass(focus[d], TheEvent.event, TheEvent.k, Hidden)
<1>1. /\ TheEvent \in AnEvent /\ EventOK(TheEvent, objects, forward, Fresh) /\ events # <<>>
      /\ FixedKept(objects, bridge, forward) /\ toBridge \in Seq(AMessage) /\ focus \in AFocus
  BY EventIs, HeadIs DEF TheEvent, Inv, ObjectsInv, Types
<1>2. d \in Fixed /\ TheId = FixedId(d) /\ TheId \notin Ids
  BY <1>1, FixedIs DEF Devices, Fixed, FixedKept, TheId
<1>3. TheEvent.event \in (IF d = Pointer THEN {"enter", "motion", "leave", "frame"}
                                         ELSE {"down", "touch_motion", "up", "frame"})
  BY <1>1, <1>2, DevicesAre DEF EventOK, AnEvent, Names, Created, TheId, Devices, Data,
     Registry, Pointer, Touch
<1>4. Judgement = [forwarded |-> r.forwarded, focus |-> [focus EXCEPT ![d] = r.focus], globals |-> globals]
  BY DEF Judgement, BeforeEvent, Devices
<1>5. Judgement.forwarded = r.forwarded /\ focus' = [focus EXCEPT ![d] = r.focus]
  BY <1>4, EventIs
<1>6. toBridge' = (IF r.forwarded THEN Append(toBridge, TheMessage) ELSE toBridge)
  <2>1. toBridge' = toBridge \o (IF r.forwarded THEN <<TheMessage>> ELSE <<>>) \o <<>>
    BY <1>3, <1>5, EventIs
  <2>2. toBridge \o <<TheMessage>> = Append(toBridge, TheMessage) /\ Append(toBridge, TheMessage) \in Seq(AMessage)
    BY <1>1, TheMessageIs, Joined, Appended
  <2>3. QED
    BY <1>1, <2>1, <2>2, ConcatNone
<1>7. Passed(TheEvent, d, TheMessage, focus, toBridge, focus', toBridge', Hidden)
  <2>1. TheEvent.event \in {"down", "touch_motion", "up"} => TheEvent.k \in Points
    BY <1>1 DEF EventOK
  <2>2. /\ TheMessage \in AMessage /\ TheMessage.event = TheEvent.event /\ TheMessage.k = TheEvent.k
        /\ TheMessage.id = FixedId(d) /\ TheMessage.about = TheEvent.about /\ Hidden \in BOOLEAN
    BY <1>2, TheMessageIs
  <2>3. QED
    BY <1>1, <1>3, <1>5, <1>6, <2>1, <2>2 DEF Passed
<1>8. TheEvent.event \in {"enter", "down"} /\ TheEvent.about = Bar => Hidden
  BY <1>1, BridgeIdIs DEF EventOK, Hidden, TheArg
<1>9. /\ Owed(focus, toBridge, bFrame) /\ Heard(toBridge, bOn, bDown, bFrame)
      /\ TheEvent.event \in {"motion", "leave"} => PointerKept(TheEvent.about, focus, toBridge, bOn)
      /\ TheEvent.event \in {"touch_motion", "up"} => PointKept(TheEvent.k, TheEvent.about, focus, toBridge, bDown)
  BY <1>1, PlacedHead DEF Inv, ObjectsInv, Types, InputInv, TheEvent
<1>10. focus' \in AFocus /\ Owed(focus', toBridge', bFrame)
       /\ Follows(TheEvent, focus, toBridge, bOn, bDown, focus', toBridge', bOn, bDown)
  BY <1>1, <1>7, <1>8, <1>9, PassedFollows
<1>11. r.forwarded => Sense(TheMessage, toBridge, bOn, bDown, bFrame, Len(toBridge) + 1) /\ TheMessage.about # Bar
  <2>1. TheEvent.event = "frame" => TheEvent.about = None
    BY <1>1 DEF EventOK
  <2>2. QED
    BY <1>1, <1>7, <1>8, <1>9, <2>1, PassedSense
<1>12. TheEvent.event = "enter" /\ r.forwarded => ~Hidden
  <2>1. ASSUME TheEvent.event = "enter"
        PROVE  r.forwarded <=> ~Hidden
    <3>1. focus[d] \in [hidden : BOOLEAN, pending : BOOLEAN, touches : SUBSET Points] /\ Hidden \in BOOLEAN
      BY <1>1, TheMessageIs DEF AFocus
    <3>2. Judged(focus[d], TheEvent.event, TheEvent.k, Hidden, r)
      BY <2>1, <3>1, PassIs
    <3> HIDE DEF r
    <3>3. QED
      BY <2>1, <3>2 DEF Judged
  <2>2. QED
    BY <2>1
<1>13. Heard(toBridge', bOn, bDown, bFrame)
  BY <1>1, <1>6, <1>9, <1>11, TheMessageIs, HeardAppend
<1> HIDE DEF r
<1>14. QED
  BY <1>3, <1>5, <1>6, <1>10, <1>11, <1>12, <1>13, TheMessageIs

\* An event of another object: what may be passed on is not about the input.
LEMMA QuietPasses ==
  ASSUME Inv, Event, TheEvent.sender \notin Devices
  PROVE  /\ focus' = focus /\ Quiet(TheMessage) /\ TheEvent.about # Bar
         /\ TheEvent.event \in {"done", "surface_enter", "data_offer", "global", "global_remove"}
         /\ TheEvent.event \in {"done", "data_offer"} => Judgement.forwarded
<1>1. TheEvent \in AnEvent /\ EventOK(TheEvent, objects, forward, Fresh) /\ events # <<>>
  BY EventIs, HeadIs DEF TheEvent
<1>2. TheId \in Ids \/ (TheEvent.sender \in Fixed /\ TheId = FixedId(TheEvent.sender))
  BY <1>1, HeadIs DEF TheId, TheEvent, Inv, ObjectsInv, FixedKept
<1>3. TheEvent.event \in {"done", "surface_enter", "data_offer", "global", "global_remove"}
  BY <1>1 DEF AnEvent, Names, EventOK, Devices
<1>4. \A d \in Devices : TheId # FixedId(d)
  <2>1. \A o, x \in Fixed : FixedId(o) = FixedId(x) => o = x
    BY FixedIs DEF FixedId
  <2>2. Devices \subseteq Fixed
    BY DEF Devices, Fixed
  <2>3. QED
    BY <1>2, <2>1, <2>2, FixedIs
<1>5. Quiet(TheMessage)
  BY <1>3, <1>4, TheMessageIs DEF Quiet
<1>6. focus' = focus
  BY EventIs DEF Judgement, BeforeEvent, Devices
<1>7. TheEvent.about # Bar
  BY <1>1, <1>3 DEF EventOK, None, Bar
<1>8. TheEvent.event \in {"done", "data_offer"} => Judgement.forwarded
  <2>1. ASSUME TheEvent.event \in {"done", "data_offer"}
        PROVE  Judgement.forwarded
    <3>1. TheEvent.sender # Registry /\ ~Hidden
      <4>1. TheEvent.arg = None
        BY <1>1, <2>1 DEF EventOK
      <4>2. CASE TheEvent.event = "data_offer"
        BY <1>1, <4>1, <4>2 DEF EventOK, Hidden, Data, Registry
      <4>3. CASE TheEvent.event = "done"
        <5>1. TheId \in Ids
          BY <1>1, <4>3 DEF EventOK, Created, TheId
        <5>2. TheEvent.sender \notin Fixed
          BY <5>1, FixedIs DEF TheId, Inv, ObjectsInv, FixedKept
        <5>3. QED
          BY <4>1, <5>2 DEF Hidden, Fixed
      <4>4. QED
        BY <2>1, <4>2, <4>3
    <3>2. QED
      BY <3>1 DEF Judgement, BeforeEvent, Devices
  <2>2. QED
    BY <2>1
<1>9. QED
  BY <1>3, <1>5, <1>6, <1>7, <1>8

\* An event that neither makes nor ends an object leaves the objects, and may be passed on.
LEMMA PlainEventObjects ==
  ASSUME Inv, Event, TheEvent.event \notin {"done", "data_offer"}
  PROVE  ObjectsInv'
<1>1. /\ Types /\ toBridge \in Seq(AMessage) /\ events # <<>>
      /\ MessagesOK(toBridge, objects, bridge, forward) /\ Closed(toBridge)
      /\ EventOK(TheEvent, objects, forward, Fresh)
  BY EventIs, HeadIs DEF Inv, ObjectsInv, Types, TheEvent
<1>2. TheEvent.new = None
  BY <1>1 DEF EventOK
<1>3. /\ UNCHANGED <<objects, forward, nextServerId, failed, comp, on, down, made, bridge, bOn, bDown, bFrame>>
      /\ events' = Tail(events)
  BY <1>2, EventIs
<1>4. /\ focus' \in AFocus
      /\ toBridge' = (IF Judgement.forwarded THEN Append(toBridge, TheMessage) ELSE toBridge)
      /\ Judgement.forwarded => TheEvent.about # Bar /\ (TheEvent.event = "enter" => ~Hidden)
  <2>1. CASE TheEvent.sender \in Devices
    BY <2>1, DevicePasses
  <2>2. CASE TheEvent.sender \notin Devices
    <3>1. toBridge' = toBridge \o (IF Judgement.forwarded THEN <<TheMessage>> ELSE <<>>) \o <<>>
      BY EventIs
    <3>2. toBridge \o <<TheMessage>> = Append(toBridge, TheMessage) /\ Append(toBridge, TheMessage) \in Seq(AMessage)
      BY <1>1, TheMessageIs, Joined, Appended
    <3>3. toBridge' = (IF Judgement.forwarded THEN Append(toBridge, TheMessage) ELSE toBridge)
      BY <1>1, <3>1, <3>2, ConcatNone
    <3>4. QED
      BY <1>1, <2>2, <3>3, QuietPasses DEF Types
  <2>3. QED
    BY <2>1, <2>2
<1>5. MessagesOK(toBridge', objects, bridge, forward) /\ Closed(toBridge') /\ toBridge' \in Seq(AMessage)
  <2>1. CASE Judgement.forwarded
    <3>1. /\ MessageOK(TheMessage, objects, bridge, forward) /\ \A i \in 1..Len(toBridge) : Apart(toBridge[i], TheMessage)
          /\ TheMessage \in AMessage /\ TheMessage.event # "done"
      BY <1>4, <2>1, TheMessageFits, TheMessageIs
    <3>2. toBridge' = Append(toBridge, TheMessage)
      BY <1>4, <2>1
    <3>3. QED
      BY <1>1, <3>1, <3>2, MessagesAppend, ClosedAppend, Appended
  <2>2. CASE ~Judgement.forwarded
    BY <1>1, <1>4, <2>2
  <2>3. QED
    BY <2>1, <2>2
<1>6. Agree(objects, bridge, toBridge')
  <2>1. \A x : Freed(toBridge, x) => Freed(toBridge', x)
    BY <1>1, <1>4, TheMessageIs, FreedAppend
  <2>2. QED
    BY <2>1 DEF Inv, ObjectsInv, Agree
<1>7. Fresh' = Fresh
  BY <1>3 DEF Fresh
<1>8. Types'
  BY <1>1, <1>3, <1>4, <1>5, HeadIs DEF Types, Typed
<1>9. EventsOK(events', objects, forward, Fresh)
  BY <1>1, <1>3, HeadIs
<1>10. /\ Below(objects, bridge, forward, Fresh, nextServerId) /\ FixedKept(objects, bridge, forward)
       /\ CompOK(comp, objects, forward, Fresh)
  BY DEF Inv, ObjectsInv
<1>11. QED
  BY <1>3, <1>5, <1>6, <1>7, <1>8, <1>9, <1>10 DEF ObjectsInv

\* An object the compositor has made gets the next of the proxy's ids, on both sides.
LEMMA OfferObjects ==
  ASSUME Inv, Event, TheEvent.event = "data_offer"
  PROVE  ObjectsInv' /\ toBridge' = Append(toBridge, TheMessage) /\ focus' = focus
<1> DEFINE n == nextServerId
           o == TheEvent.new
           m == TheMessage
           O == [up |-> o, iface |-> "offer"]
<1>1. /\ Types /\ toBridge \in Seq(AMessage) /\ events # <<>>
      /\ MessagesOK(toBridge, objects, bridge, forward) /\ Closed(toBridge)
      /\ EventOK(TheEvent, objects, forward, Fresh) /\ TheEvent \in AnEvent
      /\ Below(objects, bridge, forward, Fresh, n) /\ FixedKept(objects, bridge, forward)
      /\ CompOK(comp, objects, forward, Fresh) /\ Agree(objects, bridge, toBridge)
  BY EventIs, HeadIs DEF Inv, ObjectsInv, Types, TheEvent
<1>2. TheEvent.sender = Data /\ o \in Nat /\ 6 <= o /\ o < Fresh /\ o \notin DOMAIN forward /\ Fresh \in Nat /\ o # None
  BY <1>1 DEF EventOK, Below, None
<1>3. n \in Nat /\ n >= Start /\ n \notin DOMAIN objects /\ n \notin DOMAIN bridge /\ n \notin Ids
  <2>1. n \in Nat /\ n >= Start
    BY <1>1 DEF Below
  <2>2. n \notin DOMAIN objects /\ n \notin DOMAIN bridge
    BY <1>1, <2>1 DEF Below
  <2>3. QED
    BY <2>1, <2>2, IdsBelow
<1>4. /\ objects' = Put(objects, n, O) /\ forward' = Put(forward, o, n) /\ nextServerId' = n + 1
      /\ events' = Tail(events)
      /\ UNCHANGED <<failed, comp, on, down, made, bridge, bOn, bDown, bFrame>>
  BY <1>2, EventIs
<1>5. Data \notin Devices /\ FixedId(Data) \in Int /\ FixedId(Data) < 0 /\ Data \in Fixed
  BY FixedIs DEF Devices, Data, Pointer, Touch, Fixed
<1>6. focus' = focus /\ Judgement.forwarded /\ TheEvent.about # Bar
  BY <1>2, <1>5, QuietPasses
<1>7. toBridge' = Append(toBridge, m) /\ m \in AMessage
  <2>1. toBridge' = toBridge \o <<m>> \o <<>>
    BY <1>6, EventIs
  <2>2. toBridge \o <<m>> = Append(toBridge, m) /\ Append(toBridge, m) \in Seq(AMessage) /\ m \in AMessage
    BY <1>1, TheMessageIs, Joined, Appended
  <2>3. QED
    BY <2>1, <2>2, ConcatNone
<1>8. /\ m.id = FixedId(Data) /\ m.event = "data_offer" /\ m.up = Data /\ m.about # Bar /\ m.arg = n
  BY <1>1, <1>2, <1>5, <1>6, TheMessageIs DEF TheId, FixedKept
<1> HIDE DEF m
<1>9. /\ DOMAIN objects' = DOMAIN objects \cup {n} /\ objects'[n] = O
      /\ \A x \in DOMAIN objects : x # n /\ objects'[x] = objects[x]
      /\ objects' \in [DOMAIN objects' -> [up : Nat, iface : Ifaces]]
  <2>1. O \in [up : Nat, iface : Ifaces] /\ \A x \in DOMAIN objects : objects[x] \in [up : Nat, iface : Ifaces]
    BY <1>1, <1>2 DEF Types, Typed, Ifaces
  <2> HIDE DEF O, n
  <2>2. objects' \in [DOMAIN objects' -> [up : Nat, iface : Ifaces]]
    BY <1>4, <2>1, PutTyped
  <2>3. QED
    BY <1>3, <1>4, <2>2 DEF Put
<1>10. /\ DOMAIN forward' = DOMAIN forward \cup {o} /\ forward'[o] = n
       /\ \A x \in DOMAIN forward : x # o /\ forward'[x] = forward[x]
       /\ forward' \in [DOMAIN forward' -> Int]
  <2>1. \A x \in DOMAIN forward : forward[x] \in Int
    <3>1. forward \in [DOMAIN forward -> Int]
      BY <1>1 DEF Types, Typed
    <3>2. QED
      BY <3>1
  <2> HIDE DEF n, o
  <2>2. n \in Int
    BY <1>3
  <2>3. forward' \in [DOMAIN forward' -> Int]
    BY <1>4, <2>1, <2>2, PutTyped
  <2>4. QED
    BY <1>2, <1>4, <2>3 DEF Put
<1>11. Fresh' = Fresh
  BY <1>4 DEF Fresh
<1>12. Below(objects', bridge, forward', Fresh, n + 1)
  <2> HIDE DEF n, o
  <2>1. \A x \in DOMAIN objects' : x \in Int /\ x < n + 1 /\ objects'[x].up < Fresh
    BY <1>1, <1>2, <1>3, <1>9 DEF Below
  <2>2. \A x \in DOMAIN bridge : x \in Int /\ x < n + 1
    BY <1>1, <1>3 DEF Below
  <2>3. \A x \in DOMAIN forward' : x \in Nat /\ x > Bar /\ x < Fresh
    BY <1>1, <1>2, <1>10 DEF Below, Bar
  <2>4. n + 1 \in Nat /\ n + 1 >= Start
    BY <1>3, IdsBelow
  <2>5. QED
    BY <1>1, <2>1, <2>2, <2>3, <2>4 DEF Below
<1>13. FixedKept(objects', bridge, forward')
  BY <1>1, <1>9, <1>10 DEF FixedKept
<1>14. Agree(objects', bridge, toBridge')
  <2>1. \A x : Freed(toBridge, x) => Freed(toBridge', x)
    BY <1>1, <1>7, FreedAppend
  <2>2. QED
    BY <1>1, <1>3, <1>9, <2>1 DEF Agree
<1>15. \A x : Created(forward, x) => Created(forward', x)
  BY <1>10 DEF Created
<1>16. \A x : Created(forward, x) /\ IsCallback(objects, x) => IsCallback(objects', x)
  BY <1>2, <1>9 DEF Created, IsCallback
<1>17. CompOK(comp, objects', forward', Fresh)
  BY <1>1, <1>15, <1>16 DEF CompOK
<1>18. EventsOK(events', objects', forward', Fresh)
  <2>1. /\ EventsOK(Tail(events), objects, forward, Fresh)
        /\ \A i \in 1..Len(Tail(events)) : Tail(events)[i].new # None => Tail(events)[i].new # o
    BY <1>1, HeadIs DEF TheEvent
  <2> HIDE DEF o
  <2>2. \A i \in 1..Len(Tail(events)) : EventOK(Tail(events)[i], objects', forward', Fresh)
    <3>1. ASSUME NEW e, EventOK(e, objects, forward, Fresh), e.new # None => e.new # o
          PROVE  EventOK(e, objects', forward', Fresh)
      <4>1. e.event = "data_offer" => e.new \notin DOMAIN forward'
        BY <1>2, <1>10, <3>1 DEF EventOK, None
      <4>2. QED
        BY <1>15, <1>16, <3>1, <4>1 DEF EventOK
    <3>2. QED
      BY <2>1, <3>1 DEF EventsOK
  <2>3. QED
    BY <1>4, <2>1, <2>2 DEF EventsOK
<1>19. MessagesOK(toBridge, objects', bridge, forward')
  <2>1. ASSUME NEW x, MessageOK(x, objects, bridge, forward)
        PROVE  MessageOK(x, objects', bridge, forward')
    <3>1. CASE x.event = "delete_id"
      BY <1>3, <1>9, <2>1, <3>1 DEF MessageOK
    <3>2. CASE x.event = "data_offer"
      BY <1>9, <1>10, <2>1, <3>2 DEF MessageOK
    <3>3. CASE x.event \notin {"delete_id", "data_offer"}
      BY <2>1, <3>3 DEF MessageOK
    <3>4. QED
      BY <3>1, <3>2, <3>3
  <2>2. QED
    BY <1>1, <2>1, MessagesMoved
<1>20. MessageOK(m, objects', bridge, forward')
  <2>1. m.id \in DOMAIN bridge /\ bridge[m.id].up = m.up /\ m.id < Start
    <3>1. Start \in Int /\ Start > 0
      BY ProxyAssumption DEF Start
    <3>2. QED
      BY <1>1, <1>5, <1>8, <3>1 DEF FixedKept
  <2>2. m.arg \in DOMAIN objects' /\ m.arg \notin DOMAIN bridge /\ m.arg >= Start /\ \E x \in DOMAIN forward' : forward'[x] = m.arg
    BY <1>3, <1>8, <1>9, <1>10
  <2>3. QED
    BY <1>8, <2>1, <2>2 DEF MessageOK
<1>21. \A i \in 1..Len(toBridge) : Apart(toBridge[i], m)
  <2>1. \A i \in 1..Len(toBridge) : MessageOK(toBridge[i], objects, bridge, forward)
    BY <1>1 DEF MessagesOK
  <2>2. \A x : MessageOK(x, objects, bridge, forward) => Apart(x, m)
    BY <1>3, <1>5, <1>8, FixedIs DEF MessageOK, Apart, About
  <2>3. QED
    BY <2>1, <2>2
<1>22. MessagesOK(toBridge', objects', bridge, forward') /\ Closed(toBridge') /\ toBridge' \in Seq(AMessage)
  BY <1>1, <1>7, <1>8, <1>19, <1>20, <1>21, MessagesAppend, ClosedAppend, Appended
<1>23. Types'
  <2>1. n + 1 \in Nat
    BY <1>3
  <2>2. QED
    BY <1>1, <1>4, <1>6, <1>9, <1>10, <1>22, <2>1, HeadIs DEF Types, Typed
<1>24. ObjectsInv'
  BY <1>4, <1>11, <1>12, <1>13, <1>14, <1>17, <1>18, <1>22, <1>23 DEF ObjectsInv
<1>25. QED
  BY <1>6, <1>7, <1>24 DEF m

\* A callback that is done is the bridge's, and goes on both sides; its id is free once the
\* bridge has been told.
LEMMA DoneObjects ==
  ASSUME Inv, Event, TheEvent.event = "done"
  PROVE  /\ ObjectsInv' /\ focus' = focus
         /\ \E d \in AMessage : Quiet(d) /\ toBridge' = Append(Append(toBridge, TheMessage), d)
<1> DEFINE m == TheMessage
           id == TheId
           q == Append(toBridge, m)
<1>1. /\ Types /\ toBridge \in Seq(AMessage) /\ events # <<>>
      /\ MessagesOK(toBridge, objects, bridge, forward) /\ Closed(toBridge)
      /\ EventOK(TheEvent, objects, forward, Fresh) /\ TheEvent \in AnEvent
      /\ Below(objects, bridge, forward, Fresh, nextServerId) /\ FixedKept(objects, bridge, forward)
      /\ CompOK(comp, objects, forward, Fresh) /\ Agree(objects, bridge, toBridge)
      /\ EventsOK(Tail(events), objects, forward, Fresh) /\ Tail(events) \in Seq(AnEvent)
  BY EventIs, HeadIs DEF Inv, ObjectsInv, Types, TheEvent
<1>2. /\ TheEvent.new = None /\ id \in Ids /\ id \in DOMAIN objects /\ objects[id].up = TheEvent.sender
      /\ IsCallback(objects, TheEvent.sender) /\ TheEvent.sender \notin Devices
  <2>1. TheEvent.new = None /\ Created(forward, TheEvent.sender) /\ IsCallback(objects, TheEvent.sender)
    BY <1>1 DEF EventOK
  <2>2. TheEvent.sender \notin Fixed
    BY <1>1, <2>1, FixedIs DEF FixedKept, Created
  <2>3. QED
    BY <2>1, <2>2, EventIs DEF Created, TheId, Devices, Fixed
<1>3. /\ objects' = Drop(objects, id) /\ events' = Tail(events)
      /\ UNCHANGED <<forward, nextServerId, failed, comp, on, down, made, bridge, bOn, bDown, bFrame>>
  BY <1>2, EventIs
<1>4. focus' = focus /\ Judgement.forwarded /\ TheEvent.about # Bar
  BY <1>2, QuietPasses
<1>5. /\ m \in AMessage /\ m.event = "done" /\ m.id = id
      /\ MessageOK(m, objects, bridge, forward) /\ \A i \in 1..Len(toBridge) : Apart(toBridge[i], m)
  BY <1>4, TheMessageIs, TheMessageFits
<1>6. PICK d \in AMessage : /\ DeleteId(id) = <<d>> /\ Frees(d, id) /\ Quiet(d)
                            /\ ~(d.event = "enter") /\ d.event # "done" /\ d.event # "data_offer"
  BY <1>2, DeleteIs
<1>7. toBridge' = Append(q, d) /\ q \in Seq(AMessage) /\ toBridge' \in Seq(AMessage)
  <2>1. toBridge' = toBridge \o <<m>> \o <<d>>
    BY <1>4, <1>6, EventIs
  <2>2. toBridge \o <<m>> = q /\ q \in Seq(AMessage)
    BY <1>1, <1>5, Joined, Appended
  <2>3. q \o <<d>> = Append(q, d) /\ Append(q, d) \in Seq(AMessage)
    BY <1>6, <2>2, Joined, Appended
  <2>4. QED
    BY <2>1, <2>2, <2>3
<1> HIDE DEF m, id
<1>8. /\ DOMAIN objects' = DOMAIN objects \ {id}
      /\ objects' \in [DOMAIN objects' -> [up : Nat, iface : Ifaces]]
      /\ \A x \in DOMAIN objects : x # id => objects'[x] = objects[x]
  <2>1. \A x \in DOMAIN objects : objects[x] \in [up : Nat, iface : Ifaces]
    <3>1. objects \in [DOMAIN objects -> [up : Nat, iface : Ifaces]]
      BY <1>1 DEF Types, Typed
    <3>2. QED
      BY <3>1
  <2>2. Drop(objects, id) \in [DOMAIN Drop(objects, id) -> [up : Nat, iface : Ifaces]]
    BY <2>1, DropIs
  <2>3. /\ DOMAIN Drop(objects, id) = DOMAIN objects \ {id}
        /\ \A x \in DOMAIN objects : x # id => Drop(objects, id)[x] = objects[x]
    BY DropIs
  <2>4. objects' = Drop(objects, id)
    BY <1>3
  <2>5. QED
    BY <2>2, <2>3, <2>4
<1>9. id \in DOMAIN bridge /\ bridge[id].iface = "callback"
  BY <1>1, <1>2 DEF Agree, IsCallback
<1>10. MessagesOK(toBridge, objects', bridge, forward)
  <2>1. ASSUME NEW x, MessageOK(x, objects, bridge, forward)
        PROVE  MessageOK(x, objects', bridge, forward)
    <3>1. CASE x.event = "delete_id"
      BY <1>8, <2>1, <3>1 DEF MessageOK
    <3>2. CASE x.event = "data_offer"
      BY <1>8, <1>9, <2>1, <3>2 DEF MessageOK
    <3>3. CASE x.event \notin {"delete_id", "data_offer"}
      BY <2>1, <3>3 DEF MessageOK
    <3>4. QED
      BY <3>1, <3>2, <3>3
  <2>2. QED
    BY <1>1, <2>1, MessagesMoved
<1>11. MessageOK(m, objects', bridge, forward) /\ MessageOK(d, objects', bridge, forward)
  BY <1>2, <1>5, <1>6, <1>8, <1>9 DEF MessageOK, Frees
<1>12. MessagesOK(q, objects', bridge, forward)
  BY <1>1, <1>5, <1>10, <1>11, MessagesAppend
<1>13. \A i \in 1..Len(q) : Apart(q[i], d)
  <2>1. \A x : MessageOK(x, objects, bridge, forward) => Apart(x, d)
    BY <1>2, <1>6 DEF MessageOK, Apart, About, Frees
  <2>2. \A i \in 1..Len(toBridge) : Apart(toBridge[i], d)
    BY <1>1, <2>1 DEF MessagesOK
  <2>3. Apart(m, d)
    BY <1>5, <2>1
  <2>4. /\ Len(toBridge) \in Nat /\ Len(q) = Len(toBridge) + 1 /\ q[Len(toBridge) + 1] = m
        /\ \A i \in 1..Len(toBridge) : q[i] = toBridge[i]
    BY <1>1, <1>5, Appended
  <2> HIDE DEF q
  <2>5. \A i \in 1..Len(q) : i = Len(toBridge) + 1 \/ i \in 1..Len(toBridge)
    BY <2>4
  <2>6. QED
    BY <2>2, <2>3, <2>4, <2>5
<1>14. MessagesOK(toBridge', objects', bridge, forward)
  BY <1>6, <1>7, <1>12, <1>11, <1>13, MessagesAppend
<1>15. Closed(toBridge')
  BY <1>1, <1>5, <1>6, <1>7, ClosedAppend
<1>16. Agree(objects', bridge, toBridge')
  <2>1. \A x : Freed(toBridge, x) => Freed(toBridge', x)
    <3>1. \A x : Freed(toBridge, x) => Freed(q, x)
      BY <1>1, <1>5, FreedAppend
    <3>2. \A x : Freed(q, x) => Freed(toBridge', x)
      BY <1>6, <1>7, FreedAppend
    <3>3. QED
      BY <3>1, <3>2
  <2>2. Freed(toBridge', id)
    BY <1>6, <1>7, FreedAppend
  <2>3. QED
    BY <1>1, <1>2, <1>8, <1>9, <2>1, <2>2 DEF Agree
<1>17. \A o : IsCallback(objects, o) => IsCallback(objects', o)
  BY <1>8 DEF IsCallback
<1>18. Fresh' = Fresh
  BY <1>3 DEF Fresh
<1>19. Below(objects', bridge, forward, Fresh, nextServerId)
  BY <1>1, <1>8 DEF Below
<1>20. FixedKept(objects', bridge, forward)
  <2>1. \A o \in Fixed : FixedId(o) # id
    BY <1>2, FixedIs
  <2>2. QED
    BY <1>1, <1>8, <2>1 DEF FixedKept
<1>21. CompOK(comp, objects', forward, Fresh)
  BY <1>1, <1>17 DEF CompOK
<1>22. EventsOK(events', objects', forward, Fresh)
  <2>1. \A e : EventOK(e, objects, forward, Fresh) => EventOK(e, objects', forward, Fresh)
    BY <1>17 DEF EventOK
  <2>2. QED
    BY <1>1, <1>3, <2>1 DEF EventsOK
<1>23. Types'
  BY <1>1, <1>3, <1>4, <1>7, <1>8 DEF Types, Typed
<1>24. ObjectsInv'
  BY <1>3, <1>14, <1>15, <1>16, <1>18, <1>19, <1>20, <1>21, <1>22, <1>23 DEF ObjectsInv
<1>25. QED
  BY <1>4, <1>6, <1>7, <1>24 DEF m

\* What is kept over two steps.
LEMMA KeptTwice ==
  ASSUME NEW fo, NEW q, NEW q2, NEW q3, NEW b, NEW ds,
         KeptOn(fo, q, b, ds, fo, q2, b, ds), KeptOn(fo, q2, b, ds, fo, q3, b, ds)
  PROVE  KeptOn(fo, q, b, ds, fo, q3, b, ds)
  BY DEF KeptOn

\* The proxy reads an event of an object the bridge has: Proxy::event.
LEMMA EventKeeps ==
  ASSUME Inv, Event
  PROVE  Inv'
<1>1. /\ events # <<>> /\ TheEvent = Head(events) /\ toBridge \in Seq(AMessage) /\ events \in Seq(AnEvent)
      /\ InputInv /\ on \in Nat /\ down \in [Points -> Nat]
      /\ UNCHANGED <<on, down, bOn, bDown, bFrame>> /\ events' = Tail(events)
  BY EventIs DEF Inv, ObjectsInv, Types, TheEvent
<1>2. /\ ObjectsInv' /\ Owed(focus', toBridge', bFrame) /\ Heard(toBridge', bOn, bDown, bFrame)
      /\ Follows(TheEvent, focus, toBridge, bOn, bDown, focus', toBridge', bOn, bDown)
  <2>1. CASE TheEvent.sender \in Devices
    BY <2>1, DevicePasses, PlainEventObjects
  <2>2. CASE TheEvent.sender \notin Devices
    <3>1. /\ focus' = focus /\ Quiet(TheMessage) /\ TheMessage \in AMessage
          /\ TheEvent.event \notin {"enter", "leave", "down", "up"}
          /\ TheEvent.event \in {"done", "data_offer"} => Judgement.forwarded
      BY <2>2, QuietPasses, TheMessageIs
    <3>2. Heard(toBridge, bOn, bDown, bFrame) /\ Owed(focus, toBridge, bFrame)
      BY <1>1 DEF InputInv
    <3>3. KeptOn(focus, toBridge, bOn, bDown, focus, toBridge, bOn, bDown)
      BY DEF KeptOn
    <3>4. LET q == Append(toBridge, TheMessage) IN
          /\ q \in Seq(AMessage) /\ Heard(q, bOn, bDown, bFrame) /\ Owed(focus, q, bFrame)
          /\ KeptOn(focus, toBridge, bOn, bDown, focus, q, bOn, bDown)
      BY <1>1, <3>1, <3>2, QuietAppend, Appended
    <3>5. /\ ObjectsInv' /\ Heard(toBridge', bOn, bDown, bFrame) /\ Owed(focus, toBridge', bFrame)
          /\ KeptOn(focus, toBridge, bOn, bDown, focus, toBridge', bOn, bDown)
      <4>1. CASE TheEvent.event = "done"
        <5>1. ObjectsInv'
          BY <4>1, DoneObjects
        <5>2. PICK d \in AMessage : Quiet(d) /\ toBridge' = Append(Append(toBridge, TheMessage), d)
          BY <4>1, DoneObjects
        <5>3. /\ Heard(toBridge', bOn, bDown, bFrame) /\ Owed(focus, toBridge', bFrame)
              /\ KeptOn(focus, Append(toBridge, TheMessage), bOn, bDown, focus, toBridge', bOn, bDown)
          BY <3>4, <5>2, QuietAppend
        <5>4. KeptOn(focus, toBridge, bOn, bDown, focus, toBridge', bOn, bDown)
          BY <3>4, <5>3, KeptTwice
        <5>5. QED
          BY <5>1, <5>3, <5>4
      <4>2. CASE TheEvent.event = "data_offer"
        <5>1. ObjectsInv' /\ toBridge' = Append(toBridge, TheMessage)
          BY <4>2, OfferObjects
        <5>2. QED
          BY <3>4, <5>1
      <4>3. CASE TheEvent.event \notin {"done", "data_offer"}
        <5>1. ObjectsInv'
          BY <4>3, PlainEventObjects
        <5>2. toBridge' = toBridge \o (IF Judgement.forwarded THEN <<TheMessage>> ELSE <<>>) \o <<>>
          BY <4>3, EventIs
        <5>3. CASE Judgement.forwarded
          <6>1. toBridge' = Append(toBridge, TheMessage)
            BY <1>1, <3>1, <3>4, <5>2, <5>3, Joined, ConcatNone
          <6>2. QED
            BY <3>4, <5>1, <6>1
        <5>4. CASE ~Judgement.forwarded
          <6>1. toBridge' = toBridge
            BY <1>1, <5>2, <5>4, ConcatNone
          <6>2. QED
            BY <3>2, <3>3, <5>1, <6>1
        <5>5. QED
          BY <5>3, <5>4
      <4>4. QED
        BY <4>1, <4>2, <4>3
    <3>6. Follows(TheEvent, focus, toBridge, bOn, bDown, focus, toBridge', bOn, bDown)
      BY <3>1, <3>5, QuietFollows
    <3>7. QED
      BY <3>1, <3>5, <3>6
  <2>3. QED
    BY <2>1, <2>2
<1>3. /\ Sensed(Tail(events), focus', toBridge', bOn, bDown)
      /\ Resting(on, down, Tail(events), focus', toBridge', bOn, bDown)
  <2>1. \A i \in 1..Len(events) : events[i].event \in {"touch_motion", "up"} => events[i].k \in Points
    BY <1>1, HeadIs
  <2>2. Follows(Head(events), focus, toBridge, bOn, bDown, focus', toBridge', bOn, bDown)
    BY <1>1, <1>2
  <2>3. /\ Sensed(events, focus, toBridge, bOn, bDown)
        /\ Resting(on, down, events, focus, toBridge, bOn, bDown)
    BY <1>1 DEF InputInv
  <2>4. QED
    BY <1>1, <2>1, <2>2, <2>3, SensedTail
<1>4. QED
  BY <1>1, <1>2, <1>3 DEF Inv, InputInv

-----------------------------------------------------------------------------
\* What the bridge has of the input once it has read a message is what Reads says.
LEMMA BridgeReadsInput ==
  ASSUME Inv, BridgeReads
  PROVE  InputInv' /\ bOn' \in BOOLEAN /\ bDown' \subseteq Points /\ bFrame' \subseteq Devices
<1> DEFINE m == Head(toBridge)
<1>1. /\ Types /\ InputInv /\ toBridge # <<>> /\ toBridge \in Seq(AMessage) /\ events \in Seq(AnEvent)
      /\ bOn \in BOOLEAN /\ bDown \subseteq Points /\ bFrame \subseteq Devices
      /\ on \in Nat /\ down \in [Points -> Nat]
  BY DEF Inv, ObjectsInv, Types, BridgeReads
<1>2. m \in AMessage /\ Len(toBridge) \in Nat /\ Len(toBridge) >= 1 /\ Len(Tail(toBridge)) = Len(toBridge) - 1
  BY <1>1, Taken
<1>3. /\ bOn' = (CASE m.event = "enter" -> TRUE [] m.event = "leave" -> FALSE [] OTHER -> bOn)
      /\ bDown' = (bDown \cup {p \in Points : (m.event = "down" /\ m.k = p)})
                  \ {p \in Points : (m.event = "up" /\ m.k = p)}
      /\ bFrame' = IF 0 - m.id \notin Devices THEN bFrame
                   ELSE IF m.event = "frame" THEN bFrame \ {0 - m.id} ELSE bFrame \cup {0 - m.id}
      /\ toBridge' = Tail(toBridge)
      /\ UNCHANGED <<focus, on, down, events>>
  BY DEF BridgeReads, Devices, proxyVars, compVars
<1>4. \A d \in Devices : m.id = FixedId(d) <=> 0 - m.id = d
  BY <1>2, FixedIs DEF AMessage, FixedId
<1>5. bOn' \in BOOLEAN /\ bDown' \subseteq Points /\ bFrame' \subseteq Devices
  BY <1>1, <1>3
<1> HIDE DEF m
<1>6. Reads(m, bOn, bDown, bFrame, bOn', bDown', bFrame')
  <2>1. m \in Enter \/ (bOn /\ m \notin Leave) => bOn'
    BY <1>2, <1>3 DEF Enter, Leave
  <2>2. \A p \in Points : m \in Down(p) \/ (p \in bDown /\ m \notin Up(p)) => p \in bDown'
    BY <1>2, <1>3 DEF Down, Up
  <2>3. \A d \in Devices : m \in Other(d) \/ (d \in bFrame /\ m \notin Frame(d)) => d \in bFrame'
    <3>1. SUFFICES ASSUME NEW d \in Devices, m \in Other(d) \/ (d \in bFrame /\ m \notin Frame(d))
                   PROVE  d \in bFrame'
      OBVIOUS
    <3>2. CASE 0 - m.id = d
      <4>1. m.event # "frame"
        BY <1>2, <1>4, <3>1, <3>2 DEF Other, Frame
      <4>2. QED
        BY <1>3, <3>2, <4>1
    <3>3. CASE 0 - m.id # d
      <4>1. d \in bFrame
        BY <1>4, <3>1, <3>3 DEF Other
      <4>2. QED
        BY <1>3, <3>3, <4>1
    <3>4. QED
      BY <3>2, <3>3
  <2>4. QED
    BY <2>1, <2>2, <2>3 DEF Reads
<1>7. Reads(Head(toBridge), bOn, bDown, bFrame, bOn', bDown', bFrame')
  BY <1>6 DEF m
<1>8. Heard(toBridge', bOn', bDown', bFrame') /\ Owed(focus, toBridge', bFrame')
  BY <1>1, <1>3, <1>7, HeardTail, OwedTail DEF InputInv
<1>9. KeptOn(focus, toBridge, bOn, bDown, focus, toBridge', bOn', bDown')
  <2>1. Len(toBridge) \in 1..Len(toBridge) /\ Len(Tail(toBridge)) + 1 = Len(toBridge)
    BY <1>2
  <2>2. /\ OnAt(toBridge, bOn, Len(toBridge) + 1) => OnAt(Tail(toBridge), bOn', Len(toBridge))
        /\ \A p \in Points :
             DownAt(p, toBridge, bDown, Len(toBridge) + 1) => DownAt(p, Tail(toBridge), bDown', Len(toBridge))
    BY <1>1, <1>7, <2>1, AtTail
  <2>3. /\ OnAt(toBridge, bOn, Len(toBridge) + 1) => OnAt(toBridge', bOn', Len(toBridge') + 1)
        /\ \A p \in Points :
             DownAt(p, toBridge, bDown, Len(toBridge) + 1) => DownAt(p, toBridge', bDown', Len(toBridge') + 1)
    BY <1>3, <2>1, <2>2
  <2>4. QED
    BY <2>3 DEF KeptOn, PointerKept, PointKept
<1>10. Sensed(events, focus, toBridge', bOn', bDown') /\ Resting(on, down, events, focus, toBridge', bOn', bDown')
  <2>1. \A i \in 1..Len(events) : events[i].event \in {"touch_motion", "up"} => events[i].k \in Points
    BY HeadIs, <1>1
  <2>2. Sensed(events, focus, toBridge, bOn, bDown) /\ Resting(on, down, events, focus, toBridge, bOn, bDown)
    BY <1>1 DEF InputInv
  <2>3. QED
    BY <1>1, <1>9, <2>1, <2>2, SensedMoved
<1>11. QED
  BY <1>3, <1>5, <1>8, <1>10 DEF InputInv

\* The objects agree once the bridge has read a message: an id that is free, one of the
\* proxy's that is now the bridge's too, or one the bridge has done with.
LEMMA BridgeReadsObjects ==
  ASSUME Inv, BridgeReads
  PROVE  ObjectsInv'
<1> DEFINE m == Head(toBridge)
           q == Tail(toBridge)
<1>1. /\ Types /\ toBridge # <<>> /\ toBridge \in Seq(AMessage)
      /\ MessagesOK(toBridge, objects, bridge, forward) /\ Closed(toBridge)
      /\ Below(objects, bridge, forward, Fresh, nextServerId) /\ FixedKept(objects, bridge, forward)
      /\ CompOK(comp, objects, forward, Fresh) /\ Agree(objects, bridge, toBridge)
      /\ EventsOK(events, objects, forward, Fresh)
  BY DEF Inv, ObjectsInv, Types, BridgeReads
<1>2. m \in AMessage /\ q \in Seq(AMessage) /\ \A i \in 1..Len(q) : q[i] \in AMessage
  BY <1>1, Taken
<1>3. /\ MessagesOK(q, objects, bridge, forward) /\ MessageOK(m, objects, bridge, forward)
      /\ \A i \in 1..Len(q) : Apart(m, q[i])
  BY <1>1, MessagesTail
<1>4. Closed(q) /\ (m.event = "done" => Freed(q, m.id))
  BY <1>1, ClosedTail
<1>5. \A x : Freed(toBridge, x) /\ ~Frees(m, x) => Freed(q, x)
  BY <1>1, FreedTail
<1>6. \A x : Freed(q, x) => x \notin DOMAIN objects
  BY <1>3 DEF Freed, Frees, MessagesOK, MessageOK
<1>7. /\ bridge' = (CASE m.event = "delete_id"  -> Drop(bridge, m.id)
                     [] m.event = "data_offer" ->
                          Put(bridge, m.arg, [up |-> CHOOSE o \in DOMAIN forward : forward[o] = m.arg,
                                              iface |-> "offer", live |-> TRUE])
                     [] m.event = "done" /\ m.id \in DOMAIN bridge -> [bridge EXCEPT ![m.id].live = FALSE]
                     [] OTHER -> bridge)
      /\ toBridge' = q
      /\ UNCHANGED <<objects, forward, nextServerId, failed, comp, on, down, made, focus, events>>
  BY DEF BridgeReads, proxyVars, compVars
<1>8. bOn' \in BOOLEAN /\ bDown' \subseteq Points /\ bFrame' \subseteq Devices
  BY BridgeReadsInput
<1>9. Fresh' = Fresh
  BY <1>7 DEF Fresh
<1>10. \A x \in DOMAIN bridge : bridge[x] \in [up : Nat, iface : Ifaces, live : BOOLEAN]
  <2>1. bridge \in [DOMAIN bridge -> [up : Nat, iface : Ifaces, live : BOOLEAN]]
    BY <1>1 DEF Types, Typed
  <2>2. QED
    BY <2>1
<1> DEFINE Suits(br) ==
             /\ br \in [DOMAIN br -> [up : Nat, iface : Ifaces, live : BOOLEAN]]
             /\ Below(objects, br, forward, Fresh, nextServerId) /\ FixedKept(objects, br, forward)
             /\ Agree(objects, br, q) /\ MessagesOK(q, objects, br, forward)
<1> HIDE DEF m, q
<1>11. ASSUME m.event = "delete_id"
       PROVE  Suits(bridge')
  <2>1. bridge' = Drop(bridge, m.id) /\ m.id \in Ids /\ m.id \in DOMAIN bridge /\ m.id \notin DOMAIN objects
    BY <1>3, <1>7, <1>11 DEF MessageOK
  <2>2. /\ DOMAIN bridge' = DOMAIN bridge \ {m.id} /\ \A x \in DOMAIN bridge : x # m.id => bridge'[x] = bridge[x]
        /\ bridge' \in [DOMAIN bridge' -> [up : Nat, iface : Ifaces, live : BOOLEAN]]
    <3>1. Drop(bridge, m.id) \in [DOMAIN Drop(bridge, m.id) -> [up : Nat, iface : Ifaces, live : BOOLEAN]]
      BY <1>10, DropIs
    <3>2. /\ DOMAIN Drop(bridge, m.id) = DOMAIN bridge \ {m.id}
          /\ \A x \in DOMAIN bridge : x # m.id => Drop(bridge, m.id)[x] = bridge[x]
      BY DropIs
    <3>3. bridge' = Drop(bridge, m.id)
      BY <2>1
    <3>4. QED
      BY <3>1, <3>2, <3>3
  <2>3. Below(objects, bridge', forward, Fresh, nextServerId)
    BY <1>1, <2>2 DEF Below
  <2>4. FixedKept(objects, bridge', forward)
    <3>1. \A o \in Fixed : FixedId(o) # m.id
      BY <2>1, FixedIs
    <3>2. QED
      BY <1>1, <2>2, <3>1 DEF FixedKept
  <2>5. Agree(objects, bridge', q)
    <3>1. \A x : x # m.id => ~Frees(m, x)
      BY DEF Frees
    <3>2. \A x \in DOMAIN objects : x \in Ids =>
            /\ x \in DOMAIN bridge' /\ bridge'[x].live
            /\ bridge'[x].up = objects[x].up /\ bridge'[x].iface = objects[x].iface
      BY <1>1, <2>1, <2>2 DEF Agree
    <3>3. \A x \in DOMAIN bridge' : x \notin DOMAIN objects =>
            x \in Ids /\ (bridge'[x].live => bridge'[x].iface = "callback") /\ Freed(q, x)
      BY <1>1, <1>5, <2>2, <3>1 DEF Agree
    <3>4. QED
      BY <3>2, <3>3 DEF Agree
  <2>6. MessagesOK(q, objects, bridge', forward)
    <3>1. ASSUME NEW x, MessageOK(x, objects, bridge, forward), ~About(x, m.id)
          PROVE  MessageOK(x, objects, bridge', forward)
      BY <2>2, <3>1 DEF MessageOK, About
    <3>2. \A i \in 1..Len(q) : ~About(q[i], m.id)
      BY <1>3, <1>11 DEF Apart
    <3>3. \A i \in 1..Len(q) : MessageOK(q[i], objects, bridge, forward) => MessageOK(q[i], objects, bridge', forward)
      BY <3>1, <3>2
    <3>4. QED
      BY <1>3, <3>3, MessagesMoved
  <2>7. QED
    BY <2>2, <2>3, <2>4, <2>5, <2>6
<1>12. ASSUME m.event = "data_offer"
       PROVE  Suits(bridge')
  <2>1. /\ m.arg \in DOMAIN objects /\ m.arg \notin DOMAIN bridge /\ m.arg >= Start
        /\ \E o \in DOMAIN forward : forward[o] = m.arg
    BY <1>3, <1>12 DEF MessageOK
  <2>2. PICK o \in DOMAIN forward : bridge' = Put(bridge, m.arg, [up |-> o, iface |-> "offer", live |-> TRUE])
    BY <1>7, <1>12, <2>1
  <2>3. m.arg \in Int /\ m.arg < nextServerId /\ m.arg \notin Ids /\ o \in Nat
    <3>1. m.arg \in Int /\ m.arg < nextServerId /\ o \in Nat
      BY <1>1, <2>1 DEF Below
    <3>2. QED
      BY <2>1, <3>1, IdsBelow
  <2> DEFINE B == [up |-> o, iface |-> "offer", live |-> TRUE]
  <2>4. B \in [up : Nat, iface : Ifaces, live : BOOLEAN]
    BY <2>3 DEF Ifaces
  <2> HIDE DEF B
  <2>5. bridge' = Put(bridge, m.arg, B)
    BY <2>2 DEF B
  <2>6. /\ DOMAIN bridge' = DOMAIN bridge \cup {m.arg} /\ \A x \in DOMAIN bridge : bridge'[x] = bridge[x]
        /\ bridge' \in [DOMAIN bridge' -> [up : Nat, iface : Ifaces, live : BOOLEAN]]
    <3>1. Put(bridge, m.arg, B) \in [DOMAIN Put(bridge, m.arg, B) -> [up : Nat, iface : Ifaces, live : BOOLEAN]]
      BY <1>10, <2>4, PutTyped
    <3>2. QED
      BY <2>1, <2>5, <3>1 DEF Put
  <2>7. Below(objects, bridge', forward, Fresh, nextServerId)
    BY <1>1, <2>3, <2>6 DEF Below
  <2>8. FixedKept(objects, bridge', forward)
    BY <1>1, <2>6 DEF FixedKept
  <2>9. Agree(objects, bridge', q)
    <3>1. \A x : ~Frees(m, x)
      BY <1>12 DEF Frees
    <3>2. QED
      BY <1>1, <1>5, <2>1, <2>3, <2>6, <3>1 DEF Agree
  <2>10. MessagesOK(q, objects, bridge', forward)
    <3>1. ASSUME NEW x, MessageOK(x, objects, bridge, forward), x.event = "data_offer" => x.arg # m.arg
          PROVE  MessageOK(x, objects, bridge', forward)
      BY <2>6, <3>1 DEF MessageOK
    <3>2. \A i \in 1..Len(q) : q[i].event = "data_offer" => q[i].arg # m.arg
      BY <1>3, <1>12 DEF Apart
    <3>3. \A i \in 1..Len(q) : MessageOK(q[i], objects, bridge, forward) => MessageOK(q[i], objects, bridge', forward)
      BY <3>1, <3>2
    <3>4. QED
      BY <1>3, <3>3, MessagesMoved
  <2>11. QED
    BY <2>6, <2>7, <2>8, <2>9, <2>10
<1>13. ASSUME m.event = "done"
       PROVE  Suits(bridge')
  <2>1. m.id \in Ids /\ m.id \in DOMAIN bridge /\ m.id \notin DOMAIN objects
    BY <1>3, <1>4, <1>6, <1>13 DEF MessageOK
  <2>2. bridge' = [bridge EXCEPT ![m.id].live = FALSE]
    BY <1>7, <1>13, <2>1
  <2>3. /\ DOMAIN bridge' = DOMAIN bridge /\ ~bridge'[m.id].live
        /\ \A x \in DOMAIN bridge : bridge'[x].up = bridge[x].up
        /\ \A x \in DOMAIN bridge : x # m.id => bridge'[x] = bridge[x]
        /\ bridge' \in [DOMAIN bridge' -> [up : Nat, iface : Ifaces, live : BOOLEAN]]
    BY <1>10, <2>1, <2>2
  <2>4. Below(objects, bridge', forward, Fresh, nextServerId)
    BY <1>1, <2>3 DEF Below
  <2>5. FixedKept(objects, bridge', forward)
    BY <1>1, <2>3 DEF FixedKept
  <2>6. Agree(objects, bridge', q)
    <3>1. \A x : ~Frees(m, x)
      BY <1>13 DEF Frees
    <3>2. QED
      BY <1>1, <1>5, <2>1, <2>3, <3>1 DEF Agree
  <2>7. MessagesOK(q, objects, bridge', forward)
    <3>1. \A x : MessageOK(x, objects, bridge, forward) => MessageOK(x, objects, bridge', forward)
      BY <2>3 DEF MessageOK
    <3>2. QED
      BY <1>3, <3>1, MessagesMoved
  <2>8. QED
    BY <2>3, <2>4, <2>5, <2>6, <2>7
<1>14. ASSUME m.event \notin {"delete_id", "data_offer", "done"}
       PROVE  Suits(bridge')
  <2>1. bridge' = bridge
    BY <1>7, <1>14
  <2>2. \A x : ~Frees(m, x)
    BY <1>14 DEF Frees
  <2>3. Agree(objects, bridge, q)
    BY <1>1, <1>5, <2>2 DEF Agree
  <2>4. bridge \in [DOMAIN bridge -> [up : Nat, iface : Ifaces, live : BOOLEAN]]
    BY <1>1 DEF Types, Typed
  <2>5. Suits(bridge)
    BY <1>1, <1>3, <2>3, <2>4
  <2>6. QED
    BY <2>1, <2>5
<1>15. Suits(bridge')
  BY <1>11, <1>12, <1>13, <1>14
<1>16. Types'
  BY <1>1, <1>2, <1>7, <1>8, <1>15 DEF Types, Typed
<1>17. QED
  BY <1>1, <1>4, <1>7, <1>9, <1>15, <1>16 DEF ObjectsInv

\* The bridge reads a message.
LEMMA BridgeReadsKeeps ==
  ASSUME Inv, BridgeReads
  PROVE  Inv'
  BY BridgeReadsInput, BridgeReadsObjects DEF Inv

\* The bridge binds a global, or ends the proxy by binding one that is withdrawn.
LEMMA BindKeeps ==
  ASSUME Inv, NEW id, NEW g, Bind(id, g)
  PROVE  Inv'
<1>1. CASE g \in globals
  BY <1>1, NewKeeps DEF Bind, Ifaces
<1>2. CASE g \notin globals
  <2>1. /\ failed' = "global"
        /\ UNCHANGED <<objects, nextServerId, forward, focus, comp, on, down, made, events, toBridge,
                       bridge, bOn, bDown, bFrame>>
    BY <1>2 DEF Bind, compVars, bridgeVars
  <2>2. Fresh' = Fresh
    BY <2>1 DEF Fresh
  <2>3. InputInv'
    BY <2>1, InputStays DEF Inv
  <2>4. Types'
    BY <2>1 DEF Inv, ObjectsInv, Types, Typed
  <2>5. QED
    BY <2>1, <2>2, <2>3, <2>4 DEF Inv, ObjectsInv
<1>3. QED
  BY <1>1, <1>2

\* Nothing changes.
LEMMA StutterKeeps ==
  ASSUME Inv, UNCHANGED vars
  PROVE  Inv'
<1>1. UNCHANGED <<objects, nextServerId, forward, focus, failed, comp, on, down, made, events, toBridge,
                  bridge, bOn, bDown, bFrame>>
  BY DEF vars, proxyVars, compVars, bridgeVars
<1>2. Fresh' = Fresh
  BY <1>1 DEF Fresh
<1>3. InputInv'
  BY <1>1, InputStays DEF Inv
<1>4. Types'
  BY <1>1 DEF Inv, ObjectsInv, Types, Typed
<1>5. QED
  BY <1>1, <1>2, <1>3, <1>4 DEF Inv, ObjectsInv

\* Every step of the bridge, the proxy and the compositor keeps the invariant.
LEMMA NextKeeps ==
  ASSUME Inv, Next
  PROVE  Inv'
<1>1. CASE \E id \in 1..NumIds : DisplayRequest(id) \/ ForwardNew(id)
  BY <1>1, NewKeeps DEF DisplayRequest, ForwardNew, Ifaces
<1>2. CASE \E id \in 1..NumIds, g \in Globals : Bind(id, g)
  BY <1>2, BindKeeps
<1>3. CASE \E id \in 1..(NumIds + MaxServer) : ForwardDestructor(id)
  BY <1>3, DestroyedKeeps
<1>4. CASE \/ \E o \in Objects : CallbackDone(o)
           \/ \E s, o \in Objects : SurfaceEnters(s, o)
           \/ DataOffer
  BY <1>4, CallbackDoneKeeps, SurfaceEntersKeeps, DataOfferKeeps
<1>5. CASE (\E s \in Objects \cup {Bar} : PointerEnters(s)) \/ PointerMoves \/ PointerLeaves
  BY <1>5, PointerActsKeep
<1>6. CASE \/ \E s \in Objects \cup {Bar}, p \in Points : TouchDown(s, p)
           \/ \E p \in Points : TouchMoves(p) \/ TouchUp(p)
  BY <1>6, TouchActsKeep
<1>7. CASE \/ \E d \in {Pointer, Touch} : DeviceFrame(d)
           \/ \E g \in Globals : Advertise(g) \/ Withdraw(g)
  BY <1>7, PlainActsKeep DEF Devices
<1>8. CASE EventDiscarded \/ EventIdsGone \/ Event
  BY <1>8, DiscardedKeeps, IdsGoneKeeps, EventKeeps
<1>9. CASE BridgeReads
  BY <1>9, BridgeReadsKeeps
<1>10. QED
  BY <1>1, <1>2, <1>3, <1>4, <1>5, <1>6, <1>7, <1>8, <1>9 DEF Next

\* The objects there from the start are all there are, and nothing is under way.
LEMMA InitHolds ==
  ASSUME Init
  PROVE  Inv
<1> DEFINE F == {FixedId(o) : o \in Fixed}
<1>1. /\ objects = [i \in F |-> [up |-> 0 - i, iface |-> "fixed"]]
      /\ bridge = [i \in F |-> [up |-> 0 - i, iface |-> "fixed", live |-> TRUE]]
      /\ forward = [o \in Fixed |-> FixedId(o)]
      /\ comp = [o \in Fixed \cup {Bar} |-> IF o = Bar THEN "surface" ELSE "fixed"]
      /\ focus = [d \in Devices |-> NoFocus]
      /\ nextServerId = Start /\ made = 0 /\ failed = "no"
      /\ on = None /\ down = [p \in Points |-> None] /\ events = <<>> /\ toBridge = <<>>
      /\ bOn = FALSE /\ bDown = {} /\ bFrame = {}
  BY DEF Init, Devices
<1>2. /\ \A i \in F : i \in Int /\ i < 0 /\ i \notin Ids /\ 0 - i \in Nat /\ 0 - i < 6
      /\ \A o \in Fixed : FixedId(o) \in F /\ 0 - FixedId(o) = o
  <2>1. \A o \in Fixed : FixedId(o) \in F
    OBVIOUS
  <2>2. \A o \in Fixed : o \in Nat /\ o < 6 /\ FixedId(o) = 0 - o /\ 0 - (0 - o) = o
    BY FixedIs DEF FixedId
  <2>3. \A o \in Fixed : FixedId(o) \in Int /\ FixedId(o) < 0 /\ FixedId(o) \notin Ids
    BY FixedIs
  <2>4. \A i \in F : \E o \in Fixed : i = FixedId(o)
    OBVIOUS
  <2> HIDE DEF F
  <2>5. QED
    BY <2>1, <2>2, <2>3, <2>4
<1>3. Start \in Nat /\ Start >= 1 /\ Fresh = 6
  BY <1>1, ProxyAssumption DEF Start, Fresh
<1> HIDE DEF F
<1>4. Typed(objects, bridge, forward)
  <2>1. objects \in [F -> [up : Nat, iface : Ifaces]] /\ DOMAIN objects = F
    BY <1>1, <1>2 DEF Ifaces
  <2>2. bridge \in [F -> [up : Nat, iface : Ifaces, live : BOOLEAN]] /\ DOMAIN bridge = F
    BY <1>1, <1>2 DEF Ifaces
  <2>3. forward \in [Fixed -> Int] /\ DOMAIN forward = Fixed
    BY <1>1, FixedIs
  <2>4. QED
    BY <2>1, <2>2, <2>3 DEF Typed
<1>5. Types
  <2>1. NoFocus \in [hidden : BOOLEAN, pending : BOOLEAN, touches : SUBSET Points]
    BY DEF NoFocus
  <2>2. focus \in AFocus
    BY <1>1, <2>1 DEF AFocus
  <2>3. on \in Nat /\ down \in [Points -> Nat]
    BY <1>1, FixedIs
  <2>4. events \in Seq(AnEvent) /\ toBridge \in Seq(AMessage)
    BY <1>1
  <2>5. QED
    BY <1>1, <1>3, <1>4, <2>2, <2>3, <2>4 DEF Types
<1>6. Below(objects, bridge, forward, Fresh, nextServerId)
  <2>1. \A id \in DOMAIN objects : id \in Int /\ id < nextServerId /\ objects[id].up < Fresh
    BY <1>1, <1>2, <1>3
  <2>2. \A id \in DOMAIN bridge : id \in Int /\ id < nextServerId
    BY <1>1, <1>2, <1>3
  <2>3. \A o \in DOMAIN forward : o \in Nat /\ o > Bar /\ o < Fresh
    BY <1>1, <1>3, FixedIs
  <2>4. QED
    BY <1>1, <1>3, <2>1, <2>2, <2>3 DEF Below
<1>7. FixedKept(objects, bridge, forward)
  BY <1>1, <1>2 DEF FixedKept
<1>8. Agree(objects, bridge, toBridge)
  BY <1>1, <1>2 DEF Agree
<1>9. CompOK(comp, objects, forward, Fresh)
  <2>1. \A o \in Fixed \cup {Bar} : o \in Nat /\ 0 < o /\ o < Fresh
    BY <1>3, FixedIs
  <2>2. QED
    BY <1>1, <2>1 DEF CompOK, Ifaces
<1>10. Len(events) = 0 /\ Len(toBridge) = 0
  BY <1>1
<1>11. EventsOK(events, objects, forward, Fresh) /\ MessagesOK(toBridge, objects, bridge, forward) /\ Closed(toBridge)
  BY <1>10 DEF EventsOK, MessagesOK, Closed
<1>12. InputInv
  <2>1. \A d \in Devices : ~focus[d].pending
    BY <1>1 DEF NoFocus
  <2>2. \A p \in Points : down[p] = None
    BY <1>1
  <2>3. QED
    BY <1>1, <1>10, <2>1, <2>2 DEF InputInv, Heard, Owed, Sensed, Resting
<1>13. QED
  BY <1>5, <1>6, <1>7, <1>8, <1>9, <1>11, <1>12 DEF Inv, ObjectsInv

\* The invariant holds throughout.
THEOREM InvHolds == Spec => []Inv
<1>1. Init => Inv
  BY InitHolds
<1>2. Inv /\ [Next]_vars => Inv'
  BY NextKeeps, StutterKeeps
<1>3. QED
  BY <1>1, <1>2, PTL DEF Spec

-----------------------------------------------------------------------------
\* The first of the messages.
LEMMA FirstIs ==
  ASSUME Inv, Heading
  PROVE  /\ toBridge # <<>> /\ Head(toBridge).event # "delete_id" /\ Head(toBridge) \in AMessage
         /\ MessageOK(Head(toBridge), objects, bridge, forward)
         /\ Sense(Head(toBridge), toBridge, bOn, bDown, bFrame, 1)
<1>1. toBridge \in Seq(AMessage) /\ toBridge # <<>> /\ Head(toBridge).event # "delete_id"
  BY DEF Inv, ObjectsInv, Types, Heading
<1>2. Head(toBridge) = toBridge[1] /\ 1 \in 1..Len(toBridge) /\ Head(toBridge) \in AMessage
  BY <1>1, Taken
<1>3. MessageOK(toBridge[1], objects, bridge, forward)
  BY <1>2 DEF Inv, ObjectsInv, MessagesOK
<1>4. Sense(toBridge[1], toBridge, bOn, bDown, bFrame, 1)
  BY <1>2 DEF Inv, InputInv, Heard
<1>5. QED
  BY <1>1, <1>2, <1>3, <1>4

\* An event reaches the object it was sent for: Proxy::event, the id looked up in the map.
LEMMA OwnersReached ==
  ASSUME Inv
  PROVE  EventsReachOwner
  BY FirstIs DEF EventsReachOwner, MessageOK

\* The places of a queue.
LEMMA Places ==
  ASSUME NEW S, NEW q \in Seq(S)
  PROVE  DOMAIN q = 1..Len(q) /\ Len(q) \in Nat
  OBVIOUS

\* The ids agree: one that is freed is freed once, and an object of one side is the other's.
LEMMA IdsAgreeHolds ==
  ASSUME Inv
  PROVE  IdsAgree
<1>1. /\ failed \in {"no", "global", "server ids"} /\ toBridge \in Seq(AMessage)
      /\ Agree(objects, bridge, toBridge) /\ MessagesOK(toBridge, objects, bridge, forward)
  BY DEF Inv, ObjectsInv, Types
<1>2. \A id \in DOMAIN bridge : Usable(id) => id \in DOMAIN objects
  BY UsableHeld
<1>3. DOMAIN toBridge = 1..Len(toBridge) /\ Len(toBridge) \in Nat
  BY <1>1, Places
<1>4. ASSUME NEW id \in 1..NumIds
      PROVE  LET freed == {i \in DOMAIN toBridge : toBridge[i].event = "delete_id" /\ toBridge[i].id = id} IN
             /\ Cardinality(freed) <= 1
             /\ id \in DOMAIN objects => id \in DOMAIN bridge /\ bridge[id].live /\ freed = {}
             /\ id \in DOMAIN bridge \ DOMAIN objects => freed # {}
  <2> DEFINE freed == {i \in DOMAIN toBridge : toBridge[i].event = "delete_id" /\ toBridge[i].id = id}
  <2>1. \A i, j \in freed : i = j
    <3>1. ASSUME NEW i \in freed, NEW j \in freed, i < j
          PROVE  FALSE
      BY <1>1, <1>3, <3>1 DEF MessagesOK, Apart, About
    <3>2. \A i, j \in freed : i \in Int /\ j \in Int
      BY <1>3
    <3>3. \A i, j \in Int : i < j \/ j < i \/ i = j
      OBVIOUS
    <3>4. QED
      BY <3>1, <3>2, <3>3
  <2>2. Cardinality(freed) <= 1
    <3>1. CASE freed = {}
      BY <3>1, FS_EmptySet
    <3>2. CASE freed # {}
      <4>1. PICK i \in freed : TRUE
        BY <3>2
      <4>2. freed = {i}
        BY <2>1, <4>1
      <4>3. QED
        BY <4>2, FS_Singleton
    <3>3. QED
      BY <3>1, <3>2
  <2>3. id \in DOMAIN objects => id \in DOMAIN bridge /\ bridge[id].live /\ freed = {}
    BY <1>1, <1>3, ZenonT(30) DEF Agree, Ids, MessagesOK, MessageOK
  <2>4. id \in DOMAIN bridge \ DOMAIN objects => freed # {}
    <3>1. ASSUME id \in DOMAIN bridge \ DOMAIN objects
          PROVE  \E i \in 1..Len(toBridge) : Frees(toBridge[i], id)
      BY <1>1, <3>1 DEF Agree, Freed
    <3>2. QED
      BY <1>3, <3>1 DEF Frees
  <2>5. QED
    BY <2>2, <2>3, <2>4
<1>5. QED
  BY <1>1, <1>2, <1>4 DEF IdsAgree

(* The bridge and the proxy have the same objects, for any number of ids, objects and        *)
(* events and however their destructions cross (ObjectMap, forward, on_delete_id).           *)
THEOREM ObjectsAgreeHolds == Spec => []ObjectsAgree
<1>1. Inv => ObjectsAgree
  BY OwnersReached, IdsAgreeHolds DEF ObjectsAgree
<1>2. QED
  BY <1>1, InvHolds, PTL

\* What the bridge is told of the input makes sense where it reads it.
LEMMA InputHidden ==
  ASSUME Inv
  PROVE  BarInputHidden
<1>1. SUFFICES ASSUME Heading
               PROVE  LET m == Head(toBridge) IN
                      /\ m.about # Bar
                      /\ m.event \in {"motion", "leave"} => bOn
                      /\ m.event = "frame" => (0 - m.id) \in bFrame
                      /\ \A p \in Points : m.event \in {"touch_motion", "up"} /\ m.k = p => p \in bDown
  BY DEF BarInputHidden
<1> DEFINE m == Head(toBridge)
<1>2. /\ m.event # "delete_id" /\ MessageOK(m, objects, bridge, forward)
      /\ Sense(m, toBridge, bOn, bDown, bFrame, 1)
  BY <1>1, FirstIs
<1> HIDE DEF m
<1>3. \A On, Off : ~Begun(toBridge, On, Off, 1)
  BY DEF Begun
<1>4. m.about # Bar
  BY <1>2 DEF MessageOK
<1>5. m.event \in {"motion", "leave"} => bOn
  BY <1>2, <1>3 DEF Sense, OnAt
<1>6. m.event = "frame" => (0 - m.id) \in bFrame
  <2>1. ASSUME m.event = "frame"
        PROVE  (0 - m.id) \in bFrame
    <3>1. PICK d \in Devices : m.id = FixedId(d) /\ d \in bFrame
      BY <1>2, <1>3, <2>1 DEF Sense, FrameAt
    <3>2. 0 - m.id = d
      BY <3>1, FixedIs DEF FixedId
    <3>3. QED
      BY <3>1, <3>2
  <2>2. QED
    BY <2>1
<1>7. \A p \in Points : m.event \in {"touch_motion", "up"} /\ m.k = p => p \in bDown
  BY <1>2, <1>3 DEF Sense, DownAt
<1>8. QED
  BY <1>4, <1>5, <1>6, <1>7 DEF m

(* No input on a title bar goes to the bridge, and what does makes sense by itself, however  *)
(* many surfaces and points come and go (Focus::pass, Proxy::event).                         *)
THEOREM BarInputHiddenHolds == Spec => []BarInputHidden
<1>1. Inv => BarInputHidden
  BY InputHidden
<1>2. QED
  BY <1>1, InvHolds, PTL
=============================================================================
