--------------------------- MODULE GatewayProofs ---------------------------
(***************************************************************************)
(* Proofs about what MCAnswers composes: Gateway, for any number and kinds  *)
(* of calls and any number of portal instances, and, in the last part,      *)
(* Activation, for any number of clients and of starts that systemd allows. *)
(***************************************************************************)
EXTENDS Gateway, Activation, TLAPS

\* Where a thread has a call in hand.
Holding == {"route", "check", "send", "handback", "reply"}

\* The types of what a call passes through.
Lists == queue \in [Thread -> Seq(Call \cup {Leaving})] /\ held \in Seq(Call) /\ batch \in Seq(Call)
Types ==
  /\ issued \in Nat
  /\ pending \subseteq Call
  /\ answers \in [Call -> Nat]
  /\ pc \in [Thread -> PC]
  /\ call \in [Thread -> Msg]
  /\ \A t \in Thread : pc[t] \in Holding => call[t] \in Call

\* x is in s; no call is in s twice.
Within(x, s) == \E i \in DOMAIN s : s[i] = x
Once(s) == \A i, j \in DOMAIN s : s[i] = s[j] /\ s[i] \in Call => i = j
OnceOK == Once(held) /\ Once(batch) /\ \A t \in Thread : Once(queue[t])

\* A call is in at most one place: still with the app, in the queue of its
\* reader, in the hands of one thread, held, in the batch of held calls that are
\* passed on, waiting for its reply, or answered.
Places == Thread \cup {"app", "queue", "held", "batch", "pending", "answered"}
Place(c, p) ==
  /\ c > issued => p = "app"
  /\ \A t \in Thread : Within(c, queue[t]) => p = "queue" /\ t = ReaderOf(c)
  /\ \A t \in Thread : pc[t] \in Holding /\ call[t] = c => p = t
  /\ Within(c, held) => p = "held"
  /\ Within(c, batch) => p = "batch"
  /\ c \in pending => p = "pending"
  /\ answers[c] # 0 => p = "answered"
  /\ answers[c] <= 1
PlacesOK == \A c \in Call : \E p \in Places : Place(c, p)

\* The inductive invariant.
Inv == Types /\ Lists /\ OnceOK /\ PlacesOK

-----------------------------------------------------------------------------
(* What is within a sequence that grows, shrinks or is put together.         *)

\* Appending adds one element.
LEMMA Appended ==
  ASSUME NEW S, NEW s \in Seq(S), NEW x \in S
  PROVE  /\ Append(s, x) \in Seq(S)
         /\ \A m : Within(m, Append(s, x)) <=> Within(m, s) \/ m = x
         /\ Once(s) /\ ~Within(x, s) => Once(Append(s, x))
  BY DEF Within, Once

\* Taking the first element leaves the others.
LEMMA Dropped ==
  ASSUME NEW S, NEW s \in Seq(S), s # <<>>
  PROVE  /\ Tail(s) \in Seq(S) /\ Head(s) \in S /\ Within(Head(s), s)
         /\ \A m : Within(m, Tail(s)) => Within(m, s)
         /\ Once(s) => Once(Tail(s)) /\ (Head(s) \in Call => ~Within(Head(s), Tail(s)))
<1>1. \A i \in DOMAIN Tail(s) : i + 1 \in DOMAIN s /\ Tail(s)[i] = s[i + 1] /\ i \in Nat /\ i + 1 # 1
  OBVIOUS
<1>2. 1 \in DOMAIN s /\ s[1] = Head(s)
  OBVIOUS
<1>3. Tail(s) \in Seq(S) /\ Head(s) \in S
  OBVIOUS
<1>4. Once(s) => Once(Tail(s))
  BY <1>1 DEF Once
<1>5. Once(s) /\ Head(s) \in Call => ~Within(Head(s), Tail(s))
  BY <1>1, <1>2 DEF Once, Within
<1>6. QED
  BY <1>1, <1>2, <1>3, <1>4, <1>5 DEF Within

\* Putting two sequences together.
LEMMA Joined ==
  ASSUME NEW S, NEW s \in Seq(S), NEW u \in Seq(S)
  PROVE  /\ s \o u \in Seq(S)
         /\ \A m : Within(m, s \o u) <=> Within(m, s) \/ Within(m, u)
         /\ Once(s) /\ Once(u) /\ (\A m \in Call : ~(Within(m, s) /\ Within(m, u))) => Once(s \o u)
<1>1. s \o u \in Seq(S) /\ DOMAIN (s \o u) = 1..(Len(s) + Len(u)) /\ Len(s) \in Nat /\ Len(u) \in Nat
      /\ DOMAIN s = 1..Len(s) /\ DOMAIN u = 1..Len(u)
  OBVIOUS
<1>2. \A i \in DOMAIN s : i \in DOMAIN (s \o u) /\ (s \o u)[i] = s[i]
  OBVIOUS
<1>3. \A i \in DOMAIN u : i + Len(s) \in DOMAIN (s \o u) /\ (s \o u)[i + Len(s)] = u[i]
  OBVIOUS
<1>4. \A i \in DOMAIN (s \o u) : i \in DOMAIN s \/ i - Len(s) \in DOMAIN u
  BY <1>1
<1>5. \A i \in DOMAIN (s \o u) : i \notin DOMAIN s => (s \o u)[i] = u[i - Len(s)]
  BY <1>1
<1>6. \A m : Within(m, s \o u) <=> Within(m, s) \/ Within(m, u)
  BY <1>1, <1>2, <1>3, <1>4, <1>5 DEF Within
<1>7. ASSUME Once(s), Once(u), \A m \in Call : ~(Within(m, s) /\ Within(m, u)) PROVE Once(s \o u)
  <2> SUFFICES ASSUME NEW i \in DOMAIN (s \o u), NEW j \in DOMAIN (s \o u),
                      (s \o u)[i] = (s \o u)[j], (s \o u)[i] \in Call
               PROVE  i = j
    BY DEF Once
  <2>1. CASE i \in DOMAIN s /\ j \in DOMAIN s
    BY <1>2, <1>7, <2>1 DEF Once
  <2>2. CASE i \notin DOMAIN s /\ j \notin DOMAIN s
    <3>1. i - Len(s) = j - Len(s)
      BY <1>4, <1>5, <1>7, <2>2 DEF Once
    <3>2. QED
      BY <1>1, <3>1
  <2>3. CASE i \in DOMAIN s /\ j \notin DOMAIN s
    BY <1>2, <1>4, <1>5, <1>7, <2>3 DEF Within
  <2>4. CASE i \notin DOMAIN s /\ j \in DOMAIN s
    BY <1>2, <1>4, <1>5, <1>7, <2>4 DEF Within
  <2>5. QED
    BY <2>1, <2>2, <2>3, <2>4
<1>8. QED
  BY <1>1, <1>6, <1>7

\* The empty sequence and a sequence of one.
LEMMA Short ==
  ASSUME NEW x
  PROVE  /\ Once(<<>>) /\ Once(<<x>>)
         /\ \A m : ~Within(m, <<>>) /\ (Within(m, <<x>>) <=> m = x)
  BY DEF Once, Within

-----------------------------------------------------------------------------
(* Steps that move no call.                                                  *)

\* The step brings the call c nowhere it was not.
Rests(c) ==
  /\ UNCHANGED <<kind, issued>>
  /\ \A t \in Thread : Within(c, queue'[t]) => Within(c, queue[t])
  /\ \A t \in Thread : pc'[t] \in Holding /\ call'[t] = c => pc[t] \in Holding /\ call[t] = c
  /\ Within(c, held') => Within(c, held)
  /\ Within(c, batch') => Within(c, batch)
  /\ c \in pending' => c \in pending
  /\ answers'[c] = answers[c]

\* Then it is where it was.
LEMMA Resting == ASSUME NEW c, NEW p, Place(c, p), Rests(c) PROVE Place(c, p)'
  BY DEF Place, Rests, ReaderOf

\* A step that moves no call keeps every call in one place.
LEMMA AllRest == ASSUME PlacesOK, \A c \in Call : Rests(c) PROVE PlacesOK'
  BY Resting DEF PlacesOK

\* Route: the call goes on, in the hands of its thread.
LEMMA RouteStep == ASSUME Inv, NEW t \in Thread, Route(t) PROVE Inv'
<1>1. Types' /\ Lists' /\ OnceOK'
  BY DEF Inv, Types, Lists, OnceOK, Route, Holding, PC, Thread, appVars, portalVars, clientVars
<1>2. \A c \in Call : Rests(c)
  BY DEF Inv, Types, Rests, Route, Holding, Thread, appVars, portalVars, clientVars
<1>3. QED
  BY <1>1, <1>2, AllRest DEF Inv

\* Permit: the call goes on, in the hands of its thread.
LEMMA PermitStep == ASSUME Inv, NEW t \in Thread, Permit(t) PROVE Inv'
<1>1. Types' /\ Lists' /\ OnceOK'
  BY DEF Inv, Types, Lists, OnceOK, Permit, Holding, PC, Thread, appVars, portalVars, clientVars
<1>2. \A c \in Call : Rests(c)
  BY DEF Inv, Types, Rests, Permit, Holding, Thread, appVars, portalVars, clientVars
<1>3. QED
  BY <1>1, <1>2, AllRest DEF Inv

\* CloseIfDone: the connection may be closed.
LEMMA CloseIfDoneStep == ASSUME Inv, NEW t \in Thread, CloseIfDone(t) PROVE Inv'
<1>1. Types' /\ Lists' /\ OnceOK'
  BY DEF Inv, Types, Lists, OnceOK, CloseIfDone, Holding, PC, Thread, appVars, portalVars,
     clientVars
<1>2. \A c \in Call : Rests(c)
  BY DEF Inv, Types, Rests, CloseIfDone, Holding, Thread, appVars, portalVars, clientVars
<1>3. QED
  BY <1>1, <1>2, AllRest DEF Inv

\* OwnerChanged: the owner of the portal's name changes.
LEMMA OwnerChangedStep == ASSUME Inv, OwnerChanged PROVE Inv'
<1>1. Types' /\ Lists' /\ OnceOK'
  BY DEF Inv, Types, Lists, OnceOK, OwnerChanged, Reads, Holding, PC, Thread, appVars, portalVars,
     clientVars
<1>2. \A c \in Call : Rests(c)
  BY DEF Inv, Types, Rests, OwnerChanged, Reads, Holding, Thread, appVars, portalVars, clientVars
<1>3. QED
  BY <1>1, <1>2, AllRest DEF Inv

\* EndOpenRequests: requests end.
LEMMA EndOpenRequestsStep == ASSUME Inv, EndOpenRequests PROVE Inv'
<1>1. Types' /\ Lists' /\ OnceOK'
  BY DEF Inv, Types, Lists, OnceOK, EndOpenRequests, Holding, PC, Thread, appVars, portalVars,
     clientVars
<1>2. \A c \in Call : Rests(c)
  BY DEF Inv, Types, Rests, EndOpenRequests, Holding, Thread, appVars, portalVars, clientVars
<1>3. QED
  BY <1>1, <1>2, AllRest DEF Inv

\* RelayResponse: a response is passed on.
LEMMA RelayResponseStep == ASSUME Inv, RelayResponse PROVE Inv'
<1>1. Types' /\ Lists' /\ OnceOK'
  BY DEF Inv, Types, Lists, OnceOK, RelayResponse, Reads, Holding, PC, Thread, appVars, portalVars,
     clientVars
<1>2. \A c \in Call : Rests(c)
  BY DEF Inv, Types, Rests, RelayResponse, Reads, Holding, Thread, appVars, portalVars, clientVars
<1>3. QED
  BY <1>1, <1>2, AllRest DEF Inv

\* Registered: the answer to Register is read.
LEMMA RegisteredStep == ASSUME Inv, Registered PROVE Inv'
<1>1. Types' /\ Lists' /\ OnceOK'
  BY DEF Inv, Types, Lists, OnceOK, Registered, Reads, Holding, PC, Thread, appVars, portalVars,
     clientVars
<1>2. \A c \in Call : Rests(c)
  BY DEF Inv, Types, Rests, Registered, Reads, Holding, Thread, appVars, portalVars, clientVars
<1>3. QED
  BY <1>1, <1>2, AllRest DEF Inv

\* BatchDone: the batch has been passed on.
LEMMA BatchDoneStep == ASSUME Inv, BatchDone PROVE Inv'
<1>1. Types' /\ Lists' /\ OnceOK'
  BY DEF Inv, Types, Lists, OnceOK, BatchDone, Holding, PC, Thread, appVars, portalVars, clientVars
<1>2. \A c \in Call : Rests(c)
  BY DEF Inv, Types, Rests, BatchDone, Holding, Thread, appVars, portalVars, clientVars
<1>3. QED
  BY <1>1, <1>2, AllRest DEF Inv

\* EndOfStream: the connection has ended.
LEMMA EndOfStreamStep == ASSUME Inv, EndOfStream PROVE Inv'
<1>1. Types' /\ Lists' /\ OnceOK'
  BY DEF Inv, Types, Lists, OnceOK, EndOfStream, Holding, PC, Thread, appVars, portalVars,
     clientVars
<1>2. \A c \in Call : Rests(c)
  BY DEF Inv, Types, Rests, EndOfStream, Holding, Thread, appVars, portalVars, clientVars
<1>3. QED
  BY <1>1, <1>2, AllRest DEF Inv

\* What the app, the bus, the portal and the set-up of the connection do leaves
\* calls alone.
Elsewhere ==
  \/ InstReplaced \/ HostCloses \/ SetUpUnidentified \/ SetUp \/ BusRoutes
  \/ (\E k \in Inst : InstExits(k)) \/ (\E m \in Msg : NoReply(m))
  \/ (\E m \in Msg, k \in 0..MaxInst, type \in {"ok", "err", "bad"} : Replies(m, k, type))
  \/ (\E c \in Call : Responds(c)) \/ UNCHANGED vars

\* None of them touches where calls are.
LEMMA ElsewhereStep == ASSUME Inv, Elsewhere PROVE Inv'
<1>1. UNCHANGED <<kind, issued, queue, answers, held, batch, pending, pc, call>>
  BY DEF Elsewhere, InstReplaced, HostCloses, SetUpUnidentified, SetUp, SetUpRegister, SetUpMatch,
     SetUpAsk,
     BusRoutes, InstExits, NoReply, Replies, Responds, vars, appVars, portalVars, clientVars, threadVars
<1>2. Types' /\ Lists' /\ OnceOK' /\ \A c \in Call : Rests(c)
  BY <1>1 DEF Inv, Types, Lists, OnceOK, Rests
<1>3. QED
  BY <1>2, AllRest DEF Inv

-----------------------------------------------------------------------------
(* Steps that move a call.                                                   *)

\* Refuse: the gateway answers the call itself.
LEMMA RefuseStep == ASSUME Inv, NEW t \in Thread, Refuse(t) PROVE Inv'
<1>1. pc[t] = "check" /\ call[t] \in Call
  BY DEF Inv, Types, Refuse, Holding
<1>2. Types'
  BY <1>1 DEF Inv, Types, Refuse, Answer, Returned, Holding, PC, Thread, appVars, portalVars,
     clientVars
<1>3. Lists' /\ OnceOK'
  BY DEF Inv, Lists, OnceOK, Refuse, Answer, Returned, appVars, portalVars, clientVars
<1>4. ASSUME NEW c \in Call, NEW p \in Places, Place(c, p) PROVE \E q \in Places : Place(c, q)'
  <2>1. CASE c = call[t]
    <3>1. Place(c, "answered")'
      BY <1>1, <1>4, <2>1 DEF Inv, Types, Place, ReaderOf, Refuse, Answer, Returned, Holding, PC,
         Thread, appVars, portalVars, clientVars
    <3>2. QED
      BY <3>1 DEF Places, Thread
  <2>2. CASE ~(c = call[t])
    <3>1. Rests(c)
      BY <1>1, <2>2 DEF Inv, Types, Rests, Refuse, Answer, Returned, Holding, PC, Thread, appVars,
         portalVars, clientVars
    <3>2. QED
      BY <1>4, <3>1, Resting
  <2>3. QED
    BY <2>1, <2>2
<1>5. QED
  BY <1>2, <1>3, <1>4 DEF Inv, PlacesOK

\* RegisterAgainFails: the call is answered with an error.
LEMMA RegisterAgainFailsStep == ASSUME Inv, NEW t \in Thread, RegisterAgainFails(t) PROVE Inv'
<1>1. pc[t] = "route" /\ call[t] \in Call
  BY DEF Inv, Types, RegisterAgainFails, ToPortal, Holding
<1>2. Types'
  BY <1>1 DEF Inv, Types, RegisterAgainFails, ToPortal, Answer, Returned, Holding, PC, Thread,
     appVars,
     portalVars, clientVars
<1>3. Lists' /\ OnceOK'
  BY DEF Inv, Lists, OnceOK, RegisterAgainFails, ToPortal, Answer, Returned, appVars, portalVars,
     clientVars
<1>4. ASSUME NEW c \in Call, NEW p \in Places, Place(c, p) PROVE \E q \in Places : Place(c, q)'
  <2>1. CASE c = call[t]
    <3>1. Place(c, "answered")'
      BY <1>1, <1>4, <2>1 DEF Inv, Types, Place, ReaderOf, RegisterAgainFails, ToPortal, Answer,
         Returned, Holding, PC, Thread, appVars, portalVars, clientVars
    <3>2. QED
      BY <3>1 DEF Places, Thread
  <2>2. CASE ~(c = call[t])
    <3>1. Rests(c)
      BY <1>1, <2>2 DEF Inv, Types, Rests, RegisterAgainFails, ToPortal, Answer, Returned,
         Holding, PC,
         Thread, appVars, portalVars, clientVars
    <3>2. QED
      BY <1>4, <3>1, Resting
  <2>3. QED
    BY <2>1, <2>2
<1>5. QED
  BY <1>2, <1>3, <1>4 DEF Inv, PlacesOK

\* Send: the call is sent, or answered with an error.
LEMMA SendStep == ASSUME Inv, NEW t \in Thread, Send(t) PROVE Inv'
<1>1. pc[t] = "send" /\ call[t] \in Call
  BY DEF Inv, Types, Send, Holding
<1>2. Types'
  BY <1>1 DEF Inv, Types, Send, Answer, Returned, Holding, PC, Thread, appVars, portalVars,
     clientVars
<1>3. Lists' /\ OnceOK'
  BY DEF Inv, Lists, OnceOK, Send, Answer, Returned, appVars, portalVars, clientVars
<1>4. ASSUME NEW c \in Call, NEW p \in Places, Place(c, p) PROVE \E q \in Places : Place(c, q)'
  <2>1. CASE c = call[t]
    <3>1. Place(c, IF open THEN "pending" ELSE "answered")'
      BY <1>1, <1>4, <2>1 DEF Inv, Types, Place, ReaderOf, Send, Answer, Returned, Holding, PC,
         Thread,
         appVars, portalVars, clientVars
    <3>2. QED
      BY <3>1 DEF Places, Thread
  <2>2. CASE ~(c = call[t])
    <3>1. Rests(c)
      BY <1>1, <2>2 DEF Inv, Types, Rests, Send, Answer, Returned, Holding, PC, Thread, appVars,
         portalVars, clientVars
    <3>2. QED
      BY <1>4, <3>1, Resting
  <2>3. QED
    BY <2>1, <2>2
<1>5. QED
  BY <1>2, <1>3, <1>4 DEF Inv, PlacesOK

\* PassReply: the reply goes to the app, unless it has left.
LEMMA PassReplyStep == ASSUME Inv, PassReply PROVE Inv'
<1>1. pc["host"] = "reply" /\ call["host"] \in Call
  BY DEF Inv, Types, PassReply, Holding, Thread
<1>2. Types'
  BY <1>1 DEF Inv, Types, PassReply, Answer, Holding, PC, Thread, appVars, portalVars, clientVars
<1>3. Lists' /\ OnceOK'
  BY DEF Inv, Lists, OnceOK, PassReply, Answer, appVars, portalVars, clientVars
<1>4. ASSUME NEW c \in Call, NEW p \in Places, Place(c, p) PROVE \E q \in Places : Place(c, q)'
  <2>1. CASE c = call["host"] /\ ~gone
    <3>1. Place(c, "answered")'
      BY <1>1, <1>4, <2>1 DEF Inv, Types, Place, ReaderOf, PassReply, Answer, Holding, PC, Thread,
         appVars, portalVars, clientVars
    <3>2. QED
      BY <3>1 DEF Places, Thread
  <2>2. CASE ~(c = call["host"] /\ ~gone)
    <3>1. Rests(c)
      BY <1>1, <2>2 DEF Inv, Types, Rests, PassReply, Answer, Holding, PC, Thread, appVars,
         portalVars,
         clientVars
    <3>2. QED
      BY <1>4, <3>1, Resting
  <2>3. QED
    BY <2>1, <2>2
<1>5. QED
  BY <1>2, <1>3, <1>4 DEF Inv, PlacesOK

\* RelayReply: a reply is taken for the call that waits for it.
LEMMA RelayReplyStep == ASSUME Inv, RelayReply PROVE Inv'
<1>1. pending \subseteq Msg
  BY GatewayAssumption DEF Inv, Types, Call, Msg
<1>2. Types'
  BY <1>1, SMTT(30) DEF Inv, Types, RelayReply, Reads, Holding, PC, Thread, appVars, portalVars, clientVars
<1>3. Lists' /\ OnceOK'
  BY DEF Inv, Lists, OnceOK, RelayReply, Reads, appVars, portalVars, clientVars
<1>4. ASSUME NEW c \in Call, NEW p \in Places, Place(c, p) PROVE \E q \in Places : Place(c, q)'
  <2>1. CASE c = Head(inbox).msg /\ c \in pending
    <3>1. Place(c, "host")'
      BY <1>1, <1>4, <2>1 DEF Inv, Types, Place, ReaderOf, RelayReply, Reads, Holding, PC, Thread,
         appVars, portalVars, clientVars
    <3>2. QED
      BY <3>1 DEF Places, Thread
  <2>2. CASE ~(c = Head(inbox).msg /\ c \in pending)
    <3>1. Rests(c)
      BY <1>1, <2>2 DEF Inv, Types, Rests, RelayReply, Reads, Holding, PC, Thread, appVars,
         portalVars,
         clientVars
    <3>2. QED
      BY <1>4, <3>1, Resting
  <2>3. QED
    BY <2>1, <2>2
<1>5. QED
  BY <1>2, <1>3, <1>4 DEF Inv, PlacesOK

\* FailPending: callers still waiting are told.
LEMMA FailPendingStep == ASSUME Inv, FailPending PROVE Inv'
<1>1. Types'
  BY DEF Inv, Types, FailPending, Answer, Holding, PC, Thread, appVars, portalVars, clientVars
<1>2. Lists' /\ OnceOK'
  BY DEF Inv, Lists, OnceOK, FailPending, Answer, appVars, portalVars, clientVars
<1>3. ASSUME NEW c \in Call, NEW p \in Places, Place(c, p) PROVE \E q \in Places : Place(c, q)'
  <2>1. CASE c \in pending /\ ~gone
    <3>1. Place(c, "answered")'
      BY <1>3, <2>1 DEF Inv, Types, Place, ReaderOf, FailPending, Answer, Holding, PC, Thread,
         appVars,
         portalVars, clientVars
    <3>2. QED
      BY <3>1 DEF Places, Thread
  <2>2. CASE ~(c \in pending /\ ~gone)
    <3>1. Rests(c)
      BY <2>2 DEF Inv, Types, Rests, FailPending, Answer, Holding, PC, Thread, appVars, portalVars,
         clientVars
    <3>2. QED
      BY <1>3, <3>1, Resting
  <2>3. QED
    BY <2>1, <2>2
<1>4. QED
  BY <1>1, <1>2, <1>3 DEF Inv, PlacesOK

\* Hold: the call waits behind those held.
LEMMA HoldStep == ASSUME Inv, NEW t \in Thread, Hold(t) PROVE Inv'
<1>1. call[t] \in Call /\ pc[t] = "route"
  BY DEF Inv, Types, Hold, ToPortal, Holding, Thread
<1>2. ~Within(call[t], held)
  <2>1. PICK p \in Places : Place(call[t], p)
    BY <1>1 DEF Inv, PlacesOK
  <2>2. QED
    BY <1>1, <2>1 DEF Place, Holding, Thread
<1>3. /\ held' \in Seq(Call) /\ Once(held')
      /\ \A m : Within(m, held') <=> Within(m, held) \/ m = call[t]
  BY <1>1, <1>2, Appended DEF Inv, Lists, OnceOK, Hold
<1>4. Types'
  BY <1>1, <1>2, <1>3 DEF Inv, Types, Hold, Holding, PC, Thread, appVars, portalVars, clientVars
<1>5. Lists' /\ OnceOK'
  BY <1>3 DEF Inv, Lists, OnceOK, Hold, appVars, portalVars, clientVars
<1>6. ASSUME NEW c \in Call, NEW p \in Places, Place(c, p) PROVE \E q \in Places : Place(c, q)'
  <2>1. CASE c = call[t]
    <3>1. Place(c, "held")'
      BY <1>1, <1>2, <1>3, <1>6, <2>1 DEF Inv, Types, Place, ReaderOf, Hold, Holding, PC, Thread,
         appVars, portalVars, clientVars
    <3>2. QED
      BY <3>1 DEF Places, Thread
  <2>2. CASE ~(c = call[t])
    <3>1. Rests(c)
      BY <1>1, <1>2, <1>3, <2>2 DEF Inv, Types, Rests, Hold, Holding, PC, Thread, appVars,
         portalVars,
         clientVars
    <3>2. QED
      BY <1>6, <3>1, Resting
  <2>3. QED
    BY <2>1, <2>2
<1>7. QED
  BY <1>4, <1>5, <1>6 DEF Inv, PlacesOK

\* RegisterAgain: the call waits for the registration.
LEMMA RegisterAgainStep == ASSUME Inv, NEW t \in Thread, RegisterAgain(t) PROVE Inv'
<1>1. call[t] \in Call /\ pc[t] = "route"
  BY DEF Inv, Types, RegisterAgain, ToPortal, Holding, Thread
<1>2. ~Within(call[t], held)
  <2>1. PICK p \in Places : Place(call[t], p)
    BY <1>1 DEF Inv, PlacesOK
  <2>2. QED
    BY <1>1, <2>1 DEF Place, Holding, Thread
<1>3. t # "host" => /\ held' \in Seq(Call) /\ Once(held')
                       /\ \A m : Within(m, held') <=> Within(m, held) \/ m = call[t]
  <2>1. held \in Seq(Call) /\ Once(held) /\ (t # "host" => held' = Append(held, call[t]))
    BY DEF Inv, Lists, OnceOK, RegisterAgain
  <2>2. /\ Append(held, call[t]) \in Seq(Call) /\ Once(Append(held, call[t]))
        /\ \A m : Within(m, Append(held, call[t])) <=> Within(m, held) \/ m = call[t]
    BY <1>1, <1>2, <2>1, Appended
  <2>3. QED
    BY <2>1, <2>2
<1>4. Types'
  BY <1>1, <1>2, <1>3 DEF Inv, Types, RegisterAgain, Holding, PC, Thread, appVars, portalVars,
     clientVars
<1>5. Lists' /\ OnceOK'
  BY <1>3 DEF Inv, Lists, OnceOK, RegisterAgain, appVars, portalVars, clientVars
<1>6. ASSUME NEW c \in Call, NEW p \in Places, Place(c, p) PROVE \E q \in Places : Place(c, q)'
  <2>1. CASE c = call[t] /\ t # "host"
    <3>1. Place(c, "held")'
      BY <1>1, <1>2, <1>3, <1>6, <2>1 DEF Inv, Types, Place, ReaderOf, RegisterAgain, Holding, PC,
         Thread, appVars, portalVars, clientVars
    <3>2. QED
      BY <3>1 DEF Places, Thread
  <2>2. CASE ~(c = call[t] /\ t # "host")
    <3>1. Rests(c)
      BY <1>1, <1>2, <1>3, <2>2 DEF Inv, Types, Rests, RegisterAgain, Holding, PC, Thread, appVars,
         portalVars, clientVars
    <3>2. QED
      BY <1>6, <3>1, Resting
  <2>3. QED
    BY <2>1, <2>2
<1>7. QED
  BY <1>4, <1>5, <1>6 DEF Inv, PlacesOK

\* Lookup: a call is read.
LEMMA LookupStep == ASSUME Inv, NEW t \in Thread, Lookup(t) PROVE Inv'
<1>1. queue[t] \in Seq(Call \cup {Leaving}) /\ queue[t] # <<>> /\ Once(queue[t]) /\ pc[t] = "idle"
  BY DEF Inv, Lists, OnceOK, Lookup
<1>2. /\ Tail(queue[t]) \in Seq(Call \cup {Leaving}) /\ Head(queue[t]) \in Call /\ Once(Tail(queue[t]))
      /\ Within(Head(queue[t]), queue[t]) /\ ~Within(Head(queue[t]), Tail(queue[t]))
      /\ \A m : Within(m, Tail(queue[t])) => Within(m, queue[t])
  BY <1>1, Dropped DEF Lookup
<1>3. /\ queue' = [queue EXCEPT ![t] = Tail(queue[t])]
      /\ queue'[t] = Tail(queue[t]) /\ \A u \in Thread : u # t => queue'[u] = queue[u]
  BY DEF Inv, Lists, Lookup
<1>4. Call \subseteq Msg
  BY GatewayAssumption DEF Call, Msg
<1>5. Types'
  BY <1>1, <1>2, <1>3, <1>4 DEF Inv, Types, Lookup, Holding, PC, Thread, appVars, portalVars,
     clientVars
<1>6. Lists' /\ OnceOK'
  BY <1>2, <1>3 DEF Inv, Lists, OnceOK, Lookup, appVars, portalVars, clientVars
<1>7. ASSUME NEW c \in Call, NEW p \in Places, Place(c, p) PROVE \E q \in Places : Place(c, q)'
  <2>1. CASE c = Head(queue[t])
    <3>1. Place(c, t)'
      BY <1>1, <1>2, <1>3, <1>4, <1>7, <2>1 DEF Inv, Types, Place, ReaderOf, Lookup, Holding, PC,
         Thread, appVars, portalVars, clientVars
    <3>2. QED
      BY <3>1 DEF Places, Thread
  <2>2. CASE ~(c = Head(queue[t]))
    <3>1. Rests(c)
      BY <1>1, <1>2, <1>3, <1>4, <2>2 DEF Inv, Types, Rests, Lookup, Holding, PC, Thread, appVars,
         portalVars, clientVars
    <3>2. QED
      BY <1>7, <3>1, Resting
  <2>3. QED
    BY <2>1, <2>2
<1>8. QED
  BY <1>5, <1>6, <1>7 DEF Inv, PlacesOK

\* NameChanged: the app's departure is read.
LEMMA NameChangedStep == ASSUME Inv, NameChanged PROVE Inv'
<1>1. queue["portal"] \in Seq(Call \cup {Leaving}) /\ queue["portal"] # <<>> /\ Once(queue["portal"])
  BY DEF Inv, Lists, OnceOK, NameChanged, Thread
<1>2. /\ Tail(queue["portal"]) \in Seq(Call \cup {Leaving}) /\ Once(Tail(queue["portal"]))
      /\ \A m : Within(m, Tail(queue["portal"])) => Within(m, queue["portal"])
  BY <1>1, Dropped
<1>3. /\ queue' = [queue EXCEPT !["portal"] = Tail(queue["portal"])]
      /\ queue'["portal"] = Tail(queue["portal"]) /\ \A u \in Thread : u # "portal" => queue'[u] = queue[u]
  BY DEF Inv, Lists, NameChanged, Thread
<1>4. Types'
  BY DEF Inv, Types, NameChanged, Holding, PC, Thread, appVars
<1>5. Lists' /\ OnceOK'
  BY <1>2, <1>3 DEF Inv, Lists, OnceOK, NameChanged, portalVars
<1>6. \A c \in Call : Rests(c)
  BY <1>2, <1>3 DEF Inv, Types, Rests, NameChanged, Holding, Thread, appVars, portalVars
<1>7. QED
  BY <1>4, <1>5, <1>6, AllRest DEF Inv

\* TakeHeld: the held calls become the batch.
LEMMA TakeHeldStep == ASSUME Inv, TakeHeld PROVE Inv'
<1>1. \A m : ~Within(m, held')
  BY Short DEF TakeHeld
<1>2. Once(<<>>)
  BY Short
<1>3. pc["host"] = "take" /\ batch' = held
  BY DEF TakeHeld
<1>4. Types'
  BY <1>1, <1>2, <1>3 DEF Inv, Types, TakeHeld, Holding, PC, Thread, appVars, portalVars, clientVars
<1>5. Lists' /\ OnceOK'
  BY <1>2 DEF Inv, Lists, OnceOK, TakeHeld, appVars, portalVars, clientVars
<1>6. ASSUME NEW c \in Call, NEW p \in Places, Place(c, p) PROVE \E q \in Places : Place(c, q)'
  <2>1. CASE Within(c, held)
    <3>1. Place(c, "batch")'
      BY <1>1, <1>2, <1>3, <1>6, <2>1 DEF Inv, Types, Place, ReaderOf, TakeHeld, Holding, PC,
         Thread,
         appVars, portalVars, clientVars
    <3>2. QED
      BY <3>1 DEF Places, Thread
  <2>2. CASE ~(Within(c, held))
    <3>1. Rests(c)
      BY <1>1, <1>2, <1>3, <2>2 DEF Inv, Types, Rests, TakeHeld, Holding, PC, Thread, appVars,
         portalVars, clientVars
    <3>2. QED
      BY <1>6, <3>1, Resting
  <2>3. QED
    BY <2>1, <2>2
<1>7. QED
  BY <1>4, <1>5, <1>6 DEF Inv, PlacesOK

\* NextHeld: the next held call is forwarded, or answered with an error.
LEMMA NextHeldStep == ASSUME Inv, NextHeld PROVE Inv'
<1>1. batch \in Seq(Call) /\ batch # <<>> /\ Once(batch) /\ pc["host"] = "drain"
  BY DEF Inv, Lists, OnceOK, NextHeld
<1>2. /\ Tail(batch) \in Seq(Call) /\ Head(batch) \in Call /\ Once(Tail(batch))
      /\ Within(Head(batch), batch) /\ ~Within(Head(batch), Tail(batch))
      /\ \A m : Within(m, Tail(batch)) => Within(m, batch)
  BY <1>1, Dropped
<1>3. Call \subseteq Msg
  BY GatewayAssumption DEF Call, Msg
<1>4. batch' = Tail(batch)
  BY DEF NextHeld
<1>5. Types'
  BY <1>1, <1>2, <1>3, <1>4 DEF Inv, Types, NextHeld, Answer, Holding, PC, Thread, appVars,
     portalVars,
     clientVars
<1>6. Lists' /\ OnceOK'
  BY <1>2 DEF Inv, Lists, OnceOK, NextHeld, appVars, portalVars, clientVars
<1>7. ASSUME NEW c \in Call, NEW p \in Places, Place(c, p) PROVE \E q \in Places : Place(c, q)'
  <2>1. CASE c = Head(batch)
    <3>1. Place(c, IF mapped THEN "host" ELSE "answered")'
      BY <1>1, <1>2, <1>3, <1>4, <1>7, <2>1 DEF Inv, Types, Place, ReaderOf, NextHeld, Answer,
         Holding,
         PC, Thread, appVars, portalVars, clientVars
    <3>2. QED
      BY <3>1 DEF Places, Thread
  <2>2. CASE ~(c = Head(batch))
    <3>1. Rests(c)
      BY <1>1, <1>2, <1>3, <1>4, <2>2 DEF Inv, Types, Rests, NextHeld, Answer, Holding, PC, Thread,
         appVars, portalVars, clientVars
    <3>2. QED
      BY <1>7, <3>1, Resting
  <2>3. QED
    BY <2>1, <2>2
<1>8. QED
  BY <1>5, <1>6, <1>7 DEF Inv, PlacesOK

\* HandBack: the call and the rest of the batch wait again.
LEMMA HandBackStep == ASSUME Inv, HandBack PROVE Inv'
<1>1. call["host"] \in Call /\ pc["host"] = "handback"
  BY DEF Inv, Types, HandBack, Holding, Thread
<1>2. ~Within(call["host"], batch) /\ ~Within(call["host"], held)
  <2>1. PICK p \in Places : Place(call["host"], p)
    BY <1>1 DEF Inv, PlacesOK
  <2>2. QED
    BY <1>1, <2>1 DEF Place, Holding, Thread
<1>3. \A m \in Call : ~(Within(m, batch) /\ Within(m, held))
  BY DEF Inv, PlacesOK, Place
<1>4. /\ held' \in Seq(Call) /\ Once(held') /\ batch' = <<>>
      /\ \A m : Within(m, held') <=> m = call["host"] \/ Within(m, batch) \/ Within(m, held)
  <2> DEFINE one == <<call["host"]>>
             s == one \o batch
  <2>1. /\ one \in Seq(Call) /\ batch \in Seq(Call) /\ held \in Seq(Call) /\ Once(batch) /\ Once(held)
        /\ held' = s \o held /\ batch' = <<>>
    BY <1>1 DEF Inv, Lists, OnceOK, HandBack
  <2>2. Once(one) /\ \A m : Within(m, one) <=> m = call["host"]
    BY Short
  <2> HIDE DEF one
  <2>3. one \o batch \in Seq(Call) /\ \A m : Within(m, one \o batch) <=> Within(m, one) \/ Within(m, batch)
    BY <2>1, Joined
  <2>4. Once(one \o batch)
    BY <1>2, <2>1, <2>2, Joined
  <2> HIDE DEF s
  <2>5. s \in Seq(Call) /\ Once(s) /\ \A m : Within(m, s) <=> m = call["host"] \/ Within(m, batch)
    BY <2>2, <2>3, <2>4 DEF s
  <2>6. s \o held \in Seq(Call) /\ \A m : Within(m, s \o held) <=> Within(m, s) \/ Within(m, held)
    BY <2>1, <2>5, Joined
  <2>7. Once(s \o held)
    BY <1>2, <1>3, <2>1, <2>5, Joined
  <2>8. QED
    BY <2>1, <2>5, <2>6, <2>7
<1>5. Once(<<>>) /\ <<>> \in Seq(Call) /\ \A m : ~Within(m, <<>>)
  <2>1. <<>> \in Seq(Call)
    OBVIOUS
  <2>2. QED
    BY <2>1, Short
<1>6. Types'
  BY <1>1, <1>2, <1>3, <1>4, <1>5 DEF Inv, Types, HandBack, Holding, PC, Thread, appVars,
     portalVars,
     clientVars
<1>7. Lists' /\ OnceOK'
  BY <1>4, <1>5 DEF Inv, Lists, OnceOK, HandBack, appVars, portalVars, clientVars
<1>8. ASSUME NEW c \in Call, NEW p \in Places, Place(c, p) PROVE \E q \in Places : Place(c, q)'
  <2>1. CASE Within(c, held')
    <3>1. Place(c, "held")'
      BY <1>1, <1>2, <1>3, <1>4, <1>5, <1>8, <2>1 DEF Inv, Types, Place, ReaderOf, HandBack,
         Holding,
         PC, Thread, appVars, portalVars, clientVars
    <3>2. QED
      BY <3>1 DEF Places, Thread
  <2>2. CASE ~(Within(c, held'))
    <3>1. Rests(c)
      BY <1>1, <1>2, <1>3, <1>4, <1>5, <2>2 DEF Inv, Types, Rests, HandBack, Holding, PC, Thread,
         appVars, portalVars, clientVars
    <3>2. QED
      BY <1>8, <3>1, Resting
  <2>3. QED
    BY <2>1, <2>2
<1>9. QED
  BY <1>6, <1>7, <1>8 DEF Inv, PlacesOK

\* Issue: the app makes its next call.
LEMMA IssueStep == ASSUME Inv, Issue PROVE Inv'
<1> DEFINE n == issued + 1
           t == ReaderOf(n)
<1>1. n \in Call /\ t \in Thread /\ n > issued
  BY GatewayAssumption DEF Inv, Types, Issue, Call, ReaderOf, Thread
<1>2. \A u \in Thread : ~Within(n, queue[u])
  <2>1. PICK p \in Places : Place(n, p)
    BY <1>1 DEF Inv, PlacesOK
  <2>2. QED
    BY <1>1, <2>1 DEF Place
<1> HIDE DEF n, t
<1>3. queue[t] \in Seq(Call \cup {Leaving}) /\ Once(queue[t]) /\ queue' = [queue EXCEPT ![t] = Append(queue[t], n)]
  BY <1>1 DEF Inv, Lists, OnceOK, Issue, n, t
<1>4. /\ Append(queue[t], n) \in Seq(Call \cup {Leaving}) /\ Once(Append(queue[t], n))
      /\ \A m : Within(m, Append(queue[t], n)) <=> Within(m, queue[t]) \/ m = n
  BY <1>1, <1>2, <1>3, Appended
<1>5. queue'[t] = Append(queue[t], n) /\ \A u \in Thread : u # t => queue'[u] = queue[u]
  BY <1>1, <1>3 DEF Inv, Lists
<1>6. Types'
  BY <1>1 DEF Inv, Types, Issue, clientVars, threadVars
<1>7. Lists' /\ OnceOK'
  BY <1>3, <1>4, <1>5 DEF Inv, Lists, OnceOK, Issue, portalVars, threadVars
<1>8. ASSUME NEW c \in Call, NEW p \in Places, Place(c, p) PROVE \E q \in Places : Place(c, q)'
  <2>1. issued' = n /\ n > issued /\ c \in Int /\ issued \in Int /\ n = issued + 1
    BY <1>1 DEF Issue, Call, Inv, Types, n
  <2>2. CASE c = n
    <3>1. Place(c, "queue")'
      BY <1>1, <1>2, <1>4, <1>5, <1>8, <2>1, <2>2
         DEF Place, Issue, Inv, Types, ReaderOf, portalVars, clientVars, threadVars, t, Thread
    <3>2. QED
      BY <3>1 DEF Places
  <2>3. CASE c # n
    <3>1. Place(c, p)'
      BY <1>4, <1>5, <1>8, <2>1, <2>3 DEF Place, Issue, ReaderOf, portalVars, clientVars, threadVars
    <3>2. QED
      BY <3>1
  <2>4. QED
    BY <2>2, <2>3
<1>9. QED
  BY <1>6, <1>7, <1>8 DEF Inv, PlacesOK

\* Leave: the app leaves the bus.
LEMMA LeaveStep == ASSUME Inv, Leave PROVE Inv'
<1>1. queue["portal"] \in Seq(Call \cup {Leaving}) /\ Once(queue["portal"]) /\ Leaving \notin Call
  BY GatewayAssumption DEF Inv, Lists, OnceOK, Thread, Leaving, Call
<1>2. /\ Append(queue["portal"], Leaving) \in Seq(Call \cup {Leaving}) /\ Once(Append(queue["portal"], Leaving))
      /\ \A m \in Call : Within(m, Append(queue["portal"], Leaving)) => Within(m, queue["portal"])
  BY <1>1 DEF Within, Once
<1>3. /\ queue' = [queue EXCEPT !["portal"] = Append(queue["portal"], Leaving)]
      /\ queue'["portal"] = Append(queue["portal"], Leaving)
      /\ \A u \in Thread : u # "portal" => queue'[u] = queue[u]
  BY DEF Inv, Lists, Leave, Thread
<1>4. Types'
  BY DEF Inv, Types, Leave, clientVars, threadVars
<1>5. Lists' /\ OnceOK'
  BY <1>2, <1>3 DEF Inv, Lists, OnceOK, Leave, portalVars, threadVars
<1>6. \A c \in Call : Rests(c)
  BY <1>2, <1>3 DEF Rests, Leave, portalVars, clientVars, threadVars
<1>7. QED
  BY <1>4, <1>5, <1>6, AllRest DEF Inv

-----------------------------------------------------------------------------
(* The theorems.                                                             *)

\* The invariant holds initially.
LEMMA InitInv == Init => Inv
<1> SUFFICES ASSUME Init PROVE Inv
  OBVIOUS
<1>1. Types /\ Lists
  BY GatewayAssumption DEF Init, Types, Lists, Thread, PC, Holding, Call, Msg, Register
<1>2. \A m : ~Within(m, <<>>)
  BY Short
<1>3. OnceOK
  BY Short DEF Init, OnceOK
<1>4. \A c \in Call : Place(c, "app")
  BY <1>2 DEF Init, Place, Holding
<1>5. QED
  BY <1>1, <1>3, <1>4 DEF Inv, PlacesOK, Places

\* Every step keeps it.
LEMMA StepInv == ASSUME Inv, [Next]_vars PROVE Inv'
<1>1. CASE Elsewhere
  BY <1>1, ElsewhereStep
<1>2. ASSUME NEW t \in Thread, Forward(t) \/ Refuse(t) \/ CloseIfDone(t) PROVE Inv'
  BY <1>2, LookupStep, HoldStep, RouteStep, RegisterAgainStep, RegisterAgainFailsStep, PermitStep,
     SendStep,
     RefuseStep, CloseIfDoneStep DEF Forward
<1>3. CASE ServeHost
  BY <1>3, OwnerChangedStep, EndOpenRequestsStep, RelayReplyStep, PassReplyStep, RelayResponseStep,
     RegisteredStep, TakeHeldStep, BatchDoneStep, NextHeldStep, HandBackStep, EndOfStreamStep,
     FailPendingStep
     DEF ServeHost
<1>4. QED
  BY <1>1, <1>2, <1>3, IssueStep, LeaveStep, NameChangedStep DEF Next, Progress, Elsewhere

\* No call is answered twice: not by its reply, a refusal, a send that fails, a
\* batch without its client and the end of the connection together (gateway.rs
\* forward, relay_reply, registered, fail_pending).
THEOREM AnsweredOnceHolds == Spec => []AnsweredOnce
<1>1. Inv => AnsweredOnce
  BY DEF Inv, PlacesOK, Place, AnsweredOnce
<1>2. Inv /\ [Next]_vars => Inv'
  BY StepInv
<1>3. QED
  BY <1>1, <1>2, InitInv, PTL DEF Spec

-----------------------------------------------------------------------------
(* What is registered, and what is known of the portal's owner.              *)

\* The types of what a call is sent with.
HostTypes ==
  /\ phase \in {"register", "match", "ask", "serve"}
  /\ inst \in 0..MaxInst /\ started \in 0..MaxInst /\ alive \subseteq Inst
  /\ owner \in 0..MaxInst /\ dest \in [Thread -> 0..MaxInst]
Boxes == inbox \in Seq(Incoming) /\ outbox \in Seq(Outgoing)
Logs == log \in [Inst -> Seq(Msg)]

\* No report of a new owner is in q; the last one in q names k.
Quiet(q) == \A i \in DOMAIN q : q[i].type # "noc"
LastNames(q, k) ==
  \A i \in DOMAIN q : q[i].type = "noc" /\ (\A j \in DOMAIN q : j > i => q[j].type # "noc") => q[i].inst = k

\* An instance that has been sent no call.
Uncalled(s) == \A i \in DOMAIN s : s[i] = Register

\* Nothing is sent or read before the connection is set up.
SetUpOK ==
  /\ phase # "serve" => /\ ~mapped /\ outbox = <<>> /\ \A t \in Thread : pc[t] = "idle"
                        /\ \A k \in Inst : Uncalled(log[k])
  /\ phase \in {"register", "match"} => Quiet(inbox)

\* The last owner reported, or the one known if no report is left to read, is the
\* owner of the name.
FollowOK ==
  open => /\ phase \in {"ask", "serve"} => LastNames(inbox, inst)
          /\ phase = "serve" /\ Quiet(inbox) => owners = inst

\* An instance the client takes for registered has accepted a Register.
Known(k) == k # NoInst /\ k \in accepted
Unbound(m) == m = Register \/ IsTalk(m)
AcceptedOK ==
  /\ owner # NoInst => owner \in accepted
  /\ \A i \in DOMAIN inbox : inbox[i].type = "ok" /\ inbox[i].msg = Register => inbox[i].inst \in accepted

\* With an identity, a portal call is sent to such an instance, and has reached no
\* other.
BoundOK ==
  appId => /\ \A t \in Thread : pc[t] \in {"check", "send"} => Unbound(call[t]) \/ Known(dest[t])
           /\ \A i \in DOMAIN outbox : Unbound(outbox[i].msg) \/ Known(outbox[i].dest)
           /\ \A k \in Inst : Uncalled(log[k]) \/ k \in accepted

Inv2 == HostTypes /\ Boxes /\ Logs /\ SetUpOK /\ FollowOK /\ AcceptedOK /\ BoundOK

-----------------------------------------------------------------------------
(* What is read from the bus, and what is sent on it.                        *)

\* Every Register in q that was accepted was so by an instance of A.
AllFrom(q, A) == \A i \in DOMAIN q : q[i].type = "ok" /\ q[i].msg = Register => q[i].inst \in A

\* A message of the bus, and its fields.
LEMMA Message ==
  ASSUME NEW type \in {"noc", "ok", "err", "bad", "response"}, NEW m \in Msg, NEW k \in 0..MaxInst
  PROVE  /\ In(type, m, k) \in Incoming
         /\ In(type, m, k).type = type /\ In(type, m, k).msg = m /\ In(type, m, k).inst = k
  BY DEF In, Incoming

\* A message more.
LEMMA Delivered ==
  ASSUME NEW q \in Seq(Incoming), NEW x \in Incoming, NEW k
  PROVE  /\ Append(q, x) \in Seq(Incoming)
         /\ Quiet(Append(q, x)) <=> Quiet(q) /\ x.type # "noc"
         /\ x.type # "noc" /\ LastNames(q, k) => LastNames(Append(q, x), k)
         /\ x.type = "noc" /\ x.inst = k => LastNames(Append(q, x), k)
<1>1. Append(q, x) \in Seq(Incoming) /\ DOMAIN Append(q, x) = DOMAIN q \cup {Len(q) + 1}
  OBVIOUS
<1>2. Append(q, x)[Len(q) + 1] = x /\ \A i \in DOMAIN q : Append(q, x)[i] = q[i] /\ Len(q) + 1 > i
  OBVIOUS
<1>3. Quiet(Append(q, x)) <=> Quiet(q) /\ x.type # "noc"
  BY <1>1, <1>2 DEF Quiet
<1>4. x.type # "noc" /\ LastNames(q, k) => LastNames(Append(q, x), k)
  BY <1>1, <1>2 DEF LastNames
<1>5. x.type = "noc" /\ x.inst = k => LastNames(Append(q, x), k)
  BY <1>1, <1>2 DEF LastNames
<1>6. QED
  BY <1>1, <1>3, <1>4, <1>5

\* Accepted Registers in it.
LEMMA DeliveredFrom ==
  ASSUME NEW q \in Seq(Incoming), NEW x \in Incoming, NEW A, NEW B, AllFrom(q, A), A \subseteq B,
         x.type = "ok" /\ x.msg = Register => x.inst \in B
  PROVE  AllFrom(Append(q, x), B)
  BY DEF AllFrom

\* A message less.
LEMMA Consumed ==
  ASSUME NEW q \in Seq(Incoming), q # <<>>, NEW k
  PROVE  /\ Tail(q) \in Seq(Incoming) /\ Head(q) \in Incoming
         /\ LastNames(q, k) => LastNames(Tail(q), k)
         /\ Head(q).type # "noc" /\ Quiet(Tail(q)) => Quiet(q)
         /\ Head(q).type = "noc" /\ Quiet(Tail(q)) /\ LastNames(q, k) => Head(q).inst = k
<1>1. \A i \in DOMAIN Tail(q) : i + 1 \in DOMAIN q /\ Tail(q)[i] = q[i + 1] /\ i \in Nat
  OBVIOUS
<1>2. \A i \in DOMAIN q : i \in Nat /\ (i # 1 => i - 1 \in DOMAIN Tail(q) /\ Tail(q)[i - 1] = q[i])
  OBVIOUS
<1>3. 1 \in DOMAIN q /\ q[1] = Head(q) /\ Tail(q) \in Seq(Incoming) /\ Head(q) \in Incoming
  OBVIOUS
<1>4. ASSUME LastNames(q, k) PROVE LastNames(Tail(q), k)
  <2> SUFFICES ASSUME NEW i \in DOMAIN Tail(q), Tail(q)[i].type = "noc",
                      \A j \in DOMAIN Tail(q) : j > i => Tail(q)[j].type # "noc"
               PROVE  Tail(q)[i].inst = k
    BY DEF LastNames
  <2>1. \A j \in DOMAIN q : j > i + 1 => q[j].type # "noc"
    <3> SUFFICES ASSUME NEW j \in DOMAIN q, j > i + 1 PROVE q[j].type # "noc"
      OBVIOUS
    <3>1. j - 1 \in DOMAIN Tail(q) /\ j - 1 > i /\ Tail(q)[j - 1] = q[j]
      BY <1>1, <1>2
    <3>2. QED
      BY <3>1
  <2>2. QED
    BY <1>1, <1>4, <2>1 DEF LastNames
<1>5. Head(q).type # "noc" /\ Quiet(Tail(q)) => Quiet(q)
  BY <1>2, <1>3 DEF Quiet
<1>6. ASSUME Head(q).type = "noc", Quiet(Tail(q)), LastNames(q, k) PROVE Head(q).inst = k
  <2>1. \A j \in DOMAIN q : j > 1 => q[j].type # "noc"
    BY <1>2, <1>6 DEF Quiet
  <2>2. QED
    BY <1>3, <1>6, <2>1 DEF LastNames
<1>7. QED
  BY <1>3, <1>4, <1>5, <1>6

\* The Registers left in it.
LEMMA ConsumedFrom ==
  ASSUME NEW q \in Seq(Incoming), q # <<>>, NEW A, AllFrom(q, A)
  PROVE  /\ AllFrom(Tail(q), A)
         /\ Head(q).type = "ok" /\ Head(q).msg = Register => Head(q).inst \in A
<1>1. \A i \in DOMAIN Tail(q) : i + 1 \in DOMAIN q /\ Tail(q)[i] = q[i + 1]
  OBVIOUS
<1>2. 1 \in DOMAIN q /\ q[1] = Head(q)
  OBVIOUS
<1>3. QED
  BY <1>1, <1>2 DEF AllFrom

\* What Noc adds to what the bus has sent.
LEMMA NocAdds ==
  ASSUME NEW q \in Seq(Incoming), NEW k
  PROVE  q \o Noc(k) = IF phase \in {"ask", "serve"} THEN Append(q, In("noc", Register, k)) ELSE q
<1>1. q \o <<>> = q /\ q \o <<In("noc", Register, k)>> = Append(q, In("noc", Register, k))
  OBVIOUS
<1>2. QED
  BY <1>1 DEF Noc

\* What a thread sends keeps what is known of the others.
LEMMA SentOn ==
  ASSUME NEW q \in Seq(Outgoing), NEW m \in Msg, NEW k \in 0..MaxInst,
         NEW s, s = Append(q, [msg |-> m, dest |-> k])
  PROVE  /\ s \in Seq(Outgoing)
         /\ \A i \in DOMAIN s : (i \in DOMAIN q /\ s[i] = q[i]) \/ (s[i].msg = m /\ s[i].dest = k)
<1>1. PICK x \in Outgoing : x = [msg |-> m, dest |-> k] /\ x.msg = m /\ x.dest = k
  BY DEF Outgoing
<1>2. s = Append(q, x)
  BY <1>1
<1>3. s \in Seq(Outgoing) /\ DOMAIN s = DOMAIN q \cup {Len(q) + 1}
  BY <1>2
<1>4. s[Len(q) + 1] = x /\ \A i \in DOMAIN q : s[i] = q[i]
  BY <1>2
<1>5. x.msg = m /\ x.dest = k
  BY <1>1
<1>6. QED
  BY <1>3, <1>4, <1>5

\* What the bus takes to route.
LEMMA TakenOff ==
  ASSUME NEW q \in Seq(Outgoing), q # <<>>
  PROVE  /\ Tail(q) \in Seq(Outgoing) /\ Head(q) \in Outgoing /\ 1 \in DOMAIN q /\ Head(q) = q[1]
         /\ Head(q).msg \in Msg /\ Head(q).dest \in 0..MaxInst
         /\ \A i \in DOMAIN Tail(q) : i + 1 \in DOMAIN q /\ Tail(q)[i] = q[i + 1]
<1>1. Tail(q) \in Seq(Outgoing) /\ Head(q) \in Outgoing /\ 1 \in DOMAIN q /\ Head(q) = q[1]
  OBVIOUS
<1>2. \A i \in DOMAIN Tail(q) : i + 1 \in DOMAIN q /\ Tail(q)[i] = q[i + 1]
  OBVIOUS
<1>3. QED
  BY <1>1, <1>2 DEF Outgoing

\* What an instance receives.
LEMMA Logged ==
  ASSUME NEW s \in Seq(Msg), NEW m \in Msg
  PROVE  /\ Append(s, m) \in Seq(Msg)
         /\ Uncalled(Append(s, m)) <=> Uncalled(s) /\ m = Register
<1>1. Append(s, m) \in Seq(Msg) /\ DOMAIN Append(s, m) = DOMAIN s \cup {Len(s) + 1}
  OBVIOUS
<1>2. Append(s, m)[Len(s) + 1] = m /\ \A i \in DOMAIN s : Append(s, m)[i] = s[i]
  OBVIOUS
<1>3. QED
  BY <1>1, <1>2 DEF Uncalled

-----------------------------------------------------------------------------
(* Steps of the gateway's threads, once the connection is set up.            *)

\* No call comes to be checked or sent that was not.
NoneRouted ==
  \A t \in Thread : pc'[t] \in {"check", "send"} => pc[t] \in {"check", "send"} /\ call'[t] = call[t]

\* A step that sends and reads nothing and leaves the registration alone.
LEMMA Calm ==
  ASSUME Inv2, phase = "serve", NoneRouted, open' => open,
         UNCHANGED <<kind, phase, inbox, outbox, log, inst, started, alive, accepted, owner, owners,
         appId, dest>>
  PROVE  Inv2'
  BY DEF Inv2, HostTypes, Boxes, Logs, SetUpOK, FollowOK, AcceptedOK, BoundOK, NoneRouted, Known,
     Unbound, IsTalk

\* A step that reads a message and knows the owner it names.
LEMMA Reading ==
  ASSUME Inv2, phase = "serve", NoneRouted, inbox # <<>>, inbox' = Tail(inbox),
         owners' = IF Head(inbox).type = "noc" THEN Head(inbox).inst ELSE owners,
         UNCHANGED <<kind, phase, open, outbox, log, inst, started, alive, accepted, owner, appId,
         dest>>
  PROVE  Inv2'
<1>1. inbox \in Seq(Incoming) /\ AllFrom(inbox, accepted)
  BY DEF Inv2, Boxes, AcceptedOK, AllFrom
<1>2. /\ Tail(inbox) \in Seq(Incoming) /\ AllFrom(Tail(inbox), accepted)
      /\ LastNames(inbox, inst) => LastNames(Tail(inbox), inst)
      /\ Head(inbox).type # "noc" /\ Quiet(Tail(inbox)) => Quiet(inbox)
      /\ Head(inbox).type = "noc" /\ Quiet(Tail(inbox)) /\ LastNames(inbox, inst) => Head(inbox).inst = inst
  BY <1>1, Consumed, ConsumedFrom
<1>3. HostTypes' /\ Boxes' /\ Logs' /\ SetUpOK' /\ AcceptedOK'
  BY <1>2 DEF Inv2, HostTypes, Boxes, Logs, SetUpOK, AcceptedOK, AllFrom
<1>4. FollowOK'
  BY <1>2 DEF Inv2, FollowOK
<1>5. BoundOK'
  BY DEF Inv2, BoundOK, NoneRouted, Known, Unbound, IsTalk
<1>6. QED
  BY <1>3, <1>4, <1>5 DEF Inv2

\* The steps of forward, name_changed, close_if_done, registered and the end of the
\* connection that send and read nothing.
CalmStep ==
  \/ \E t \in Thread : \/ Lookup(t) \/ Hold(t) \/ Permit(t) \/ Refuse(t) \/ RegisterAgainFails(t)
                        \/ CloseIfDone(t)
  \/ NameChanged \/ EndOpenRequests \/ PassReply \/ TakeHeld \/ BatchDone \/ NextHeld \/ HandBack
  \/ EndOfStream \/ FailPending

\* What they leave alone.
Untouched ==
  /\ UNCHANGED <<kind, phase, inbox, outbox, log, inst, started, alive, accepted, owner, owners, appId,
                 dest>>
  /\ open' => open

\* They keep what is known of the portal.
LEMMA CalmSteps == ASSUME Inv, Inv2, CalmStep PROVE Inv2'
<1>1. ASSUME NEW t \in Thread, Lookup(t) PROVE phase = "serve" /\ NoneRouted /\ Untouched
  <2>1. phase = "serve" /\ NoneRouted
    BY <1>1 DEF Inv, Types, Inv2, SetUpOK, NoneRouted, Lookup, Thread, appVars, portalVars,
       clientVars
  <2>2. Untouched
    BY <1>1 DEF Untouched, Lookup, appVars, portalVars, clientVars, hostVars
  <2>3. QED
    BY <2>1, <2>2
<1>2. ASSUME NEW t \in Thread, Hold(t) PROVE phase = "serve" /\ NoneRouted /\ Untouched
  <2>1. phase = "serve" /\ NoneRouted
    BY <1>2 DEF Inv, Types, Inv2, SetUpOK, NoneRouted, Hold, ToPortal, Thread, appVars, portalVars,
       clientVars
  <2>2. Untouched
    BY <1>2 DEF Untouched, Hold, appVars, portalVars, clientVars, hostVars
  <2>3. QED
    BY <2>1, <2>2
<1>3. ASSUME NEW t \in Thread, Permit(t) PROVE phase = "serve" /\ NoneRouted /\ Untouched
  <2>1. phase = "serve" /\ NoneRouted
    BY <1>3 DEF Inv, Types, Inv2, SetUpOK, NoneRouted, Permit, Thread, appVars, portalVars,
       clientVars
  <2>2. Untouched
    BY <1>3 DEF Untouched, Permit, appVars, portalVars, clientVars, hostVars
  <2>3. QED
    BY <2>1, <2>2
<1>4. ASSUME NEW t \in Thread, Refuse(t) PROVE phase = "serve" /\ NoneRouted /\ Untouched
  <2>1. phase = "serve" /\ NoneRouted
    BY <1>4 DEF Inv, Types, Inv2, SetUpOK, NoneRouted, Refuse, Returned, Thread, appVars,
       portalVars,
       clientVars
  <2>2. Untouched
    BY <1>4 DEF Untouched, Refuse, appVars, portalVars, clientVars, hostVars
  <2>3. QED
    BY <2>1, <2>2
<1>5. ASSUME NEW t \in Thread, RegisterAgainFails(t) PROVE phase = "serve" /\ NoneRouted /\ Untouched
  <2>1. phase = "serve" /\ NoneRouted
    BY <1>5 DEF Inv, Types, Inv2, SetUpOK, NoneRouted, RegisterAgainFails, ToPortal, Returned,
       Thread,
       appVars, portalVars, clientVars
  <2>2. Untouched
    BY <1>5 DEF Untouched, RegisterAgainFails, appVars, portalVars, clientVars, hostVars
  <2>3. QED
    BY <2>1, <2>2
<1>6. ASSUME NEW t \in Thread, CloseIfDone(t) PROVE phase = "serve" /\ NoneRouted /\ Untouched
  <2>1. phase = "serve" /\ NoneRouted
    BY <1>6 DEF Inv, Types, Inv2, SetUpOK, NoneRouted, CloseIfDone, Thread, appVars, portalVars,
       clientVars
  <2>2. Untouched
    BY <1>6 DEF Untouched, CloseIfDone, appVars, portalVars, clientVars, hostVars
  <2>3. QED
    BY <2>1, <2>2
<1>7. ASSUME NameChanged PROVE phase = "serve" /\ NoneRouted /\ Untouched
  <2>1. phase = "serve" /\ NoneRouted
    BY <1>7 DEF Inv, Types, Inv2, SetUpOK, NoneRouted, NameChanged, Thread, appVars, portalVars,
       clientVars
  <2>2. Untouched
    BY <1>7 DEF Untouched, NameChanged, appVars, portalVars, clientVars, hostVars
  <2>3. QED
    BY <2>1, <2>2
<1>8. ASSUME EndOpenRequests PROVE phase = "serve" /\ NoneRouted /\ Untouched
  <2>1. phase = "serve" /\ NoneRouted
    BY <1>8 DEF Inv, Types, Inv2, SetUpOK, NoneRouted, EndOpenRequests, Thread, appVars, portalVars,
       clientVars
  <2>2. Untouched
    BY <1>8 DEF Untouched, EndOpenRequests, appVars, portalVars, clientVars, hostVars
  <2>3. QED
    BY <2>1, <2>2
<1>9. ASSUME PassReply PROVE phase = "serve" /\ NoneRouted /\ Untouched
  <2>1. phase = "serve" /\ NoneRouted
    BY <1>9 DEF Inv, Types, Inv2, SetUpOK, NoneRouted, PassReply, Thread, appVars, portalVars,
       clientVars
  <2>2. Untouched
    BY <1>9 DEF Untouched, PassReply, appVars, portalVars, clientVars, hostVars
  <2>3. QED
    BY <2>1, <2>2
<1>10. ASSUME TakeHeld PROVE phase = "serve" /\ NoneRouted /\ Untouched
  <2>1. phase = "serve" /\ NoneRouted
    BY <1>10 DEF Inv, Types, Inv2, SetUpOK, NoneRouted, TakeHeld, Thread, appVars, portalVars,
       clientVars
  <2>2. Untouched
    BY <1>10 DEF Untouched, TakeHeld, appVars, portalVars, clientVars, hostVars
  <2>3. QED
    BY <2>1, <2>2
<1>11. ASSUME BatchDone PROVE phase = "serve" /\ NoneRouted /\ Untouched
  <2>1. phase = "serve" /\ NoneRouted
    BY <1>11 DEF Inv, Types, Inv2, SetUpOK, NoneRouted, BatchDone, Thread, appVars, portalVars,
       clientVars
  <2>2. Untouched
    BY <1>11 DEF Untouched, BatchDone, appVars, portalVars, clientVars, hostVars
  <2>3. QED
    BY <2>1, <2>2
<1>12. ASSUME NextHeld PROVE phase = "serve" /\ NoneRouted /\ Untouched
  <2>1. phase = "serve" /\ NoneRouted
    BY <1>12 DEF Inv, Types, Inv2, SetUpOK, NoneRouted, NextHeld, Thread, appVars, portalVars,
       clientVars
  <2>2. Untouched
    BY <1>12 DEF Untouched, NextHeld, appVars, portalVars, clientVars, hostVars
  <2>3. QED
    BY <2>1, <2>2
<1>13. ASSUME HandBack PROVE phase = "serve" /\ NoneRouted /\ Untouched
  <2>1. phase = "serve" /\ NoneRouted
    BY <1>13 DEF Inv, Types, Inv2, SetUpOK, NoneRouted, HandBack, Thread, appVars, portalVars,
       clientVars
  <2>2. Untouched
    BY <1>13 DEF Untouched, HandBack, appVars, portalVars, clientVars, hostVars
  <2>3. QED
    BY <2>1, <2>2
<1>14. ASSUME EndOfStream PROVE phase = "serve" /\ NoneRouted /\ Untouched
  <2>1. phase = "serve" /\ NoneRouted
    BY <1>14 DEF Inv, Types, Inv2, SetUpOK, NoneRouted, EndOfStream, Thread, appVars, portalVars,
       clientVars
  <2>2. Untouched
    BY <1>14 DEF Untouched, EndOfStream, appVars, portalVars, clientVars, hostVars
  <2>3. QED
    BY <2>1, <2>2
<1>15. ASSUME FailPending PROVE phase = "serve" /\ NoneRouted /\ Untouched
  <2>1. phase = "serve" /\ NoneRouted
    BY <1>15 DEF Inv, Types, Inv2, SetUpOK, NoneRouted, FailPending, Thread, appVars, portalVars,
       clientVars
  <2>2. Untouched
    BY <1>15 DEF Untouched, FailPending, appVars, portalVars, clientVars, hostVars
  <2>3. QED
    BY <2>1, <2>2
<1>16. phase = "serve" /\ NoneRouted /\ Untouched
  BY <1>1, <1>2, <1>3, <1>4, <1>5, <1>6, <1>7, <1>8, <1>9, <1>10, <1>11, <1>12, <1>13, <1>14,
     <1>15 DEF CalmStep
<1>17. QED
  BY <1>16, Calm DEF Untouched

\* What the reader of the host connection reads, but for the answer to Register.
LEMMA ReadSteps == ASSUME Inv, Inv2, OwnerChanged \/ RelayReply \/ RelayResponse PROVE Inv2'
<1>1. /\ phase = "serve" /\ inbox # <<>> /\ inbox' = Tail(inbox)
      /\ owners' = IF Head(inbox).type = "noc" THEN Head(inbox).inst ELSE owners
      /\ UNCHANGED <<kind, phase, open, outbox, log, inst, started, alive, accepted, owner, appId,
                     dest>>
  BY DEF OwnerChanged, RelayReply, RelayResponse, Reads, appVars, portalVars, clientVars, hostVars
<1>2. NoneRouted
  BY DEF Inv, Types, NoneRouted, OwnerChanged, RelayReply, RelayResponse, Reads, Thread
<1>3. QED
  BY <1>1, <1>2, Reading

\* Registered: the answer to a Register sent again.
LEMMA RegisteredKnown == ASSUME Inv, Inv2, Registered PROVE Inv2'
<1>1. /\ phase = "serve" /\ inbox # <<>> /\ inbox' = Tail(inbox) /\ Head(inbox).type \in {"ok", "err"}
      /\ Head(inbox).msg = Register
      /\ UNCHANGED <<kind, phase, owners, open, outbox, log, inst, started, alive, accepted, dest>>
  BY DEF Registered, Reads, appVars, clientVars, hostVars
<1>10. appId' => appId
  BY DEF Registered
<1>11. owner' = NoInst \/ (Head(inbox).type = "ok" /\ owner' = Head(inbox).inst)
  BY DEF Registered
<1>2. NoneRouted
  BY DEF Inv, Types, NoneRouted, Registered, Reads, Thread
<1>3. inbox \in Seq(Incoming) /\ AllFrom(inbox, accepted)
  BY DEF Inv2, Boxes, AcceptedOK, AllFrom
<1>4. /\ Tail(inbox) \in Seq(Incoming) /\ AllFrom(Tail(inbox), accepted) /\ Head(inbox) \in Incoming
      /\ LastNames(inbox, inst) => LastNames(Tail(inbox), inst)
      /\ Quiet(Tail(inbox)) => Quiet(inbox)
      /\ Head(inbox).type = "ok" => Head(inbox).inst \in accepted
  BY <1>1, <1>3, Consumed, ConsumedFrom
<1>5. owner' \in 0..MaxInst /\ (owner' # NoInst => owner' \in accepted)
  BY <1>4, <1>11, GatewayAssumption DEF Incoming, NoInst
<1>6. HostTypes' /\ Boxes' /\ Logs' /\ SetUpOK' /\ AcceptedOK'
  BY <1>1, <1>4, <1>5 DEF Inv2, HostTypes, Boxes, Logs, SetUpOK, AcceptedOK, AllFrom
<1>7. FollowOK'
  BY <1>1, <1>4 DEF Inv2, FollowOK
<1>8. BoundOK'
  BY <1>1, <1>2, <1>10 DEF Inv2, BoundOK, NoneRouted, Known, Unbound, IsTalk
<1>9. QED
  BY <1>6, <1>7, <1>8 DEF Inv2

\* Route: with an identity, a portal call is bound for the instance that accepted it.
LEMMA RouteKnown == ASSUME Inv, Inv2, NEW t \in Thread, Route(t) PROVE Inv2'
<1>1. phase = "serve" /\ pc[t] = "route" /\ call[t] \in Call
  BY DEF Inv, Types, Inv2, SetUpOK, Route, Holding
<1>2. /\ UNCHANGED <<kind, phase, inbox, outbox, log, inst, started, alive, accepted, owner, owners,
                     appId, open, call>>
      /\ pc' = [pc EXCEPT ![t] = "check"]
      /\ dest' = [dest EXCEPT ![t] = IF ToPortal(t) /\ appId THEN owner ELSE ByName]
      /\ ToPortal(t) /\ appId => owner # NoInst
  BY DEF Route, AtOwner, appVars, portalVars, clientVars, hostVars
<1>3. HostTypes'
  BY <1>2, GatewayAssumption DEF Inv2, HostTypes, ByName
<1>4. Boxes' /\ Logs' /\ SetUpOK' /\ FollowOK' /\ AcceptedOK'
  BY <1>1, <1>2 DEF Inv2, Boxes, Logs, SetUpOK, FollowOK, AcceptedOK
<1>5. appId => Unbound(call[t]) \/ Known(dest'[t])
  BY <1>1, <1>2 DEF Inv2, HostTypes, AcceptedOK, Unbound, IsTalk, ToPortal, Known
<1>6. BoundOK'
  <2>1. ASSUME appId, NEW u \in Thread, pc'[u] \in {"check", "send"} PROVE Unbound(call[u]) \/ Known(dest'[u])
    BY <1>2, <1>5, <2>1 DEF Inv, Types, Inv2, HostTypes, BoundOK
  <2>2. QED
    BY <1>2, <2>1 DEF Inv2, BoundOK, Known, Unbound, IsTalk
<1>7. QED
  BY <1>3, <1>4, <1>6 DEF Inv2

\* RegisterAgain: Register is sent to the name.
LEMMA RegisterAgainKnown == ASSUME Inv, Inv2, NEW t \in Thread, RegisterAgain(t) PROVE Inv2'
<1>1. phase = "serve" /\ pc[t] = "route"
  BY DEF Inv, Types, Inv2, SetUpOK, RegisterAgain, ToPortal
<1>2. /\ UNCHANGED <<kind, phase, inbox, log, inst, started, alive, accepted, owner, owners, appId,
                     open, dest, call>>
      /\ outbox' = Append(outbox, [msg |-> Register, dest |-> ByName])
  BY DEF RegisterAgain, appVars, clientVars, hostVars
<1>3. NoneRouted
  BY <1>2 DEF Inv, Types, NoneRouted, RegisterAgain
<1>4. outbox \in Seq(Outgoing) /\ Register \in Msg /\ ByName \in 0..MaxInst
  BY GatewayAssumption DEF Inv2, Boxes, Register, Msg, ByName
<1>5. /\ outbox' \in Seq(Outgoing)
      /\ \A i \in DOMAIN outbox' : (i \in DOMAIN outbox /\ outbox'[i] = outbox[i]) \/ outbox'[i].msg = Register
  BY <1>2, <1>4, SentOn
<1>6. HostTypes' /\ Boxes' /\ Logs' /\ SetUpOK' /\ FollowOK' /\ AcceptedOK'
  BY <1>1, <1>2, <1>5 DEF Inv2, HostTypes, Boxes, Logs, SetUpOK, FollowOK, AcceptedOK
<1>7. BoundOK'
  BY <1>2, <1>3, <1>5 DEF Inv2, BoundOK, NoneRouted, Known, Unbound, IsTalk
<1>8. QED
  BY <1>6, <1>7 DEF Inv2

\* Send: the call is sent where it is bound for.
LEMMA SendKnown == ASSUME Inv, Inv2, NEW t \in Thread, Send(t) PROVE Inv2'
<1>1. phase = "serve" /\ pc[t] = "send" /\ call[t] \in Msg
  BY DEF Inv, Types, Inv2, SetUpOK, Send
<1>2. /\ UNCHANGED <<kind, phase, inbox, log, inst, started, alive, accepted, owner, owners, appId,
                     open, dest, call>>
      /\ outbox' = outbox \/ outbox' = Append(outbox, [msg |-> call[t], dest |-> dest[t]])
  BY DEF Send, appVars, portalVars, hostVars
<1>3. NoneRouted
  BY <1>2 DEF Inv, Types, NoneRouted, Send, Returned
<1>4. outbox \in Seq(Outgoing) /\ dest[t] \in 0..MaxInst
  BY DEF Inv2, Boxes, HostTypes
<1>5. /\ outbox' \in Seq(Outgoing)
      /\ \A i \in DOMAIN outbox' : \/ i \in DOMAIN outbox /\ outbox'[i] = outbox[i]
                                   \/ outbox'[i].msg = call[t] /\ outbox'[i].dest = dest[t]
  <2>1. CASE outbox' = outbox
    BY <1>4, <2>1
  <2>2. CASE outbox' = Append(outbox, [msg |-> call[t], dest |-> dest[t]])
    BY <1>1, <1>4, <2>2, SentOn
  <2>3. QED
    BY <1>2, <2>1, <2>2
<1>6. HostTypes' /\ Boxes' /\ Logs' /\ SetUpOK' /\ FollowOK' /\ AcceptedOK'
  BY <1>1, <1>2, <1>5 DEF Inv2, HostTypes, Boxes, Logs, SetUpOK, FollowOK, AcceptedOK
<1>7. BoundOK'
  BY <1>1, <1>2, <1>3, <1>5 DEF Inv2, BoundOK, NoneRouted, Known, Unbound, IsTalk
<1>8. QED
  BY <1>6, <1>7 DEF Inv2

-----------------------------------------------------------------------------
(* Steps of the app, of the bus and of the portal, and the setting up.       *)

\* What the bus reports of a new owner k of the name.
LEMMA NamedBy ==
  ASSUME NEW q \in Seq(Incoming), NEW k \in 0..MaxInst, NEW A, AllFrom(q, A)
  PROVE  /\ q \o Noc(k) \in Seq(Incoming) /\ AllFrom(q \o Noc(k), A)
         /\ phase \in {"ask", "serve"} => LastNames(q \o Noc(k), k) /\ ~Quiet(q \o Noc(k))
         /\ phase \notin {"ask", "serve"} => q \o Noc(k) = q
<1>1. CASE phase \in {"ask", "serve"}
  <2>1. PICK x \in Incoming : x = In("noc", Register, k) /\ x.type = "noc" /\ x.inst = k
    BY Message, GatewayAssumption DEF Register, Msg
  <2>2. q \o Noc(k) = Append(q, x)
    BY <1>1, <2>1, NocAdds
  <2>3. /\ Append(q, x) \in Seq(Incoming) /\ AllFrom(Append(q, x), A)
        /\ LastNames(Append(q, x), k) /\ ~Quiet(Append(q, x))
    BY <2>1, Delivered, DeliveredFrom
  <2>4. QED
    BY <1>1, <2>2, <2>3
<1>2. CASE phase \notin {"ask", "serve"}
  BY <1>2, NocAdds
<1>3. QED
  BY <1>1, <1>2

\* What a message other than a report of the owner leaves true of the inbox.
LEMMA Receives ==
  ASSUME Inv2, NEW type \in {"ok", "err", "bad", "response"}, NEW m \in Msg, NEW k \in 0..MaxInst,
         inbox' = Append(inbox, In(type, m, k)), accepted \subseteq accepted',
         type = "ok" /\ m = Register => k \in accepted',
         UNCHANGED <<phase, open, inst, owner, owners>>
  PROVE  /\ inbox' \in Seq(Incoming) /\ FollowOK' /\ AcceptedOK'
         /\ phase \in {"register", "match"} => Quiet(inbox')
<1>1. inbox \in Seq(Incoming) /\ AllFrom(inbox, accepted)
  BY DEF Inv2, Boxes, AcceptedOK, AllFrom
<1>2. PICK x \in Incoming : x = In(type, m, k) /\ x.type = type /\ x.msg = m /\ x.inst = k
  BY Message
<1>3. inbox' = Append(inbox, x) /\ x.type # "noc" /\ (x.type = "ok" /\ x.msg = Register => x.inst \in accepted')
  BY <1>2
<1>4. /\ inbox' \in Seq(Incoming) /\ AllFrom(inbox', accepted')
      /\ Quiet(inbox') <=> Quiet(inbox)
      /\ LastNames(inbox, inst) => LastNames(inbox', inst)
  BY <1>1, <1>3, Delivered, DeliveredFrom
<1>5. FollowOK'
  BY <1>4 DEF Inv2, FollowOK
<1>6. AcceptedOK'
  BY <1>4 DEF Inv2, AcceptedOK, AllFrom
<1>7. phase \in {"register", "match"} => Quiet(inbox')
  BY <1>4 DEF Inv2, SetUpOK
<1>8. QED
  BY <1>4, <1>5, <1>6, <1>7

\* Issue and Leave: what the app does is only queued.
LEMMA AppKnown == ASSUME Inv2, Issue \/ Leave PROVE Inv2'
<1>1. UNCHANGED <<kind, phase, mapped, pc, call, dest, inbox, outbox, log, inst, started, alive, accepted, owner,
                  owners, appId, open>>
  BY DEF Issue, Leave, appVars, portalVars, clientVars, threadVars, hostVars
<1>2. QED
  BY <1>1 DEF Inv2, HostTypes, Boxes, Logs, SetUpOK, FollowOK, AcceptedOK, BoundOK, Known, Unbound,
     IsTalk

\* HostCloses: a closed connection follows no owner.
LEMMA ClosesKnown == ASSUME Inv2, HostCloses PROVE Inv2'
<1>1. /\ phase = "serve" /\ (open' => open)
      /\ UNCHANGED <<kind, phase, inbox, outbox, log, inst, started, alive, accepted, owner, owners,
                     appId, dest, pc, call>>
  BY DEF HostCloses, appVars, portalVars, clientVars, threadVars, hostVars
<1>2. QED
  BY <1>1, Calm DEF NoneRouted

\* Replies, Responds and NoReply: an answer is on its way to the gateway.
LEMMA AnswersKnown ==
  ASSUME Inv2, NEW m \in Msg, NEW k \in 0..MaxInst, NEW type \in {"ok", "err", "bad", "response"},
         inbox' = Append(inbox, In(type, m, k)), accepted \subseteq accepted',
         type = "ok" /\ m = Register => k \in accepted',
         UNCHANGED <<kind, phase, mapped, pc, call, dest, outbox, log, inst, started, alive, owner,
         owners, appId, open>>
  PROVE  Inv2'
<1>1. /\ inbox' \in Seq(Incoming) /\ FollowOK' /\ AcceptedOK'
      /\ phase \in {"register", "match"} => Quiet(inbox')
  BY Receives
<1>2. HostTypes' /\ Boxes' /\ Logs' /\ SetUpOK'
  BY <1>1 DEF Inv2, HostTypes, Boxes, Logs, SetUpOK
<1>3. BoundOK'
  BY DEF Inv2, BoundOK, Known, Unbound, IsTalk
<1>4. QED
  BY <1>1, <1>2, <1>3 DEF Inv2

\* Replies.
LEMMA RepliesKnown ==
  ASSUME Inv2, NEW m \in Msg, NEW k \in 0..MaxInst, NEW type \in {"ok", "err", "bad"},
         Replies(m, k, type)
  PROVE  Inv2'
<1>1. /\ inbox' = Append(inbox, In(type, m, k)) /\ accepted \subseteq accepted'
      /\ type = "ok" /\ m = Register => k \in accepted'
  BY DEF Replies
<1>2. UNCHANGED <<kind, phase, mapped, pc, call, dest, outbox, log, inst, started, alive, owner,
                  owners, appId, open>>
  BY DEF Replies, appVars, portalVars, clientVars, threadVars
<1>3. QED
  BY <1>1, <1>2, AnswersKnown

\* Responds.
LEMMA RespondsKnown == ASSUME Inv2, NEW c \in Call, Responds(c) PROVE Inv2'
<1>1. inbox' = Append(inbox, In("response", c, inst)) /\ accepted' = accepted
  BY DEF Responds
<1>2. UNCHANGED <<kind, phase, mapped, pc, call, dest, outbox, log, inst, started, alive, owner,
                  owners, appId, open>>
  BY DEF Responds, appVars, portalVars, clientVars, threadVars
<1>3. c \in Msg /\ inst \in 0..MaxInst
  BY DEF Call, Msg, Inv2, HostTypes
<1>4. QED
  BY <1>1, <1>2, <1>3, AnswersKnown

\* NoReply.
LEMMA NoReplyKnown == ASSUME Inv2, NEW m \in Msg, NoReply(m) PROVE Inv2'
<1>1. inbox' = Append(inbox, In("err", m, NoInst)) /\ accepted' = accepted
  BY DEF NoReply
<1>2. UNCHANGED <<kind, phase, mapped, pc, call, dest, outbox, log, inst, started, alive, owner,
                  owners, appId, open>>
  BY DEF NoReply, appVars, portalVars, clientVars, threadVars
<1>3. NoInst \in 0..MaxInst
  BY GatewayAssumption DEF NoInst
<1>4. QED
  BY <1>1, <1>2, <1>3, AnswersKnown

\* A new owner of the name, which the bus reports if it reports owners at all.
LEMMA Renamed ==
  ASSUME Inv2, inst' \in 0..MaxInst, started' \in 0..MaxInst, alive' \subseteq Inst,
         inbox' = (IF open THEN inbox \o Noc(inst') ELSE inbox),
         UNCHANGED <<kind, phase, mapped, pc, call, dest, outbox, log, accepted, owner, owners, appId,
         open>>
  PROVE  Inv2'
<1>1. inbox \in Seq(Incoming) /\ AllFrom(inbox, accepted)
  BY DEF Inv2, Boxes, AcceptedOK, AllFrom
<1>2. /\ inbox \o Noc(inst') \in Seq(Incoming) /\ AllFrom(inbox \o Noc(inst'), accepted)
      /\ phase \in {"ask", "serve"} => LastNames(inbox \o Noc(inst'), inst') /\ ~Quiet(inbox \o Noc(inst'))
      /\ phase \notin {"ask", "serve"} => inbox \o Noc(inst') = inbox
  BY <1>1, NamedBy
<1>3. HostTypes' /\ Boxes' /\ Logs' /\ AcceptedOK'
  BY <1>1, <1>2 DEF Inv2, HostTypes, Boxes, Logs, AcceptedOK, AllFrom
<1>4. SetUpOK'
  BY <1>2 DEF Inv2, SetUpOK
<1>5. FollowOK'
  BY <1>2 DEF FollowOK
<1>6. BoundOK'
  BY DEF Inv2, BoundOK, Known, Unbound, IsTalk
<1>7. QED
  BY <1>3, <1>4, <1>5, <1>6 DEF Inv2

\* InstReplaced.
LEMMA ReplacedKnown == ASSUME Inv2, InstReplaced PROVE Inv2'
<1>1. inst' \in 0..MaxInst /\ started' \in 0..MaxInst /\ alive' \subseteq Inst
  BY GatewayAssumption DEF Inv2, HostTypes, InstReplaced, Inst
<1>2. inbox' = IF open THEN inbox \o Noc(inst') ELSE inbox
  BY DEF InstReplaced
<1>3. UNCHANGED <<kind, phase, mapped, pc, call, dest, outbox, log, accepted, owner, owners, appId,
                  open>>
  BY DEF InstReplaced, appVars, portalVars, clientVars, threadVars
<1>4. QED
  BY <1>1, <1>2, <1>3, Renamed

\* InstExits: one that had been replaced does not own the name.
LEMMA ExitsKnown == ASSUME Inv2, NEW k \in Inst, InstExits(k) PROVE Inv2'
<1>1. inst' \in 0..MaxInst /\ started' \in 0..MaxInst /\ alive' \subseteq Inst
  BY GatewayAssumption DEF Inv2, HostTypes, InstExits, Inst, NoInst
<1>2. UNCHANGED <<kind, phase, mapped, pc, call, dest, outbox, log, accepted, owner, owners, appId,
                  open>>
  BY DEF InstExits, appVars, portalVars, clientVars, threadVars
<1>3. CASE k = inst
  <2>1. inbox' = IF open THEN inbox \o Noc(inst') ELSE inbox
    BY <1>3 DEF InstExits
  <2>2. QED
    BY <1>1, <1>2, <2>1, Renamed
<1>4. CASE k # inst
  <2>1. inbox' = inbox /\ inst' = inst
    BY <1>4 DEF InstExits
  <2>2. QED
    BY <1>1, <1>2, <2>1 DEF Inv2, HostTypes, Boxes, Logs, SetUpOK, FollowOK, AcceptedOK, BoundOK,
       Known, Unbound, IsTalk
<1>5. QED
  BY <1>3, <1>4

\* The instance that a message to the name reaches.
LEMMA ActivatedOK ==
  ASSUME HostTypes, Activatable
  PROVE  Activated \in Inst /\ (Activate => inst' = Activated /\ started' \in 0..MaxInst /\ alive' \subseteq Inst)
<1>1. Activated \in Inst
  BY GatewayAssumption DEF HostTypes, Activatable, Activated, NoInst, Inst
<1>2. inst = NoInst => started + 1 \in 0..MaxInst
  BY GatewayAssumption DEF HostTypes, Activatable
<1>3. QED
  BY <1>1, <1>2 DEF HostTypes, Activate

\* An instance receives a message.
LEMMA LogGrows ==
  ASSUME Logs, NEW k \in Inst, NEW m \in Msg, log' = [log EXCEPT ![k] = Append(@, m)]
  PROVE  Logs' /\ \A j \in Inst : Uncalled(log[j]) /\ (j = k => m = Register) => Uncalled(log'[j])
<1>1. /\ log[k] \in Seq(Msg) /\ Append(log[k], m) \in Seq(Msg)
      /\ Uncalled(Append(log[k], m)) <=> Uncalled(log[k]) /\ m = Register
  BY Logged DEF Logs
<1>2. log' = [log EXCEPT ![k] = Append(log[k], m)]
  OBVIOUS
<1> DEFINE s == Append(log[k], m)
<1> HIDE DEF s
<1>3. log' = [log EXCEPT ![k] = s] /\ s \in Seq(Msg) /\ (Uncalled(s) <=> Uncalled(log[k]) /\ m = Register)
  BY <1>1, <1>2 DEF s
<1>4. Logs'
  BY <1>3 DEF Logs
<1>5. \A j \in Inst : log'[j] = IF j = k THEN s ELSE log[j]
  BY <1>3 DEF Logs
<1>6. QED
  BY <1>3, <1>4, <1>5

\* BusRoutes takes the first message sent: what is known of where it goes.
LEMMA Routed ==
  ASSUME Inv2, BusRoutes
  PROVE  /\ phase = "serve" /\ Head(outbox).msg \in Msg /\ Head(outbox).dest \in 0..MaxInst
         /\ appId => Unbound(Head(outbox).msg) \/ Known(Head(outbox).dest)
         /\ outbox' \in Seq(Outgoing)
         /\ appId => \A i \in DOMAIN outbox' : Unbound(outbox'[i].msg) \/ Known(outbox'[i].dest)
<1>1. outbox \in Seq(Outgoing) /\ outbox # <<>> /\ outbox' = Tail(outbox)
  BY DEF Inv2, Boxes, BusRoutes
<1>2. /\ outbox' \in Seq(Outgoing) /\ 1 \in DOMAIN outbox /\ Head(outbox) = outbox[1]
      /\ Head(outbox).msg \in Msg /\ Head(outbox).dest \in 0..MaxInst
      /\ \A i \in DOMAIN outbox' : i + 1 \in DOMAIN outbox /\ outbox'[i] = outbox[i + 1]
  BY <1>1, TakenOff
<1>3. phase = "serve"
  BY <1>1 DEF Inv2, SetUpOK
<1>4. appId => \A i \in DOMAIN outbox : Unbound(outbox[i].msg) \/ Known(outbox[i].dest)
  BY DEF Inv2, BoundOK
<1>5. appId => Unbound(Head(outbox).msg) \/ Known(Head(outbox).dest)
  BY <1>2, <1>4
<1>6. ASSUME appId, NEW i \in DOMAIN outbox' PROVE Unbound(outbox'[i].msg) \/ Known(outbox'[i].dest)
  BY <1>2, <1>4, <1>6
<1>7. QED
  BY <1>2, <1>3, <1>5, <1>6

\* What BusRoutes leaves alone.
RoutesRest == UNCHANGED <<kind, phase, mapped, pc, call, dest, owner, owners, appId, open, accepted>>

\* With an identity, a message that is no Register reaches an instance only if it was
\* bound for it, and that one has accepted a Register.
LEMMA BoundKept ==
  ASSUME Inv2, BusRoutes, RoutesRest,
         NEW k \in Inst, NEW m \in Msg, ~IsTalk(m), m = Head(outbox).msg,
         Head(outbox).dest = ByName \/ Head(outbox).dest = k,
         log' = [log EXCEPT ![k] = Append(@, m)]
  PROVE  Logs' /\ BoundOK'
<1>1. Logs' /\ \A j \in Inst : Uncalled(log[j]) /\ (j = k => m = Register) => Uncalled(log'[j])
  BY LogGrows DEF Inv2
<1>2. appId => m = Register \/ k \in accepted
  BY Routed DEF Unbound, Known, ByName, NoInst
<1>3. ASSUME appId PROVE \A j \in Inst : Uncalled(log'[j]) \/ j \in accepted
  BY <1>1, <1>2, <1>3 DEF Inv2, BoundOK
<1>4. ASSUME appId, NEW t \in Thread, pc[t] \in {"check", "send"} PROVE Unbound(call[t]) \/ Known(dest[t])
  BY <1>4 DEF Inv2, BoundOK
<1>5. ASSUME appId, NEW i \in DOMAIN outbox' PROVE Unbound(outbox'[i].msg) \/ Known(outbox'[i].dest)
  BY <1>5, Routed
<1>6. BoundOK'
  BY <1>3, <1>4, <1>5 DEF RoutesRest, BoundOK, Known, Unbound, IsTalk
<1>7. QED
  BY <1>1, <1>6

\* The same when no instance receives it.
LEMMA BoundAgain == ASSUME Inv2, BusRoutes, RoutesRest, log' = log PROVE Logs' /\ BoundOK'
<1>1. Logs'
  BY DEF Inv2, Logs
<1>2. ASSUME appId PROVE \A i \in DOMAIN outbox' : Unbound(outbox'[i].msg) \/ Known(outbox'[i].dest)
  BY <1>2, Routed
<1>3. BoundOK'
  BY <1>2 DEF RoutesRest, Inv2, BoundOK, Known, Unbound, IsTalk
<1>4. QED
  BY <1>1, <1>3

\* BusRoutes: a message for a talk name.
LEMMA TalkRouted ==
  ASSUME Inv2, BusRoutes, RoutesRest, UNCHANGED <<inst, alive, started, log, inbox>>
  PROVE  Inv2'
<1>1. Logs' /\ BoundOK'
  BY BoundAgain
<1>2. HostTypes' /\ Boxes' /\ SetUpOK' /\ FollowOK' /\ AcceptedOK'
  BY Routed DEF RoutesRest, Inv2, HostTypes, Boxes, SetUpOK, FollowOK, AcceptedOK
<1>3. QED
  BY <1>1, <1>2 DEF Inv2

\* BusRoutes: a message the bus refuses.
LEMMA RefusedRouted ==
  ASSUME Inv2, BusRoutes, RoutesRest, UNCHANGED <<inst, alive, started, log>>,
         inbox' = Append(inbox, In("err", Head(outbox).msg, NoInst))
  PROVE  Inv2'
<1>1. Logs' /\ BoundOK'
  BY BoundAgain
<1>2. NoInst \in 0..MaxInst
  BY GatewayAssumption DEF NoInst
<1>3. inbox' \in Seq(Incoming) /\ FollowOK' /\ AcceptedOK'
  BY <1>2, Routed, Receives DEF RoutesRest
<1>4. HostTypes' /\ Boxes' /\ SetUpOK'
  BY <1>3, Routed DEF RoutesRest, Inv2, HostTypes, Boxes, SetUpOK
<1>5. QED
  BY <1>1, <1>3, <1>4 DEF Inv2

\* BusRoutes: a message to the name.
LEMMA NameRouted ==
  ASSUME Inv2, BusRoutes, RoutesRest, ~IsTalk(Head(outbox).msg), Head(outbox).dest = ByName,
         RouteToName(Head(outbox).msg)
  PROVE  Inv2'
<1>1. Activated \in Inst /\ inst' = Activated /\ started' \in 0..MaxInst /\ alive' \subseteq Inst
  BY ActivatedOK DEF Inv2, RouteToName
<1>2. Logs' /\ BoundOK'
  BY <1>1, BoundKept, Routed DEF RouteToName
<1>3. inst' \in 0..MaxInst /\ (inst # NoInst => inst' = inst)
  BY <1>1, GatewayAssumption DEF Inst, Activated
<1>4. inbox' = IF inst = NoInst THEN inbox \o Noc(inst') ELSE inbox
  BY <1>1 DEF RouteToName
<1>5. inbox \in Seq(Incoming) /\ AllFrom(inbox, accepted)
  BY DEF Inv2, Boxes, AcceptedOK, AllFrom
<1>6. /\ inbox \o Noc(inst') \in Seq(Incoming) /\ AllFrom(inbox \o Noc(inst'), accepted)
      /\ LastNames(inbox \o Noc(inst'), inst') /\ ~Quiet(inbox \o Noc(inst'))
  BY <1>3, <1>5, NamedBy, Routed
<1>7. HostTypes' /\ Boxes' /\ SetUpOK' /\ AcceptedOK'
  BY <1>1, <1>3, <1>4, <1>5, <1>6, Routed DEF RoutesRest, Inv2, HostTypes, Boxes, SetUpOK,
     AcceptedOK,
     AllFrom
<1>8. FollowOK'
  BY <1>3, <1>4, <1>6 DEF RoutesRest, Inv2, FollowOK
<1>9. QED
  BY <1>2, <1>7, <1>8 DEF Inv2

\* BusRoutes: a message to an instance.
LEMMA InstRouted ==
  ASSUME Inv2, BusRoutes, RoutesRest, ~IsTalk(Head(outbox).msg),
         RouteToInst(Head(outbox).msg, Head(outbox).dest)
  PROVE  Inv2'
<1>1. UNCHANGED <<inst, alive, started>>
  BY DEF RouteToInst
<1>2. CASE Head(outbox).dest \in alive
  <2>1. inbox' = inbox /\ log' = [log EXCEPT ![Head(outbox).dest] = Append(@, Head(outbox).msg)]
    BY <1>2 DEF RouteToInst
  <2>2. Head(outbox).dest \in Inst
    BY <1>2 DEF Inv2, HostTypes
  <2>3. Logs' /\ BoundOK'
    BY <2>1, <2>2, BoundKept, Routed
  <2>4. HostTypes' /\ Boxes' /\ SetUpOK' /\ FollowOK' /\ AcceptedOK'
    BY <1>1, <2>1, Routed DEF RoutesRest, Inv2, HostTypes, Boxes, SetUpOK, FollowOK, AcceptedOK
  <2>5. QED
    BY <2>3, <2>4 DEF Inv2
<1>3. CASE Head(outbox).dest \notin alive
  <2>1. log' = log /\ inbox' = Append(inbox, In("err", Head(outbox).msg, NoInst))
    BY <1>3 DEF RouteToInst
  <2>2. QED
    BY <1>1, <2>1, RefusedRouted
<1>4. QED
  BY <1>2, <1>3

\* BusRoutes.
LEMMA BusRoutesKnown == ASSUME Inv2, BusRoutes PROVE Inv2'
<1>1. RoutesRest
  BY DEF BusRoutes, RoutesRest, appVars, portalVars, clientVars, threadVars
<1>2. \/ UNCHANGED <<inst, alive, started, log, inbox>>
      \/ /\ ~IsTalk(Head(outbox).msg)
         /\ \/ Head(outbox).dest = ByName /\ RouteToName(Head(outbox).msg)
            \/ RouteToInst(Head(outbox).msg, Head(outbox).dest)
            \/ NotActivated(Head(outbox).msg)
  BY DEF BusRoutes
<1>3. CASE UNCHANGED <<inst, alive, started, log, inbox>>
  BY <1>1, <1>3, TalkRouted
<1>4. CASE ~IsTalk(Head(outbox).msg) /\ Head(outbox).dest = ByName /\ RouteToName(Head(outbox).msg)
  BY <1>1, <1>4, NameRouted
<1>5. CASE ~IsTalk(Head(outbox).msg) /\ RouteToInst(Head(outbox).msg, Head(outbox).dest)
  BY <1>1, <1>5, InstRouted
<1>6. CASE NotActivated(Head(outbox).msg)
  BY <1>1, <1>6, RefusedRouted DEF NotActivated
<1>7. QED
  BY <1>2, <1>3, <1>4, <1>5, <1>6

\* SetUpRegister: the instance has accepted the identity before any call.
LEMMA SetUpRegisterKnown == ASSUME Inv2, SetUpRegister PROVE Inv2'
<1>1. /\ phase = "register" /\ phase' = "match"
      /\ log' = [log EXCEPT ![Activated] = Append(@, Register)]
      /\ accepted' = accepted \cup {Activated} /\ owner' = Activated
      /\ UNCHANGED <<kind, mapped, owners, pc, call, dest, open, outbox, inbox>>
  BY DEF SetUpRegister, appVars, clientVars, threadVars
<1>2. Activated \in Inst /\ inst' = Activated /\ started' \in 0..MaxInst /\ alive' \subseteq Inst
  BY ActivatedOK DEF Inv2, SetUpRegister
<1>3. Register \in Msg
  BY GatewayAssumption DEF Register, Msg
<1>4. Logs' /\ \A j \in Inst : Uncalled(log[j]) => Uncalled(log'[j])
  BY <1>1, <1>2, <1>3, LogGrows DEF Inv2
<1>5. HostTypes' /\ Boxes' /\ FollowOK' /\ AcceptedOK'
  BY <1>1, <1>2 DEF Inv2, HostTypes, Boxes, FollowOK, AcceptedOK, Inst
<1>6. SetUpOK'
  BY <1>1, <1>4 DEF Inv2, SetUpOK
<1>7. BoundOK'
  BY <1>1, <1>6 DEF SetUpOK, BoundOK
<1>8. QED
  BY <1>4, <1>5, <1>6, <1>7 DEF Inv2

\* SetUpUnidentified, SetUpMatch and SetUpAsk: the owner asked for is the one that
\* the last report named, if any came since AddMatch.
LEMMA SetUpKnown == ASSUME Inv2, SetUpUnidentified \/ SetUpMatch \/ SetUpAsk PROVE Inv2'
<1>1. UNCHANGED <<kind, pc, call, dest, open, outbox, inbox, log, inst, started, alive, accepted,
                  owner, appId>>
  BY DEF SetUpUnidentified, SetUpMatch, SetUpAsk, appVars, portalVars, clientVars, threadVars,
     hostVars
<1>2. CASE SetUpUnidentified
  <2>1. phase = "register" /\ phase' = "match" /\ mapped' = mapped
    BY <1>2 DEF SetUpUnidentified, clientVars
  <2>2. QED
    BY <1>1, <2>1 DEF Inv2, HostTypes, Boxes, Logs, SetUpOK, FollowOK, AcceptedOK, BoundOK, Known,
       Unbound, IsTalk
<1>3. CASE SetUpMatch
  <2>1. phase = "match" /\ phase' = "ask" /\ mapped' = mapped
    BY <1>3 DEF SetUpMatch, clientVars
  <2>2. LastNames(inbox, inst)
    BY <2>1 DEF Inv2, SetUpOK, Quiet, LastNames
  <2>3. QED
    BY <1>1, <2>1, <2>2 DEF Inv2, HostTypes, Boxes, Logs, SetUpOK, FollowOK, AcceptedOK, BoundOK,
       Known, Unbound, IsTalk
<1>4. CASE SetUpAsk
  <2>1. phase = "ask" /\ phase' = "serve" /\ owners' = inst
    BY <1>4 DEF SetUpAsk
  <2>2. QED
    BY <1>1, <2>1 DEF Inv2, HostTypes, Boxes, Logs, SetUpOK, FollowOK, AcceptedOK, BoundOK, Known,
       Unbound, IsTalk
<1>5. QED
  BY <1>2, <1>3, <1>4

\* Before the connection is set up nothing is known and nothing was sent.
LEMMA InitKnown == ASSUME Init PROVE Inv2
<1>1. HostTypes
  BY GatewayAssumption DEF Init, HostTypes, Inst, NoInst, ByName
<1>2. Boxes /\ Logs
  BY DEF Init, Boxes, Logs
<1>3. SetUpOK /\ FollowOK /\ AcceptedOK /\ BoundOK
  BY DEF Init, SetUpOK, FollowOK, AcceptedOK, BoundOK, Quiet, Uncalled, NoInst
<1>4. QED
  BY <1>1, <1>2, <1>3 DEF Inv2

\* Every step keeps what is known of the portal.
LEMMA NextKnown == ASSUME Inv, Inv2, [Next]_vars PROVE Inv2'
<1>1. CASE UNCHANGED vars
  BY <1>1 DEF Inv2, HostTypes, Boxes, Logs, SetUpOK, FollowOK, AcceptedOK, BoundOK, Known, Unbound,
     IsTalk,
     vars, appVars, portalVars, clientVars, threadVars, hostVars
<1>2. CASE Issue \/ Leave
  BY <1>2, AppKnown
<1>3. CASE InstReplaced \/ \E k \in Inst : InstExits(k)
  BY <1>3, ReplacedKnown, ExitsKnown
<1>4. CASE HostCloses
  BY <1>4, ClosesKnown
<1>5. CASE SetUp \/ SetUpUnidentified
  BY <1>5, SetUpRegisterKnown, SetUpKnown DEF SetUp
<1>6. CASE CalmStep
  BY <1>6, CalmSteps
<1>7. CASE OwnerChanged \/ RelayReply \/ RelayResponse
  BY <1>7, ReadSteps
<1>8. CASE Registered
  BY <1>8, RegisteredKnown
<1>9. ASSUME NEW t \in Thread, Route(t) \/ RegisterAgain(t) \/ Send(t) PROVE Inv2'
  BY <1>9, RouteKnown, RegisterAgainKnown, SendKnown
<1>10. CASE BusRoutes
  BY <1>10, BusRoutesKnown
<1>11. ASSUME NEW m \in Msg, NEW k \in 0..MaxInst, NEW type \in {"ok", "err", "bad"}, Replies(m, k, type) PROVE Inv2'
  BY <1>11, RepliesKnown
<1>12. ASSUME NEW m \in Msg, NoReply(m) PROVE Inv2'
  BY <1>12, NoReplyKnown
<1>13. ASSUME NEW c \in Call, Responds(c) PROVE Inv2'
  BY <1>13, RespondsKnown
<1>14. ASSUME Progress PROVE Inv2'
  BY <1>5, <1>6, <1>7, <1>8, <1>9, <1>10, <1>11, <1>12, <1>13, <1>14 DEF Progress, Forward,
     ServeHost,
     CalmStep
<1>15. QED
  BY <1>1, <1>2, <1>3, <1>4, <1>5, <1>6, <1>11, <1>14 DEF Next, CalmStep

\* OwnersFollow and RegisteredFirst follow.
LEMMA KnownRegistered == ASSUME Inv2 PROVE RegisteredFirst
<1>1. OwnersFollow
  BY DEF Inv2, Boxes, FollowOK, Quiet, OwnersFollow
<1>2. ASSUME appId, NEW k \in DOMAIN log, Calls(k) # {} PROVE k \in accepted
  <2>1. k \in Inst /\ log[k] \in Seq(Msg) /\ DOMAIN log[k] = 1..Len(log[k])
    BY DEF Inv2, Logs
  <2>2. ~Uncalled(log[k])
    BY <1>2, <2>1 DEF Calls, Uncalled
  <2>3. QED
    BY <1>2, <2>1, <2>2 DEF Inv2, BoundOK
<1>3. QED
  BY <1>1, <1>2 DEF RegisteredFirst

\* The gateway knows the owner of the portal's name once it has read what the bus
\* reported, and a connection with an identity has registered it with every portal
\* instance that receives one of its calls: owners and PortalState::owner are kept
\* so by registered, serve_host and Gateway::client whenever instances come and go.
THEOREM RegisteredFirstHolds == Spec => []RegisteredFirst
<1>1. Init => Inv2
  BY InitKnown
<1>2. Inv /\ Inv2 /\ [Next]_vars => Inv2'
  BY NextKnown
<1>3. Inv2 => RegisteredFirst
  BY KnownRegistered
<1>4. Inv /\ [Next]_vars => Inv'
  BY StepInv
<1>5. QED
  BY <1>1, <1>2, <1>3, <1>4, InitInv, PTL DEF Spec

-----------------------------------------------------------------------------
(* The order of the app's calls on the way to the portal.                    *)

\* A message for the portal that is no Register.
ForPortal(m) == m # Register /\ ~IsTalk(m)

\* How far a call has come: received by an instance, sent to the bus, passed on by
\* registered, in its batch, held, in the hands of the portal connection's reader, or
\* still to be read by it.
SentOf(m, q) == \E i \in DOMAIN q : q[i].msg = m
Passing == {"route", "check", "send", "handback"}
At(m, r) ==
  \/ r = 1 /\ m # Register /\ \E k \in Inst : Within(m, log[k])
  \/ r = 2 /\ ForPortal(m) /\ SentOf(m, outbox)
  \/ r = 3 /\ pc["host"] \in Passing /\ call["host"] = m
  \/ r = 4 /\ Within(m, batch)
  \/ r = 5 /\ Within(m, held)
  \/ r = 6 /\ pc["portal"] \in Passing /\ call["portal"] = m
  \/ r = 7 /\ Within(m, queue["portal"])
Stage == 1..7

\* A call that is ahead of another was made before it, ...
Ordered == \A m, n \in Nat : \A r, s \in Stage : r < s /\ At(m, r) /\ At(n, s) => m < n

\* ... in each of the lists as well.
Sorted(s) == \A i, j \in DOMAIN s : i < j => s[i] < s[j]
SentSorted(q) ==
  \A i, j \in DOMAIN q : i < j /\ ForPortal(q[i].msg) /\ ForPortal(q[j].msg) => q[i].msg < q[j].msg
CallsSorted(s) == \A i, j \in DOMAIN s : i < j /\ s[i] # Register /\ s[j] # Register => s[i] < s[j]
SortedOK ==
  /\ Sorted(queue["portal"]) /\ Sorted(held) /\ Sorted(batch) /\ SentSorted(outbox)
  /\ \A k \in Inst : CallsSorted(log[k])

\* Only what the app has done so far is on its way.
MadeOK ==
  /\ issued <= N
  /\ \A m \in Nat : \A r \in Stage : At(m, r) => m <= issued \/ (r = 7 /\ m = Leaving /\ left)

\* The reader of the portal connection passes calls while none is held.
PassOK ==
  /\ pc["talk"] \in Passing => IsTalk(call["talk"])
  /\ pc["portal"] \in Passing => ~IsTalk(call["portal"])
  /\ pc["portal"] \in {"check", "send"} => ~registering /\ ~draining
  /\ pc["portal"] # "handback"
  /\ ~registering /\ ~draining => held = <<>>
  /\ pc["host"] \in {"take", "drain"} \cup Passing => draining
  /\ pc["host"] = "handback" => registering
  /\ batch # <<>> => pc["host"] \in {"drain"} \cup Passing

Inv3 == Ordered /\ SortedOK /\ MadeOK /\ PassOK

-----------------------------------------------------------------------------
(* What keeps calls in order.                                                *)

\* A step that moves calls between the stages lo to hi, and puts them there in order.
LEMMA Moved ==
  ASSUME Ordered, NEW lo \in Stage, NEW hi \in Stage,
         \A m \in Nat : \A r \in Stage : At(m, r)' /\ ~(lo <= r /\ r <= hi) => At(m, r),
         \A m \in Nat : \A r \in Stage : At(m, r)' /\ lo <= r /\ r <= hi =>
            \E p \in Stage : lo <= p /\ p <= hi /\ At(m, p),
         \A m, n \in Nat : \A r, s \in Stage :
            lo <= r /\ r < s /\ s <= hi /\ At(m, r)' /\ At(n, s)' => m < n
  PROVE  Ordered'
<1> SUFFICES ASSUME NEW m \in Nat, NEW n \in Nat, NEW r \in Stage, NEW s \in Stage,
                    r < s, At(m, r)', At(n, s)'
             PROVE  m < n
  BY DEF Ordered
<1>1. CASE lo <= r /\ s <= hi
  BY <1>1
<1>2. CASE lo <= r /\ r <= hi /\ hi < s
  <2>1. PICK p \in Stage : p <= hi /\ At(m, p)
    BY <1>2
  <2>2. At(n, s) /\ p < s
    BY <1>2, <2>1 DEF Stage
  <2>3. QED
    BY <2>1, <2>2 DEF Ordered
<1>3. CASE r < lo /\ lo <= s /\ s <= hi
  <2>1. PICK p \in Stage : lo <= p /\ At(n, p)
    BY <1>3
  <2>2. At(m, r) /\ r < p
    BY <1>3, <2>1 DEF Stage
  <2>3. QED
    BY <2>1, <2>2 DEF Ordered
<1>4. CASE ~(lo <= r /\ r <= hi) /\ ~(lo <= s /\ s <= hi)
  BY <1>4 DEF Ordered
<1>5. QED
  BY <1>1, <1>2, <1>3, <1>4 DEF Stage

\* A step that moves no call ahead.
Still ==
  /\ UNCHANGED <<kind, log, outbox, batch, held>>
  /\ queue'["portal"] = queue["portal"]
  /\ \A u \in {"host", "portal"} : pc'[u] \in Passing => pc[u] \in Passing /\ call'[u] = call[u]

\* It keeps the calls in order.
LEMMA StillKeeps ==
  ASSUME Inv3, Still, UNCHANGED <<issued, left>>
  PROVE  Ordered' /\ SortedOK' /\ MadeOK'
<1>1. \A m \in Nat : \A r \in Stage : At(m, r)' => At(m, r)
  BY DEF Still, At, SentOf, ForPortal, IsTalk
<1>2. Ordered'
  BY <1>1 DEF Inv3, Ordered
<1>3. SortedOK'
  BY DEF Inv3, SortedOK, Still, SentSorted, ForPortal, IsTalk
<1>4. MadeOK'
  BY <1>1 DEF Inv3, MadeOK
<1>5. QED
  BY <1>2, <1>3, <1>4

\* Steps of the bus, the portal and the setting up that the calls are not part of.
AsideStep ==
  \/ InstReplaced \/ HostCloses \/ SetUpUnidentified \/ SetUpMatch \/ SetUpAsk
  \/ \E k \in Inst : InstExits(k)
  \/ \E m \in Msg, k \in 0..MaxInst, type \in {"ok", "err", "bad"} : Replies(m, k, type)
  \/ \E m \in Msg : NoReply(m)
  \/ \E c \in Call : Responds(c)

\* What they leave alone.
AsideRest ==
  UNCHANGED <<kind, issued, left, queue, log, outbox, batch, held, registering, draining, pc, call>>

\* They keep the order.
LEMMA AsideOrdered == ASSUME Inv3, AsideStep \/ UNCHANGED vars PROVE Inv3'
<1>1. ASSUME InstReplaced PROVE AsideRest
  BY <1>1 DEF AsideRest, InstReplaced, appVars, portalVars, threadVars, hostVars
<1>2. ASSUME HostCloses PROVE AsideRest
  BY <1>2 DEF AsideRest, HostCloses, appVars, portalVars, threadVars, hostVars
<1>3. ASSUME SetUpUnidentified PROVE AsideRest
  BY <1>3 DEF AsideRest, SetUpUnidentified, appVars, portalVars, threadVars, hostVars
<1>4. ASSUME SetUpMatch PROVE AsideRest
  BY <1>4 DEF AsideRest, SetUpMatch, appVars, portalVars, threadVars, hostVars
<1>5. ASSUME SetUpAsk PROVE AsideRest
  BY <1>5 DEF AsideRest, SetUpAsk, appVars, portalVars, threadVars, hostVars
<1>6. ASSUME NEW k \in Inst, InstExits(k) PROVE AsideRest
  BY <1>6 DEF AsideRest, InstExits, appVars, portalVars, threadVars, hostVars
<1>7. ASSUME NEW m \in Msg, NEW k \in 0..MaxInst, NEW type \in {"ok", "err", "bad"}, Replies(m, k, type) PROVE AsideRest
  BY <1>7 DEF AsideRest, Replies, appVars, portalVars, threadVars, hostVars
<1>8. ASSUME NEW m \in Msg, NoReply(m) PROVE AsideRest
  BY <1>8 DEF AsideRest, NoReply, appVars, portalVars, threadVars, hostVars
<1>9. ASSUME NEW c \in Call, Responds(c) PROVE AsideRest
  BY <1>9 DEF AsideRest, Responds, appVars, portalVars, threadVars, hostVars
<1>10. ASSUME UNCHANGED vars PROVE AsideRest
  BY <1>10 DEF AsideRest, vars, appVars, portalVars, threadVars, hostVars
<1>11. AsideRest
  BY <1>1, <1>2, <1>3, <1>4, <1>5, <1>6, <1>7, <1>8, <1>9, <1>10 DEF AsideStep
<1>12. Ordered' /\ SortedOK' /\ MadeOK'
  BY <1>11, StillKeeps DEF Still, AsideRest
<1>13. PassOK'
  BY <1>11 DEF Inv3, PassOK, AsideRest, IsTalk
<1>14. QED
  BY <1>12, <1>13 DEF Inv3

\* Steps of the gateway's threads that move no call ahead.
StillStep ==
  \/ \E t \in Thread : Route(t) \/ Permit(t) \/ Refuse(t) \/ RegisterAgainFails(t) \/ CloseIfDone(t)
  \/ OwnerChanged \/ EndOpenRequests \/ RelayReply \/ PassReply \/ RelayResponse \/ Registered
  \/ BatchDone \/ EndOfStream \/ FailPending

\* They keep the order.
LEMMA StillOrdered == ASSUME Inv, Inv3, StillStep PROVE Inv3'
<1>1. ASSUME NEW t \in Thread, Route(t) PROVE Still /\ PassOK' /\ UNCHANGED <<issued, left>>
  <2>1. Still
    BY <1>1 DEF Inv, Types, Still, Passing, Thread, Route, ToPortal, MustWait, Holding, appVars,
       portalVars, clientVars, hostVars
  <2>2. UNCHANGED <<kind, issued, left, batch, held>>
    BY <1>1 DEF Route, ToPortal, MustWait, Holding, appVars, portalVars, clientVars, hostVars
  <2>3. PassOK'
    BY <1>1, <2>2 DEF Inv, Types, Inv3, PassOK, Passing, Thread, IsTalk, Route, ToPortal, MustWait,
       Holding, portalVars
  <2>4. QED
    BY <2>1, <2>2, <2>3
<1>2. ASSUME NEW t \in Thread, Permit(t) PROVE Still /\ PassOK' /\ UNCHANGED <<issued, left>>
  <2>1. Still
    BY <1>2 DEF Inv, Types, Still, Passing, Thread, Permit, appVars, portalVars, clientVars,
       hostVars
  <2>2. UNCHANGED <<kind, issued, left, batch, held>>
    BY <1>2 DEF Permit, appVars, portalVars, clientVars, hostVars
  <2>3. PassOK'
    BY <1>2, <2>2 DEF Inv, Types, Inv3, PassOK, Passing, Thread, IsTalk, Permit, portalVars
  <2>4. QED
    BY <2>1, <2>2, <2>3
<1>3. ASSUME NEW t \in Thread, Refuse(t) PROVE Still /\ PassOK' /\ UNCHANGED <<issued, left>>
  <2>1. Still
    BY <1>3 DEF Inv, Types, Still, Passing, Thread, Refuse, Returned, appVars, portalVars,
       clientVars,
       hostVars
  <2>2. UNCHANGED <<kind, issued, left, batch, held>>
    BY <1>3 DEF Refuse, Returned, appVars, portalVars, clientVars, hostVars
  <2>3. PassOK'
    BY <1>3, <2>2 DEF Inv, Types, Inv3, PassOK, Passing, Thread, IsTalk, Refuse, Returned,
       portalVars
  <2>4. QED
    BY <2>1, <2>2, <2>3
<1>4. ASSUME NEW t \in Thread, RegisterAgainFails(t) PROVE Still /\ PassOK' /\ UNCHANGED <<issued,
                                                                                           left>>
  <2>1. Still
    BY <1>4 DEF Inv, Types, Still, Passing, Thread, RegisterAgainFails, ToPortal, Returned, appVars,
       portalVars, clientVars, hostVars
  <2>2. UNCHANGED <<kind, issued, left, batch, held>>
    BY <1>4 DEF RegisterAgainFails, ToPortal, Returned, appVars, portalVars, clientVars, hostVars
  <2>3. PassOK'
    BY <1>4, <2>2 DEF Inv, Types, Inv3, PassOK, Passing, Thread, IsTalk, RegisterAgainFails,
       ToPortal,
       Returned, portalVars
  <2>4. QED
    BY <2>1, <2>2, <2>3
<1>5. ASSUME NEW t \in Thread, CloseIfDone(t) PROVE Still /\ PassOK' /\ UNCHANGED <<issued, left>>
  <2>1. Still
    BY <1>5 DEF Inv, Types, Still, Passing, Thread, CloseIfDone, appVars, portalVars, clientVars,
       hostVars
  <2>2. UNCHANGED <<kind, issued, left, batch, held>>
    BY <1>5 DEF CloseIfDone, appVars, portalVars, clientVars, hostVars
  <2>3. PassOK'
    BY <1>5, <2>2 DEF Inv, Types, Inv3, PassOK, Passing, Thread, IsTalk, CloseIfDone, portalVars
  <2>4. QED
    BY <2>1, <2>2, <2>3
<1>6. ASSUME OwnerChanged PROVE Still /\ PassOK' /\ UNCHANGED <<issued, left>>
  <2>1. Still
    BY <1>6 DEF Inv, Types, Still, Passing, Thread, OwnerChanged, Reads, appVars, portalVars,
       clientVars, hostVars
  <2>2. UNCHANGED <<kind, issued, left, batch, held>>
    BY <1>6 DEF OwnerChanged, Reads, appVars, portalVars, clientVars, hostVars
  <2>3. PassOK'
    BY <1>6, <2>2 DEF Inv, Types, Inv3, PassOK, Passing, Thread, IsTalk, OwnerChanged, Reads,
       portalVars
  <2>4. QED
    BY <2>1, <2>2, <2>3
<1>7. ASSUME EndOpenRequests PROVE Still /\ PassOK' /\ UNCHANGED <<issued, left>>
  <2>1. Still
    BY <1>7 DEF Inv, Types, Still, Passing, Thread, EndOpenRequests, appVars, portalVars,
       clientVars,
       hostVars
  <2>2. UNCHANGED <<kind, issued, left, batch, held>>
    BY <1>7 DEF EndOpenRequests, appVars, portalVars, clientVars, hostVars
  <2>3. PassOK'
    BY <1>7, <2>2 DEF Inv, Types, Inv3, PassOK, Passing, Thread, IsTalk, EndOpenRequests, portalVars
  <2>4. QED
    BY <2>1, <2>2, <2>3
<1>8. ASSUME RelayReply PROVE Still /\ PassOK' /\ UNCHANGED <<issued, left>>
  <2>1. Still
    BY <1>8 DEF Inv, Types, Still, Passing, Thread, RelayReply, Reads, appVars, portalVars,
       clientVars,
       hostVars
  <2>2. UNCHANGED <<kind, issued, left, batch, held>>
    BY <1>8 DEF RelayReply, Reads, appVars, portalVars, clientVars, hostVars
  <2>3. PassOK'
    BY <1>8, <2>2 DEF Inv, Types, Inv3, PassOK, Passing, Thread, IsTalk, RelayReply, Reads,
       portalVars
  <2>4. QED
    BY <2>1, <2>2, <2>3
<1>9. ASSUME PassReply PROVE Still /\ PassOK' /\ UNCHANGED <<issued, left>>
  <2>1. Still
    BY <1>9 DEF Inv, Types, Still, Passing, Thread, PassReply, appVars, portalVars, clientVars,
       hostVars
  <2>2. UNCHANGED <<kind, issued, left, batch, held>>
    BY <1>9 DEF PassReply, appVars, portalVars, clientVars, hostVars
  <2>3. PassOK'
    BY <1>9, <2>2 DEF Inv, Types, Inv3, PassOK, Passing, Thread, IsTalk, PassReply, portalVars
  <2>4. QED
    BY <2>1, <2>2, <2>3
<1>10. ASSUME RelayResponse PROVE Still /\ PassOK' /\ UNCHANGED <<issued, left>>
  <2>1. Still
    BY <1>10 DEF Inv, Types, Still, Passing, Thread, RelayResponse, Reads, appVars, portalVars,
       clientVars, hostVars
  <2>2. UNCHANGED <<kind, issued, left, batch, held>>
    BY <1>10 DEF RelayResponse, Reads, appVars, portalVars, clientVars, hostVars
  <2>3. PassOK'
    BY <1>10, <2>2 DEF Inv, Types, Inv3, PassOK, Passing, Thread, IsTalk, RelayResponse, Reads,
       portalVars
  <2>4. QED
    BY <2>1, <2>2, <2>3
<1>11. ASSUME Registered PROVE Still /\ PassOK' /\ UNCHANGED <<issued, left>>
  <2>1. Still
    BY <1>11 DEF Inv, Types, Still, Passing, Thread, Registered, Reads, appVars, portalVars,
       clientVars, hostVars
  <2>2. UNCHANGED <<kind, issued, left, batch, held>>
    BY <1>11 DEF Registered, Reads, appVars, portalVars, clientVars, hostVars
  <2>3. PassOK'
    BY <1>11, <2>2 DEF Inv, Types, Inv3, PassOK, Passing, Thread, IsTalk, Registered, Reads,
       portalVars
  <2>4. QED
    BY <2>1, <2>2, <2>3
<1>12. ASSUME BatchDone PROVE Still /\ PassOK' /\ UNCHANGED <<issued, left>>
  <2>1. Still
    BY <1>12 DEF Inv, Types, Still, Passing, Thread, BatchDone, appVars, portalVars, clientVars,
       hostVars
  <2>2. UNCHANGED <<kind, issued, left, batch, held>>
    BY <1>12 DEF BatchDone, appVars, portalVars, clientVars, hostVars
  <2>3. PassOK'
    BY <1>12, <2>2 DEF Inv, Types, Inv3, PassOK, Passing, Thread, IsTalk, BatchDone, portalVars
  <2>4. QED
    BY <2>1, <2>2, <2>3
<1>13. ASSUME EndOfStream PROVE Still /\ PassOK' /\ UNCHANGED <<issued, left>>
  <2>1. Still
    BY <1>13 DEF Inv, Types, Still, Passing, Thread, EndOfStream, appVars, portalVars, clientVars,
       hostVars
  <2>2. UNCHANGED <<kind, issued, left, batch, held>>
    BY <1>13 DEF EndOfStream, appVars, portalVars, clientVars, hostVars
  <2>3. PassOK'
    BY <1>13, <2>2 DEF Inv, Types, Inv3, PassOK, Passing, Thread, IsTalk, EndOfStream, portalVars
  <2>4. QED
    BY <2>1, <2>2, <2>3
<1>14. ASSUME FailPending PROVE Still /\ PassOK' /\ UNCHANGED <<issued, left>>
  <2>1. Still
    BY <1>14 DEF Inv, Types, Still, Passing, Thread, FailPending, appVars, portalVars, clientVars,
       hostVars
  <2>2. UNCHANGED <<kind, issued, left, batch, held>>
    BY <1>14 DEF FailPending, appVars, portalVars, clientVars, hostVars
  <2>3. PassOK'
    BY <1>14, <2>2 DEF Inv, Types, Inv3, PassOK, Passing, Thread, IsTalk, FailPending, portalVars
  <2>4. QED
    BY <2>1, <2>2, <2>3
<1>15. Still /\ PassOK' /\ UNCHANGED <<issued, left>>
  BY <1>1, <1>2, <1>3, <1>4, <1>5, <1>6, <1>7, <1>8, <1>9, <1>10, <1>11, <1>12, <1>13,
     <1>14 DEF StillStep
<1>16. QED
  BY <1>15, StillKeeps DEF Inv3

-----------------------------------------------------------------------------
(* Lists in order.                                                           *)

\* A larger element more.
LEMMA SortedMore ==
  ASSUME NEW S, S \subseteq Nat, NEW s \in Seq(S), NEW x \in S, Sorted(s),
         \A m \in Nat : Within(m, s) => m < x
  PROVE  Sorted(Append(s, x))
<1>1. DOMAIN Append(s, x) = DOMAIN s \cup {Len(s) + 1} /\ Append(s, x)[Len(s) + 1] = x
  OBVIOUS
<1>2. \A i \in DOMAIN s : Append(s, x)[i] = s[i] /\ s[i] \in S /\ i < Len(s) + 1 /\ i \in Nat
  OBVIOUS
<1>3. \A i \in DOMAIN s : s[i] < x
  BY <1>2 DEF Within
<1>4. QED
  BY <1>1, <1>2, <1>3 DEF Sorted

\* The smallest element less.
LEMMA SortedLess ==
  ASSUME NEW S, NEW s \in Seq(S), s # <<>>, Sorted(s)
  PROVE  Sorted(Tail(s)) /\ \A m : Within(m, Tail(s)) => Head(s) < m
<1>1. \A i \in DOMAIN Tail(s) : i + 1 \in DOMAIN s /\ Tail(s)[i] = s[i + 1] /\ i \in Nat /\ 1 < i + 1
  OBVIOUS
<1>2. 1 \in DOMAIN s /\ s[1] = Head(s)
  OBVIOUS
<1>3. QED
  BY <1>1, <1>2 DEF Sorted, Within

\* One list after the other.
LEMMA SortedBoth ==
  ASSUME NEW S, NEW s \in Seq(S), NEW u \in Seq(S), Sorted(s), Sorted(u),
         \A m, n : Within(m, s) /\ Within(n, u) => m < n
  PROVE  Sorted(s \o u)
<1>1. /\ DOMAIN (s \o u) = 1..(Len(s) + Len(u)) /\ Len(s) \in Nat /\ Len(u) \in Nat
      /\ DOMAIN s = 1..Len(s) /\ DOMAIN u = 1..Len(u)
  OBVIOUS
<1>2. \A i \in DOMAIN s : (s \o u)[i] = s[i]
  OBVIOUS
<1>3. \A i \in DOMAIN (s \o u) : i \notin DOMAIN s => i - Len(s) \in DOMAIN u /\ (s \o u)[i] = u[i - Len(s)]
  OBVIOUS
<1> SUFFICES ASSUME NEW i \in DOMAIN (s \o u), NEW j \in DOMAIN (s \o u), i < j
             PROVE  (s \o u)[i] < (s \o u)[j]
  BY DEF Sorted
<1>4. CASE i \in DOMAIN s /\ j \in DOMAIN s
  BY <1>2, <1>4 DEF Sorted
<1>5. CASE i \in DOMAIN s /\ j \notin DOMAIN s
  BY <1>2, <1>3, <1>5 DEF Within
<1>6. CASE i \notin DOMAIN s /\ j \notin DOMAIN s
  <2>1. i - Len(s) < j - Len(s)
    BY <1>1
  <2>2. QED
    BY <1>3, <1>6, <2>1 DEF Sorted
<1>7. CASE i \notin DOMAIN s /\ j \in DOMAIN s
  BY <1>1, <1>7
<1>8. QED
  BY <1>4, <1>5, <1>6, <1>7

\* A list that is empty, or of one.
LEMMA SortedShort == ASSUME NEW x PROVE Sorted(<<>>) /\ Sorted(<<x>>)
  BY DEF Sorted

\* What is sent to the bus, one more.
LEMMA SentMore ==
  ASSUME NEW q \in Seq(Outgoing), NEW x \in Outgoing
  PROVE  /\ \A n : SentOf(n, Append(q, x)) <=> SentOf(n, q) \/ n = x.msg
         /\ SentSorted(q) /\ (\A n \in Msg : SentOf(n, q) /\ ForPortal(n) /\ ForPortal(x.msg) => n < x.msg)
              => SentSorted(Append(q, x))
<1>1. DOMAIN Append(q, x) = DOMAIN q \cup {Len(q) + 1} /\ Append(q, x)[Len(q) + 1] = x
  OBVIOUS
<1>2. \A i \in DOMAIN q : Append(q, x)[i] = q[i] /\ i < Len(q) + 1 /\ i \in Nat /\ q[i] \in Outgoing
  OBVIOUS
<1>3. \A i \in DOMAIN q : q[i].msg \in Msg /\ SentOf(q[i].msg, q)
  BY <1>2 DEF Outgoing, SentOf
<1>4. \A n : SentOf(n, Append(q, x)) <=> SentOf(n, q) \/ n = x.msg
  BY <1>1, <1>2 DEF SentOf
<1>5. ASSUME SentSorted(q), \A n \in Msg : SentOf(n, q) /\ ForPortal(n) /\ ForPortal(x.msg) => n < x.msg
      PROVE  SentSorted(Append(q, x))
  BY <1>1, <1>2, <1>3, <1>5 DEF SentSorted
<1>6. QED
  BY <1>4, <1>5

\* The record of a message sent.
LEMMA SentRecord ==
  ASSUME NEW m \in Msg, NEW k \in 0..MaxInst
  PROVE  [msg |-> m, dest |-> k] \in Outgoing /\ [msg |-> m, dest |-> k].msg = m
  BY DEF Outgoing

\* One less.
LEMMA SentLess ==
  ASSUME NEW q \in Seq(Outgoing), q # <<>>
  PROVE  /\ \A n : SentOf(n, Tail(q)) => SentOf(n, q)
         /\ SentOf(Head(q).msg, q)
         /\ SentSorted(q) => /\ SentSorted(Tail(q))
                             /\ \A n : SentOf(n, Tail(q)) /\ ForPortal(n) /\ ForPortal(Head(q).msg) => Head(q).msg < n
<1>1. \A i \in DOMAIN Tail(q) : i + 1 \in DOMAIN q /\ Tail(q)[i] = q[i + 1] /\ i \in Nat /\ 1 < i + 1
  OBVIOUS
<1>2. 1 \in DOMAIN q /\ q[1] = Head(q)
  OBVIOUS
<1>3. QED
  BY <1>1, <1>2 DEF SentSorted, SentOf

\* What an instance has received, one more.
LEMMA ReceivedMore ==
  ASSUME NEW s \in Seq(Msg), NEW m \in Msg, CallsSorted(s),
         m # Register => \A n \in Nat : n # Register /\ Within(n, s) => n < m
  PROVE  CallsSorted(Append(s, m)) /\ \A n : Within(n, Append(s, m)) <=> Within(n, s) \/ n = m
<1>1. DOMAIN Append(s, m) = DOMAIN s \cup {Len(s) + 1} /\ Append(s, m)[Len(s) + 1] = m
  OBVIOUS
<1>2. \A i \in DOMAIN s : Append(s, m)[i] = s[i] /\ s[i] \in Nat /\ i < Len(s) + 1 /\ i \in Nat
  BY GatewayAssumption DEF Msg
<1>3. \A n : Within(n, Append(s, m)) <=> Within(n, s) \/ n = m
  BY <1>1, <1>2 DEF Within
<1>4. \A i \in DOMAIN s : m # Register /\ s[i] # Register => s[i] < m
  BY <1>2 DEF Within
<1>5. CallsSorted(Append(s, m))
  BY <1>1, <1>2, <1>4 DEF CallsSorted
<1>6. QED
  BY <1>3, <1>5

\* Only calls made are on their way when some move.
LEMMA MadeKept ==
  ASSUME Inv3, UNCHANGED <<issued, left>>,
         \A m \in Nat : \A r \in Stage : At(m, r)' => At(m, r) \/ m <= issued
  PROVE  MadeOK'
  BY DEF Inv3, MadeOK

-----------------------------------------------------------------------------
(* Steps that move calls ahead.                                              *)

\* The stages that a step leaves as they are.
LEMMA Early ==
  ASSUME UNCHANGED <<kind, log, outbox>>
  PROVE  \A m, r : r \in {1, 2} /\ At(m, r)' => At(m, r)
  BY DEF At, SentOf, ForPortal, IsTalk

\* Lookup, of a call for a talk name.
LEMMA LookupTalkOrdered == ASSUME Inv, Inv3, Lookup("talk") PROVE Inv3'
<1> DEFINE c == Head(queue["talk"])
<1>1. /\ queue["talk"] # <<>> /\ c # Leaving
      /\ call' = [call EXCEPT !["talk"] = c] /\ pc' = [pc EXCEPT !["talk"] = "route"]
      /\ queue' = [queue EXCEPT !["talk"] = Tail(queue["talk"])]
      /\ UNCHANGED <<kind, issued, left, log, outbox, batch, held, registering, draining>>
  BY DEF Lookup, appVars, portalVars, hostVars
<1>2. queue["talk"] \in Seq(Call \cup {Leaving}) /\ "talk" \in Thread
  BY DEF Inv, Lists, Thread
<1>3. c \in Call /\ Within(c, queue["talk"])
  BY <1>1, <1>2, Dropped
<1> HIDE DEF c
<1>4. IsTalk(c)
  BY <1>2, <1>3 DEF Inv, PlacesOK, Place, ReaderOf, IsTalk
<1>5. /\ pc'["talk"] = "route" /\ call'["talk"] = c /\ queue'["portal"] = queue["portal"]
      /\ \A u \in {"host", "portal"} : pc'[u] = pc[u] /\ call'[u] = call[u]
  BY <1>1 DEF Inv, Types, Lists, Thread
<1>6. Still /\ UNCHANGED <<issued, left>>
  BY <1>1, <1>5 DEF Still
<1>7. PassOK'
  BY <1>1, <1>4, <1>5 DEF Inv3, PassOK, IsTalk
<1>8. QED
  BY <1>6, <1>7, StillKeeps DEF Inv3

\* Lookup, of a call for the portal: the next in the reader's hands.
LEMMA LookupPortalOrdered == ASSUME Inv, Inv3, Lookup("portal") PROVE Inv3'
<1> DEFINE c == Head(queue["portal"])
<1>1. /\ queue["portal"] # <<>> /\ c # Leaving /\ pc["portal"] = "idle"
      /\ call' = [call EXCEPT !["portal"] = c] /\ pc' = [pc EXCEPT !["portal"] = "route"]
      /\ queue' = [queue EXCEPT !["portal"] = Tail(queue["portal"])]
      /\ UNCHANGED <<kind, issued, left, log, outbox, batch, held, registering, draining>>
  BY DEF Lookup, appVars, portalVars, hostVars
<1>2. queue["portal"] \in Seq(Call \cup {Leaving}) /\ "portal" \in Thread
  BY DEF Inv, Lists, Thread
<1>3. c \in Call /\ Within(c, queue["portal"]) /\ \A m : Within(m, Tail(queue["portal"])) => Within(m, queue["portal"])
  BY <1>1, <1>2, Dropped
<1>4. Sorted(Tail(queue["portal"])) /\ \A m : Within(m, Tail(queue["portal"])) => c < m
  BY <1>1, <1>2, SortedLess DEF Inv3, SortedOK
<1> HIDE DEF c
<1>5. c \in Nat /\ ~IsTalk(c)
  BY <1>2, <1>3, GatewayAssumption DEF Inv, PlacesOK, Place, ReaderOf, IsTalk, Call
<1>6. /\ pc'["portal"] = "route" /\ call'["portal"] = c /\ queue'["portal"] = Tail(queue["portal"])
      /\ UNCHANGED <<batch, held>>
      /\ \A u \in {"host", "talk"} : pc'[u] = pc[u] /\ call'[u] = call[u]
  BY <1>1 DEF Inv, Types, Lists, Thread
<1>7. \A m, r : r \in {1, 2} /\ At(m, r)' => At(m, r)
  BY <1>1, Early
<1>8. \A m \in Nat : \A r \in Stage : At(m, r)' => IF r = 6 THEN m = c ELSE At(m, r)
  BY <1>3, <1>6, <1>7 DEF At, Stage
<1>9. At(c, 7) /\ \A n : At(n, 7)' => c < n
  BY <1>3, <1>4, <1>6 DEF At
<1>10. Ordered'
  <2>1. \A m \in Nat : \A r \in Stage : At(m, r)' /\ ~(6 <= r /\ r <= 7) => At(m, r)
    BY <1>8
  <2>2. \A m \in Nat : \A r \in Stage : At(m, r)' /\ 6 <= r /\ r <= 7 => \E p \in Stage : 6 <= p /\ p <= 7 /\ At(m, p)
    BY <1>8, <1>9 DEF Stage
  <2>3. \A m, n \in Nat : \A r, s \in Stage : 6 <= r /\ r < s /\ s <= 7 /\ At(m, r)' /\ At(n, s)' => m < n
    BY <1>8, <1>9 DEF Stage
  <2>4. 6 \in Stage /\ 7 \in Stage
    BY DEF Stage
  <2>5. QED
    BY <2>1, <2>2, <2>3, <2>4, Moved DEF Inv3
<1>11. SortedOK'
  BY <1>1, <1>4, <1>6 DEF Inv3, SortedOK, SentSorted, ForPortal, IsTalk
<1>12. c <= issued
  <2>1. c <= issued \/ c = Leaving
    BY <1>5, <1>9 DEF Inv3, MadeOK, Stage
  <2>2. QED
    BY <1>1, <2>1 DEF c
<1>13. MadeOK'
  BY <1>1, <1>8, <1>12, MadeKept
<1>14. PassOK'
  BY <1>1, <1>5, <1>6 DEF Inv3, PassOK, IsTalk
<1>15. QED
  BY <1>10, <1>11, <1>13, <1>14 DEF Inv3

\* A call goes from the reader's hands to the end of those held.
LEMMA HeldOrdered ==
  ASSUME Inv, Inv2, Inv3, ToPortal("portal"), registering' \/ draining',
         registering => registering',
         draining' <=> draining,
         pc' = [pc EXCEPT !["portal"] = "idle"], held' = Append(held, call["portal"]),
         UNCHANGED <<kind, issued, left, queue, call, log, batch>>,
         \A m : At(m, 2)' => At(m, 2), SentSorted(outbox)'
  PROVE  Inv3'
<1> DEFINE c == call["portal"]
<1>1. c \in Call /\ c \in Nat /\ held \in Seq(Call) /\ Call \subseteq Nat
  BY GatewayAssumption DEF Inv, Types, Lists, ToPortal, Holding, Thread, Call
<1> HIDE DEF c
<1>2. At(c, 6)
  BY DEF At, ToPortal, Passing, c
<1>3. \A m \in Nat : Within(m, held) => m < c
  BY <1>1, <1>2 DEF Inv3, Ordered, At, Stage
<1>4. Sorted(held') /\ \A m : Within(m, held') <=> Within(m, held) \/ m = c
  BY <1>1, <1>3, SortedMore, Appended DEF Inv3, SortedOK, c
<1>5. pc'["portal"] = "idle" /\ \A u \in {"host", "talk"} : pc'[u] = pc[u]
  BY DEF Inv, Types, Thread
<1>6. \A m : At(m, 1)' => At(m, 1)
  BY DEF At
<1>7. \A m \in Nat : \A r \in Stage : At(m, r)' => IF r = 5 THEN At(m, 5) \/ m = c ELSE r # 6 /\ At(m, r)
  BY <1>4, <1>5, <1>6 DEF At, Stage, Passing
<1>8. Ordered'
  <2>1. \A m \in Nat : \A r \in Stage : At(m, r)' /\ ~(5 <= r /\ r <= 6) => At(m, r)
    BY <1>7
  <2>2. \A m \in Nat : \A r \in Stage : At(m, r)' /\ 5 <= r /\ r <= 6 => \E p \in Stage : 5 <= p /\ p <= 6 /\ At(m, p)
    BY <1>2, <1>7 DEF Stage
  <2>3. \A m, n \in Nat : \A r, s \in Stage : 5 <= r /\ r < s /\ s <= 6 /\ At(m, r)' /\ At(n, s)' => m < n
    BY <1>7 DEF Stage
  <2>4. 5 \in Stage /\ 6 \in Stage
    BY DEF Stage
  <2>5. QED
    BY <2>1, <2>2, <2>3, <2>4, Moved DEF Inv3
<1>9. SortedOK'
  BY <1>4 DEF Inv3, SortedOK
<1>10. c <= issued
  BY <1>1, <1>2 DEF Inv3, MadeOK, Stage
<1>11. MadeOK'
  BY <1>7, <1>10, MadeKept
<1>12. PassOK'
  BY <1>5 DEF Inv3, PassOK, Passing, IsTalk
<1>13. QED
  BY <1>8, <1>9, <1>11, <1>12 DEF Inv3

\* Hold.
LEMMA HoldOrdered == ASSUME Inv, Inv2, Inv3, NEW t \in Thread, Hold(t) PROVE Inv3'
<1>1. t = "portal"
  BY DEF Inv3, PassOK, Passing, IsTalk, Hold, ToPortal, MustWait, Thread
<1>2. /\ ToPortal("portal") /\ (registering \/ draining)
      /\ pc' = [pc EXCEPT !["portal"] = "idle"] /\ held' = Append(held, call["portal"])
      /\ UNCHANGED <<kind, issued, left, queue, call, log, batch, outbox>>
  BY <1>1 DEF Hold, MustWait, appVars, hostVars
<1>3. (registering' <=> registering) /\ (draining' <=> draining)
  BY DEF Hold
<1>4. \A m : At(m, 2)' => At(m, 2)
  BY <1>2, Early
<1>5. SentSorted(outbox)'
  BY <1>2 DEF Inv3, SortedOK, SentSorted, ForPortal, IsTalk
<1>6. QED
  BY <1>2, <1>3, <1>4, <1>5, HeldOrdered

\* RegisterAgain: the Register sent is no call; the call is held, or kept in hand.
LEMMA RegisterAgainOrdered == ASSUME Inv, Inv2, Inv3, NEW t \in Thread, RegisterAgain(t) PROVE Inv3'
<1>1. /\ ToPortal(t) /\ ~MustWait(t)
      /\ outbox' = Append(outbox, [msg |-> Register, dest |-> ByName])
      /\ UNCHANGED <<kind, issued, left, queue, call, log, batch>>
  BY DEF RegisterAgain, appVars, hostVars
<1>2. registering' /\ (draining' <=> draining)
  BY DEF RegisterAgain
<1>3. outbox \in Seq(Outgoing) /\ Register \in Msg /\ ByName \in 0..MaxInst
  BY GatewayAssumption DEF Inv2, Boxes, Register, Msg, ByName
<1>4. /\ \A n : SentOf(n, outbox') <=> SentOf(n, outbox) \/ n = Register
      /\ SentSorted(outbox) => SentSorted(outbox')
  <2>1. ~ForPortal(Register)
    BY DEF ForPortal
  <2>2. QED
    BY <1>1, <1>3, <2>1, SentMore, SentRecord
<1>5. SentSorted(outbox)'
  BY <1>1, <1>4 DEF Inv3, SortedOK, SentSorted, ForPortal, IsTalk
<1>6. \A m : At(m, 2)' => At(m, 2)
  BY <1>1, <1>4 DEF At, SentOf, ForPortal, IsTalk
<1>7. CASE t = "portal"
  <2>1. pc' = [pc EXCEPT !["portal"] = "idle"] /\ held' = Append(held, call["portal"])
    BY <1>7 DEF RegisterAgain
  <2>2. QED
    BY <1>1, <1>2, <1>5, <1>6, <1>7, <2>1, HeldOrdered
<1>8. CASE t = "host"
  <2>1. pc' = [pc EXCEPT !["host"] = "handback"] /\ held' = held
    BY <1>8 DEF RegisterAgain
  <2>2. pc["host"] = "route" /\ pc'["host"] = "handback" /\ \A u \in {"portal", "talk"} : pc'[u] = pc[u]
    BY <1>1, <1>8, <2>1 DEF Inv, Types, Thread, ToPortal
  <2>3. \A m : At(m, 1)' => At(m, 1)
    BY <1>1 DEF At
  <2>4. UNCHANGED <<queue, call, batch, held>>
    BY <1>1, <2>1
  <2>5. \A m \in Nat : \A r \in Stage : At(m, r)' => At(m, r)
    BY <1>6, <2>2, <2>3, <2>4 DEF At, Stage, Passing
  <2>6. Ordered'
    BY <2>5 DEF Inv3, Ordered
  <2>7. SortedOK'
    BY <1>1, <1>5, <2>4 DEF Inv3, SortedOK
  <2>8. MadeOK'
    BY <1>1, <2>5, MadeKept
  <2>9. PassOK'
    BY <1>1, <1>2, <2>2, <2>4 DEF Inv3, PassOK, Passing, IsTalk
  <2>10. QED
    BY <2>6, <2>7, <2>8, <2>9 DEF Inv3
<1>9. t # "talk"
  BY <1>1 DEF Inv3, PassOK, Passing, IsTalk, ToPortal
<1>10. QED
  BY <1>7, <1>8, <1>9 DEF Thread

\* What Send does when the connection is closed.
LEMMA SendFailsOrdered == ASSUME Inv, Inv3, NEW t \in Thread, Send(t), outbox' = outbox PROVE Inv3'
<1>1. /\ pc[t] = "send" /\ pc' = [pc EXCEPT ![t] = Returned(t)]
      /\ UNCHANGED <<kind, issued, left, queue, call, log, batch, held, registering, draining>>
  BY DEF Send, appVars, portalVars, hostVars
<1>2. Still
  BY <1>1 DEF Inv, Types, Still, Passing, Thread, Returned
<1>3. PassOK'
  BY <1>1 DEF Inv, Types, Inv3, PassOK, Passing, Thread, Returned, IsTalk
<1>4. QED
  BY <1>1, <1>2, <1>3, StillKeeps DEF Inv3

\* Send, of a call for a talk name.
LEMMA SendTalkOrdered == ASSUME Inv, Inv2, Inv3, Send("talk"), open PROVE Inv3'
<1>1. /\ pc["talk"] = "send" /\ pc' = [pc EXCEPT !["talk"] = "idle"]
      /\ outbox' = Append(outbox, [msg |-> call["talk"], dest |-> dest["talk"]])
      /\ UNCHANGED <<kind, issued, left, queue, call, log, batch, held, registering, draining>>
  BY DEF Send, Returned, appVars, portalVars, hostVars
<1>2. /\ outbox \in Seq(Outgoing) /\ call["talk"] \in Msg /\ dest["talk"] \in 0..MaxInst
      /\ IsTalk(call["talk"])
  BY <1>1 DEF Inv, Types, Inv2, Boxes, HostTypes, Inv3, PassOK, Passing, Thread
<1>3. ~ForPortal(call["talk"])
  BY <1>2 DEF ForPortal
<1>4. /\ \A n : SentOf(n, outbox') <=> SentOf(n, outbox) \/ n = call["talk"]
      /\ SentSorted(outbox) => SentSorted(outbox')
  BY <1>1, <1>2, <1>3, SentMore, SentRecord
<1>5. SentSorted(outbox)'
  BY <1>1, <1>4 DEF Inv3, SortedOK, SentSorted, ForPortal, IsTalk
<1>6. \A m, r : r \in {1, 2} /\ At(m, r)' => At(m, r)
  BY <1>1, <1>3, <1>4 DEF At, SentOf, ForPortal, IsTalk
<1>7. pc'["talk"] = "idle" /\ \A u \in {"portal", "host"} : pc'[u] = pc[u]
  BY <1>1 DEF Inv, Types, Thread
<1>8. UNCHANGED <<kind, queue, call, batch, held>>
  BY <1>1
<1>9. \A m \in Nat : \A r \in Stage : At(m, r)' => At(m, r)
  BY <1>6, <1>7, <1>8 DEF At, Stage, Passing
<1>10. Ordered'
  BY <1>9 DEF Inv3, Ordered
<1>11. SortedOK'
  BY <1>1, <1>5 DEF Inv3, SortedOK
<1>12. MadeOK'
  BY <1>1, <1>9, MadeKept
<1>13. PassOK'
  BY <1>1, <1>7 DEF Inv3, PassOK, Passing, IsTalk
<1>14. QED
  BY <1>10, <1>11, <1>12, <1>13 DEF Inv3

\* Send: nothing is left to pass on ahead of the call.
LEMMA SendOrdered ==
  ASSUME Inv, Inv2, Inv3, NEW t \in {"portal", "host"}, Send(t), open
  PROVE  Inv3'
<1> DEFINE c == call[t]
           r0 == IF t = "host" THEN 3 ELSE 6
<1>1. /\ pc[t] = "send" /\ pc' = [pc EXCEPT ![t] = Returned(t)]
      /\ outbox' = Append(outbox, [msg |-> call[t], dest |-> dest[t]])
      /\ UNCHANGED <<kind, issued, left, queue, call, log, batch, held, registering, draining>>
  BY DEF Send, appVars, portalVars, hostVars
<1>2. /\ outbox \in Seq(Outgoing) /\ c \in Msg /\ dest[t] \in 0..MaxInst /\ c \in Nat
  BY <1>1, GatewayAssumption DEF Inv, Types, Inv2, Boxes, HostTypes, Thread, Msg
<1>3. r0 \in Stage /\ At(c, r0)
  BY <1>1 DEF At, Passing, Stage
<1>4. \A n \in Msg : SentOf(n, outbox) /\ ForPortal(n) => n < c
  <2> SUFFICES ASSUME NEW n \in Msg, SentOf(n, outbox), ForPortal(n) PROVE n < c
    OBVIOUS
  <2>1. n \in Nat /\ At(n, 2)
    BY GatewayAssumption DEF At, Msg
  <2>2. QED
    BY <1>2, <1>3, <2>1 DEF Inv3, Ordered, Stage
<1>5. /\ \A n : SentOf(n, outbox') <=> SentOf(n, outbox) \/ n = c
      /\ SentSorted(outbox')
  BY <1>1, <1>2, <1>4, SentMore, SentRecord DEF Inv3, SortedOK
<1> HIDE DEF c
<1>6. SentSorted(outbox)'
  BY <1>1, <1>5 DEF SentSorted, ForPortal, IsTalk
<1>7. \A m : (At(m, 1)' => At(m, 1)) /\ (At(m, 2)' => At(m, 2) \/ m = c)
  BY <1>1, <1>5 DEF At, SentOf, ForPortal, IsTalk
<1>8. pc'[t] \in {"idle", "drain"} /\ \A u \in Thread : u # t => pc'[u] = pc[u]
  BY <1>1 DEF Inv, Types, Thread, Returned
<1>9. UNCHANGED <<queue, call, batch, held>>
  BY <1>1
<1>10. \A m \in Nat : \A r \in Stage : At(m, r)' => IF r = 2 THEN At(m, r) \/ m = c ELSE At(m, r) /\ r # r0
  BY <1>7, <1>8, <1>9 DEF At, Stage, Passing, Thread
<1>11. t = "portal" => \A m : \A r \in {3, 4, 5} : ~At(m, r)
  <2>1. ASSUME t = "portal" PROVE held = <<>> /\ batch = <<>> /\ pc["host"] \notin Passing
    BY <1>1, <2>1 DEF Inv3, PassOK
  <2>2. \A m : ~Within(m, <<>>)
    BY Short
  <2>3. QED
    BY <2>1, <2>2 DEF At
<1>12. Ordered'
  <2>1. \A m \in Nat : \A r \in Stage : At(m, r)' /\ ~(2 <= r /\ r <= r0) => At(m, r)
    BY <1>10
  <2>2. \A m \in Nat : \A r \in Stage : At(m, r)' /\ 2 <= r /\ r <= r0 => \E p \in Stage : 2 <= p /\ p <= r0 /\ At(m, p)
    BY <1>3, <1>10 DEF Stage
  <2>3. \A n \in Nat : \A s \in Stage : 2 < s /\ s <= r0 => ~At(n, s)'
    BY <1>10, <1>11 DEF Stage
  <2>4. \A m, n \in Nat : \A r, s \in Stage : 2 <= r /\ r < s /\ s <= r0 /\ At(m, r)' /\ At(n, s)' => m < n
    BY <2>3 DEF Stage
  <2>5. 2 \in Stage
    BY DEF Stage
  <2>6. QED
    BY <1>3, <2>1, <2>2, <2>4, <2>5, Moved DEF Inv3
<1>13. SortedOK'
  BY <1>1, <1>6 DEF Inv3, SortedOK
<1>14. c <= issued
  BY <1>2, <1>3 DEF Inv3, MadeOK
<1>15. MadeOK'
  BY <1>1, <1>10, <1>14, MadeKept
<1>16. PassOK'
  BY <1>1, <1>8 DEF Inv, Types, Inv3, PassOK, Passing, Returned, IsTalk, Thread
<1>17. QED
  BY <1>12, <1>13, <1>15, <1>16 DEF Inv3

\* TakeHeld: those held are the next batch.
LEMMA TakeHeldOrdered == ASSUME Inv, Inv3, TakeHeld PROVE Inv3'
<1>1. /\ pc["host"] = "take" /\ batch' = held /\ held' = <<>>
      /\ pc' = [pc EXCEPT !["host"] = IF held = <<>> THEN "idle" ELSE "drain"]
      /\ UNCHANGED <<kind, issued, left, queue, call, log, outbox, registering>>
  BY DEF TakeHeld, appVars, hostVars
<1>2. draining' <=> held # <<>>
  BY DEF TakeHeld
<1>3. /\ pc'["host"] = (IF held = <<>> THEN "idle" ELSE "drain")
      /\ \A u \in {"portal", "talk"} : pc'[u] = pc[u]
  BY <1>1 DEF Inv, Types, Thread
<1>4. \A m : ~Within(m, <<>>)
  BY Short
<1>5. \A m, r : r \in {1, 2} /\ At(m, r)' => At(m, r)
  BY <1>1, Early
<1>6. UNCHANGED <<call, queue>> /\ \A m : ~Within(m, held') /\ (Within(m, batch') => Within(m, held))
  BY <1>1, <1>4
<1>7. \A m \in Nat : \A r \in Stage : At(m, r)' => IF r = 4 THEN At(m, 5) ELSE r # 5 /\ At(m, r)
  <2>1. pc'["host"] \notin Passing /\ pc'["portal"] = pc["portal"]
    BY <1>3 DEF Passing
  <2>2. QED
    BY <1>5, <1>6, <2>1 DEF At, Stage
<1>8. Ordered'
  <2>1. \A m \in Nat : \A r \in Stage : At(m, r)' /\ ~(4 <= r /\ r <= 5) => At(m, r)
    BY <1>7
  <2>2. \A m \in Nat : \A r \in Stage : At(m, r)' /\ 4 <= r /\ r <= 5 => \E p \in Stage : 4 <= p /\ p <= 5 /\ At(m, p)
    BY <1>7 DEF Stage
  <2>3. \A m, n \in Nat : \A r, s \in Stage : 4 <= r /\ r < s /\ s <= 5 /\ At(m, r)' /\ At(n, s)' => m < n
    BY <1>7 DEF Stage
  <2>4. 4 \in Stage /\ 5 \in Stage
    BY DEF Stage
  <2>5. QED
    BY <2>1, <2>2, <2>3, <2>4, Moved DEF Inv3
<1>9. SortedOK'
  BY <1>1, SortedShort DEF Inv3, SortedOK, SentSorted, ForPortal, IsTalk
<1>10. \A m \in Nat : At(m, 5) => m <= issued
  BY DEF Inv3, MadeOK, Stage
<1>11. MadeOK'
  BY <1>1, <1>7, <1>10, MadeKept DEF Stage
<1>12. PassOK'
  BY <1>1, <1>2, <1>3 DEF Inv3, PassOK, Passing, IsTalk
<1>13. QED
  BY <1>8, <1>9, <1>11, <1>12 DEF Inv3

\* NextHeld: the next of the batch is in the hands of the host connection's reader.
LEMMA NextHeldOrdered == ASSUME Inv, Inv3, NextHeld PROVE Inv3'
<1> DEFINE c == Head(batch)
<1>1. /\ pc["host"] = "drain" /\ batch # <<>> /\ batch' = Tail(batch)
      /\ call' = [call EXCEPT !["host"] = c]
      /\ pc' = pc \/ pc' = [pc EXCEPT !["host"] = "route"]
      /\ UNCHANGED <<kind, issued, left, queue, log, outbox, held, registering, draining>>
  BY DEF NextHeld, appVars, portalVars, hostVars
<1>2. batch \in Seq(Call)
  BY DEF Inv, Lists
<1>3. c \in Call /\ Within(c, batch) /\ \A m : Within(m, Tail(batch)) => Within(m, batch)
  BY <1>1, <1>2, Dropped
<1>4. Sorted(Tail(batch)) /\ \A m : Within(m, Tail(batch)) => c < m
  BY <1>1, <1>2, SortedLess DEF Inv3, SortedOK
<1> HIDE DEF c
<1>5. c \in Nat
  BY <1>3, GatewayAssumption DEF Call
<1>6. /\ pc'["host"] \in {"drain", "route"} /\ call'["host"] = c
      /\ \A u \in {"portal", "talk"} : pc'[u] = pc[u] /\ call'[u] = call[u]
  BY <1>1 DEF Inv, Types, Thread
<1>7. \A m, r : r \in {1, 2} /\ At(m, r)' => At(m, r)
  BY <1>1, Early
<1>8. UNCHANGED <<queue, held>> /\ \A m : Within(m, batch') => Within(m, batch) /\ c < m
  BY <1>1, <1>3, <1>4
<1>9. \A m \in Nat : \A r \in Stage : At(m, r)' => IF r = 3 THEN m = c ELSE At(m, r)
  BY <1>6, <1>7, <1>8 DEF At, Stage
<1>10. At(c, 4) /\ \A n : At(n, 4)' => c < n
  BY <1>3, <1>8 DEF At
<1>11. Ordered'
  <2>1. \A m \in Nat : \A r \in Stage : At(m, r)' /\ ~(3 <= r /\ r <= 4) => At(m, r)
    BY <1>9
  <2>2. \A m \in Nat : \A r \in Stage : At(m, r)' /\ 3 <= r /\ r <= 4 => \E p \in Stage : 3 <= p /\ p <= 4 /\ At(m, p)
    BY <1>9, <1>10 DEF Stage
  <2>3. \A m, n \in Nat : \A r, s \in Stage : 3 <= r /\ r < s /\ s <= 4 /\ At(m, r)' /\ At(n, s)' => m < n
    BY <1>9, <1>10 DEF Stage
  <2>4. 3 \in Stage /\ 4 \in Stage
    BY DEF Stage
  <2>5. QED
    BY <2>1, <2>2, <2>3, <2>4, Moved DEF Inv3
<1>12. SortedOK'
  BY <1>1, <1>4 DEF Inv3, SortedOK, SentSorted, ForPortal, IsTalk
<1>13. c <= issued
  BY <1>5, <1>10 DEF Inv3, MadeOK, Stage
<1>14. MadeOK'
  BY <1>1, <1>9, <1>13, MadeKept
<1>15. PassOK'
  BY <1>1, <1>6 DEF Inv3, PassOK, Passing, IsTalk
<1>16. QED
  BY <1>11, <1>12, <1>14, <1>15 DEF Inv3

\* HandBack: the call in hand and the rest of the batch go back ahead of those held.
LEMMA HandBackOrdered == ASSUME Inv, Inv3, HandBack PROVE Inv3'
<1> DEFINE c == call["host"]
           one == <<c>>
<1>1. /\ pc["host"] = "handback" /\ held' = one \o batch \o held /\ batch' = <<>>
      /\ pc' = [pc EXCEPT !["host"] = "idle"]
      /\ UNCHANGED <<kind, issued, left, queue, call, log, outbox, registering>>
  BY DEF HandBack, appVars, hostVars
<1>2. ~draining'
  BY DEF HandBack
<1>3. c \in Call /\ held \in Seq(Call) /\ batch \in Seq(Call)
  BY <1>1 DEF Inv, Types, Lists, Holding, Thread
<1>4. one \in Seq(Call) /\ Sorted(one) /\ \A m : Within(m, one) <=> m = c
  BY <1>3, Short, SortedShort
<1> HIDE DEF one, c
<1>5. /\ c \in Nat /\ At(c, 3) /\ \A m : Within(m, batch) \/ Within(m, held) => m \in Nat
      /\ \A m : (Within(m, batch) => At(m, 4)) /\ (Within(m, held) => At(m, 5))
  BY <1>1, <1>3, GatewayAssumption DEF At, Passing, Call, Within, c
<1>6. /\ \A m : (Within(m, batch) => c < m) /\ (Within(m, held) => c < m)
      /\ \A m, n : Within(m, batch) /\ Within(n, held) => m < n
  BY <1>5 DEF Inv3, Ordered, Stage
<1>7. /\ one \o batch \in Seq(Call) /\ Sorted(one \o batch)
      /\ \A m : Within(m, one \o batch) <=> m = c \/ Within(m, batch)
  BY <1>3, <1>4, <1>6, Joined, SortedBoth DEF Inv3, SortedOK
<1> DEFINE s == one \o batch
<1> HIDE DEF s
<1>8. s \in Seq(Call) /\ Sorted(s) /\ \A m : Within(m, s) <=> m = c \/ Within(m, batch)
  BY <1>7 DEF s
<1>9. Sorted(s \o held) /\ \A m : Within(m, s \o held) <=> Within(m, s) \/ Within(m, held)
  BY <1>3, <1>6, <1>8, Joined, SortedBoth DEF Inv3, SortedOK
<1>10. held' = s \o held
  BY <1>1 DEF s
<1>11. Sorted(held') /\ \A m : Within(m, held') => m = c \/ Within(m, batch) \/ Within(m, held)
  BY <1>8, <1>9, <1>10
<1>12. pc'["host"] = "idle" /\ \A u \in {"portal", "talk"} : pc'[u] = pc[u]
  BY <1>1 DEF Inv, Types, Thread
<1>13. \A m, r : r \in {1, 2} /\ At(m, r)' => At(m, r)
  BY <1>1, Early
<1>14. UNCHANGED <<queue, call>> /\ \A m : ~Within(m, batch')
  BY <1>1, Short
<1>15. \A m \in Nat : \A r \in Stage : At(m, r)' =>
         IF r = 5 THEN At(m, 3) \/ At(m, 4) \/ At(m, 5) ELSE r \notin {3, 4} /\ At(m, r)
  <2>1. \A m \in Nat : At(m, 5)' => At(m, 3) \/ At(m, 4) \/ At(m, 5)
    BY <1>5, <1>11 DEF At
  <2>2. \A m \in Nat : \A r \in Stage : At(m, r)' /\ r # 5 => r \notin {3, 4} /\ At(m, r)
    BY <1>12, <1>13, <1>14 DEF At, Stage, Passing
  <2>3. QED
    BY <2>1, <2>2
<1>16. Ordered'
  <2>1. \A m \in Nat : \A r \in Stage : At(m, r)' /\ ~(3 <= r /\ r <= 5) => At(m, r)
    BY <1>15 DEF Stage
  <2>2. \A m \in Nat : \A r \in Stage : At(m, r)' /\ 3 <= r /\ r <= 5 => \E p \in Stage : 3 <= p /\ p <= 5 /\ At(m, p)
    BY <1>15 DEF Stage
  <2>3. \A m, n \in Nat : \A r, s1 \in Stage : 3 <= r /\ r < s1 /\ s1 <= 5 /\ At(m, r)' /\ At(n, s1)' => m < n
    BY <1>15 DEF Stage
  <2>4. 3 \in Stage /\ 5 \in Stage
    BY DEF Stage
  <2>5. QED
    BY <2>1, <2>2, <2>3, <2>4, Moved DEF Inv3
<1>17. SortedOK'
  BY <1>1, <1>11, SortedShort DEF Inv3, SortedOK, SentSorted, ForPortal, IsTalk
<1>18. \A m \in Nat : At(m, 3) \/ At(m, 4) \/ At(m, 5) => m <= issued
  BY DEF Inv3, MadeOK, Stage
<1>19. MadeOK'
  BY <1>1, <1>15, <1>18, MadeKept
<1>20. PassOK'
  BY <1>1, <1>2, <1>12 DEF Inv3, PassOK, Passing, IsTalk
<1>21. QED
  BY <1>16, <1>17, <1>19, <1>20 DEF Inv3

\* NameChanged: the app's departure has been read.
LEMMA NameChangedOrdered == ASSUME Inv, Inv3, NameChanged PROVE Inv3'
<1>1. /\ queue["portal"] # <<>> /\ queue' = [queue EXCEPT !["portal"] = Tail(queue["portal"])]
      /\ pc["portal"] = "idle" /\ pc' = [pc EXCEPT !["portal"] = IF mapped THEN "close" ELSE "idle"]
      /\ UNCHANGED <<kind, issued, left, call, log, outbox, batch, held, registering, draining>>
  BY DEF NameChanged, appVars, portalVars, hostVars
<1>2. queue["portal"] \in Seq(Call \cup {Leaving})
  BY DEF Inv, Lists, Thread
<1>3. Sorted(Tail(queue["portal"])) /\ \A m : Within(m, Tail(queue["portal"])) => Within(m, queue["portal"])
  BY <1>1, <1>2, SortedLess, Dropped DEF Inv3, SortedOK
<1>4. queue'["portal"] = Tail(queue["portal"]) /\ UNCHANGED <<call, batch, held>>
  BY <1>1 DEF Inv, Lists, Thread
<1>5. pc'["portal"] \in {"idle", "close"} /\ \A u \in {"host", "talk"} : pc'[u] = pc[u]
  BY <1>1 DEF Inv, Types, Thread
<1>6. \A m, r : r \in {1, 2} /\ At(m, r)' => At(m, r)
  BY <1>1, Early
<1>7. \A m \in Nat : \A r \in Stage : At(m, r)' => At(m, r)
  BY <1>3, <1>4, <1>5, <1>6 DEF At, Stage, Passing
<1>8. Ordered'
  BY <1>7 DEF Inv3, Ordered
<1>9. SortedOK'
  BY <1>1, <1>3, <1>4 DEF Inv3, SortedOK, SentSorted, ForPortal, IsTalk
<1>10. MadeOK'
  BY <1>1, <1>7, MadeKept
<1>11. PassOK'
  BY <1>1, <1>5 DEF Inv3, PassOK, Passing, IsTalk
<1>12. QED
  BY <1>8, <1>9, <1>10, <1>11 DEF Inv3

\* A message that an instance receives, which is the next one sent or a Register.
LEMMA LogOrdered ==
  ASSUME Inv2, Inv3, NEW k \in Inst, NEW m \in Msg, log' = [log EXCEPT ![k] = Append(@, m)],
         m # Register => \A n \in Nat : At(n, 1) => n < m
  PROVE  /\ \A j \in Inst : CallsSorted(log'[j])
         /\ \A n : At(n, 1)' => At(n, 1) \/ (n = m /\ m # Register)
<1>1. log[k] \in Seq(Msg) /\ CallsSorted(log[k]) /\ (m # Register => \A n \in Nat : n # Register /\ Within(n, log[k]) => n < m)
  BY DEF Inv2, Logs, Inv3, SortedOK, At
<1>2. PICK s : s = Append(log[k], m)
  OBVIOUS
<1>3. CallsSorted(s) /\ \A n : Within(n, s) <=> Within(n, log[k]) \/ n = m
  BY <1>1, <1>2, ReceivedMore
<1>4. \A j \in Inst : log'[j] = IF j = k THEN s ELSE log[j]
  BY <1>2 DEF Inv2, Logs
<1>5. \A j \in Inst : CallsSorted(log'[j])
  BY <1>3, <1>4 DEF Inv3, SortedOK
<1>6. \A n : At(n, 1)' => At(n, 1) \/ (n = m /\ m # Register)
  BY <1>3, <1>4 DEF At
<1>7. QED
  BY <1>5, <1>6

\* SetUpRegister.
LEMMA SetUpRegisterOrdered == ASSUME Inv2, Inv3, SetUpRegister PROVE Inv3'
<1>1. /\ log' = [log EXCEPT ![Activated] = Append(@, Register)]
      /\ UNCHANGED <<kind, issued, left, queue, outbox, batch, held, registering, draining, pc, call>>
  BY DEF SetUpRegister, appVars, threadVars
<1>2. Activated \in Inst /\ Register \in Msg
  BY ActivatedOK, GatewayAssumption DEF Inv2, SetUpRegister, Register, Msg
<1>3. /\ \A j \in Inst : CallsSorted(log'[j])
      /\ \A n : At(n, 1)' => At(n, 1)
  BY <1>1, <1>2, LogOrdered
<1>4. UNCHANGED <<kind, queue, outbox, batch, held, pc, call>>
  BY <1>1
<1>5. \A m \in Nat : \A r \in Stage : r # 1 /\ At(m, r)' => At(m, r)
  BY <1>4 DEF At, SentOf, ForPortal, IsTalk
<1>6. \A m \in Nat : \A r \in Stage : At(m, r)' => At(m, r)
  BY <1>3, <1>5
<1>7. Ordered'
  BY <1>6 DEF Inv3, Ordered
<1>8. SortedOK'
  BY <1>1, <1>3 DEF Inv3, SortedOK, SentSorted, ForPortal, IsTalk
<1>9. MadeOK'
  BY <1>1, <1>6, MadeKept
<1>10. PassOK'
  BY <1>1 DEF Inv3, PassOK, IsTalk
<1>11. QED
  BY <1>7, <1>8, <1>9, <1>10 DEF Inv3

\* BusRoutes: the bus takes the first message, and at most one instance receives it.
LEMMA BusRoutesOrdered == ASSUME Inv, Inv2, Inv3, BusRoutes PROVE Inv3'
<1> DEFINE c == Head(outbox).msg
<1>1. /\ outbox # <<>> /\ outbox' = Tail(outbox) /\ outbox \in Seq(Outgoing)
      /\ UNCHANGED <<kind, issued, left, queue, batch, held, registering, draining, pc, call>>
  BY DEF Inv2, Boxes, BusRoutes, appVars, portalVars, threadVars
<1>2. c \in Msg /\ c \in Nat
  BY Routed, GatewayAssumption DEF Msg
<1>3. \/ log' = log
      \/ ~IsTalk(c) /\ \E k \in Inst : log' = [log EXCEPT ![k] = Append(@, c)]
  <2>1. CASE IsTalk(c)
    BY <2>1 DEF BusRoutes
  <2>2. CASE ~IsTalk(c) /\ RouteToName(c)
    <3>1. Activated \in Inst
      BY <2>2, ActivatedOK DEF Inv2, RouteToName
    <3>2. QED
      BY <2>2, <3>1 DEF RouteToName
  <2>3. CASE ~IsTalk(c) /\ RouteToInst(c, Head(outbox).dest)
    BY <2>3 DEF RouteToInst, Inv2, HostTypes
  <2>4. CASE NotActivated(c)
    BY <2>4 DEF NotActivated
  <2>5. QED
    BY <2>1, <2>2, <2>3, <2>4 DEF BusRoutes
<1>4. /\ \A n : SentOf(n, outbox') => SentOf(n, outbox)
      /\ SentOf(c, outbox) /\ SentSorted(outbox')
      /\ \A n : SentOf(n, outbox') /\ ForPortal(n) /\ ForPortal(c) => c < n
  BY <1>1, SentLess DEF Inv3, SortedOK
<1> HIDE DEF c
<1>5. SentSorted(outbox)'
  BY <1>1, <1>4 DEF SentSorted, ForPortal, IsTalk
<1>6. ~IsTalk(c) /\ c # Register => At(c, 2) /\ ForPortal(c)
  BY <1>4 DEF At, ForPortal
<1>7. ~IsTalk(c) /\ c # Register => \A n \in Nat : At(n, 1) => n < c
  BY <1>2, <1>6 DEF Inv3, Ordered, Stage
<1>8. /\ \A j \in Inst : CallsSorted(log'[j])
      /\ \A n : At(n, 1)' => At(n, 1) \/ (n = c /\ c # Register /\ ~IsTalk(c))
  <2>1. CASE log' = log
    BY <2>1 DEF Inv3, SortedOK, At
  <2>2. CASE ~IsTalk(c) /\ \E k \in Inst : log' = [log EXCEPT ![k] = Append(@, c)]
    <3>1. PICK k \in Inst : log' = [log EXCEPT ![k] = Append(@, c)]
      BY <2>2
    <3>2. QED
      BY <1>2, <1>7, <2>2, <3>1, LogOrdered
  <2>3. QED
    BY <1>3, <2>1, <2>2
<1>9. \A n : At(n, 2)' => At(n, 2) /\ (~IsTalk(c) /\ c # Register => c < n)
  BY <1>1, <1>4, <1>6 DEF At, SentOf, ForPortal, IsTalk
<1>10. UNCHANGED <<queue, batch, held, pc, call>>
  BY <1>1
<1>11. \A m \in Nat : \A r \in Stage : r \notin {1, 2} /\ At(m, r)' => At(m, r)
  BY <1>10 DEF At
<1>12. Ordered'
  <2>1. \A m \in Nat : \A r \in Stage : At(m, r)' /\ ~(1 <= r /\ r <= 2) => At(m, r)
    BY <1>11 DEF Stage
  <2>2. \A m \in Nat : \A r \in Stage : At(m, r)' /\ 1 <= r /\ r <= 2 => \E p \in Stage : 1 <= p /\ p <= 2 /\ At(m, p)
    BY <1>6, <1>8, <1>9 DEF Stage
  <2>3. \A m, n \in Nat : At(m, 1)' /\ At(n, 2)' => m < n
    <3> SUFFICES ASSUME NEW m \in Nat, NEW n \in Nat, At(m, 1)', At(n, 2)' PROVE m < n
      OBVIOUS
    <3>1. CASE At(m, 1)
      BY <1>9, <3>1 DEF Inv3, Ordered, Stage
    <3>2. CASE m = c /\ c # Register /\ ~IsTalk(c)
      BY <1>9, <3>2
    <3>3. QED
      BY <1>8, <3>1, <3>2
  <2>4. \A m, n \in Nat : \A r, s \in Stage : 1 <= r /\ r < s /\ s <= 2 /\ At(m, r)' /\ At(n, s)' => m < n
    BY <2>3 DEF Stage
  <2>5. 1 \in Stage /\ 2 \in Stage
    BY DEF Stage
  <2>6. QED
    BY <2>1, <2>2, <2>4, <2>5, Moved DEF Inv3
<1>13. SortedOK'
  BY <1>1, <1>5, <1>8 DEF Inv3, SortedOK
<1>14. ~IsTalk(c) /\ c # Register => c <= issued
  BY <1>2, <1>6 DEF Inv3, MadeOK, Stage
<1>15. MadeOK'
  <2>1. \A m \in Nat : \A r \in Stage : At(m, r)' => At(m, r) \/ m <= issued
    BY <1>8, <1>9, <1>11, <1>14
  <2>2. QED
    BY <1>1, <2>1, MadeKept
<1>16. PassOK'
  BY <1>1 DEF Inv3, PassOK, IsTalk
<1>17. QED
  BY <1>12, <1>13, <1>15, <1>16 DEF Inv3

\* What the app does last is the last to be read.
LEMMA QueuedOrdered ==
  ASSUME Inv, Inv3, NEW n \in Call \cup {Leaving}, \A m \in Nat : \A r \in Stage : At(m,
         r) => m < n,
         queue' = [queue EXCEPT !["portal"] = Append(queue["portal"], n)],
         UNCHANGED <<kind, call, log, outbox, batch, held, registering, draining, pc>>
  PROVE  /\ Ordered' /\ SortedOK' /\ PassOK'
         /\ \A m \in Nat : \A r \in Stage : At(m, r)' => At(m, r) \/ (r = 7 /\ m = n)
<1>1. queue["portal"] \in Seq(Call \cup {Leaving}) /\ Call \cup {Leaving} \subseteq Nat
  BY GatewayAssumption DEF Inv, Lists, Thread, Call, Leaving
<1>2. /\ queue'["portal"] = Append(queue["portal"], n)
      /\ \A m \in Nat : Within(m, queue["portal"]) => m < n
  BY DEF Inv, Lists, Thread, At, Stage
<1>3. Sorted(queue'["portal"]) /\ \A m : Within(m, queue'["portal"]) <=> Within(m, queue["portal"]) \/ m = n
  BY <1>1, <1>2, SortedMore, Appended DEF Inv3, SortedOK
<1>4. \A m, r : r \in {1, 2} /\ At(m, r)' => At(m, r)
  BY Early
<1>5. \A m \in Nat : \A r \in Stage : At(m, r)' => At(m, r) \/ (r = 7 /\ m = n)
  BY <1>3, <1>4 DEF At, Stage
<1>6. Ordered'
  BY <1>5 DEF Inv3, Ordered, Stage
<1>7. SortedOK'
  BY <1>3 DEF Inv3, SortedOK, SentSorted, ForPortal, IsTalk
<1>8. PassOK'
  BY DEF Inv3, PassOK, IsTalk
<1>9. QED
  BY <1>5, <1>6, <1>7, <1>8

\* Issue.
LEMMA IssueOrdered == ASSUME Inv, Inv3, Issue PROVE Inv3'
<1>1. /\ ~left /\ left' = left /\ issued < N /\ issued' = issued + 1 /\ issued \in Nat
      /\ queue' = [queue EXCEPT ![ReaderOf(issued + 1)] = Append(queue[ReaderOf(issued + 1)], issued + 1)]
      /\ UNCHANGED <<kind, call, log, outbox, batch, held, registering, draining, pc>>
  BY DEF Inv, Types, Issue, portalVars, threadVars, hostVars
<1>2. \A m \in Nat : \A r \in Stage : At(m, r) => m <= issued /\ m < issued + 1
  BY <1>1 DEF Inv3, MadeOK
<1>3. issued + 1 \in Call /\ issued' <= N
  BY <1>1, GatewayAssumption DEF Call
<1>4. CASE ReaderOf(issued + 1) = "portal"
  <2>1. /\ Ordered' /\ SortedOK' /\ PassOK'
        /\ \A m \in Nat : \A r \in Stage : At(m, r)' => At(m, r) \/ (r = 7 /\ m = issued + 1)
    BY <1>1, <1>2, <1>3, <1>4, QueuedOrdered
  <2>2. \A m \in Nat : \A r \in Stage : At(m, r)' => m <= issued + 1
    BY <1>1, <1>2, <2>1
  <2>3. MadeOK'
    BY <1>1, <1>3, <2>2 DEF MadeOK
  <2>4. QED
    BY <2>1, <2>3 DEF Inv3
<1>5. CASE ReaderOf(issued + 1) # "portal"
  <2>1. queue'["portal"] = queue["portal"]
    BY <1>1, <1>5 DEF Inv, Lists, Thread, ReaderOf
  <2>2. \A m, r : r \in {1, 2} /\ At(m, r)' => At(m, r)
    BY <1>1, Early
  <2>3. UNCHANGED <<call, batch, held, pc>>
    BY <1>1
  <2>4. \A m \in Nat : \A r \in Stage : At(m, r)' => At(m, r)
    BY <2>1, <2>2, <2>3 DEF At, Stage
  <2>5. Ordered'
    BY <2>4 DEF Inv3, Ordered
  <2>6. SortedOK'
    BY <1>1, <2>1 DEF Inv3, SortedOK, SentSorted, ForPortal, IsTalk
  <2>7. \A m \in Nat : \A r \in Stage : At(m, r)' => m <= issued + 1
    BY <1>1, <1>2, <2>4
  <2>8. MadeOK'
    BY <1>1, <1>3, <2>7 DEF MadeOK
  <2>9. PassOK'
    BY <1>1 DEF Inv3, PassOK, IsTalk
  <2>10. QED
    BY <2>5, <2>6, <2>8, <2>9 DEF Inv3
<1>6. QED
  BY <1>4, <1>5

\* Leave.
LEMMA LeaveOrdered == ASSUME Inv, Inv3, Leave PROVE Inv3'
<1>1. /\ ~left /\ left' /\ issued' = issued /\ issued \in Nat
      /\ queue' = [queue EXCEPT !["portal"] = Append(queue["portal"], Leaving)]
      /\ UNCHANGED <<kind, call, log, outbox, batch, held, registering, draining, pc>>
  BY DEF Inv, Types, Leave, portalVars, threadVars, hostVars
<1>2. \A m \in Nat : \A r \in Stage : At(m, r) => m <= issued /\ m < Leaving
  BY <1>1, GatewayAssumption DEF Inv3, MadeOK, Leaving
<1>3. /\ Ordered' /\ SortedOK' /\ PassOK'
      /\ \A m \in Nat : \A r \in Stage : At(m, r)' => At(m, r) \/ (r = 7 /\ m = Leaving)
  BY <1>1, <1>2, QueuedOrdered
<1>4. MadeOK'
  BY <1>1, <1>2, <1>3 DEF Inv3, MadeOK, Leaving
<1>5. QED
  BY <1>3, <1>4 DEF Inv3

\* Nothing is on its way at first.
LEMMA InitOrdered == ASSUME Init PROVE Inv3
<1>1. \A m, r : ~At(m, r)
  <2>1. \A m : ~Within(m, <<>>)
    BY Short
  <2>2. \A m : ~SentOf(m, outbox)
    BY DEF Init, SentOf
  <2>3. /\ \A k \in Inst : log[k] = <<>>
        /\ held = <<>> /\ batch = <<>> /\ queue["portal"] = <<>>
        /\ pc["host"] = "idle" /\ pc["portal"] = "idle"
    BY DEF Init, Thread
  <2>4. QED
    BY <2>1, <2>2, <2>3 DEF At, Passing
<1>2. Ordered
  BY <1>1 DEF Ordered
<1>3. SortedOK
  BY DEF Init, SortedOK, Sorted, SentSorted, CallsSorted, Thread
<1>4. MadeOK
  BY <1>1, GatewayAssumption DEF Init, MadeOK
<1>5. PassOK
  BY DEF Init, PassOK, Passing, Thread
<1>6. QED
  BY <1>2, <1>3, <1>4, <1>5 DEF Inv3

\* Every step keeps the order.
LEMMA NextOrdered == ASSUME Inv, Inv2, Inv3, [Next]_vars PROVE Inv3'
<1>1. CASE AsideStep \/ UNCHANGED vars
  BY <1>1, AsideOrdered
<1>2. CASE StillStep
  BY <1>2, StillOrdered
<1>3. CASE Issue \/ Leave
  BY <1>3, IssueOrdered, LeaveOrdered
<1>4. CASE TakeHeld \/ NextHeld \/ HandBack \/ NameChanged
  BY <1>4, TakeHeldOrdered, NextHeldOrdered, HandBackOrdered, NameChangedOrdered
<1>5. CASE BusRoutes \/ SetUpRegister
  BY <1>5, BusRoutesOrdered, SetUpRegisterOrdered
<1>6. ASSUME NEW t \in Thread, Lookup(t) \/ Hold(t) \/ RegisterAgain(t) PROVE Inv3'
  <2>1. CASE Lookup(t)
    BY <2>1, LookupTalkOrdered, LookupPortalOrdered DEF Lookup
  <2>2. QED
    BY <1>6, <2>1, HoldOrdered, RegisterAgainOrdered
<1>7. ASSUME NEW t \in Thread, Send(t) PROVE Inv3'
  <2>1. CASE ~open
    <3>1. outbox' = outbox
      BY <1>7, <2>1 DEF Send
    <3>2. QED
      BY <1>7, <3>1, SendFailsOrdered
  <2>2. CASE open
    BY <1>7, <2>2, SendTalkOrdered, SendOrdered DEF Thread
  <2>3. QED
    BY <2>1, <2>2
<1>8. ASSUME NEW m \in Msg, NEW k \in 0..MaxInst, NEW type \in {"ok", "err", "bad"}, Replies(m, k, type) PROVE Inv3'
  BY <1>1, <1>8 DEF AsideStep
<1>9. ASSUME Progress PROVE Inv3'
  BY <1>1, <1>2, <1>4, <1>5, <1>6, <1>7, <1>8, <1>9 DEF Progress, Forward, ServeHost, SetUp,
     AsideStep,
     StillStep
<1>10. QED
  BY <1>1, <1>2, <1>3, <1>8, <1>9 DEF Next, AsideStep, StillStep

\* Each portal instance receives the app's calls in the order the app made them,
\* however forward, registered and the end of a registration held them back.
THEOREM InOrderHolds == Spec => []InOrder
<1>1. Init => Inv2 /\ Inv3
  BY InitKnown, InitOrdered
<1>2. Inv /\ [Next]_vars => Inv'
  BY StepInv
<1>3. Inv /\ Inv2 /\ [Next]_vars => Inv2'
  BY NextKnown
<1>4. Inv /\ Inv2 /\ Inv3 /\ [Next]_vars => Inv3'
  BY NextOrdered
<1>5. Inv2 /\ Inv3 => InOrder
  <2> SUFFICES ASSUME Inv2, Inv3, NEW k \in DOMAIN log, NEW i \in Calls(k), NEW j \in Calls(k), i < j
               PROVE  log[k][i] < log[k][j]
    BY DEF InOrder
  <2>1. k \in Inst /\ log[k] \in Seq(Msg) /\ DOMAIN log[k] = 1..Len(log[k])
    BY DEF Inv2, Logs
  <2>2. QED
    BY <2>1 DEF Inv3, SortedOK, CallsSorted, Calls
<1>6. QED
  BY <1>1, <1>2, <1>3, <1>4, <1>5, InitInv, PTL DEF Spec

-----------------------------------------------------------------------------
(* The OpenURI calls that the host has still to answer.                      *)

\* What the inbox q holds of the call c: a reply, one that returned a request of the
\* portal that owns the name last, the response to that request.
IsReply(x, c) == x.msg = c /\ x.type \in {"ok", "err", "bad"}
Replied(q, c) == \E i \in DOMAIN q : IsReply(q[i], c)
RepliedOnce(q, c) == \A i, j \in DOMAIN q : IsReply(q[i], c) /\ IsReply(q[j], c) => i = j
Granted(q, c) ==
  \E i \in DOMAIN q : /\ q[i].type = "ok" /\ q[i].msg = c
                      /\ \A j \in DOMAIN q : j > i => q[j].type # "noc"
Responded(q, c) == \E i \in DOMAIN q : q[i].type = "response" /\ q[i].msg = c

\* A call that was sent is pending, and in one place: on the way to the bus, with the
\* instance k, left unanswered by one, or answered.
HostPlaces == {"away", "outbox", "busy", "orphan", "reply"}
HostPlace(c, p, k) ==
  /\ SentOf(c, outbox) => p = "outbox"
  /\ \A j : <<c, j>> \in busy => p = "busy" /\ j = k /\ k # NoInst
  /\ c \in orphans => p = "orphan"
  /\ Replied(inbox, c) => p = "reply"
  /\ p # "away" => c \in pending

\* Its request is in open_requests, or will be once the reply is read; but for one that
\* the app has asked to close.
RequestOK(c) ==
  c \in requests =>
    /\ inst # NoInst /\ At(c, 1)
    /\ \/ c \in Unwanted
       \/ Granted(inbox, c)
       \/ (c \in openReqs /\ Quiet(inbox) /\ pc["host"] # "endreqs")

\* What has come of a call that an instance received.
ReceivedOK(c) ==
  /\ (\E k : <<c, k>> \in busy) => At(c, 1)
  /\ Responded(inbox, c) => At(c, 1) /\ c \notin requests
  /\ c \in requests \/ Responded(inbox, c) => \A k : <<c, k>> \notin busy

Traced(c) ==
  /\ \E p \in HostPlaces, k \in 0..MaxInst : HostPlace(c, p, k)
  /\ RepliedOnce(inbox, c) /\ RequestOK(c) /\ ReceivedOK(c)

Inv4 ==
  /\ requests \subseteq Opens
  /\ pc["host"] \in {"fail", "dead"} => ~open
  /\ open => \A c \in Opens : Traced(c)

\* A message more in the inbox.
LEMMA MoreIn ==
  ASSUME NEW q \in Seq(Incoming), NEW x \in Incoming, NEW c
  PROVE  /\ Replied(Append(q, x), c) <=> Replied(q, c) \/ IsReply(x, c)
         /\ RepliedOnce(q, c) /\ ~(Replied(q, c) /\ IsReply(x, c)) => RepliedOnce(Append(q, x), c)
         /\ Granted(q, c) /\ x.type # "noc" => Granted(Append(q, x), c)
         /\ x.type = "ok" /\ x.msg = c => Granted(Append(q, x), c)
         /\ Responded(Append(q, x), c) <=> Responded(q, c) \/ (x.type = "response" /\ x.msg = c)
<1>1. DOMAIN Append(q, x) = DOMAIN q \cup {Len(q) + 1} /\ Append(q, x)[Len(q) + 1] = x
  OBVIOUS
<1>2. \A i \in DOMAIN q : Append(q, x)[i] = q[i] /\ i < Len(q) + 1 /\ i \in Nat /\ ~(Len(q) + 1 > Len(q) + 1)
  OBVIOUS
<1>3. Replied(Append(q, x), c) <=> Replied(q, c) \/ IsReply(x, c)
  BY <1>1, <1>2 DEF Replied
<1>4. RepliedOnce(q, c) /\ ~(Replied(q, c) /\ IsReply(x, c)) => RepliedOnce(Append(q, x), c)
  BY <1>1, <1>2 DEF Replied, RepliedOnce
<1>5. Granted(q, c) /\ x.type # "noc" => Granted(Append(q, x), c)
  BY <1>1, <1>2 DEF Granted
<1>6. x.type = "ok" /\ x.msg = c => Granted(Append(q, x), c)
  BY <1>1, <1>2 DEF Granted
<1>7. Responded(Append(q, x), c) <=> Responded(q, c) \/ (x.type = "response" /\ x.msg = c)
  BY <1>1, <1>2 DEF Responded
<1>8. QED
  BY <1>3, <1>4, <1>5, <1>6, <1>7

\* A message less.
LEMMA LessIn ==
  ASSUME NEW q \in Seq(Incoming), q # <<>>, NEW c
  PROVE  /\ Replied(Tail(q), c) => Replied(q, c)
         /\ RepliedOnce(q, c) => RepliedOnce(Tail(q), c)
         /\ IsReply(Head(q), c) => Replied(q, c) /\ (RepliedOnce(q, c) => ~Replied(Tail(q), c))
         /\ Granted(q, c) => Granted(Tail(q), c) \/ (IsReply(Head(q), c) /\ Head(q).type = "ok" /\ Quiet(Tail(q)))
         /\ Responded(Tail(q), c) => Responded(q, c)
         /\ Head(q).type = "response" /\ Head(q).msg = c => Responded(q, c)
         /\ Quiet(q) => Quiet(Tail(q)) /\ Head(q).type # "noc"
<1>1. \A i \in DOMAIN Tail(q) : i + 1 \in DOMAIN q /\ Tail(q)[i] = q[i + 1] /\ i \in Nat /\ 1 < i + 1
  OBVIOUS
<1>2. 1 \in DOMAIN q /\ q[1] = Head(q)
  OBVIOUS
<1>3. \A i \in DOMAIN q : i \in Nat /\ (i # 1 => i - 1 \in DOMAIN Tail(q) /\ Tail(q)[i - 1] = q[i])
  OBVIOUS
<1>4. Replied(Tail(q), c) => Replied(q, c)
  BY <1>1 DEF Replied
<1>5. RepliedOnce(q, c) => RepliedOnce(Tail(q), c)
  BY <1>1 DEF RepliedOnce
<1>6. IsReply(Head(q), c) => Replied(q, c) /\ (RepliedOnce(q, c) => ~Replied(Tail(q), c))
  BY <1>1, <1>2 DEF Replied, RepliedOnce
<1>7. ASSUME Granted(q, c) PROVE Granted(Tail(q), c) \/ (IsReply(Head(q), c) /\ Head(q).type = "ok" /\ Quiet(Tail(q)))
  <2>1. PICK i \in DOMAIN q : q[i].type = "ok" /\ q[i].msg = c /\ \A j \in DOMAIN q : j > i => q[j].type # "noc"
    BY <1>7 DEF Granted
  <2>2. CASE i = 1
    <3>1. \A j \in DOMAIN Tail(q) : j + 1 > i
      BY <1>1, <2>2
    <3>2. Quiet(Tail(q))
      BY <1>1, <2>1, <3>1 DEF Quiet
    <3>3. QED
      BY <1>2, <2>1, <2>2, <3>2 DEF IsReply
  <2>3. CASE i # 1
    <3>1. i - 1 \in DOMAIN Tail(q) /\ Tail(q)[i - 1] = q[i]
      BY <1>3, <2>3
    <3>2. \A j \in DOMAIN Tail(q) : j > i - 1 => j + 1 > i
      BY <1>1, <1>3
    <3>3. \A j \in DOMAIN Tail(q) : j > i - 1 => Tail(q)[j].type # "noc"
      BY <1>1, <2>1, <3>2
    <3>4. QED
      BY <2>1, <3>1, <3>3 DEF Granted
  <2>4. QED
    BY <2>2, <2>3
<1>8. Responded(Tail(q), c) => Responded(q, c)
  BY <1>1 DEF Responded
<1>9. Head(q).type = "response" /\ Head(q).msg = c => Responded(q, c)
  BY <1>2 DEF Responded
<1>10. Quiet(q) => Quiet(Tail(q)) /\ Head(q).type # "noc"
  BY <1>1, <1>2 DEF Quiet
<1>11. QED
  BY <1>4, <1>5, <1>6, <1>7, <1>8, <1>9, <1>10

\* A report of a new owner in it, if any.
LEMMA NocIn ==
  ASSUME NEW q \in Seq(Incoming), NEW k \in 0..MaxInst, NEW c
  PROVE  /\ Replied(q \o Noc(k), c) => Replied(q, c)
         /\ RepliedOnce(q, c) => RepliedOnce(q \o Noc(k), c)
         /\ Responded(q \o Noc(k), c) => Responded(q, c)
<1>1. PICK x \in Incoming : x = In("noc", Register, k) /\ x.type = "noc"
  BY Message, GatewayAssumption DEF Register, Msg
<1>2. q \o Noc(k) = Append(q, x) \/ q \o Noc(k) = q
  BY <1>1, NocAdds
<1>3. ~IsReply(x, c) /\ x.type # "response"
  BY <1>1 DEF IsReply
<1>4. CASE q \o Noc(k) = q
  BY <1>4
<1>5. CASE q \o Noc(k) = Append(q, x)
  BY <1>3, <1>5, MoreIn
<1>6. QED
  BY <1>2, <1>4, <1>5

\* What is asked to be closed stays so.
LEMMA UnwantedKept ==
  ASSUME Inv, UNCHANGED kind, issued' \in Nat, issued <= issued'
  PROVE  \A c : c \in Unwanted => c \in Unwanted'
<1>1. \A m : Closing(m)' = Closing(m)
  BY DEF Closing, Target, Opens
<1>2. \A m \in 1..issued : m \in 1..issued'
  BY DEF Inv, Types
<1>3. QED
  BY <1>1, <1>2 DEF Unwanted

\* The instances keep what they have received.
LEMMA ReceivedStays ==
  ASSUME \A j \in Inst : \A m : Within(m, log[j]) => Within(m, log'[j])
  PROVE  \A m : At(m, 1) => At(m, 1)'
  BY DEF At

\* A step that brings the call c nowhere on the host.
HostRests(c) ==
  /\ SentOf(c, outbox') => SentOf(c, outbox)
  /\ \A j : <<c, j>> \in busy' => <<c, j>> \in busy
  /\ c \in orphans' => c \in orphans
  /\ Replied(inbox', c) => Replied(inbox, c)
  /\ RepliedOnce(inbox, c) => RepliedOnce(inbox', c)
  /\ Responded(inbox', c) => Responded(inbox, c)
  /\ c \in requests' => c \in requests
  /\ At(c, 1) => At(c, 1)'

\* It keeps what is known of the call.
LEMMA TracedRests ==
  ASSUME NEW c, Traced(c), HostRests(c), c \in pending => c \in pending', RequestOK(c)'
  PROVE  Traced(c)'
<1>1. PICK p \in HostPlaces, k \in 0..MaxInst : HostPlace(c, p, k)
  BY DEF Traced
<1>2. HostPlace(c, p, k)'
  BY <1>1 DEF HostPlace, HostRests, SentOf, Replied
<1>3. RepliedOnce(inbox, c)'
  BY DEF Traced, HostRests, RepliedOnce
<1>4. ReceivedOK(c)'
  BY DEF Traced, HostRests, ReceivedOK, Responded
<1>5. QED
  BY <1>2, <1>3, <1>4 DEF Traced

\* A step of the gateway or the app that the host has no part in.
Apart ==
  /\ UNCHANGED <<kind, outbox, busy, orphans, inbox, pending, requests, openReqs, log, inst>>
  /\ issued' \in Nat /\ issued <= issued'
  /\ pc'["host"] = "endreqs" => pc["host"] = "endreqs"
  /\ pc'["host"] \in {"fail", "dead"} => pc["host"] \in {"fail", "dead"} \/ ~open
  /\ open' => open

\* It keeps what is known of all.
LEMMA ApartKeeps == ASSUME Inv, Inv4, Apart PROVE Inv4'
<1>1. Opens' = Opens
  BY DEF Apart, Opens
<1>2. \A c : c \in Unwanted => c \in Unwanted'
  BY UnwantedKept DEF Apart
<1>3. ASSUME open', NEW c \in Opens PROVE Traced(c)'
  <2>1. Traced(c)
    BY <1>3 DEF Inv4, Apart
  <2>2. At(c, 1) => At(c, 1)'
    BY DEF At, Apart
  <2>3. HostRests(c) /\ (c \in pending => c \in pending')
    BY <2>2 DEF HostRests, Apart
  <2>4. RequestOK(c)'
    BY <1>2, <2>1, <2>2 DEF Traced, RequestOK, Apart
  <2>5. QED
    BY <2>1, <2>3, <2>4, TracedRests
<1>4. requests' \subseteq Opens'
  BY <1>1 DEF Inv4, Apart
<1>5. pc'["host"] \in {"fail", "dead"} => ~open'
  BY DEF Inv4, Apart
<1>6. QED
  BY <1>1, <1>3, <1>4, <1>5 DEF Inv4

\* The steps of the app, the setting up and the gateway's threads of this kind.
ApartStep ==
  \/ Issue \/ Leave \/ HostCloses \/ SetUpUnidentified \/ SetUpMatch \/ SetUpAsk
  \/ \E t \in Thread : \/ Lookup(t) \/ Hold(t) \/ Route(t) \/ Refuse(t) \/ RegisterAgainFails(t) \/ CloseIfDone(t)
  \/ NameChanged \/ PassReply \/ TakeHeld \/ BatchDone \/ NextHeld \/ HandBack \/ EndOfStream

\* They keep what is known of the OpenURI calls.
LEMMA ApartSteps == ASSUME Inv, Inv4, ApartStep PROVE Inv4'
<1>1. ASSUME Issue PROVE Apart
  BY <1>1 DEF Inv, Types, Thread, Apart, Issue, appVars, portalVars, clientVars, threadVars,
     hostVars
<1>2. ASSUME Leave PROVE Apart
  BY <1>2 DEF Inv, Types, Thread, Apart, Leave, appVars, portalVars, clientVars, threadVars,
     hostVars
<1>3. ASSUME HostCloses PROVE Apart
  BY <1>3 DEF Inv, Types, Thread, Apart, HostCloses, appVars, portalVars, clientVars, threadVars,
     hostVars
<1>4. ASSUME SetUpUnidentified PROVE Apart
  BY <1>4 DEF Inv, Types, Thread, Apart, SetUpUnidentified, appVars, portalVars, clientVars,
     threadVars, hostVars
<1>5. ASSUME SetUpMatch PROVE Apart
  BY <1>5 DEF Inv, Types, Thread, Apart, SetUpMatch, appVars, portalVars, clientVars, threadVars,
     hostVars
<1>6. ASSUME SetUpAsk PROVE Apart
  BY <1>6 DEF Inv, Types, Thread, Apart, SetUpAsk, appVars, portalVars, clientVars, threadVars,
     hostVars
<1>7. ASSUME NEW t \in Thread, Lookup(t) PROVE Apart
  BY <1>7 DEF Inv, Types, Thread, Apart, Lookup, appVars, portalVars, clientVars, threadVars,
     hostVars
<1>8. ASSUME NEW t \in Thread, Hold(t) PROVE Apart
  BY <1>8 DEF Inv, Types, Thread, Apart, Hold, ToPortal, MustWait, appVars, portalVars, clientVars,
     threadVars, hostVars
<1>9. ASSUME NEW t \in Thread, Route(t) PROVE Apart
  BY <1>9 DEF Inv, Types, Thread, Apart, Route, appVars, portalVars, clientVars, threadVars,
     hostVars
<1>10. ASSUME NEW t \in Thread, Refuse(t) PROVE Apart
  BY <1>10 DEF Inv, Types, Thread, Apart, Refuse, Returned, appVars, portalVars, clientVars,
     threadVars, hostVars
<1>11. ASSUME NEW t \in Thread, RegisterAgainFails(t) PROVE Apart
  BY <1>11 DEF Inv, Types, Thread, Apart, RegisterAgainFails, Returned, appVars, portalVars,
     clientVars, threadVars, hostVars
<1>12. ASSUME NEW t \in Thread, CloseIfDone(t) PROVE Apart
  <2>1. open' => open
    BY <1>12 DEF CloseIfDone
  <2>2. /\ UNCHANGED <<kind, outbox, busy, orphans, inbox, pending, requests, openReqs, log, inst,
                       issued>>
        /\ pc'["host"] = pc["host"] \/ pc'["host"] = "idle"
    BY <1>12 DEF Inv, Types, Thread, CloseIfDone, appVars, portalVars, clientVars, hostVars
  <2>3. QED
    BY <2>1, <2>2 DEF Inv, Types, Apart
<1>13. ASSUME NameChanged PROVE Apart
  BY <1>13 DEF Inv, Types, Thread, Apart, NameChanged, appVars, portalVars, clientVars, threadVars,
     hostVars
<1>14. ASSUME PassReply PROVE Apart
  BY <1>14 DEF Inv, Types, Thread, Apart, PassReply, appVars, portalVars, clientVars, threadVars,
     hostVars
<1>15. ASSUME TakeHeld PROVE Apart
  BY <1>15 DEF Inv, Types, Thread, Apart, TakeHeld, appVars, portalVars, clientVars, threadVars,
     hostVars
<1>16. ASSUME BatchDone PROVE Apart
  BY <1>16 DEF Inv, Types, Thread, Apart, BatchDone, appVars, portalVars, clientVars, threadVars,
     hostVars
<1>17. ASSUME NextHeld PROVE Apart
  BY <1>17 DEF Inv, Types, Thread, Apart, NextHeld, appVars, portalVars, clientVars, threadVars,
     hostVars
<1>18. ASSUME HandBack PROVE Apart
  BY <1>18 DEF Inv, Types, Thread, Apart, HandBack, appVars, portalVars, clientVars, threadVars,
     hostVars
<1>19. ASSUME EndOfStream PROVE Apart
  BY <1>19 DEF Inv, Types, Thread, Apart, EndOfStream, appVars, portalVars, clientVars, threadVars,
     hostVars
<1>20. Apart
  BY <1>1, <1>2, <1>3, <1>4, <1>5, <1>6, <1>7, <1>8, <1>9, <1>10, <1>11, <1>12, <1>13, <1>14, <1>15,
     <1>16, <1>17, <1>18, <1>19 DEF ApartStep
<1>21. QED
  BY <1>20, ApartKeeps

\* A step that changes neither the kinds of calls nor opens the connection.
Steady ==
  /\ UNCHANGED kind /\ (open' => open)
  /\ pc'["host"] \in {"fail", "dead"} => pc["host"] \in {"fail", "dead"}

\* It keeps the invariant when it keeps what is known of each call.
LEMMA AllTraced ==
  ASSUME Inv4, Steady, requests' \subseteq Opens,
         \A c \in Opens : open' /\ Traced(c) => Traced(c)'
  PROVE  Inv4'
<1>1. Opens' = Opens
  BY DEF Steady, Opens
<1>2. requests' \subseteq Opens'
  BY <1>1
<1>3. pc'["host"] \in {"fail", "dead"} => ~open'
  BY DEF Inv4, Steady
<1>4. open' => \A c \in Opens' : Traced(c)'
  BY <1>1 DEF Inv4, Steady
<1>5. QED
  BY <1>2, <1>3, <1>4 DEF Inv4

\* A call that is somewhere else after the step.
LEMMA TracedMoves ==
  ASSUME NEW c, NEW p \in HostPlaces, NEW k \in 0..MaxInst, HostPlace(c, p, k)',
         RepliedOnce(inbox', c), RequestOK(c)', ReceivedOK(c)'
  PROVE  Traced(c)'
<1>1. RepliedOnce(inbox, c)'
  BY DEF RepliedOnce
<1>2. QED
  BY <1>1 DEF Traced

\* The host's messages and the place of the call c stay.
HostStays(c) ==
  /\ UNCHANGED <<busy, orphans, inbox, log, requests, inst>>
  /\ SentOf(c, outbox') => SentOf(c, outbox)

\* What is asked of its request is then kept, while open_requests keeps it.
LEMMA RequestStays ==
  ASSUME Inv, NEW c, RequestOK(c), UNCHANGED <<kind, issued, inbox, log, requests, inst>>,
         c \in openReqs /\ pc["host"] # "endreqs" =>
            c \in Unwanted \/ (c \in openReqs' /\ pc'["host"] # "endreqs")
  PROVE  RequestOK(c)'
<1>1. At(c, 1) => At(c, 1)'
  BY DEF At
<1>2. c \in Unwanted => c \in Unwanted'
  BY UnwantedKept DEF Inv, Types
<1>3. QED
  BY <1>1, <1>2 DEF RequestOK

\* A step that leaves the host's messages alone brings the call nowhere.
LEMMA StaysRests == ASSUME NEW c, HostStays(c) PROVE HostRests(c)
<1>1. At(c, 1) => At(c, 1)'
  BY DEF At, HostStays
<1>2. QED
  BY <1>1 DEF HostStays, HostRests

\* Permit: a request that is closed is one that the app asked to close.
LEMMA PermitTraced == ASSUME Inv, Inv3, Inv4, NEW t \in Thread, Permit(t) PROVE Inv4'
<1>1. /\ UNCHANGED <<kind, issued, open, pending, outbox, busy, orphans, inbox, log, requests, inst>>
      /\ openReqs' = openReqs \ Closing(call[t]) /\ pc[t] = "check"
      /\ pc' = [pc EXCEPT ![t] = "send"]
  BY DEF Permit, appVars, portalVars, hostVars
<1>2. Closing(call[t]) \subseteq Unwanted
  <2>1. CASE IsTalk(call[t])
    BY <2>1 DEF IsTalk, Closing
  <2>2. CASE ~IsTalk(call[t])
    <3>1. t # "talk" /\ call[t] \in Call
      BY <1>1, <2>2 DEF Inv, Types, Inv3, PassOK, Passing, Holding
    <3>2. At(call[t], 3) \/ At(call[t], 6)
      BY <1>1, <3>1 DEF At, Passing, Thread
    <3>3. call[t] <= issued
      BY <3>1, <3>2 DEF Inv3, MadeOK, Stage, Call
    <3>4. call[t] \in 1..issued
      BY <3>1, <3>3 DEF Call, Inv, Types
    <3>5. QED
      BY <3>4 DEF Unwanted
  <2>3. QED
    BY <2>1, <2>2
<1>3. pc'["host"] = pc["host"] \/ pc'["host"] = "send"
  BY <1>1 DEF Inv, Types, Thread
<1>4. ASSUME NEW c \in Opens, Traced(c) PROVE Traced(c)'
  <2>1. HostRests(c)
    BY <1>1, StaysRests DEF HostStays
  <2>2. c \in openReqs => c \in Unwanted \/ c \in openReqs'
    BY <1>1, <1>2
  <2>3. RequestOK(c)'
    BY <1>1, <1>3, <1>4, <2>2, RequestStays DEF Traced
  <2>4. QED
    BY <1>1, <1>4, <2>1, <2>3, TracedRests
<1>5. Steady /\ requests' \subseteq Opens
  BY <1>1, <1>3 DEF Steady, Inv4
<1>6. QED
  BY <1>4, <1>5, AllTraced

\* RegisterAgain: a Register is no call of the app.
LEMMA RegisterAgainTraced == ASSUME Inv, Inv2, Inv4, NEW t \in Thread, RegisterAgain(t) PROVE Inv4'
<1>1. /\ UNCHANGED <<kind, issued, open, pending, openReqs, busy, orphans, inbox, log, requests, inst>>
      /\ outbox' = Append(outbox, [msg |-> Register, dest |-> ByName])
  BY DEF RegisterAgain, appVars, clientVars, hostVars
<1>2. pc'["host"] = pc["host"] \/ pc'["host"] = "handback"
  BY DEF RegisterAgain, Inv, Types, Thread
<1>3. ASSUME NEW c \in Opens, Traced(c) PROVE Traced(c)'
  <2>1. c # Register
    BY DEF Opens, Call, Register
  <2>2. SentOf(c, outbox') => SentOf(c, outbox)
    BY <1>1, <2>1, SentMore, SentRecord, GatewayAssumption DEF Inv2, Boxes, Register, ByName, Msg
  <2>3. HostRests(c)
    BY <1>1, <2>2, StaysRests DEF HostStays
  <2>4. RequestOK(c)'
    BY <1>1, <1>2, <1>3, RequestStays DEF Traced
  <2>5. QED
    BY <1>1, <1>3, <2>3, <2>4, TracedRests
<1>4. Steady /\ requests' \subseteq Opens
  BY <1>1, <1>2 DEF Steady, Inv4
<1>5. QED
  BY <1>3, <1>4, AllTraced

\* Send: a call in the hands of a thread has not been sent before.
LEMMA SendTraced == ASSUME Inv, Inv2, Inv4, NEW t \in Thread, Send(t) PROVE Inv4'
<1>1. /\ UNCHANGED <<kind, issued, open, openReqs, busy, orphans, inbox, log, requests, inst>>
      /\ pc[t] = "send" /\ call[t] \in Call
  BY DEF Send, Inv, Types, Holding, appVars, hostVars
<1>2. pc'["host"] = pc["host"] \/ pc'["host"] = "drain"
  BY DEF Send, Returned, Inv, Types, Thread
<1>3. open => outbox' = Append(outbox, [msg |-> call[t], dest |-> dest[t]]) /\ pending' = pending \cup {call[t]}
  BY DEF Send
<1>4. call[t] \notin pending
  BY <1>1 DEF Inv, PlacesOK, Place, Holding, Thread
<1>5. open => \A c : SentOf(c, outbox') <=> SentOf(c, outbox) \/ c = call[t]
  <2>1. call[t] \in Msg /\ dest[t] \in 0..MaxInst
    BY <1>1 DEF Inv, Types, Inv2, HostTypes
  <2>2. PICK x \in Outgoing : x = [msg |-> call[t], dest |-> dest[t]] /\ x.msg = call[t]
    BY <2>1, SentRecord
  <2>3. open => outbox' = Append(outbox, x)
    BY <1>3, <2>2
  <2>4. \A c : SentOf(c, Append(outbox, x)) <=> SentOf(c, outbox) \/ c = x.msg
    BY SentMore DEF Inv2, Boxes
  <2>5. QED
    BY <2>2, <2>3, <2>4
<1>6. ASSUME open, NEW c \in Opens, Traced(c) PROVE Traced(c)'
  <2>1. RequestOK(c)'
    BY <1>1, <1>2, <1>6, RequestStays DEF Traced
  <2>2. CASE c # call[t]
    <3>1. HostRests(c)
      BY <1>1, <1>5, <1>6, <2>2, StaysRests DEF HostStays
    <3>2. QED
      BY <1>3, <1>6, <2>1, <3>1, TracedRests
  <2>3. CASE c = call[t]
    <3>1. PICK p \in HostPlaces, k \in 0..MaxInst : HostPlace(c, p, k)
      BY <1>6 DEF Traced
    <3>2. p = "away"
      BY <1>4, <2>3, <3>1 DEF HostPlace
    <3>3. ~Replied(inbox', c) /\ c \in pending'
      BY <1>1, <1>3, <1>6, <2>3, <3>1, <3>2 DEF HostPlace
    <3>4. HostPlace(c, "outbox", k)'
      BY <1>1, <3>1, <3>2, <3>3 DEF HostPlace, Replied
    <3>5. RepliedOnce(inbox', c)
      BY <1>1, <1>6 DEF Traced
    <3>6. ReceivedOK(c)'
      <4>1. At(c, 1) => At(c, 1)'
        BY <1>1 DEF At
      <4>2. QED
        BY <1>1, <1>6, <4>1 DEF Traced, ReceivedOK, Responded
    <3>7. QED
      BY <2>1, <3>4, <3>5, <3>6, TracedMoves DEF HostPlaces
  <2>4. QED
    BY <2>2, <2>3
<1>7. Steady /\ requests' \subseteq Opens
  BY <1>1, <1>2 DEF Steady, Inv4
<1>8. QED
  BY <1>1, <1>6, <1>7, AllTraced

-----------------------------------------------------------------------------
(* What the reader of the host connection takes from the inbox.              *)

\* It takes a message that is not a reply to the call c.
LEMMA ReadRests ==
  ASSUME Inv2, NEW c, inbox # <<>>, inbox' = Tail(inbox),
         UNCHANGED <<outbox, busy, orphans, requests, log>>
  PROVE  HostRests(c)
<1>1. At(c, 1) => At(c, 1)'
  BY DEF At
<1>2. QED
  BY <1>1, LessIn DEF HostRests, Inv2, Boxes

\* OwnerChanged: a request that is not closed was returned after the change.
LEMMA OwnerChangedTraced == ASSUME Inv, Inv2, Inv4, OwnerChanged PROVE Inv4'
<1>1. /\ UNCHANGED <<kind, issued, open, pending, openReqs, outbox, busy, orphans, log, requests, inst>>
      /\ inbox # <<>> /\ inbox' = Tail(inbox) /\ Head(inbox).type = "noc"
  BY DEF OwnerChanged, Reads, appVars, hostVars
<1>2. pc'["host"] = "endreqs"
  BY DEF OwnerChanged, Inv, Types, Thread
<1>3. ASSUME NEW c \in Opens, Traced(c) PROVE Traced(c)'
  <2>1. HostRests(c)
    BY <1>1, ReadRests
  <2>2. c \in Unwanted => c \in Unwanted'
    BY <1>1, UnwantedKept DEF Inv, Types
  <2>3. ~Quiet(inbox)
    BY <1>1, LessIn DEF Inv2, Boxes
  <2>4. Granted(inbox, c) => Granted(inbox', c)
    BY <1>1, LessIn DEF Inv2, Boxes
  <2>5. RequestOK(c)'
    BY <1>1, <1>3, <2>1, <2>2, <2>3, <2>4 DEF RequestOK, Traced, HostRests, Granted
  <2>6. QED
    BY <1>1, <1>3, <2>1, <2>5, TracedRests
<1>4. Steady /\ requests' \subseteq Opens
  BY <1>1, <1>2 DEF Steady, Inv4
<1>5. QED
  BY <1>3, <1>4, AllTraced

\* EndOpenRequests: no request is left but the closed ones and those of replies to come.
LEMMA EndOpenRequestsTraced == ASSUME Inv, Inv4, EndOpenRequests PROVE Inv4'
<1>1. /\ UNCHANGED <<kind, issued, open, pending, outbox, busy, orphans, inbox, log, requests, inst>>
      /\ pc["host"] = "endreqs"
  BY DEF EndOpenRequests, appVars, hostVars
<1>2. pc'["host"] = "close"
  BY DEF EndOpenRequests, Inv, Types, Thread
<1>3. ASSUME NEW c \in Opens, Traced(c) PROVE Traced(c)'
  <2>1. HostRests(c)
    BY <1>1, StaysRests DEF HostStays
  <2>2. RequestOK(c)'
    BY <1>1, <1>3, RequestStays DEF Traced
  <2>3. QED
    BY <1>1, <1>3, <2>1, <2>2, TracedRests
<1>4. Steady /\ requests' \subseteq Opens
  BY <1>1, <1>2 DEF Steady, Inv4
<1>5. QED
  BY <1>3, <1>4, AllTraced

\* A message that says nothing of the call c is read: its request is still accounted for.
LEMMA RequestReads ==
  ASSUME Inv, Inv2, NEW c, RequestOK(c), inbox # <<>>, inbox' = Tail(inbox),
         UNCHANGED <<kind, issued, log, requests, inst>>, pc'["host"] # "endreqs",
         c \in requests /\ c \in openReqs => c \in openReqs',
         IsReply(Head(inbox), c) /\ Head(inbox).type = "ok" => c \in openReqs'
  PROVE  RequestOK(c)'
<1>1. At(c, 1) => At(c, 1)'
  BY DEF At
<1>2. c \in Unwanted => c \in Unwanted'
  BY UnwantedKept DEF Inv, Types
<1>3. Quiet(inbox) => Quiet(inbox')
  BY LessIn DEF Inv2, Boxes
<1>4. Granted(inbox, c) => Granted(inbox', c) \/ (c \in openReqs' /\ Quiet(inbox'))
  BY LessIn DEF Inv2, Boxes
<1>5. QED
  BY <1>1, <1>2, <1>3, <1>4 DEF RequestOK, Granted, Quiet

\* Registered: a reply to Register is no reply to a call.
LEMMA RegisteredTraced == ASSUME Inv, Inv2, Inv4, Registered PROVE Inv4'
<1>1. /\ UNCHANGED <<kind, issued, open, pending, openReqs, outbox, busy, orphans, log, requests, inst>>
      /\ inbox # <<>> /\ inbox' = Tail(inbox) /\ Head(inbox).msg = Register
  BY DEF Registered, Reads, appVars, clientVars, hostVars
<1>2. pc'["host"] = "take"
  BY DEF Registered, Inv, Types, Thread
<1>3. ASSUME NEW c \in Opens, Traced(c) PROVE Traced(c)'
  <2>1. HostRests(c)
    BY <1>1, ReadRests
  <2>2. ~IsReply(Head(inbox), c)
    BY <1>1 DEF IsReply, Opens, Call, Register
  <2>3. RequestOK(c)'
    BY <1>1, <1>2, <1>3, <2>2, RequestReads DEF Traced
  <2>4. QED
    BY <1>1, <1>3, <2>1, <2>3, TracedRests
<1>4. Steady /\ requests' \subseteq Opens
  BY <1>1, <1>2 DEF Steady, Inv4
<1>5. QED
  BY <1>3, <1>4, AllTraced

\* RelayResponse: a request that is responded to is open no more.
LEMMA RelayResponseTraced == ASSUME Inv, Inv2, Inv4, RelayResponse PROVE Inv4'
<1>1. /\ UNCHANGED <<kind, issued, open, pending, outbox, busy, orphans, log, requests, inst>>
      /\ inbox # <<>> /\ inbox' = Tail(inbox) /\ Head(inbox).type = "response"
      /\ openReqs \ {Head(inbox).msg} \subseteq openReqs'
  BY DEF RelayResponse, Reads, appVars, hostVars
<1>2. pc'["host"] \in {"idle", "close"}
  BY DEF RelayResponse, Reads, Inv, Types, Thread
<1>3. ASSUME NEW c \in Opens, Traced(c) PROVE Traced(c)'
  <2>1. HostRests(c)
    BY <1>1, ReadRests
  <2>2. ~IsReply(Head(inbox), c)
    BY <1>1 DEF IsReply
  <2>3. Head(inbox).msg = c => c \notin requests
    BY <1>1, <1>3, LessIn DEF Inv2, Boxes, Traced, ReceivedOK
  <2>4. c \in requests /\ c \in openReqs => c \in openReqs'
    BY <1>1, <2>3
  <2>5. RequestOK(c)'
    BY <1>1, <1>2, <1>3, <2>2, <2>4, RequestReads DEF Traced
  <2>6. QED
    BY <1>1, <1>3, <2>1, <2>5, TracedRests
<1>4. Steady /\ requests' \subseteq Opens
  BY <1>1, <1>2 DEF Steady, Inv4
<1>5. QED
  BY <1>3, <1>4, AllTraced

\* RelayReply: the call is answered on the host; a request it returned is recorded.
LEMMA RelayReplyTraced == ASSUME Inv, Inv2, Inv4, RelayReply PROVE Inv4'
<1>1. /\ UNCHANGED <<kind, issued, open, outbox, busy, orphans, log, requests, inst>>
      /\ inbox # <<>> /\ inbox' = Tail(inbox) /\ Head(inbox).type \in {"ok", "err", "bad"}
      /\ openReqs \subseteq openReqs'
  BY DEF RelayReply, Reads, appVars, hostVars
<1>2. pc'["host"] \in {"idle", "reply"}
  BY DEF RelayReply, Reads, Inv, Types, Thread
<1>3. /\ pending \ {Head(inbox).msg} \subseteq pending'
      /\ Head(inbox).msg \in pending /\ Head(inbox).msg \in Opens /\ Head(inbox).type = "ok" =>
            Head(inbox).msg \in openReqs'
  BY DEF RelayReply
<1>4. ASSUME NEW c \in Opens, Traced(c) PROVE Traced(c)'
  <2>1. HostRests(c)
    BY <1>1, ReadRests
  <2>2. PICK p \in HostPlaces, k \in 0..MaxInst : HostPlace(c, p, k)
    BY <1>4 DEF Traced
  <2>3. IsReply(Head(inbox), c) => p = "reply" /\ c \in pending /\ ~Replied(inbox', c)
    BY <1>1, <1>4, <2>2, LessIn DEF HostPlace, Inv2, Boxes, Traced
  <2>4. RequestOK(c)'
    <3>1. IsReply(Head(inbox), c) /\ Head(inbox).type = "ok" => c \in openReqs'
      BY <1>3, <2>3 DEF IsReply
    <3>2. QED
      BY <1>1, <1>2, <1>4, <3>1, RequestReads DEF Traced
  <2>5. CASE ~IsReply(Head(inbox), c)
    <3>1. c \in pending => c \in pending'
      BY <1>1, <1>3, <2>5 DEF IsReply
    <3>2. QED
      BY <1>4, <2>1, <2>4, <3>1, TracedRests
  <2>6. CASE IsReply(Head(inbox), c)
    <3>1. HostPlace(c, "away", k)'
      BY <1>1, <2>2, <2>3, <2>6 DEF HostPlace, Replied
    <3>2. RepliedOnce(inbox', c)
      BY <1>4, <2>1 DEF Traced, HostRests
    <3>3. ReceivedOK(c)'
      BY <1>4, <2>1 DEF Traced, HostRests, ReceivedOK, Responded
    <3>4. QED
      BY <2>4, <3>1, <3>2, <3>3, TracedMoves DEF HostPlaces
  <2>7. QED
    BY <2>5, <2>6
<1>5. Steady /\ requests' \subseteq Opens
  BY <1>1, <1>2 DEF Steady, Inv4
<1>6. QED
  BY <1>4, <1>5, AllTraced

\* FailPending: the connection has closed.
LEMMA FailPendingTraced == ASSUME Inv, Inv4, FailPending PROVE Inv4'
<1>1. UNCHANGED <<kind, open, requests>> /\ pc["host"] = "fail"
  BY DEF FailPending, appVars, hostVars
<1>2. ~open'
  BY <1>1 DEF Inv4
<1>3. Opens' = Opens
  BY <1>1 DEF Opens
<1>4. QED
  BY <1>1, <1>2, <1>3 DEF Inv4

-----------------------------------------------------------------------------
(* The steps of the bus and the portal.                                      *)

\* What a log that grows says of the calls received.
LEMMA ReceivedGrows ==
  ASSUME Logs, NEW k \in Inst, NEW m \in Msg, log' = [log EXCEPT ![k] = Append(@, m)]
  PROVE  /\ \A c : At(c, 1) => At(c, 1)'
         /\ m # Register => At(m, 1)'
<1>1. log'[k] = Append(log[k], m) /\ log[k] \in Seq(Msg) /\ \A j \in Inst : j # k => log'[j] = log[j]
  BY DEF Logs
<1>2. \A c : Within(c, log'[k]) <=> Within(c, log[k]) \/ c = m
  BY <1>1, Appended
<1>3. \A j \in Inst : \A c : Within(c, log[j]) => Within(c, log'[j])
  BY <1>1, <1>2
<1>4. \A c : At(c, 1) => At(c, 1)'
  BY <1>3, ReceivedStays
<1>5. m # Register => At(m, 1)'
  BY <1>2 DEF At
<1>6. QED
  BY <1>4, <1>5

\* What is left to the gateway.
GatewayRests == UNCHANGED <<kind, issued, open, pc, pending, openReqs>>

\* A request stays accounted for when the bus says no more of the portal's owner.
LEMMA RequestHears ==
  ASSUME Inv, Inv2, NEW c, RequestOK(c), GatewayRests, c \in requests' => c \in requests,
         inst' = inst,
         At(c, 1) => At(c, 1)',
         inbox' = inbox \/ \E x \in Incoming : x.type # "noc" /\ inbox' = Append(inbox, x)
  PROVE  RequestOK(c)'
<1>1. c \in Unwanted => c \in Unwanted'
  BY UnwantedKept DEF Inv, Types, GatewayRests
<1>2. Quiet(inbox) => Quiet(inbox')
  BY Delivered DEF Inv2, Boxes
<1>3. Granted(inbox, c) => Granted(inbox', c)
  BY MoreIn, ZenonT(30) DEF Inv2, Boxes
<1>4. QED
  BY <1>1, <1>2, <1>3 DEF RequestOK, GatewayRests, Granted, Quiet

\* SetUpRegister: the portal that owns the name stays if there is one.
LEMMA SetUpRegisterTraced == ASSUME Inv, Inv2, Inv4, SetUpRegister PROVE Inv4'
<1>1. /\ GatewayRests
      /\ UNCHANGED <<outbox, inbox, busy, orphans, requests>> /\ Activatable /\ Activate
      /\ log' = [log EXCEPT ![Activated] = Append(@, Register)]
  BY DEF SetUpRegister, GatewayRests, appVars, clientVars, threadVars
<1>2. Activated \in Inst /\ Register \in Msg
  BY <1>1, ActivatedOK, GatewayAssumption DEF Inv2, Register, Msg
<1>3. \A c : At(c, 1) => At(c, 1)'
  BY <1>1, <1>2, ReceivedGrows DEF Inv2
<1>4. inst # NoInst => inst' = inst
  BY <1>1 DEF Activate, Activated
<1>5. ASSUME NEW c \in Opens, Traced(c) PROVE Traced(c)'
  <2>1. HostRests(c)
    BY <1>1, <1>3 DEF HostRests
  <2>2. RequestOK(c)'
    <3>1. CASE c \notin requests
      BY <1>1, <3>1 DEF RequestOK
    <3>2. CASE c \in requests
      <4>1. inst' = inst
        BY <1>4, <1>5, <3>2 DEF Traced, RequestOK
      <4>2. QED
        BY <1>1, <1>3, <1>5, <4>1, RequestHears DEF Traced
    <3>3. QED
      BY <3>1, <3>2
  <2>3. QED
    BY <1>1, <1>5, <2>1, <2>2, TracedRests DEF GatewayRests
<1>6. Steady /\ requests' \subseteq Opens
  BY <1>1 DEF Steady, Inv4, GatewayRests
<1>7. QED
  BY <1>5, <1>6, AllTraced

\* The head of the outbox, if it is an OpenURI call, is nowhere else on the host.
LEMMA OnlySent ==
  ASSUME Inv2, Inv3, outbox # <<>>, NEW c \in Opens, Traced(c), c = Head(outbox).msg
  PROVE  /\ ~SentOf(c, Tail(outbox)) /\ (\A j : <<c, j>> \notin busy) /\ c \notin orphans
         /\ ~Replied(inbox, c) /\ ~Responded(inbox, c) /\ c \notin requests /\ c \in pending
<1>1. c \in Nat /\ c # Register /\ ForPortal(c)
  BY DEF Opens, Call, Register, ForPortal, IsTalk
<1>2. SentOf(c, outbox) /\ ~SentOf(c, Tail(outbox))
  <2>1. SentOf(c, Tail(outbox)) => c < c
    BY <1>1, SentLess DEF Inv2, Boxes, Inv3, SortedOK
  <2>2. SentOf(c, outbox)
    BY SentLess DEF Inv2, Boxes
  <2>3. QED
    BY <1>1, <2>1, <2>2
<1>3. ~At(c, 1)
  <2>1. At(c, 2)
    BY <1>1, <1>2 DEF At
  <2>2. At(c, 1) => c < c
    BY <1>1, <2>1 DEF Inv3, Ordered, Stage
  <2>3. QED
    BY <1>1, <2>2
<1>4. PICK p \in HostPlaces, k \in 0..MaxInst : HostPlace(c, p, k)
  BY DEF Traced
<1>5. p = "outbox"
  BY <1>2, <1>4 DEF HostPlace
<1>6. (\A j : <<c, j>> \notin busy) /\ c \notin orphans /\ ~Replied(inbox, c) /\ c \in pending
  BY <1>4, <1>5 DEF HostPlace
<1>7. ~Responded(inbox, c) /\ c \notin requests
  BY <1>3 DEF Traced, ReceivedOK, RequestOK
<1>8. QED
  BY <1>2, <1>6, <1>7

\* What the bus leaves alone when it routes a message, and what becomes of others.
RoutesOne == GatewayRests /\ outbox # <<>> /\ outbox' = Tail(outbox) /\ orphans' = orphans

\* A message that reaches an instance.
LEMMA ReachedTraced ==
  ASSUME Inv, Inv2, Inv3, Inv4, RoutesOne, NEW k \in Inst, NEW m \in Msg, m = Head(outbox).msg,
         log' = [log EXCEPT ![k] = Append(@, m)], busy' = busy \cup {<<m, k>>}, requests' \subseteq requests,
         (inst' = inst /\ inbox' = inbox) \/ (inst = NoInst /\ inbox' = inbox \o Noc(k))
  PROVE  Inv4'
<1>1. (\A c : At(c, 1) => At(c, 1)') /\ (m # Register => At(m, 1)')
  BY ReceivedGrows DEF Inv2
<1>2. inbox \in Seq(Incoming) /\ outbox \in Seq(Outgoing) /\ k \in 0..MaxInst /\ k # NoInst
  BY GatewayAssumption DEF Inv2, Boxes, Inst, NoInst
<1>3. \A c : /\ Replied(inbox', c) => Replied(inbox, c)
             /\ RepliedOnce(inbox, c) => RepliedOnce(inbox', c)
             /\ Responded(inbox', c) => Responded(inbox, c)
  BY <1>2, NocIn, ZenonT(30)
<1>4. \A c : SentOf(c, outbox') => SentOf(c, outbox)
  BY <1>2, SentLess DEF RoutesOne
<1>5. ASSUME NEW c \in Opens, Traced(c) PROVE Traced(c)'
  <2>1. RequestOK(c)'
    <3>1. CASE c \notin requests
      BY <3>1 DEF RequestOK
    <3>2. CASE c \in requests
      <4>1. inst' = inst /\ inbox' = inbox
        BY <1>5, <3>2 DEF Traced, RequestOK
      <4>2. QED
        BY <1>1, <1>5, <4>1, RequestHears DEF Traced, RoutesOne
    <3>3. QED
      BY <3>1, <3>2
  <2>2. CASE c # m
    <3>1. \A j : <<c, j>> \in busy' => <<c, j>> \in busy
      BY <2>2
    <3>2. HostRests(c)
      BY <1>1, <1>3, <1>4, <3>1 DEF HostRests, RoutesOne
    <3>3. QED
      BY <1>5, <2>1, <3>2, TracedRests DEF RoutesOne, GatewayRests
  <2>3. CASE c = m
    <3>1. /\ ~SentOf(c, outbox') /\ (\A j : <<c, j>> \notin busy) /\ c \notin orphans'
          /\ ~Replied(inbox', c) /\ ~Responded(inbox', c) /\ c \notin requests' /\ c \in pending'
      BY <1>3, <1>5, <2>3, OnlySent DEF RoutesOne, GatewayRests
    <3>2. \A j : <<c, j>> \in busy' => j = k
      BY <3>1
    <3>3. HostPlace(c, "busy", k)'
      BY <1>2, <3>1, <3>2 DEF HostPlace, Replied, SentOf
    <3>4. RepliedOnce(inbox', c)
      BY <1>3, <1>5 DEF Traced
    <3>5. c # Register
      BY DEF Opens, Call, Register
    <3>6. ReceivedOK(c)'
      BY <1>1, <2>3, <3>1, <3>5 DEF ReceivedOK, Responded
    <3>7. QED
      BY <1>2, <2>1, <3>3, <3>4, <3>6, TracedMoves DEF HostPlaces
  <2>4. QED
    BY <2>2, <2>3
<1>6. Steady /\ requests' \subseteq Opens
  BY DEF Steady, Inv4, RoutesOne, GatewayRests
<1>7. QED
  BY <1>5, <1>6, AllTraced

\* A message that the bus refuses.
LEMMA RefusedTraced ==
  ASSUME Inv, Inv2, Inv3, Inv4, RoutesOne, NEW m \in Msg, m = Head(outbox).msg,
         UNCHANGED <<inst, log, busy, requests>>, inbox' = Append(inbox, In("err", m, NoInst))
  PROVE  Inv4'
<1>1. PICK x \in Incoming : inbox' = Append(inbox, x) /\ x.type = "err" /\ x.msg = m
  BY Message, GatewayAssumption DEF NoInst
<1>2. inbox \in Seq(Incoming) /\ outbox \in Seq(Outgoing)
  BY DEF Inv2, Boxes
<1>3. \A c : At(c, 1) => At(c, 1)'
  BY DEF At
<1>4. \A c : SentOf(c, outbox') => SentOf(c, outbox)
  BY <1>2, SentLess DEF RoutesOne
<1>5. ASSUME NEW c \in Opens, Traced(c) PROVE Traced(c)'
  <2>1. RequestOK(c)'
    BY <1>1, <1>3, <1>5, RequestHears DEF Traced, RoutesOne
  <2>2. Responded(inbox', c) => Responded(inbox, c)
    BY <1>1, <1>2, MoreIn
  <2>3. CASE c # m
    <3>1. ~IsReply(x, c)
      BY <1>1, <2>3 DEF IsReply
    <3>2. (Replied(inbox', c) => Replied(inbox, c)) /\ (RepliedOnce(inbox, c) => RepliedOnce(inbox', c))
      BY <1>1, <1>2, <3>1, MoreIn
    <3>3. HostRests(c)
      BY <1>3, <1>4, <2>2, <3>2 DEF HostRests, RoutesOne
    <3>4. QED
      BY <1>5, <2>1, <3>3, TracedRests DEF RoutesOne, GatewayRests
  <2>4. CASE c = m
    <3>1. /\ ~SentOf(c, outbox') /\ (\A j : <<c, j>> \notin busy') /\ c \notin orphans'
          /\ ~Replied(inbox, c) /\ ~Responded(inbox', c) /\ c \notin requests' /\ c \in pending'
      BY <1>5, <2>2, <2>4, OnlySent DEF RoutesOne, GatewayRests
    <3>2. RepliedOnce(inbox', c)
      BY <1>1, <1>2, <1>5, <3>1, MoreIn DEF Traced
    <3>3. HostPlace(c, "reply", NoInst)'
      BY <3>1 DEF HostPlace, SentOf
    <3>4. ReceivedOK(c)'
      BY <3>1 DEF ReceivedOK, Responded
    <3>5. QED
      BY <2>1, <3>2, <3>3, <3>4, TracedMoves, GatewayAssumption DEF HostPlaces, NoInst
  <2>5. QED
    BY <2>3, <2>4
<1>6. Steady /\ requests' \subseteq Opens
  BY DEF Steady, Inv4, RoutesOne, GatewayRests
<1>7. QED
  BY <1>5, <1>6, AllTraced

\* BusRoutes: a talk service, an instance, or nobody has the message now.
LEMMA BusRoutesTraced == ASSUME Inv, Inv2, Inv3, Inv4, BusRoutes PROVE Inv4'
<1> DEFINE m == Head(outbox).msg
<1> DEFINE k == Head(outbox).dest
<1>1. RoutesOne
  BY DEF BusRoutes, RoutesOne, GatewayRests, appVars, clientVars, threadVars
<1>2. m \in Msg /\ k \in 0..MaxInst
  BY Routed
<1>3. CASE IsTalk(m) /\ busy' = busy \cup {<<m, NoInst>>} /\ UNCHANGED <<inst, log, requests, inbox>>
  <2>1. \A c : At(c, 1) => At(c, 1)'
    BY <1>3 DEF At
  <2>2. ASSUME NEW c \in Opens, Traced(c) PROVE Traced(c)'
    <3>1. c # m
      BY <1>3 DEF Opens, IsTalk
    <3>2. \A j : <<c, j>> \in busy' => <<c, j>> \in busy
      BY <1>3, <3>1
    <3>3. SentOf(c, outbox') => SentOf(c, outbox)
      BY <1>1, SentLess DEF RoutesOne, Inv2, Boxes
    <3>4. HostRests(c)
      BY <1>1, <1>3, <2>1, <3>2, <3>3 DEF HostRests, RoutesOne
    <3>5. RequestOK(c)'
      BY <1>1, <1>3, <2>1, <2>2, RequestHears DEF Traced, RoutesOne
    <3>6. QED
      BY <1>1, <2>2, <3>4, <3>5, TracedRests DEF RoutesOne, GatewayRests
  <2>3. Steady /\ requests' \subseteq Opens
    BY <1>1, <1>3 DEF Steady, Inv4, RoutesOne, GatewayRests
  <2>4. QED
    BY <2>2, <2>3, AllTraced
<1>4. CASE RouteToName(m)
  <2>1. Activated \in Inst
    BY <1>4, ActivatedOK DEF RouteToName, Inv2
  <2>2. (inst' = inst /\ inbox' = inbox) \/ (inst = NoInst /\ inbox' = inbox \o Noc(Activated))
    BY <1>4 DEF RouteToName, Activate, Activated
  <2>3. /\ log' = [log EXCEPT ![Activated] = Append(@, m)] /\ busy' = busy \cup {<<m, Activated>>}
        /\ requests' \subseteq requests
    BY <1>4 DEF RouteToName
  <2>4. QED
    BY <1>1, <1>2, <2>1, <2>2, <2>3, ReachedTraced
<1>5. CASE k # ByName /\ RouteToInst(m, k)
  <2>1. CASE k \in alive
    <3>1. /\ log' = [log EXCEPT ![k] = Append(@, m)] /\ busy' = busy \cup {<<m, k>>}
          /\ requests' \subseteq requests /\ inst' = inst /\ inbox' = inbox
      BY <1>5, <2>1 DEF RouteToInst
    <3>2. k \in Inst
      BY <2>1 DEF Inv2, HostTypes
    <3>3. QED
      BY <1>1, <1>2, <3>1, <3>2, ReachedTraced
  <2>2. CASE k \notin alive
    <3>1. UNCHANGED <<inst, log, busy, requests>> /\ inbox' = Append(inbox, In("err", m, NoInst))
      BY <1>5, <2>2 DEF RouteToInst
    <3>2. QED
      BY <1>1, <1>2, <3>1, RefusedTraced
  <2>3. QED
    BY <2>1, <2>2
<1>6. CASE NotActivated(m)
  <2>1. UNCHANGED <<inst, log, busy, requests>> /\ inbox' = Append(inbox, In("err", m, NoInst))
    BY <1>6 DEF NotActivated
  <2>2. QED
    BY <1>1, <1>2, <2>1, RefusedTraced
<1>7. QED
  BY <1>3, <1>4, <1>5, <1>6 DEF BusRoutes

\* Replies: the instance that has the call answers it; it may open a request.
LEMMA RepliesTraced ==
  ASSUME Inv, Inv2, Inv4, NEW m \in Msg, NEW k \in 0..MaxInst, NEW type \in {"ok", "err", "bad"},
         Replies(m, k, type)
  PROVE  Inv4'
<1>1. /\ GatewayRests /\ UNCHANGED <<outbox, inst, log, orphans>> /\ <<m, k>> \in busy /\ open
      /\ busy' = busy \ {<<m, k>>} /\ inbox' = Append(inbox, In(type, m, k))
      /\ requests' = (IF m \in Opens \ closed /\ type = "ok" /\ k = inst THEN requests \cup {m} ELSE requests)
  BY DEF Replies, GatewayRests, appVars, clientVars, threadVars
<1>2. PICK x \in Incoming : inbox' = Append(inbox, x) /\ x.type = type /\ x.msg = m
  BY <1>1, Message
<1>3. inbox \in Seq(Incoming) /\ x.type # "noc" /\ x.type # "response"
  BY <1>2 DEF Inv2, Boxes
<1>4. \A c : At(c, 1) => At(c, 1)'
  BY <1>1 DEF At
<1>5. ASSUME NEW c \in Opens, Traced(c) PROVE Traced(c)'
  <2>1. Responded(inbox', c) => Responded(inbox, c)
    BY <1>2, <1>3, MoreIn
  <2>2. CASE c # m
    <3>1. ~IsReply(x, c)
      BY <1>2, <2>2 DEF IsReply
    <3>2. (Replied(inbox', c) => Replied(inbox, c)) /\ (RepliedOnce(inbox, c) => RepliedOnce(inbox', c))
      BY <1>2, <1>3, <3>1, MoreIn
    <3>3. c \in requests' => c \in requests
      BY <1>1, <2>2
    <3>4. HostRests(c)
      BY <1>1, <1>4, <2>1, <3>2, <3>3 DEF HostRests
    <3>5. RequestOK(c)'
      BY <1>1, <1>2, <1>3, <1>4, <1>5, <3>3, RequestHears DEF Traced
    <3>6. QED
      BY <1>1, <1>5, <3>4, <3>5, TracedRests DEF GatewayRests
  <2>3. CASE c = m
    <3>1. PICK p \in HostPlaces, j \in 0..MaxInst : HostPlace(c, p, j)
      BY <1>5 DEF Traced
    <3>2. p = "busy" /\ j = k /\ k # NoInst
      BY <1>1, <2>3, <3>1 DEF HostPlace
    <3>3. /\ ~SentOf(c, outbox') /\ (\A i : <<c, i>> \notin busy') /\ c \notin orphans'
          /\ ~Replied(inbox, c) /\ c \in pending'
      BY <1>1, <2>3, <3>1, <3>2 DEF HostPlace, GatewayRests
    <3>4. At(c, 1) /\ ~Responded(inbox', c) /\ c \notin requests
      BY <1>1, <1>5, <2>1, <2>3 DEF Traced, ReceivedOK
    <3>5. RepliedOnce(inbox', c)
      BY <1>2, <1>3, <1>5, <3>3, MoreIn DEF Traced
    <3>6. HostPlace(c, "reply", k)'
      BY <3>3 DEF HostPlace, SentOf
    <3>7. ReceivedOK(c)'
      BY <1>4, <3>3, <3>4 DEF ReceivedOK, Responded
    <3>8. RequestOK(c)'
      <4>1. c \in requests' => type = "ok" /\ k = inst
        BY <1>1, <3>4
      <4>2. type = "ok" => Granted(inbox', c)
        BY <1>2, <1>3, <2>3, MoreIn
      <4>3. QED
        BY <1>1, <1>4, <3>2, <3>4, <4>1, <4>2 DEF RequestOK, Granted
    <3>9. QED
      BY <3>5, <3>6, <3>7, <3>8, TracedMoves DEF HostPlaces
  <2>4. QED
    BY <2>2, <2>3
<1>6. Steady /\ requests' \subseteq Opens
  BY <1>1 DEF Steady, Inv4, GatewayRests
<1>7. QED
  BY <1>5, <1>6, AllTraced

\* Responds: the request is answered, once.
LEMMA RespondsTraced == ASSUME Inv, Inv2, Inv4, NEW m \in Call, Responds(m) PROVE Inv4'
<1>1. /\ GatewayRests /\ UNCHANGED <<outbox, inst, log, orphans, busy>> /\ m \in requests
      /\ requests' = requests \ {m} /\ inbox' = Append(inbox, In("response", m, inst))
  BY DEF Responds, GatewayRests, appVars, clientVars, threadVars
<1>2. PICK x \in Incoming : inbox' = Append(inbox, x) /\ x.type = "response" /\ x.msg = m
  <2>1. m \in Msg /\ inst \in 0..MaxInst
    BY GatewayAssumption DEF Call, Msg, Inv2, HostTypes
  <2>2. QED
    BY <1>1, <2>1, Message
<1>3. inbox \in Seq(Incoming)
  BY DEF Inv2, Boxes
<1>4. \A c : At(c, 1) => At(c, 1)'
  BY <1>1 DEF At
<1>5. ASSUME NEW c \in Opens, Traced(c) PROVE Traced(c)'
  <2>1. ~IsReply(x, c)
    BY <1>2 DEF IsReply
  <2>2. (Replied(inbox', c) => Replied(inbox, c)) /\ (RepliedOnce(inbox, c) => RepliedOnce(inbox', c))
    BY <1>2, <1>3, <2>1, MoreIn
  <2>3. c \in requests' => c \in requests
    BY <1>1
  <2>4. RequestOK(c)'
    BY <1>1, <1>2, <1>4, <1>5, <2>3, RequestHears DEF Traced
  <2>5. CASE c # m
    <3>1. Responded(inbox', c) => Responded(inbox, c)
      BY <1>2, <1>3, <2>5, MoreIn
    <3>2. HostRests(c)
      BY <1>1, <1>4, <2>2, <2>3, <3>1 DEF HostRests
    <3>3. QED
      BY <1>1, <1>5, <2>4, <3>2, TracedRests DEF GatewayRests
  <2>6. CASE c = m
    <3>1. PICK p \in HostPlaces, k \in 0..MaxInst : HostPlace(c, p, k)
      BY <1>5 DEF Traced
    <3>2. HostPlace(c, p, k)'
      BY <1>1, <2>2, <3>1 DEF HostPlace, Replied, GatewayRests
    <3>3. At(c, 1) /\ (\A j : <<c, j>> \notin busy') /\ c \notin requests'
      BY <1>1, <1>5, <2>6 DEF Traced, RequestOK, ReceivedOK
    <3>4. ReceivedOK(c)'
      BY <1>4, <3>3 DEF ReceivedOK
    <3>5. RepliedOnce(inbox', c)
      BY <1>5, <2>2 DEF Traced
    <3>6. QED
      BY <2>4, <3>1, <3>2, <3>4, <3>5, TracedMoves
  <2>7. QED
    BY <2>5, <2>6
<1>6. Steady /\ requests' \subseteq Opens
  BY <1>1 DEF Steady, Inv4, GatewayRests
<1>7. QED
  BY <1>5, <1>6, AllTraced

\* NoReply: the bus answers what an instance left unanswered.
LEMMA NoReplyTraced == ASSUME Inv, Inv2, Inv4, NEW m \in Msg, NoReply(m) PROVE Inv4'
<1>1. /\ GatewayRests /\ UNCHANGED <<outbox, inst, log, busy, requests>> /\ m \in orphans
      /\ orphans' = orphans \ {m} /\ inbox' = Append(inbox, In("err", m, NoInst))
  BY DEF NoReply, GatewayRests, appVars, clientVars, threadVars
<1>2. PICK x \in Incoming : inbox' = Append(inbox, x) /\ x.type = "err" /\ x.msg = m
  BY <1>1, Message, GatewayAssumption DEF NoInst
<1>3. inbox \in Seq(Incoming)
  BY DEF Inv2, Boxes
<1>4. \A c : At(c, 1) => At(c, 1)'
  BY <1>1 DEF At
<1>5. ASSUME NEW c \in Opens, Traced(c) PROVE Traced(c)'
  <2>1. RequestOK(c)'
    BY <1>1, <1>2, <1>4, <1>5, RequestHears DEF Traced
  <2>2. Responded(inbox', c) => Responded(inbox, c)
    BY <1>2, <1>3, MoreIn
  <2>3. CASE c # m
    <3>1. ~IsReply(x, c)
      BY <1>2, <2>3 DEF IsReply
    <3>2. (Replied(inbox', c) => Replied(inbox, c)) /\ (RepliedOnce(inbox, c) => RepliedOnce(inbox', c))
      BY <1>2, <1>3, <3>1, MoreIn
    <3>3. HostRests(c)
      BY <1>1, <1>4, <2>2, <3>2 DEF HostRests
    <3>4. QED
      BY <1>1, <1>5, <2>1, <3>3, TracedRests DEF GatewayRests
  <2>4. CASE c = m
    <3>1. PICK p \in HostPlaces, k \in 0..MaxInst : HostPlace(c, p, k)
      BY <1>5 DEF Traced
    <3>2. p = "orphan"
      BY <1>1, <2>4, <3>1 DEF HostPlace
    <3>3. /\ ~SentOf(c, outbox') /\ (\A j : <<c, j>> \notin busy') /\ c \notin orphans'
          /\ ~Replied(inbox, c) /\ c \in pending'
      BY <1>1, <2>4, <3>1, <3>2 DEF HostPlace, GatewayRests
    <3>4. RepliedOnce(inbox', c)
      BY <1>2, <1>3, <1>5, <3>3, MoreIn DEF Traced
    <3>5. HostPlace(c, "reply", k)'
      BY <3>3 DEF HostPlace, SentOf
    <3>6. ReceivedOK(c)'
      BY <1>1, <1>4, <1>5, <2>2 DEF Traced, ReceivedOK, Responded
    <3>7. QED
      BY <2>1, <3>4, <3>5, <3>6, TracedMoves DEF HostPlaces
  <2>5. QED
    BY <2>3, <2>4
<1>6. Steady /\ requests' \subseteq Opens
  BY <1>1 DEF Steady, Inv4, GatewayRests
<1>7. QED
  BY <1>5, <1>6, AllTraced

\* InstExits: what the instance had is left unanswered, and its requests are gone.
LEMMA InstExitsTraced == ASSUME Inv, Inv2, Inv4, NEW k \in Inst, InstExits(k) PROVE Inv4'
<1>1. /\ GatewayRests /\ UNCHANGED <<outbox, log>>
      /\ inst' = (IF k = inst THEN NoInst ELSE inst)
      /\ orphans' = orphans \cup {m \in Msg : <<m, k>> \in busy} /\ busy' = {b \in busy : b[2] # k}
      /\ requests' = IF k = inst THEN {} ELSE requests
  BY DEF InstExits, GatewayRests, appVars, clientVars, threadVars
<1>2. inbox' = inbox \/ (k = inst /\ inbox' = inbox \o Noc(NoInst))
  BY DEF InstExits
<1>3. inbox \in Seq(Incoming) /\ NoInst \in 0..MaxInst
  BY GatewayAssumption DEF Inv2, Boxes, NoInst
<1>4. \A c : At(c, 1) => At(c, 1)'
  BY <1>1 DEF At
<1>5. \A c : /\ Replied(inbox', c) => Replied(inbox, c)
             /\ RepliedOnce(inbox, c) => RepliedOnce(inbox', c)
             /\ Responded(inbox', c) => Responded(inbox, c)
  BY <1>2, <1>3, NocIn, ZenonT(30)
<1>6. ASSUME NEW c \in Opens, Traced(c) PROVE Traced(c)'
  <2>1. \A j : <<c, j>> \in busy' => <<c, j>> \in busy /\ j # k
    BY <1>1
  <2>2. c \in requests' => c \in requests
    BY <1>1
  <2>3. RequestOK(c)'
    <3>1. CASE k = inst
      BY <1>1, <3>1 DEF RequestOK
    <3>2. CASE k # inst
      BY <1>1, <1>2, <1>4, <1>6, <2>2, <3>2, RequestHears DEF Traced
    <3>3. QED
      BY <3>1, <3>2
  <2>4. CASE <<c, k>> \notin busy
    <3>1. c \in orphans' => c \in orphans
      BY <1>1, <2>4
    <3>2. HostRests(c)
      BY <1>1, <1>4, <1>5, <2>1, <2>2, <3>1 DEF HostRests
    <3>3. QED
      BY <1>1, <1>6, <2>3, <3>2, TracedRests DEF GatewayRests
  <2>5. CASE <<c, k>> \in busy
    <3>1. PICK p \in HostPlaces, j \in 0..MaxInst : HostPlace(c, p, j)
      BY <1>6 DEF Traced
    <3>2. p = "busy" /\ j = k
      BY <2>5, <3>1 DEF HostPlace
    <3>3. /\ ~SentOf(c, outbox') /\ (\A i : <<c, i>> \notin busy')
          /\ ~Replied(inbox', c) /\ c \in pending'
      BY <1>1, <1>5, <2>1, <3>1, <3>2 DEF HostPlace, GatewayRests
    <3>4. HostPlace(c, "orphan", k)'
      BY <3>3 DEF HostPlace, SentOf, Replied
    <3>5. RepliedOnce(inbox', c)
      BY <1>5, <1>6 DEF Traced
    <3>6. ReceivedOK(c)'
      BY <1>4, <1>5, <1>6, <2>2, <3>3 DEF Traced, ReceivedOK, Responded
    <3>7. QED
      BY <2>3, <3>1, <3>2, <3>4, <3>5, <3>6, TracedMoves DEF HostPlaces
  <2>6. QED
    BY <2>4, <2>5
<1>7. Steady /\ requests' \subseteq Opens
  BY <1>1 DEF Steady, Inv4, GatewayRests
<1>8. QED
  BY <1>6, <1>7, AllTraced

\* InstReplaced: the requests of the one that is replaced are gone.
LEMMA InstReplacedTraced == ASSUME Inv, Inv2, Inv4, InstReplaced PROVE Inv4'
<1>1. /\ GatewayRests /\ UNCHANGED <<outbox, log, busy, orphans>> /\ requests' = {}
      /\ started < MaxInst /\ (inbox' = inbox \/ inbox' = inbox \o Noc(started + 1))
  BY DEF InstReplaced, GatewayRests, appVars, clientVars, threadVars
<1>2. inbox \in Seq(Incoming) /\ started + 1 \in 0..MaxInst
  BY <1>1, GatewayAssumption DEF Inv2, Boxes, HostTypes
<1>3. \A c : At(c, 1) => At(c, 1)'
  BY <1>1 DEF At
<1>4. \A c : /\ Replied(inbox', c) => Replied(inbox, c)
             /\ RepliedOnce(inbox, c) => RepliedOnce(inbox', c)
             /\ Responded(inbox', c) => Responded(inbox, c)
  BY <1>1, <1>2, NocIn, ZenonT(30)
<1>5. ASSUME NEW c \in Opens, Traced(c) PROVE Traced(c)'
  <2>1. HostRests(c)
    BY <1>1, <1>3, <1>4 DEF HostRests
  <2>2. RequestOK(c)'
    BY <1>1 DEF RequestOK
  <2>3. QED
    BY <1>1, <1>5, <2>1, <2>2, TracedRests DEF GatewayRests
<1>6. Steady /\ requests' \subseteq Opens
  BY <1>1 DEF Steady, GatewayRests
<1>7. QED
  BY <1>5, <1>6, AllTraced

\* No call is on the host at first.
LEMMA InitTraced == ASSUME Init PROVE Inv4
<1>1. /\ inbox = <<>> /\ outbox = <<>> /\ busy = {} /\ orphans = {} /\ requests = {}
      /\ pc["host"] = "idle"
  BY DEF Init, Thread
<1>2. ASSUME NEW c PROVE Traced(c)
  <2>1. ~Replied(inbox, c) /\ ~Responded(inbox, c) /\ RepliedOnce(inbox, c) /\ ~SentOf(c, outbox)
    BY <1>1 DEF Replied, Responded, RepliedOnce, SentOf
  <2>2. HostPlace(c, "away", 0) /\ RequestOK(c) /\ ReceivedOK(c)
    BY <1>1, <2>1 DEF HostPlace, RequestOK, ReceivedOK
  <2>3. QED
    BY <2>1, <2>2, GatewayAssumption DEF Traced, HostPlaces
<1>3. QED
  BY <1>1, <1>2 DEF Inv4

\* Every step keeps what is known of the OpenURI calls.
LEMMA NextTraced == ASSUME Inv, Inv2, Inv3, Inv4, [Next]_vars PROVE Inv4'
<1>1. CASE UNCHANGED vars
  <2>1. Apart
    BY <1>1 DEF Apart, vars, appVars, clientVars, threadVars, hostVars, Inv, Types
  <2>2. QED
    BY <2>1, ApartKeeps
<1>2. CASE ApartStep
  BY <1>2, ApartSteps
<1>3. ASSUME NEW t \in Thread, Permit(t) \/ RegisterAgain(t) \/ Send(t) PROVE Inv4'
  BY <1>3, PermitTraced, RegisterAgainTraced, SendTraced
<1>4. CASE OwnerChanged \/ EndOpenRequests \/ RelayReply \/ RelayResponse \/ Registered \/ FailPending
  BY <1>4, OwnerChangedTraced, EndOpenRequestsTraced, RelayReplyTraced, RelayResponseTraced,
     RegisteredTraced,
     FailPendingTraced
<1>5. CASE SetUpRegister \/ BusRoutes \/ InstReplaced
  BY <1>5, SetUpRegisterTraced, BusRoutesTraced, InstReplacedTraced
<1>6. ASSUME NEW k \in Inst, InstExits(k) PROVE Inv4'
  BY <1>6, InstExitsTraced
<1>7. ASSUME NEW m \in Msg, NoReply(m) PROVE Inv4'
  BY <1>7, NoReplyTraced
<1>8. ASSUME NEW m \in Msg, NEW k \in 0..MaxInst, NEW type \in {"ok", "err", "bad"}, Replies(m, k, type) PROVE Inv4'
  BY <1>8, RepliesTraced
<1>9. ASSUME NEW c \in Call, Responds(c) PROVE Inv4'
  BY <1>9, RespondsTraced
<1>10. CASE Next
  <2>1. CASE Progress
    BY <1>2, <1>3, <1>4, <1>5, <1>7, <1>8, <1>9, <2>1 DEF Progress, Forward, ServeHost, SetUp,
       ApartStep
  <2>2. CASE ~Progress
    BY <1>2, <1>5, <1>6, <1>8, <1>10, <2>2 DEF Next, ApartStep
  <2>3. QED
    BY <2>1, <2>2
<1>11. QED
  BY <1>1, <1>10

\* close_if_done closes the connection only when no call is pending and no request open,
\* and then none is on the host.
LEMMA ClosesDone ==
  ASSUME Inv2, Inv4, open, gone /\ Done
  PROVE  AtHost = {}
<1>1. SUFFICES ASSUME NEW c \in Opens, c \notin Unwanted,
                      (\E k \in Inst : <<c, k>> \in busy) \/ c \in requests \/ SentOf(c, outbox)
               PROVE  FALSE
  <2>1. ASSUME NEW c \in AtHost PROVE FALSE
    <3>1. c \in Opens /\ c \notin Unwanted
      BY <2>1 DEF AtHost
    <3>2. DOMAIN outbox = 1..Len(outbox)
      BY DEF Inv2, Boxes
    <3>3. (\E k \in Inst : <<c, k>> \in busy) \/ c \in requests \/ SentOf(c, outbox)
      BY <2>1, <3>2 DEF AtHost, SentOf
    <3>4. QED
      BY <1>1, <3>1, <3>3
  <2>2. QED
    BY <2>1
<1>2. c \notin pending /\ c \notin openReqs
  BY DEF Done
<1>3. Traced(c)
  BY DEF Inv4
<1>4. PICK p \in HostPlaces, k \in 0..MaxInst : HostPlace(c, p, k)
  BY <1>3 DEF Traced
<1>5. p = "away"
  BY <1>2, <1>4 DEF HostPlace
<1>6. ~SentOf(c, outbox) /\ (\A j : <<c, j>> \notin busy) /\ ~Replied(inbox, c)
  BY <1>4, <1>5 DEF HostPlace
<1>7. c \in requests
  BY <1>1, <1>6
<1>8. Granted(inbox, c)
  BY <1>1, <1>2, <1>3, <1>7 DEF Traced, RequestOK
<1>9. Replied(inbox, c)
  BY <1>8 DEF Granted, Replied, IsReply
<1>10. QED
  BY <1>6, <1>9

\* Only the host bus and close_if_done close the connection.
LEMMA WhoCloses ==
  ASSUME [Next]_vars, open, ~open'
  PROVE  HostCloses \/ \E t \in Thread : CloseIfDone(t)
<1>1. ASSUME Issue \/ Leave \/ InstReplaced \/ SetUpUnidentified \/ NameChanged
             \/ OwnerChanged \/ EndOpenRequests \/ RelayReply \/ PassReply \/ RelayResponse
      PROVE  open' = open
  BY <1>1 DEF Issue, Leave, InstReplaced, SetUpUnidentified, NameChanged, OwnerChanged,
     EndOpenRequests, RelayReply, PassReply, RelayResponse
<1>2. ASSUME Registered \/ TakeHeld \/ BatchDone \/ NextHeld \/ HandBack \/ EndOfStream
             \/ FailPending \/ SetUpRegister \/ SetUpMatch \/ SetUpAsk \/ BusRoutes
      PROVE  open' = open
  BY <1>2 DEF Registered, TakeHeld, BatchDone, NextHeld, HandBack, EndOfStream, FailPending,
     SetUpRegister, SetUpMatch, SetUpAsk, BusRoutes
<1>3. ASSUME NEW t \in Thread, Lookup(t) \/ Hold(t) \/ Route(t) \/ RegisterAgain(t)
             \/ RegisterAgainFails(t) \/ Permit(t) \/ Send(t) \/ Refuse(t)
      PROVE  open' = open
  BY <1>3 DEF Lookup, Hold, Route, RegisterAgain, RegisterAgainFails, Permit, Send, Refuse
<1>4. ASSUME NEW m, NEW k, NEW type, Replies(m, k, type) \/ Responds(m) \/ NoReply(m) \/ InstExits(k)
      PROVE  open' = open
  BY <1>4 DEF Replies, Responds, NoReply, InstExits
<1>5. UNCHANGED vars => open' = open
  BY DEF vars
<1>6. Progress => \E t \in Thread : CloseIfDone(t)
  BY <1>1, <1>2, <1>3, <1>4 DEF Progress, Forward, ServeHost, SetUp
<1>7. QED
  BY <1>1, <1>3, <1>4, <1>5, <1>6 DEF Next

\* The gateway closes the connection of an app that has left only when no OpenURI call it
\* sent, and no request such a call returned, is unanswered on the host, for any number of
\* calls and of portals started.
THEOREM KeptForOpenURIHolds == Spec => KeptForOpenURI
<1>1. Init => Inv /\ Inv2 /\ Inv3 /\ Inv4
  BY InitInv, InitKnown, InitOrdered, InitTraced
<1>2. Inv /\ Inv2 /\ Inv3 /\ Inv4 /\ [Next]_vars => (Inv /\ Inv2 /\ Inv3 /\ Inv4)'
  BY StepInv, NextKnown, NextOrdered, NextTraced
<1>3. ASSUME Inv, Inv2, Inv3, Inv4, [Next]_vars, Closes PROVE AtHost = {}
  <2>1. open /\ ~open'
    BY <1>3 DEF Closes
  <2>2. ~HostCloses
    <3>1. HostCloses => pc' = pc
      BY DEF HostCloses, threadVars
    <3>2. QED
      BY <1>3, <3>1 DEF Closes
  <2>3. gone /\ Done
    BY <1>3, <2>1, <2>2, WhoCloses DEF CloseIfDone
  <2>4. QED
    BY <1>3, <2>1, <2>3, ClosesDone
<1>4. Inv /\ Inv2 /\ Inv3 /\ Inv4 /\ [Next]_vars => [Closes => AtHost = {}]_vars
  BY <1>3
<1>5. QED
  BY <1>1, <1>2, <1>4, PTL DEF Spec, KeptForOpenURI

-----------------------------------------------------------------------------
(* Activation: an unnamed sandbox leaves nothing behind. *)

\* Where a client may be.
Whereabouts ==
  {"idle", "begun", "polling", "waiting", "running", "ended", "asked", "watching", "done", "killed"}

\* The values the variables have that the steps below tell apart.
ActivationTypes ==
  /\ job \in {"none", "start", "stop"} /\ service \in {"off", "on", "stopping"}
  /\ client \in [Client -> Whereabouts]

\* Who is where: a runner asks for no stop, one that stops runs no app, and an unnamed sandbox
\* has one runner.
Roles ==
  \A c \in Client :
    /\ c \in Runner => client[c] \notin {"asked", "watching"}
    /\ c \in Stopper => client[c] \notin {"begun", "polling", "running", "ended", "killed"}
    /\ sandbox = "unnamed" /\ c \in Runner /\ c # Owner => client[c] = "idle"

\* Without a socket nothing waits, and no service runs that is not being stopped.
SocketNeeded == ~socket => backlog = <<>> /\ service # "on"

Over == client[Owner] \in {"done", "killed"}

\* The owner of an unnamed sandbox is gone when its socket unit is stopped for good, so that no
\* one starts it again; and nothing listens unless systemd has still to stop it.
StoppedForGood ==
  sandbox = "unnamed" =>
    /\ Owner \in sure => Over /\ job # "start" /\ (job = "none" => ~socket)
    /\ stopAll = "late" => Over /\ job # "start"
    /\ client[Owner] = "done" => ~settings

ActivationInv == ActivationTypes /\ Roles /\ SocketNeeded /\ StoppedForGood

-----------------------------------------------------------------------------
(* What a step does to the clients. *)

\* The owner is a runner, and no stopper.
LEMMA OwnerRuns == Owner \in Runner /\ Owner \in Client /\ Owner \notin Stopper
<1>1. \E r \in Runner : TRUE
  BY ActivationAssumption
<1>2. Owner \in Runner
  BY <1>1 DEF Owner
<1>3. QED
  BY <1>2, ActivationAssumption DEF Client

\* Who was waiting or running on a connection that is closed returns; others stay.
LEMMA ClosedIs ==
  ASSUME client \in [Client -> Whereabouts], NEW cs
  PROVE  /\ Closed(cs) \in [Client -> Whereabouts]
         /\ \A c \in Client : \/ Closed(cs)[c] = client[c]
                              \/ client[c] \in {"waiting", "running"} /\ Closed(cs)[c] = ReturnsTo(c)
<1>1. \A c \in Client : ReturnsTo(c) \in Whereabouts
  BY DEF ReturnsTo, Whereabouts
<1>2. QED
  BY <1>1 DEF Closed

\* One client goes on.
LEMMA GoesIs ==
  ASSUME client \in [Client -> Whereabouts], NEW c \in Client, NEW where \in Whereabouts, Goes(c, where)
  PROVE  /\ client' \in [Client -> Whereabouts] /\ client'[c] = where
         /\ \A d \in Client : d # c => client'[d] = client[d]
  BY DEF Goes

\* Clients whose connections are closed keep their roles.  The owner of an unnamed sandbox has
\* still to clear up, so that nothing is over, and nothing stopped for good that was not.
LEMMA ClosingKeeps ==
  ASSUME ActivationInv, NEW cs, client' = Closed(cs), sandbox' = sandbox
  PROVE  /\ client' \in [Client -> Whereabouts] /\ Roles'
         /\ sandbox = "unnamed" => (Over => Over') /\ (client'[Owner] = "done" => client[Owner] = "done")
<1>1. client \in [Client -> Whereabouts] /\ Roles
  BY DEF ActivationInv, ActivationTypes
<1>2. /\ client' \in [Client -> Whereabouts]
      /\ \A c \in Client : \/ client'[c] = client[c]
                           \/ client[c] \in {"waiting", "running"} /\ client'[c] = ReturnsTo(c)
  BY <1>1, ClosedIs
<1>3. Roles'
  <2> SUFFICES ASSUME NEW c \in Client
               PROVE  /\ c \in Runner => client'[c] \notin {"asked", "watching"}
                      /\ c \in Stopper => client'[c] \notin {"begun", "polling", "running", "ended", "killed"}
                      /\ sandbox = "unnamed" /\ c \in Runner /\ c # Owner => client'[c] = "idle"
    BY DEF Roles
  <2>1. CASE client'[c] = client[c]
    BY <1>1, <2>1 DEF Roles
  <2>2. CASE client[c] \in {"waiting", "running"} /\ client'[c] = ReturnsTo(c)
    <3>1. client'[c] \in {"ended", "done"} /\ (c \in Stopper => client'[c] = "done")
      BY <2>2, ActivationAssumption DEF ReturnsTo
    <3>2. ~(sandbox = "unnamed" /\ c \in Runner /\ c # Owner)
      BY <1>1, <2>2 DEF Roles
    <3>3. QED
      BY <3>1, <3>2
  <2>3. QED
    BY <1>2, <2>1, <2>2
<1>4. sandbox = "unnamed" => (Over => Over') /\ (client'[Owner] = "done" => client[Owner] = "done")
  <2>1. sandbox = "unnamed" => ReturnsTo(Owner) = "ended"
    BY OwnerRuns DEF ReturnsTo
  <2>2. QED
    BY <1>2, <2>1, OwnerRuns DEF Over
<1>5. QED
  BY <1>2, <1>3, <1>4

\* So do clients of which one goes on to where one of its role may be.
LEMMA GoingKeeps ==
  ASSUME ActivationInv, NEW c \in Client, NEW where \in Whereabouts, Goes(c, where), sandbox' = sandbox,
         client[c] \notin {"done", "killed"},
         c \in Runner => where \notin {"asked", "watching"} /\ (sandbox = "unnamed" => c = Owner),
         c \in Stopper => where \notin {"begun", "polling", "running", "ended", "killed"}
  PROVE  /\ client' \in [Client -> Whereabouts] /\ Roles'
         /\ Over => Over'
         /\ client'[Owner] = "done" => client[Owner] = "done" \/ (c = Owner /\ where = "done")
<1>1. client \in [Client -> Whereabouts] /\ Roles
  BY DEF ActivationInv, ActivationTypes
<1>2. /\ client' \in [Client -> Whereabouts] /\ client'[c] = where
      /\ \A d \in Client : d # c => client'[d] = client[d]
  BY <1>1, GoesIs
<1>3. Roles'
  BY <1>1, <1>2 DEF Roles
<1>4. Over => Over'
  BY <1>2, OwnerRuns DEF Over
<1>5. client'[Owner] = "done" => client[Owner] = "done" \/ (c = Owner /\ where = "done")
  BY <1>2, OwnerRuns
<1>6. QED
  BY <1>2, <1>3, <1>4, <1>5

\* A client of an unnamed sandbox that is not idle is its owner or stops it.
LEMMA OnlyOwner ==
  ASSUME ActivationInv, NEW c \in Client, c \in Runner, client[c] # "idle", sandbox = "unnamed"
  PROVE  c = Owner
  BY DEF ActivationInv, Roles

-----------------------------------------------------------------------------
(* The steps. *)

\* Steps that leave the socket unit and systemd's job on it, the settings and `stop --all` as they are.
LEMMA ClientSteps ==
  ASSUME ActivationInv, NEW c \in Client,
         Connect(c) \/ GiveUp(c) \/ Ask(c) \/ Watched(c) \/ Kill(c) \/ AnswerClient(c) \/ Exited(c)
  PROVE  ActivationInv'
<1>1. /\ UNCHANGED <<sandbox, socket, job, service, settings, stopAll, sure>>
      /\ backlog' = backlog \/ socket
  BY DEF Connect, GiveUp, Ask, Watched, Kill, AnswerClient, Exited, units
<1>2. PICK where \in Whereabouts :
        /\ Goes(c, where) /\ client[c] \notin {"done", "killed"}
        /\ c \in Runner => where \notin {"asked", "watching"} /\ client[c] # "idle"
        /\ c \in Stopper => where \notin {"begun", "polling", "running", "ended", "killed"}
        /\ where = "done" => c \notin Runner \/ sandbox # "unnamed"
  <2>1. c \in Runner \/ c \in Stopper
    BY DEF Client
  <2>2. ~(c \in Runner /\ c \in Stopper)
    BY ActivationAssumption
  <2>3. /\ c \in Runner => client[c] \notin {"asked", "watching"}
        /\ c \in Stopper => client[c] \notin {"begun", "polling", "running", "ended", "killed"}
    BY DEF ActivationInv, Roles
  <2>4. ReturnsTo(c) \in {"ended", "done"} /\ (c \in Stopper => ReturnsTo(c) = "done")
        /\ (ReturnsTo(c) = "done" => c \notin Runner \/ sandbox # "unnamed")
    BY <2>2 DEF ReturnsTo
  <2>5. CASE Connect(c)
    <3>1. client[c] \in {"begun", "polling", "asked"} /\ Goes(c, "waiting") /\ "waiting" \in Whereabouts
      BY <2>5 DEF Connect, Whereabouts
    <3>2. QED
      BY <3>1
  <2>6. CASE GiveUp(c)
    <3>1. client[c] \in {"polling", "asked"} /\ Goes(c, ReturnsTo(c)) /\ ReturnsTo(c) \in Whereabouts
      BY <2>4, <2>6 DEF GiveUp, Whereabouts
    <3>2. QED
      BY <2>4, <3>1
  <2>7. CASE Ask(c)
    <3>1. client[c] = "idle" /\ c \in Stopper /\ (Goes(c, "asked") \/ Goes(c, "done"))
          /\ "asked" \in Whereabouts /\ "done" \in Whereabouts
      BY <2>7 DEF Ask, Whereabouts
    <3>2. QED
      BY <2>2, <3>1
  <2>8. CASE Watched(c)
    <3>1. client[c] = "watching" /\ Goes(c, "done") /\ "done" \in Whereabouts
      BY <2>8 DEF Watched, Whereabouts
    <3>2. QED
      BY <2>3, <3>1
  <2>9. CASE Kill(c)
    <3>1. c \in Runner /\ client[c] \notin {"idle", "done", "killed"} /\ Goes(c, "killed") /\ "killed" \in Whereabouts
      BY <2>9 DEF Kill, Whereabouts
    <3>2. QED
      BY <2>2, <3>1
  <2>10. CASE AnswerClient(c)
    <3>1. client[c] = "waiting"
      BY <2>10 DEF AnswerClient, Served
    <3>2. CASE c \in Stopper
      <4>1. Goes(c, "watching") /\ "watching" \in Whereabouts
        BY <2>10, <3>2 DEF AnswerClient, Whereabouts
      <4>2. QED
        BY <2>2, <3>1, <3>2, <4>1
    <3>3. CASE c \notin Stopper
      <4>1. /\ Goes(c, "running") \/ Goes(c, ReturnsTo(c))
            /\ "running" \in Whereabouts /\ ReturnsTo(c) \in Whereabouts
        BY <2>4, <2>10, <3>3 DEF AnswerClient, Whereabouts
      <4>2. QED
        BY <2>4, <3>1, <3>3, <4>1
    <3>4. QED
      BY <3>2, <3>3
  <2>11. CASE Exited(c)
    <3>1. client[c] = "running" /\ Goes(c, ReturnsTo(c)) /\ ReturnsTo(c) \in Whereabouts
      BY <2>4, <2>11 DEF Exited, Whereabouts
    <3>2. QED
      BY <2>4, <3>1
  <2>12. QED
    BY <2>5, <2>6, <2>7, <2>8, <2>9, <2>10, <2>11
<1>3. c \in Runner /\ sandbox = "unnamed" => c = Owner
  BY <1>2, OnlyOwner
<1>4. /\ client' \in [Client -> Whereabouts] /\ Roles' /\ (Over => Over')
      /\ client'[Owner] = "done" => client[Owner] = "done" \/ (c = Owner /\ where = "done")
  BY <1>1, <1>2, <1>3, GoingKeeps
<1>5. ActivationTypes' /\ SocketNeeded'
  BY <1>1, <1>4 DEF ActivationInv, ActivationTypes, SocketNeeded
<1>6. StoppedForGood'
  <2>1. sandbox = "unnamed" => ~(c = Owner /\ where = "done")
    BY <1>2, OwnerRuns
  <2>2. QED
    BY <1>1, <1>4, <2>1 DEF ActivationInv, StoppedForGood
<1>7. QED
  BY <1>4, <1>5, <1>6 DEF ActivationInv

\* A runner begins, has the socket unit started, or clears up: steps of the owner alone.
LEMMA RunnerSteps ==
  ASSUME ActivationInv, NEW c \in Client, Begin(c) \/ StartUnit(c) \/ ClearUp(c)
  PROVE  ActivationInv'
<1>1. UNCHANGED <<sandbox, socket, service, stopAll, backlog>>
  BY DEF Begin, StartUnit, ClearUp, units
<1>2. c \in Runner /\ client[c] \in {"idle", "begun", "ended"} /\ (sandbox = "unnamed" => c = Owner)
  <2>1. CASE Begin(c)
    BY <2>1 DEF Begin
  <2>2. CASE StartUnit(c) \/ ClearUp(c)
    <3>1. client[c] \in {"begun", "ended"}
      BY <2>2 DEF StartUnit, ClearUp
    <3>2. c \notin Stopper /\ (c \in Runner \/ c \in Stopper)
      BY <3>1 DEF ActivationInv, Roles, Client
    <3>3. QED
      BY <3>1, <3>2, OnlyOwner
  <2>3. QED
    BY <2>1, <2>2
<1>3. c \notin Stopper
  BY <1>2, ActivationAssumption
<1>4. sandbox = "unnamed" => ~Over
  BY <1>2 DEF Over
<1>5. ASSUME NEW where \in Whereabouts, Goes(c, where), where \notin {"asked", "watching"}
      PROVE  client' \in [Client -> Whereabouts] /\ Roles' /\ client'[c] = where
  <2>1. client \in [Client -> Whereabouts]
    BY DEF ActivationInv, ActivationTypes
  <2>2. QED
    BY <1>1, <1>2, <1>3, <1>5, <2>1, GoingKeeps, GoesIs
<1>6. SocketNeeded'
  BY <1>1 DEF ActivationInv, SocketNeeded
<1>7. CASE Begin(c)
  <2>1. PICK where \in {"begun", "done"} : Goes(c, where) /\ (where = "done" => sandbox = "named")
    BY <1>7 DEF Begin
  <2>2. where \in Whereabouts
    BY <2>1 DEF Whereabouts
  <2>3. client' \in [Client -> Whereabouts] /\ Roles' /\ client'[c] = where
    BY <1>5, <2>1, <2>2
  <2>4. UNCHANGED <<job, sure>>
    BY <1>7 DEF Begin, units
  <2>5. StoppedForGood'
    BY <1>1, <1>2, <1>4, <2>1, <2>3, <2>4 DEF ActivationInv, StoppedForGood
  <2>6. QED
    BY <1>1, <1>6, <2>3, <2>4, <2>5 DEF ActivationInv, ActivationTypes
<1>8. CASE StartUnit(c)
  <2>1. PICK where \in {"polling", "ended", "done"} :
          Goes(c, where) /\ (where = "done" => sandbox # "unnamed")
    BY <1>2, <1>8 DEF StartUnit, ReturnsTo
  <2>2. where \in Whereabouts
    BY <2>1 DEF Whereabouts
  <2>3. client' \in [Client -> Whereabouts] /\ Roles' /\ client'[c] = where
    BY <1>5, <2>1, <2>2
  <2>4. job' \in {"start", job} /\ UNCHANGED <<settings, sure>>
    BY <1>8 DEF StartUnit
  <2>5. StoppedForGood'
    BY <1>1, <1>2, <1>4, <2>1, <2>3, <2>4 DEF ActivationInv, StoppedForGood
  <2>6. QED
    BY <1>1, <1>6, <2>3, <2>4, <2>5 DEF ActivationInv, ActivationTypes
<1>9. CASE ClearUp(c)
  <2>1. Goes(c, "done") /\ settings' = FALSE
        /\ ((job' = "stop" /\ sure' = sure \cup {c}) \/ UNCHANGED <<job, sure>>)
    BY <1>9 DEF ClearUp, StopsSocket
  <2>2. client' \in [Client -> Whereabouts] /\ Roles' /\ client'[c] = "done"
    BY <1>5, <2>1 DEF Whereabouts
  <2>3. StoppedForGood'
    BY <1>1, <1>2, <1>4, <2>1, <2>2 DEF ActivationInv, StoppedForGood, Over
  <2>4. QED
    BY <1>1, <1>6, <2>1, <2>2, <2>3 DEF ActivationInv, ActivationTypes
<1>10. QED
  BY <1>7, <1>8, <1>9

\* systemd closes the connections that wait, and the supervisor's end those it served.
LEMMA ClosingSteps ==
  ASSUME ActivationInv, JobStop \/ Trigger \/ Stopped \/ RefuseWaiting \/ Refused \/ Shutdown
  PROVE  ActivationInv'
<1>1. UNCHANGED <<sandbox, settings, stopAll, sure>>
  BY DEF JobStop, Trigger, Stopped, RefuseWaiting, Refused, Shutdown, units
<1>2. /\ client' \in [Client -> Whereabouts] /\ Roles'
      /\ sandbox = "unnamed" => (Over => Over') /\ (client'[Owner] = "done" => client[Owner] = "done")
  <2>1. (\E cs : client' = Closed(cs)) \/ client' = client
    BY DEF JobStop, Trigger, Stopped, RefuseWaiting, Refused, Shutdown, Gone
  <2>2. CASE client' = client
    BY <1>1, <2>2 DEF ActivationInv, ActivationTypes, Roles, Over
  <2>3. QED
    BY <1>1, <2>1, <2>2, ClosingKeeps
<1>3. /\ job' \in {"none", "start", "stop"} /\ service' \in {"off", "on", "stopping"} /\ SocketNeeded'
  BY DEF JobStop, Trigger, Stopped, RefuseWaiting, Refused, Shutdown, Gone, units,
     ActivationInv, ActivationTypes,
         SocketNeeded
<1>4. \/ job' = job /\ socket' = socket
      \/ job' = "stop"
      \/ ~socket' /\ job' \in {"none", job}
  <2>1. CASE JobStop
    BY <2>1 DEF JobStop
  <2>2. CASE Trigger
    BY <2>2 DEF Trigger
  <2>3. CASE Shutdown
    BY <2>3 DEF Shutdown
  <2>4. CASE Stopped \/ RefuseWaiting \/ Refused
    BY <2>4 DEF Stopped, RefuseWaiting, Refused, units
  <2>5. QED
    BY <2>1, <2>2, <2>3, <2>4
<1>5. StoppedForGood'
  BY <1>1, <1>2, <1>4 DEF ActivationInv, StoppedForGood
<1>6. QED
  BY <1>2, <1>3, <1>5 DEF ActivationInv, ActivationTypes

\* The steps that no client sees.
LEMMA OtherSteps ==
  ASSUME ActivationInv,
         StopAll \/ Strays \/ JobStart \/ Start \/ StartFails \/ Accept \/ SupervisorLeaves
  PROVE  ActivationInv'
<1>1. UNCHANGED <<sandbox, client>>
  BY DEF StopAll, Strays, JobStart, Start, StartFails, Accept, SupervisorLeaves, units
<1>2. Roles' /\ (Over <=> Over')
  BY <1>1 DEF ActivationInv, Roles, Over
<1>3. ActivationTypes' /\ SocketNeeded'
  BY <1>1 DEF StopAll, Strays, JobStart, Start, StartFails, Accept, SupervisorLeaves, units,
     ActivationInv,
              ActivationTypes, SocketNeeded
<1>4. StoppedForGood'
  <2>1. CASE StopAll
    <3>1. /\ UNCHANGED <<socket, settings, sure>>
          /\ job' \in {"stop", job}
          /\ stopAll' = "late" => Over /\ job = "none"
      BY <2>1 DEF StopAll, Over
    <3>2. QED
      BY <1>1, <1>2, <3>1 DEF ActivationInv, StoppedForGood
  <2>2. CASE Strays
    <3>1. UNCHANGED <<socket, settings>> /\ stopAll' = "done"
      BY <2>2 DEF Strays
    <3>2. ASSUME UNCHANGED <<job, sure>>
          PROVE  StoppedForGood'
      BY <1>1, <1>2, <3>1, <3>2 DEF ActivationInv, StoppedForGood
    <3>3. ASSUME job' = IF sandbox = "unnamed" /\ socket THEN "stop" ELSE job,
                 sure' = IF stopAll = "late" THEN sure \cup {Owner} ELSE sure
          PROVE  StoppedForGood'
      BY <1>1, <1>2, <3>1, <3>3 DEF ActivationInv, StoppedForGood
    <3>4. QED
      BY <2>2, <3>2, <3>3 DEF Strays
  <2>3. CASE JobStart
    BY <1>1, <1>2, <2>3 DEF JobStart, ActivationInv, StoppedForGood
  <2>4. CASE Start \/ StartFails \/ Accept \/ SupervisorLeaves
    <3>1. UNCHANGED <<socket, job, stopAll, sure>> /\ settings' \in {settings, FALSE}
      BY <2>4 DEF Start, StartFails, Accept, SupervisorLeaves, units
    <3>2. QED
      BY <1>1, <1>2, <3>1 DEF ActivationInv, StoppedForGood
  <2>5. QED
    BY <2>1, <2>2, <2>3, <2>4
<1>5. QED
  BY <1>2, <1>3, <1>4 DEF ActivationInv

-----------------------------------------------------------------------------
(* The theorem. *)

\* Each step keeps the invariant.
LEMMA ActivationKeeps ==
  ASSUME ActivationInv, [ActivationNext]_activationVars
  PROVE  ActivationInv'
<1>1. CASE ActivationNext
  BY <1>1, ClientSteps, RunnerSteps, ClosingSteps, OtherSteps DEF ActivationNext
<1>2. CASE UNCHANGED activationVars
  BY <1>2 DEF activationVars, ActivationInv, ActivationTypes, Roles, SocketNeeded,
     StoppedForGood, Over
<1>3. QED
  BY <1>1, <1>2

\* Nothing listens, runs or waits at first.
LEMMA ActivationStarts ==
  ASSUME ActivationInit
  PROVE  ActivationInv
<1>1. client = [c \in Client |-> "idle"] /\ job = "none" /\ service = "off" /\ backlog = <<>>
      /\ settings = FALSE /\ stopAll = "idle" /\ sure = {}
  BY DEF ActivationInit
<1>2. client \in [Client -> Whereabouts] /\ \A c \in Client : client[c] = "idle"
  BY <1>1 DEF Whereabouts
<1>3. ActivationTypes /\ Roles /\ SocketNeeded
  BY <1>1, <1>2 DEF ActivationTypes, Roles, SocketNeeded
<1>4. StoppedForGood
  BY <1>1 DEF StoppedForGood
<1>5. QED
  BY <1>3, <1>4 DEF ActivationInv

\* Whoever connects, is killed or stops whom meanwhile, once an unnamed sandbox's owner has had its
\* socket unit stopped, or `psbox stop --all` has after the owner went, nothing of it runs or listens
\* (client.rs sandbox, cli.rs stop_all).
THEOREM NothingLeftHolds == ActivationSpec => []NothingLeft
<1>1. ActivationInit => ActivationInv
  BY ActivationStarts
<1>2. ActivationInv /\ [ActivationNext]_activationVars => ActivationInv'
  BY ActivationKeeps
<1>3. ActivationInv => NothingLeft
  BY DEF ActivationInv, ActivationTypes, SocketNeeded, StoppedForGood, NothingLeft
<1>4. QED
  BY <1>1, <1>2, <1>3, PTL DEF ActivationSpec
============================================================================
