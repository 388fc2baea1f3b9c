----------------------------- MODULE HostProofs -----------------------------
(***************************************************************************)
(* Proofs about what surrounds the gateway: the host bus connector, for any *)
(* number of requests, connectors and host bus sockets; a D-Bus connection, *)
(* for any number of messages and calls and messages of any length; the     *)
(* portal policy, for any clients, tokens and files; and the installation of*)
(* desktop entries, for any sandboxes and anything their configs ask for.   *)
(***************************************************************************)
EXTENDS Connector, BusConn, Portal, Install, WellFoundedInduction, TLAPS

-----------------------------------------------------------------------------
(* The host bus connector (Connector). *)

Kinds == {"ok", "other", "refused"}
HostReply == [ask : Nat, kind : Kinds, socket : Nat]
Requests == Seq(Nat)
Replies == Seq(HostReply)
Proc == [held : Nat, up : BOOLEAN, requests : Requests, replies : Replies]

ListOf(ps) == ps \in Seq(Proc)

ConnectorTypes ==
    /\ bus \in Nat /\ listening \in Nat /\ busMade \in Nat /\ ask \in Nat
    /\ fresh \in BOOLEAN /\ steady \in BOOLEAN
    /\ askPc \in {"idle", "wait", "start"}
    /\ ListOf(procs)
    /\ connector = 0 \/ connector \in DOMAIN procs
    /\ late \subseteq DOMAIN procs

\* The bus accepts on the socket at its path, and has accepted throughout the
\* request only if it does so now.
BusOK == (listening # 0 => bus = listening) /\ (steady => listening # 0)

\* An answer connect_host may take while the bus accepts: a socket of the running
\* bus, and no refusal from a connector that has just been started.
Fit(kind, socket) ==
    steady => (kind = "ok" => socket = listening) /\ (fresh => kind # "refused")

\* A connector with nothing under way; one that is asked only the n-th request.
Clean(p) == p.requests = <<>> /\ p.replies = <<>>
Pending(p, n) ==
    \/ Clean(p)
    \/ p.requests = <<n>> /\ p.replies = <<>>
    \/ p.requests = <<>> /\ p.replies # <<>> /\ LET r == Head(p.replies) IN p.replies = <<r>> /\ r.ask = n /\ Fit(r.kind, r.socket)

\* The supervisor's connector, unless it was kept without having answered, has at
\* most the request under way, and none between requests or once it is down; one started for the
\* request holds the socket of the bus that accepts.
AskedOK ==
    /\ askPc = "wait" => /\ connector # 0
                         /\ fresh /\ steady => procs[connector].held = listening
                         /\ connector \notin late => Pending(procs[connector], ask)
    /\ askPc = "idle" /\ connector # 0 /\ connector \notin late => Clean(procs[connector])
    /\ connector # 0 /\ ~procs[connector].up => procs[connector].requests = <<>>

\* A request under way has no result yet.
ResultOK == askPc # "idle" => result = NoResult

\* The inductive invariant.
ConnectorInv == ConnectorTypes /\ BusOK /\ AskedOK /\ ResultOK /\ HostReached

-----------------------------------------------------------------------------
(* What the actions that change connectors do to them.                       *)

\* ps are the connectors qs, but for what the p-th is now.
Changed(qs, ps, p) == ListOf(ps) /\ DOMAIN ps = DOMAIN qs /\ \A q \in DOMAIN qs : q # p => ps[q] = qs[q]

\* A connector that is replaced in place.
LEMMA Updated ==
  ASSUME NEW ps \in Seq(Proc), NEW p \in DOMAIN ps, NEW x \in Proc
  PROVE  Changed(ps, [ps EXCEPT ![p] = x], p) /\ [ps EXCEPT ![p] = x][p] = x
  BY DEF Changed, ListOf

\* A request that is sent to a connector.
LEMMA Asking ==
  ASSUME NEW ps \in Seq(Proc), NEW p \in DOMAIN ps, NEW n \in Nat
  PROVE  /\ Changed(ps, Requested(ps, p, n), p)
         /\ Requested(ps, p, n)[p].held = ps[p].held /\ (Requested(ps, p, n)[p].up <=> ps[p].up)
         /\ Requested(ps, p, n)[p].requests = Append(ps[p].requests, n)
         /\ Requested(ps, p, n)[p].replies = ps[p].replies
<1> DEFINE s == Append(ps[p].requests, n)
           x == [ps[p] EXCEPT !.requests = s]
<1>1. ps[p] \in Proc
  OBVIOUS
<1>a. s \in Requests
  BY <1>1 DEF Proc, Requests
<1> HIDE DEF s
<1>2. /\ x \in Proc /\ x.held = ps[p].held /\ (x.up <=> ps[p].up)
      /\ x.requests = s /\ x.replies = ps[p].replies
  BY <1>1, <1>a DEF Proc
<1>3. Requested(ps, p, n) = [ps EXCEPT ![p] = x]
  BY DEF Requested, s
<1> HIDE DEF x
<1>4. Changed(ps, [ps EXCEPT ![p] = x], p) /\ [ps EXCEPT ![p] = x][p] = x
  BY <1>2, Updated
<1>5. QED
  BY <1>2, <1>3, <1>4 DEF s

\* A connector that exits or is killed takes no more requests.
Stopped(ps, p) == [ps EXCEPT ![p].up = FALSE, ![p].requests = <<>>]

\* It keeps what it holds and what it has answered.
LEMMA Stopping ==
  ASSUME NEW ps \in Seq(Proc), NEW p \in DOMAIN ps
  PROVE  /\ Changed(ps, Stopped(ps, p), p)
         /\ Stopped(ps, p)[p].held = ps[p].held
         /\ Stopped(ps, p)[p].requests = <<>>
         /\ Stopped(ps, p)[p].replies = ps[p].replies
<1> DEFINE x == [[ps[p] EXCEPT !.up = FALSE] EXCEPT !.requests = <<>>]
<1>1. ps[p] \in Proc
  OBVIOUS
<1>a. <<>> \in Requests
  BY DEF Requests
<1>2. x \in Proc /\ x.held = ps[p].held /\ x.requests = <<>> /\ x.replies = ps[p].replies
  BY <1>1, <1>a DEF Proc
<1>3. Stopped(ps, p) = [ps EXCEPT ![p] = x]
  BY DEF Stopped
<1> HIDE DEF x
<1>4. Changed(ps, [ps EXCEPT ![p] = x], p) /\ [ps EXCEPT ![p] = x][p] = x
  BY <1>2, Updated
<1>5. QED
  BY <1>2, <1>3, <1>4

\* A connector that has answered its first request with the socket it holds.
Served(ps, p, k) ==
    [ps EXCEPT ![p].requests = Tail(@),
               ![p].replies = Append(@, [ask |-> Head(ps[p].requests), kind |-> k, socket |-> ps[p].held])]

\* The request is replaced by its answer.
LEMMA Serving ==
  ASSUME NEW ps \in Seq(Proc), NEW p \in DOMAIN ps, ps[p].requests # <<>>, NEW k \in Kinds
  PROVE  \E r \in HostReply :
           /\ r.ask = Head(ps[p].requests) /\ r.kind = k /\ r.socket = ps[p].held
           /\ Changed(ps, Served(ps, p, k), p)
           /\ Served(ps, p, k)[p].held = ps[p].held /\ (Served(ps, p, k)[p].up <=> ps[p].up)
           /\ Served(ps, p, k)[p].requests = Tail(ps[p].requests)
           /\ Served(ps, p, k)[p].replies = Append(ps[p].replies, r)
<1> DEFINE r == [ask |-> Head(ps[p].requests), kind |-> k, socket |-> ps[p].held]
           s == Tail(ps[p].requests)
           t == Append(ps[p].replies, r)
           x == [[ps[p] EXCEPT !.requests = s] EXCEPT !.replies = t]
<1>1. ps[p] \in Proc
  OBVIOUS
<1>2. ps[p].requests \in Seq(Nat) /\ ps[p].replies \in Seq(HostReply) /\ ps[p].held \in Nat
  BY <1>1 DEF Proc, Requests, Replies
<1>3. Head(ps[p].requests) \in Nat /\ Tail(ps[p].requests) \in Seq(Nat)
  BY <1>2
<1>4. r \in HostReply /\ r.ask = Head(ps[p].requests) /\ r.kind = k /\ r.socket = ps[p].held
  BY <1>2, <1>3 DEF HostReply
<1>5. Served(ps, p, k) = [ps EXCEPT ![p] = x]
  BY DEF Served
<1> HIDE DEF r
<1>6. s \in Requests /\ t \in Replies
  BY <1>2, <1>3, <1>4 DEF Requests, Replies
<1> HIDE DEF s, t
<1>7. x \in Proc /\ x.held = ps[p].held /\ (x.up <=> ps[p].up) /\ x.requests = s /\ x.replies = t
  BY <1>1, <1>6 DEF Proc
<1> HIDE DEF x
<1>8. Changed(ps, [ps EXCEPT ![p] = x], p) /\ [ps EXCEPT ![p] = x][p] = x
  BY <1>7, Updated
<1>9. QED
  BY <1>4, <1>5, <1>7, <1>8 DEF s, t

\* A connector whose first answer is taken.
AnswerTaken(ps, p) == [ps EXCEPT ![p].replies = Tail(@)]

\* Its other answers are left.
LEMMA Taking ==
  ASSUME NEW ps \in Seq(Proc), NEW p \in DOMAIN ps, ps[p].replies # <<>>
  PROVE  /\ Changed(ps, AnswerTaken(ps, p), p)
         /\ AnswerTaken(ps, p)[p].held = ps[p].held /\ (AnswerTaken(ps, p)[p].up <=> ps[p].up)
         /\ AnswerTaken(ps, p)[p].requests = ps[p].requests
         /\ AnswerTaken(ps, p)[p].replies = Tail(ps[p].replies)
         /\ Head(ps[p].replies) \in HostReply
<1> DEFINE x == [ps[p] EXCEPT !.replies = Tail(ps[p].replies)]
<1>1. ps[p] \in Proc
  OBVIOUS
<1>2. ps[p].replies \in Seq(HostReply)
  BY <1>1 DEF Proc, Replies
<1>3. Tail(ps[p].replies) \in Replies /\ Head(ps[p].replies) \in HostReply
  BY <1>2 DEF Replies
<1>4. /\ x \in Proc /\ x.held = ps[p].held /\ (x.up <=> ps[p].up)
      /\ x.requests = ps[p].requests /\ x.replies = Tail(ps[p].replies)
  BY <1>1, <1>3 DEF Proc
<1>5. AnswerTaken(ps, p) = [ps EXCEPT ![p] = x]
  BY DEF AnswerTaken
<1> HIDE DEF x
<1>6. Changed(ps, [ps EXCEPT ![p] = x], p) /\ [ps EXCEPT ![p] = x][p] = x
  BY <1>4, Updated
<1>7. QED
  BY <1>3, <1>4, <1>5, <1>6

\* A connector that is started.
LEMMA Starting ==
  ASSUME NEW ps \in Seq(Proc), NEW h \in Nat, NEW n \in Nat
  PROVE  LET x == [held |-> h, up |-> TRUE, requests |-> <<n>>, replies |-> <<>>]
             qs == Append(ps, x)
         IN  /\ qs[Len(ps) + 1].up
             /\ ListOf(qs) /\ DOMAIN qs = DOMAIN ps \cup {Len(ps) + 1} /\ Len(ps) + 1 \notin DOMAIN ps
             /\ qs[Len(ps) + 1].held = h /\ qs[Len(ps) + 1].requests = <<n>> /\ qs[Len(ps) + 1].replies = <<>>
             /\ Len(ps) + 1 # 0 /\ \A q \in DOMAIN ps : qs[q] = ps[q]
<1> DEFINE x == [held |-> h, up |-> TRUE, requests |-> <<n>>, replies |-> <<>>]
<1>1. x \in Proc /\ x.up /\ x.held = h /\ x.requests = <<n>> /\ x.replies = <<>>
  BY DEF Proc, Requests, Replies
<1> HIDE DEF x
<1>2. QED
  BY <1>1 DEF x, ListOf

-----------------------------------------------------------------------------
(* Every action keeps the invariant.                                         *)

\* The host bus goes or comes back.
LEMMA BusStep == ASSUME ConnectorInv, BusStops \/ BusStarts PROVE ConnectorInv'
<1>0. ConnectorTypes' /\ BusOK'
  <2>1. CASE BusStops
    <3>a. bus' = bus \/ bus' = 0
      BY <2>1 DEF BusStops
    <3>b. bus' \in Nat
      BY <3>a DEF ConnectorInv, ConnectorTypes
    <3>c. steady' = FALSE
      BY <2>1 DEF BusStops
    <3>1. bus' \in Nat /\ listening' \in Nat /\ steady' \in BOOLEAN
      BY <2>1, <3>b, <3>c DEF BusStops
    <3>2. listening' = 0 /\ ~steady' /\ UNCHANGED <<busMade, procs, connector, askPc, ask, fresh, late>>
      BY <2>1 DEF BusStops
    <3>3. QED
      BY <3>1, <3>2 DEF ConnectorInv, ConnectorTypes, BusOK
  <2>2. CASE BusStarts
    BY <2>2 DEF ConnectorInv, ConnectorTypes, BusOK, BusStarts
  <2>3. QED
    BY <2>1, <2>2
<1>1. ResultOK' /\ HostReached'
  BY DEF ConnectorInv, ResultOK, HostReached, BusStops, BusStarts
<1>2. UNCHANGED <<procs, connector, askPc, ask, fresh, late>> /\ (steady' => steady /\ listening' = listening)
  BY DEF ConnectorInv, BusOK, BusStops, BusStarts
<1>3. AskedOK'
  BY <1>2 DEF ConnectorInv, AskedOK, Pending, Clean, Fit
<1>4. QED
  BY <1>0, <1>1, <1>3 DEF ConnectorInv

\* A connector answers a request.
LEMMA ServeStep == ASSUME ConnectorInv, NEW p \in DOMAIN procs, ServeRequest(p) PROVE ConnectorInv'
<1>1. PICK k \in IF procs[p].held = listening THEN {"ok", "other"} ELSE {"refused", "other"} :
         procs' = Served(procs, p, k)
  BY DEF ServeRequest, Served
<1>2. k \in Kinds /\ (k = "ok" => procs[p].held = listening) /\ (k = "refused" => procs[p].held # listening)
  BY <1>1 DEF Kinds
<1>3. PICK r \in HostReply :
         /\ r.ask = Head(procs[p].requests) /\ r.kind = k /\ r.socket = procs[p].held
         /\ Changed(procs, procs', p)
         /\ procs'[p].held = procs[p].held /\ procs'[p].up
         /\ procs'[p].requests = Tail(procs[p].requests)
         /\ procs'[p].replies = Append(procs[p].replies, r)
  <2>1. procs \in Seq(Proc) /\ procs[p].requests # <<>> /\ procs[p].up
    BY DEF ServeRequest, ConnectorInv, ConnectorTypes, ListOf
  <2>2. QED
    BY <1>1, <1>2, <2>1, Serving
<1>4. ConnectorTypes' /\ BusOK' /\ ResultOK' /\ HostReached'
  BY <1>3 DEF ServeRequest, Changed, ConnectorInv, ConnectorTypes, BusOK, ResultOK, HostReached
<1>5. ASSUME askPc = "wait", connector = p, connector \notin late PROVE Pending(procs[p], ask)'
  <2>1. procs[p].requests = <<ask>> /\ procs[p].replies = <<>>
    BY <1>5 DEF ServeRequest, ConnectorInv, AskedOK, Pending, Clean
  <2>2. procs'[p].requests = <<>> /\ procs'[p].replies = <<r>> /\ r.ask = ask
    BY <1>3, <2>1
  <2>3. Fit(r.kind, r.socket)'
    BY <1>2, <1>3, <1>5 DEF ServeRequest, ConnectorInv, AskedOK, Fit
  <2>4. procs'[p].replies # <<>> /\ Head(procs'[p].replies) = r /\ ask' = ask
    BY <2>2 DEF ServeRequest
  <2>5. QED
    BY <2>2, <2>3, <2>4 DEF Pending
<1>6. AskedOK'
  <2>1. CASE connector # p
    BY <1>3, <2>1 DEF ServeRequest, Changed, ConnectorInv, ConnectorTypes, AskedOK, Pending,
       Clean, Fit
  <2>2. CASE connector = p
    BY <1>3, <1>5, <2>2 DEF ServeRequest, ConnectorInv, AskedOK, Clean
  <2>3. QED
    BY <2>1, <2>2
<1>7. QED
  BY <1>4, <1>6 DEF ConnectorInv

\* A connector exits.
LEMMA ExitsStep == ASSUME ConnectorInv, NEW p \in DOMAIN procs, Exits(p) PROVE ConnectorInv'
<1>1. /\ Changed(procs, procs', p) /\ procs'[p].held = procs[p].held
      /\ procs'[p].requests = <<>> /\ procs'[p].replies = procs[p].replies
  BY Stopping DEF Exits, Stopped, ConnectorInv, ConnectorTypes, ListOf
<1>2. ConnectorTypes' /\ BusOK' /\ ResultOK' /\ HostReached'
  BY <1>1 DEF Exits, Changed, ConnectorInv, ConnectorTypes, BusOK, ResultOK, HostReached
<1>3. AskedOK'
  BY <1>1 DEF Exits, Changed, ConnectorInv, ConnectorTypes, AskedOK, Pending, Clean, Fit
<1>4. QED
  BY <1>2, <1>3 DEF ConnectorInv

\* A request begins.
LEMMA ConnectHostStep == ASSUME ConnectorInv, ConnectHost PROVE ConnectorInv'
<1>1. ask + 1 \in Nat /\ procs \in Seq(Proc) /\ result'.kind = "none"
  BY DEF ConnectorInv, ConnectorTypes, ListOf, ConnectHost, NoResult
<1>2. CASE connector # 0 /\ procs[connector].up
  <2>1. connector \in DOMAIN procs /\ procs' = Requested(procs, connector, ask + 1)
    BY <1>2 DEF ConnectHost, ConnectorInv, ConnectorTypes
  <2>2. /\ Changed(procs, procs', connector) /\ procs'[connector].up
        /\ procs'[connector].requests = Append(procs[connector].requests, ask + 1)
        /\ procs'[connector].replies = procs[connector].replies
    BY <1>1, <1>2, <2>1, Asking
  <2>3. ConnectorTypes' /\ BusOK' /\ ResultOK' /\ HostReached'
    BY <1>1, <1>2, <2>2 DEF ConnectHost, Changed, ConnectorInv, ConnectorTypes, BusOK, ResultOK,
       HostReached
  <2>4. connector \notin late => Pending(procs[connector], ask)'
    <3>1. connector \notin late => procs[connector].requests = <<>> /\ procs[connector].replies = <<>>
      BY <1>2 DEF ConnectHost, ConnectorInv, AskedOK, Clean
    <3>2. connector \notin late => procs'[connector].requests = <<ask + 1>> /\ procs'[connector].replies = <<>>
      <4>1. Append(<<>>, ask + 1) = <<ask + 1>>
        BY <1>1
      <4>2. QED
        BY <2>2, <3>1, <4>1
    <3>3. connector' = connector /\ ask' = ask + 1
      BY DEF ConnectHost
    <3>4. QED
      BY <3>2, <3>3 DEF Pending
  <2>5. AskedOK'
    BY <1>2, <2>2, <2>4 DEF ConnectHost, AskedOK
  <2>6. QED
    BY <2>3, <2>5 DEF ConnectorInv
<1>3. CASE ~(connector # 0 /\ procs[connector].up)
  BY <1>1, <1>3 DEF ConnectHost, ConnectorInv, ConnectorTypes, BusOK, AskedOK, ResultOK, HostReached
<1>4. QED
  BY <1>2, <1>3

\* The answer of the connector is taken.
LEMMA TakeReplyStep == ASSUME ConnectorInv, TakeReply PROVE ConnectorInv'
<1> DEFINE r == Head(procs[connector].replies)
<1>1. connector \in DOMAIN procs /\ procs[connector].replies # <<>> /\ procs \in Seq(Proc) /\ procs' = AnswerTaken(procs, connector)
  BY DEF TakeReply, AnswerTaken, ConnectorInv, ConnectorTypes, ListOf, AskedOK
<1>2. /\ Changed(procs, procs', connector) /\ r \in HostReply
      /\ procs'[connector].up <=> procs[connector].up
      /\ procs'[connector].requests = procs[connector].requests
      /\ procs'[connector].replies = Tail(procs[connector].replies)
  BY <1>1, Taking
<1>3. Answered(r.kind, r.ask, r.socket) /\ r.kind \in Kinds
  BY <1>2 DEF TakeReply, HostReply
<1>4. connector \notin late =>
        /\ procs[connector].requests = <<>> /\ procs[connector].replies = <<r>>
        /\ r.ask = ask /\ Fit(r.kind, r.socket)
  BY <1>1 DEF TakeReply, ConnectorInv, AskedOK, Pending, Clean
<1> HIDE DEF r
<1>5. ConnectorTypes' /\ BusOK'
  BY <1>2, <1>3 DEF TakeReply, Answered, Return, Changed, ConnectorInv, ConnectorTypes, BusOK
<1>6. CASE ~fresh /\ Replaced(r.kind)
  BY <1>2, <1>3, <1>5, <1>6 DEF TakeReply, Answered, ConnectorInv, AskedOK, ResultOK, HostReached
<1>7. CASE ~(~fresh /\ Replaced(r.kind))
  <2>1. /\ askPc' = "idle" /\ UNCHANGED <<connector, late>>
        /\ result'.from = connector /\ result'.kind = r.kind /\ result'.own = (r.ask = ask)
        /\ result'.reached = (r.socket = listening) /\ result'.steady = steady
    BY <1>3, <1>7 DEF TakeReply, Answered, Return
  <2>2. HostReached'
    BY <1>4, <1>7, <2>1 DEF HostReached, Fit, Replaced
  <2>3. connector \notin late => Clean(procs[connector])'
    <3>1. connector \notin late => procs'[connector].requests = <<>> /\ procs'[connector].replies = <<>>
      <4>1. Tail(<<r>>) = <<>>
        BY <1>2
      <4>2. QED
        BY <1>2, <1>4, <4>1
    <3>2. QED
      BY <2>1, <3>1 DEF Clean
  <2>4. AskedOK' /\ ResultOK'
    BY <1>2, <2>1, <2>3 DEF ConnectorInv, AskedOK, ResultOK
  <2>5. QED
    BY <1>5, <2>2, <2>4 DEF ConnectorInv
<1>8. QED
  BY <1>6, <1>7

\* The connector does not answer in time.
LEMMA NoReplyStep == ASSUME ConnectorInv, NoReply PROVE ConnectorInv'
<1>1. connector \in DOMAIN procs /\ procs[connector].replies = <<>> /\ Answered("failed", ask, 0)
  BY DEF NoReply, ConnectorInv, ConnectorTypes, AskedOK
<1>2. ConnectorTypes' /\ BusOK'
  BY <1>1 DEF NoReply, Answered, Return, ConnectorInv, ConnectorTypes, BusOK
<1>3. CASE ~fresh
  BY <1>1, <1>2, <1>3 DEF NoReply, Answered, Replaced, ConnectorInv, AskedOK, ResultOK, HostReached
<1>4. CASE fresh
  <2>1. /\ askPc' = "idle" /\ UNCHANGED connector
        /\ result'.kind = "failed" /\ result'.own = (ask = ask)
    BY <1>1, <1>4 DEF NoReply, Answered, Return
  <2>2. HostReached'
    BY <2>1 DEF HostReached
  <2>3. connector \notin late' => connector \notin late /\ ~procs[connector].up /\ procs' = procs
    BY <1>4 DEF NoReply
  <2>4. AskedOK' /\ ResultOK'
    BY <1>1, <2>1, <2>3 DEF NoReply, ConnectorInv, AskedOK, ResultOK, Clean
  <2>5. QED
    BY <1>2, <2>2, <2>4 DEF ConnectorInv
<1>5. QED
  BY <1>3, <1>4 DEF ConnectorInv, ConnectorTypes

\* No connector can be started for the request.
LEMMA StartFailsStep == ASSUME ConnectorInv, StartFails PROVE ConnectorInv'
<1>1. ListOf(procs)' /\ late' \subseteq DOMAIN procs'
  BY Stopping DEF StartFails, Stopped, Changed, ConnectorInv, ConnectorTypes, ListOf
<1>2. result'.kind = "failed" /\ result'.own /\ ~result'.steady
  BY DEF StartFails, NoResult
<1>3. QED
  BY <1>1, <1>2 DEF StartFails, ConnectorInv, ConnectorTypes, BusOK, AskedOK, ResultOK, HostReached

\* A connector is started for the request.
LEMMA StartStep == ASSUME ConnectorInv, Start PROVE ConnectorInv'
<1> DEFINE ps == IF connector # 0 THEN Stopped(procs, connector) ELSE procs
<1>1. ps \in Seq(Proc) /\ DOMAIN ps = DOMAIN procs
  BY Stopping DEF ConnectorInv, ConnectorTypes, Changed, ListOf
<1>2. procs' = Append(ps, [held |-> bus, up |-> TRUE, requests |-> <<ask>>, replies |-> <<>>])
  BY DEF Start, Stopped
<1>3. Len(ps) = Len(procs)
  BY <1>1 DEF ConnectorInv, ConnectorTypes, ListOf
<1> HIDE DEF ps
<1>4. bus \in Nat /\ ask \in Nat
  BY DEF ConnectorInv, ConnectorTypes
<1>5. /\ ListOf(procs)' /\ DOMAIN procs' = DOMAIN procs \cup {connector'} /\ connector' \notin DOMAIN procs /\ connector' # 0
      /\ procs'[connector'].held = bus /\ procs'[connector'].up
      /\ procs'[connector'].requests = <<ask>> /\ procs'[connector'].replies = <<>>
  <2>1. connector' = Len(ps) + 1
    BY <1>3 DEF Start
  <2>2. QED
    BY <1>1, <1>2, <1>4, <2>1, Starting
<1>6. ConnectorTypes' /\ BusOK' /\ ResultOK' /\ HostReached'
  BY <1>5 DEF Start, ConnectorInv, ConnectorTypes, BusOK, ResultOK, HostReached
<1>7. AskedOK'
  BY <1>5 DEF Start, ConnectorInv, ConnectorTypes, BusOK, AskedOK, Pending
<1>8. QED
  BY <1>6, <1>7 DEF ConnectorInv

-----------------------------------------------------------------------------
(* The theorem.                                                              *)

\* The invariant holds initially.
LEMMA ConnectorStarts == ConnectorInit => ConnectorInv
<1> SUFFICES ASSUME ConnectorInit PROVE ConnectorInv
  OBVIOUS
<1>1. ListOf(procs)
  BY DEF ConnectorInit, ListOf
<1>2. result.kind = "none"
  BY DEF ConnectorInit, NoResult
<1>3. QED
  BY <1>1, <1>2 DEF ConnectorInit, ConnectorInv, ConnectorTypes, BusOK, AskedOK, ResultOK,
     HostReached

\* Every step keeps it.
LEMMA StepInv == ASSUME ConnectorInv, [ConnectorNext]_connectorVars PROVE ConnectorInv'
<1>1. CASE UNCHANGED connectorVars
  BY <1>1 DEF connectorVars, ConnectorInv, ConnectorTypes, ListOf, BusOK, AskedOK, Pending,
     Clean, Fit, ResultOK, HostReached
<1>2. QED
  BY <1>1, BusStep, ServeStep, ExitsStep, ConnectHostStep, TakeReplyStep, NoReplyStep,
     StartFailsStep,
     StartStep DEF ConnectorNext

\* A caller of connect_host gets the answer to its own request and, while the bus
\* accepts, a socket of the bus that runs, unless the answer is of a connector that
\* was kept although it had not answered (supervisor.rs connect_host).
THEOREM HostReachedHolds == ConnectorSpec => []HostReached
<1>1. ConnectorInv => HostReached
  BY DEF ConnectorInv
<1>2. ConnectorInv /\ [ConnectorNext]_connectorVars => ConnectorInv'
  BY StepInv
<1>3. QED
  BY <1>1, <1>2, ConnectorStarts, PTL DEF ConnectorSpec

-----------------------------------------------------------------------------
(* A D-Bus connection (BusConn). *)

\* The constants are numbers.
BusAssumption == MaxMessages \in Nat /\ MaxSetupCalls \in Nat /\ MaxSize \in Nat

Message == [from : {"bus", "peer"}, re : Nat, bad : BOOLEAN, at : Nat, size : Nat \ {0}, fds : 0..1]
Heard == [id : Nat, fds : Seq(Nat)]

\* What the reader has had or will have first.
Seen == got \o backlog

BusTypes ==
  /\ stream \in Seq(Message) /\ fill \in Nat /\ inFds \in Seq(Nat) /\ parsed \in Nat
  /\ backlog \in Seq(Heard) /\ got \in Seq(Heard)
  /\ serial \in Nat /\ waiting \in Nat /\ open \subseteq Nat \ {0}
  /\ reading \in BOOLEAN /\ answers \in Seq(Nat) /\ failed = FALSE

\* The parts of the stream st up to e are its messages, each after the one before it,
\* and only peers answer.
Sized(st, e) ==
  /\ \A k \in 1..Len(st) : st[k].at + st[k].size <= e
  /\ \A i, k \in 1..Len(st) : i < k => st[i].at + st[i].size <= st[k].at
  /\ \A k \in 1..Len(st) : st[k].re # 0 => st[k].from = "peer"

\* The p messages taken from the buffer were whole among the parts up to f.
Taken(st, p, f) == p <= Len(st) /\ \A k \in 1..p : st[k].at + st[k].size <= f

\* q holds one descriptor of each message with one that has begun and is not taken,
\* in the messages' order.
Waits(m, f) == m.fds = 1 /\ m.at < f
Carried(st, q, p, f) ==
  /\ \A i \in 1..Len(q) : q[i] \in (p + 1)..Len(st) /\ Waits(st[q[i]], f)
  /\ \A i, j \in 1..Len(q) : i < j => q[i] < q[j]
  /\ \A k \in (p + 1)..Len(st) : Waits(st[k], f) => \E i \in 1..Len(q) : q[i] = k

\* Of the p messages taken, s holds in order every one of the bus's that can be
\* decoded, and each with its own descriptors.
Own(x, m) == x.fds = [j \in 1..m.fds |-> x.id]
Says(m) == m.from = "bus" /\ ~m.bad
Told(st, s, p) ==
  /\ \A i \in 1..Len(s) : s[i].id \in 1..p /\ Own(s[i], st[s[i].id])
  /\ \A i, j \in 1..Len(s) : i < j => s[i].id < s[j].id
  /\ \A k \in 1..p : Says(st[k]) => \E i \in 1..Len(s) : s[i].id = k

\* Each call that has ended has the answer to it, or none.
Replied(st, a, p) == \A c \in 1..Len(a) : a[c] # 0 => a[c] \in 1..p /\ st[a[c]].re = c

\* Calls are made one after the other, before there is a reader.
CallsOK ==
  /\ waiting # 0 => waiting = serial /\ Len(answers) = serial - 1 /\ ~reading
  /\ waiting = 0 => Len(answers) = serial

\* The inductive invariant.
BusInv ==
  /\ BusTypes /\ CallsOK
  /\ Sized(stream, End) /\ fill <= End /\ Taken(stream, parsed, fill)
  /\ Carried(stream, inFds, parsed, fill)
  /\ Told(stream, Seen, parsed) /\ Replied(stream, answers, parsed)

-----------------------------------------------------------------------------
(* Messages and sequences of them.                                           *)

\* What a message is.
LEMMA Fields ==
  ASSUME NEW m \in Message
  PROVE  /\ m.at \in Nat /\ m.size \in Nat \ {0} /\ m.fds \in 0..1 /\ m.re \in Nat
         /\ m.bad \in BOOLEAN /\ m.from \in {"bus", "peer"}
  BY DEF Message

\* The messages of a stream.
LEMMA Each ==
  ASSUME NEW st \in Seq(Message), NEW k \in 1..Len(st)
  PROVE  st[k].at \in Nat /\ st[k].size \in Nat \ {0} /\ st[k].fds \in 0..1 /\ st[k].re \in Nat
<1>1. st[k] \in Message
  OBVIOUS
<1>2. QED
  BY <1>1, Fields

\* What Append does to a sequence.
LEMMA Appended ==
  ASSUME NEW S, NEW s \in Seq(S), NEW x \in S
  PROVE  /\ Append(s, x) \in Seq(S) /\ Len(Append(s, x)) = Len(s) + 1 /\ Len(s) \in Nat
         /\ Append(s, x)[Len(s) + 1] = x
         /\ \A i \in 1..Len(s) : Append(s, x)[i] = s[i]
  OBVIOUS

\* Where the stream ends.
LEMMA Ends ==
  ASSUME stream \in Seq(Message)
  PROVE  /\ End \in Nat
         /\ stream = <<>> => End = 0
         /\ stream # <<>> => End = stream[Len(stream)].at + stream[Len(stream)].size
<1>1. CASE stream = <<>>
  BY <1>1 DEF End
<1>2. CASE stream # <<>>
  <2>1. Len(stream) \in 1..Len(stream)
    BY <1>2
  <2>2. Last(stream) = stream[Len(stream)]
    BY DEF Last
  <2>3. stream[Len(stream)].at \in Nat /\ stream[Len(stream)].size \in Nat
    BY <2>1, Each
  <2>4. QED
    BY <1>2, <2>2, <2>3 DEF End
<1>3. QED
  BY <1>1, <1>2

\* A message sent at the end of the stream.
LEMMA SizedOn ==
  ASSUME NEW st \in Seq(Message), NEW m \in Message, NEW e \in Nat, Sized(st, e),
         m.at = e, m.re # 0 => m.from = "peer"
  PROVE  Sized(Append(st, m), e + m.size)
<1> DEFINE t == Append(st, m)
<1>1. /\ Len(t) = Len(st) + 1 /\ Len(st) \in Nat /\ t[Len(st) + 1] = m
      /\ \A i \in 1..Len(st) : t[i] = st[i]
  BY Appended
<1> HIDE DEF t
<1>2. m.size \in Nat
  BY Fields
<1>3. \A k \in 1..Len(st) : st[k].at \in Nat /\ st[k].size \in Nat
  BY Each
<1>4. \A k \in 1..Len(t) : t[k].at + t[k].size <= e + m.size
  BY ONLY <1>1, <1>2, <1>3, m.at = e, e \in Nat, Sized(st, e), SMTT(30) DEF Sized
<1>5. \A i, k \in 1..Len(t) : i < k => t[i].at + t[i].size <= t[k].at
  <2> SUFFICES ASSUME NEW i \in 1..Len(t), NEW k \in 1..Len(t), i < k PROVE t[i].at + t[i].size <= t[k].at
    OBVIOUS
  <2>1. i \in 1..Len(st) /\ t[i] = st[i] /\ (k \in 1..Len(st) \/ k = Len(st) + 1)
    BY ONLY <1>1, i \in 1..Len(t), k \in 1..Len(t), i < k
  <2>2. st[i].at + st[i].size <= e /\ (k \in 1..Len(st) => st[i].at + st[i].size <= st[k].at)
    BY <2>1 DEF Sized
  <2>3. QED
    BY ONLY <1>1, <2>1, <2>2, m.at = e
<1>6. \A k \in 1..Len(t) : t[k].re # 0 => t[k].from = "peer"
  BY <1>1 DEF Sized
<1>7. QED
  BY <1>4, <1>5, <1>6 DEF Sized, t

\* It takes no part in what has been read, taken, told or replied.
LEMMA KeptOn ==
  ASSUME NEW st \in Seq(Message), NEW m \in Message, NEW p \in Nat, NEW f \in Nat,
         NEW q \in Seq(Nat), NEW s \in Seq(Heard), NEW a \in Seq(Nat), f <= m.at,
         Taken(st, p, f), Carried(st, q, p, f), Told(st, s, p), Replied(st, a, p)
  PROVE  LET t == Append(st, m)
         IN  Taken(t, p, f) /\ Carried(t, q, p, f) /\ Told(t, s, p) /\ Replied(t, a, p)
<1> DEFINE t == Append(st, m)
<1>1. /\ Len(t) = Len(st) + 1 /\ Len(st) \in Nat /\ t[Len(st) + 1] = m
      /\ \A i \in 1..Len(st) : t[i] = st[i]
  BY Appended
<1> HIDE DEF t
<1>2. p <= Len(st)
  BY DEF Taken
<1>3. \A k \in 1..p : t[k] = st[k]
  <2> TAKE k \in 1..p
  <2>1. PICK l \in Nat : l = Len(st)
    BY <1>1
  <2>2. p <= l
    BY <1>2, <2>1
  <2>3. k \in 1..l
    BY ONLY k \in 1..p, p \in Nat, l \in Nat, <2>2
  <2>4. QED
    BY <1>1, <2>1, <2>3
<1>4. Taken(t, p, f)
  <2>1. PICK l \in Nat : l = Len(st)
    BY <1>1
  <2>2. p <= l /\ Len(t) = l + 1
    BY <1>1, <1>2, <2>1
  <2>3. p <= Len(t)
    BY ONLY <2>2, p \in Nat, l \in Nat
  <2>4. \A k \in 1..p : t[k].at + t[k].size <= f
    BY ONLY <1>3, Taken(st, p, f) DEF Taken
  <2>5. QED
    BY ONLY <2>3, <2>4 DEF Taken
<1>5. ~Waits(m, f)
  <2>1. m.at \in Nat
    BY Fields
  <2>2. QED
    BY <2>1 DEF Waits
<1>6. Carried(t, q, p, f)
  <2>1. \A i \in 1..Len(q) : q[i] \in (p + 1)..Len(t) /\ Waits(t[q[i]], f)
    <3> TAKE i \in 1..Len(q)
    <3>1. q[i] \in (p + 1)..Len(st) /\ Waits(st[q[i]], f)
      BY DEF Carried
    <3>2. q[i] \in (p + 1)..Len(t) /\ q[i] \in 1..Len(st)
      BY ONLY <1>1, <3>1, p \in Nat
    <3>3. QED
      BY <1>1, <3>1, <3>2
  <2>2. \A k \in (p + 1)..Len(t) : Waits(t[k], f) => \E i \in 1..Len(q) : q[i] = k
    <3> SUFFICES ASSUME NEW k \in (p + 1)..Len(t), Waits(t[k], f) PROVE \E i \in 1..Len(q) : q[i] = k
      OBVIOUS
    <3>1. k # Len(st) + 1
      BY <1>1, <1>5
    <3>2. k \in (p + 1)..Len(st) /\ k \in 1..Len(st)
      BY <1>1, <3>1
    <3>3. QED
      BY <1>1, <3>2 DEF Carried
  <2>3. QED
    BY <2>1, <2>2 DEF Carried
<1>7. Told(t, s, p)
  BY <1>3 DEF Told
<1>8. Replied(t, a, p)
  BY <1>3 DEF Replied
<1>9. QED
  BY <1>4, <1>6, <1>7, <1>8 DEF t

\* A read that brings the descriptors of the message it ends with, or none.
LEMMA CarriedFurther ==
  ASSUME NEW st \in Seq(Message), NEW q \in Seq(Nat), NEW p \in Nat, NEW f \in Nat,
         NEW g \in Nat, NEW e,
         f <= g, Sized(st, e), Taken(st, p, f), Carried(st, q, p, f),
         NEW b \in 1..Len(st), f <= st[b].at, Waits(st[b], g), g <= st[b].at + st[b].size,
         \A k \in 1..Len(st) : Waits(st[k], g) /\ f <= st[k].at => g <= st[k].at + st[k].size
  PROVE  Carried(st, Append(q, b), p, g)
<1> DEFINE r == Append(q, b)
<1>1. /\ Len(r) = Len(q) + 1 /\ Len(q) \in Nat /\ r[Len(q) + 1] = b
      /\ \A i \in 1..Len(q) : r[i] = q[i]
  BY Appended
<1> HIDE DEF r
<1>2. \A k \in 1..Len(st) : st[k].at \in Nat /\ st[k].size \in Nat \ {0}
  BY Each
<1>3. Len(st) \in Nat
  OBVIOUS
<1>4. st[b].at < g
  BY DEF Waits
<1>5. p < b
  BY ONLY <1>2, <1>3, b \in 1..Len(st), f <= st[b].at, Taken(st, p, f), p \in Nat,
     f \in Nat, SMTT(30) DEF Taken
<1>6. \A k \in 1..Len(st) : st[k].at < f => k < b
  <2> SUFFICES ASSUME NEW k \in 1..Len(st), st[k].at < f, ~(k < b) PROVE FALSE
    OBVIOUS
  <2>1. k # b
    BY <1>2
  <2>2. b < k
    BY <2>1
  <2>3. st[b].at + st[b].size <= st[k].at
    BY <2>2 DEF Sized
  <2>4. QED
    BY ONLY <2>3, <1>2, st[k].at < f, f <= st[b].at, f \in Nat, k \in 1..Len(st), b \in 1..Len(st)
<1>7. \A k \in 1..Len(st) : Waits(st[k], g) <=> Waits(st[k], f) \/ k = b
  <2> TAKE k \in 1..Len(st)
  <2>1. st[k].at \in Nat /\ st[b].at \in Nat /\ st[b].size \in Nat \ {0} /\ st[k].size \in Nat \ {0}
    BY <1>2
  <2>2. Waits(st[k], f) => Waits(st[k], g)
    BY <2>1 DEF Waits
  <2>3. ASSUME Waits(st[k], g), ~Waits(st[k], f), k # b PROVE FALSE
    <3>1. f <= st[k].at /\ st[k].at < g
      BY <2>1, <2>3 DEF Waits
    <3>2. g <= st[k].at + st[k].size
      BY <2>3, <3>1
    <3>3. st[k].at + st[k].size <= st[b].at \/ st[b].at + st[b].size <= st[k].at
      BY <2>3 DEF Sized
    <3>4. QED
      BY ONLY <2>1, <3>1, <3>2, <3>3, <1>4, g <= st[b].at + st[b].size, g \in Nat, SMTT(30)
  <2>4. QED
    BY <2>2, <2>3
<1>8. \A i \in 1..Len(q) : q[i] \in (p + 1)..Len(st) /\ q[i] \in 1..Len(st) /\ Waits(st[q[i]], g) /\ q[i] < b
  <2> TAKE i \in 1..Len(q)
  <2>1. q[i] \in (p + 1)..Len(st) /\ Waits(st[q[i]], f)
    BY DEF Carried
  <2>2. q[i] \in 1..Len(st) /\ st[q[i]].at < f
    BY <2>1 DEF Waits
  <2>3. QED
    BY <2>1, <2>2, <1>6, <1>7
<1>9. \A i \in 1..Len(r) : r[i] \in (p + 1)..Len(st) /\ Waits(st[r[i]], g)
  BY ONLY <1>1, <1>3, <1>5, <1>8, b \in 1..Len(st), Waits(st[b], g), p \in Nat, SMTT(30)
<1>10. \A i, j \in 1..Len(r) : i < j => r[i] < r[j]
  <2> SUFFICES ASSUME NEW i \in 1..Len(r), NEW j \in 1..Len(r), i < j PROVE r[i] < r[j]
    OBVIOUS
  <2>1. i \in 1..Len(q) /\ r[i] = q[i] /\ (j \in 1..Len(q) \/ j = Len(q) + 1)
    <3>1. i \in 1..Len(q) /\ (j \in 1..Len(q) \/ j = Len(q) + 1)
      BY ONLY <1>1, i \in 1..Len(r), j \in 1..Len(r), i < j
    <3>2. QED
      BY <1>1, <3>1
  <2>2. j \in 1..Len(q) => q[i] < q[j]
    BY <2>1 DEF Carried
  <2>3. QED
    BY ONLY <1>1, <1>8, <2>1, <2>2
<1>11. \A k \in (p + 1)..Len(st) : Waits(st[k], g) => \E i \in 1..Len(r) : r[i] = k
  <2> SUFFICES ASSUME NEW k \in (p + 1)..Len(st), Waits(st[k], g) PROVE \E i \in 1..Len(r) : r[i] = k
    OBVIOUS
  <2>1. CASE k = b
    BY <1>1, <2>1
  <2>2. CASE k # b
    <3>1. k \in 1..Len(st)
      OBVIOUS
    <3>2. Waits(st[k], f)
      BY <3>1, <2>2, <1>7
    <3>3. PICK i \in 1..Len(q) : q[i] = k
      BY <3>2 DEF Carried
    <3>4. i \in 1..Len(r) /\ r[i] = k
      BY <3>3, <1>1
    <3>5. QED
      BY <3>4
  <2>3. QED
    BY <2>1, <2>2
<1>12. QED
  BY <1>9, <1>10, <1>11 DEF Carried, r

\* A message that is whole finds its own descriptors first, and leaves the others.
LEMMA TakesOwn ==
  ASSUME NEW st \in Seq(Message), NEW q \in Seq(Nat), NEW p \in Nat, NEW f \in Nat,
         Carried(st, q, p, f), p < Len(st), st[p + 1].at + st[p + 1].size <= f
  PROVE  LET n == st[p + 1].fds
         IN  /\ n <= Len(q) /\ SubSeq(q, 1, n) = [j \in 1..n |-> p + 1]
             /\ SubSeq(q, n + 1, Len(q)) \in Seq(Nat)
             /\ Carried(st, SubSeq(q, n + 1, Len(q)), p + 1, f)
<1>0. PICK n : n = st[p + 1].fds
  OBVIOUS
<1>1. p + 1 \in 1..Len(st) /\ p + 1 \in (p + 1)..Len(st) /\ Len(st) \in Nat /\ Len(q) \in Nat
  OBVIOUS
<1>2. st[p + 1].at \in Nat /\ st[p + 1].size \in Nat \ {0} /\ n \in 0..1
  BY <1>0, <1>1, Each
<1>3. st[p + 1].at < f
  BY <1>2
<1>4. \A i \in 1..Len(q) : q[i] \in (p + 1)..Len(st) /\ Waits(st[q[i]], f)
  BY DEF Carried
<1>5. CASE n = 0
  <2>1. SubSeq(q, 1, 0) = [j \in 1..0 |-> p + 1]
    OBVIOUS
  <2>2. SubSeq(q, 1, Len(q)) = q
    OBVIOUS
  <2>3. ~Waits(st[p + 1], f)
    BY <1>0, <1>5 DEF Waits
  <2>4. \A i \in 1..Len(q) : q[i] # p + 1
    BY <1>4, <2>3
  <2>5. Carried(st, q, p + 1, f)
    <3>1. \A i \in 1..Len(q) : q[i] \in ((p + 1) + 1)..Len(st)
      <4>1. \A x \in (p + 1)..Len(st) : x # p + 1 => x \in ((p + 1) + 1)..Len(st)
        BY <1>1
      <4>2. QED
        BY <1>4, <2>4, <4>1
    <3>2. \A k \in ((p + 1) + 1)..Len(st) : k \in (p + 1)..Len(st)
      OBVIOUS
    <3>3. QED
      BY <1>4, <3>1, <3>2 DEF Carried
  <2>6. QED
    <3>1. 0 <= Len(q) /\ 0 + 1 = 1
      BY <1>1
    <3>2. SubSeq(q, 0 + 1, Len(q)) = q
      BY ONLY <2>2, <3>1
    <3>3. st[p + 1].fds = 0
      BY <1>0, <1>5
    <3>4. QED
      BY ONLY <3>1, <3>2, <3>3, <2>1, <2>5, q \in Seq(Nat)
<1>6. CASE n = 1
  <2>1. Waits(st[p + 1], f)
    BY <1>0, <1>3, <1>6 DEF Waits
  <2>2. PICK i \in 1..Len(q) : q[i] = p + 1
    BY <1>1, <2>1 DEF Carried
  <2>3. i = 1
    <3> SUFFICES ASSUME i # 1 PROVE FALSE
      OBVIOUS
    <3>1. 1 \in 1..Len(q) /\ 1 < i
      BY <1>1
    <3>2. q[1] < q[i]
      BY <3>1 DEF Carried
    <3>3. QED
      BY <1>4, <2>2, <3>1, <3>2, SMTT(30)
  <2>4. Len(q) >= 1 /\ q[1] = p + 1
    BY <1>1, <2>2, <2>3
  <2>5. SubSeq(q, 1, 1) = [j \in 1..1 |-> p + 1]
    BY <2>4
  <2> DEFINE r == SubSeq(q, 2, Len(q))
  <2>6. r \in Seq(Nat) /\ Len(r) = Len(q) - 1 /\ \A j \in 1..Len(r) : r[j] = q[j + 1]
    <3>0. 2 \in 1..(Len(q) + 1) /\ (Len(q) - 2) + 1 = Len(q) - 1
      BY ONLY <1>1, <2>4
    <3>1. r \in Seq(Nat) /\ Len(r) = Len(q) - 1
      BY ONLY <1>1, <2>4, <3>0, q \in Seq(Nat)
    <3>2. \A j \in 1..(Len(q) - 1) : r[j] = q[2 + j - 1] /\ 2 + j - 1 = j + 1
      BY ONLY <1>1, <2>4, q \in Seq(Nat)
    <3>3. QED
      BY ONLY <3>1, <3>2
  <2> HIDE DEF r
  <2>7. Carried(st, r, p + 1, f)
    <3>1. \A j \in 1..Len(r) : j + 1 \in 1..Len(q) /\ q[1] < q[j + 1]
      BY <1>1, <2>4, <2>6 DEF Carried
    <3>2. \A j \in 1..Len(r) : r[j] \in ((p + 1) + 1)..Len(st) /\ Waits(st[r[j]], f)
      <4> TAKE j \in 1..Len(r)
      <4>1. j + 1 \in 1..Len(q) /\ q[1] < q[j + 1] /\ r[j] = q[j + 1]
        BY <2>6, <3>1
      <4>2. PICK x : x = q[j + 1]
        OBVIOUS
      <4>3. x \in (p + 1)..Len(st) /\ Waits(st[x], f) /\ p + 1 < x
        BY <1>4, <2>4, <4>1, <4>2
      <4>4. x \in ((p + 1) + 1)..Len(st)
        BY ONLY <1>1, <4>3, p \in Nat
      <4>5. QED
        BY <4>1, <4>2, <4>3, <4>4
    <3>3. \A j, k \in 1..Len(r) : j < k => r[j] < r[k]
      <4> SUFFICES ASSUME NEW j \in 1..Len(r), NEW k \in 1..Len(r), j < k PROVE r[j] < r[k]
        OBVIOUS
      <4>1. j + 1 \in 1..Len(q) /\ k + 1 \in 1..Len(q) /\ j + 1 < k + 1
        BY ONLY <1>1, <2>6, j \in 1..Len(r), k \in 1..Len(r), j < k
      <4>2. q[j + 1] < q[k + 1]
        BY ONLY <4>1, Carried(st, q, p, f) DEF Carried
      <4>3. QED
        BY ONLY <2>6, <4>2, j \in 1..Len(r), k \in 1..Len(r)
    <3>4. \A k \in ((p + 1) + 1)..Len(st) : Waits(st[k], f) => \E j \in 1..Len(r) : r[j] = k
      <4> SUFFICES ASSUME NEW k \in ((p + 1) + 1)..Len(st), Waits(st[k], f) PROVE \E j \in 1..Len(r) : r[j] = k
        OBVIOUS
      <4>1. PICK l \in 1..Len(q) : q[l] = k
        <5>1. k \in (p + 1)..Len(st)
          OBVIOUS
        <5>2. QED
          BY <5>1 DEF Carried
      <4>2. l # 1
        BY <2>4, <4>1
      <4>3. l - 1 \in 1..Len(r) /\ r[l - 1] = k
        <5>1. l - 1 \in 1..Len(r) /\ (l - 1) + 1 = l
          BY ONLY <1>1, <2>6, <4>2, l \in 1..Len(q)
        <5>2. QED
          BY ONLY <2>6, <4>1, <5>1
      <4>4. QED
        BY <4>3
    <3>5. QED
      BY <3>2, <3>3, <3>4 DEF Carried
  <2>8. QED
    BY ONLY <1>0, <1>6, <2>4, <2>5, <2>6, <2>7 DEF r
<1>7. n = 0 \/ n = 1
  BY ONLY <1>2
<1>8. QED
  BY ONLY <1>5, <1>6, <1>7

\* A message of the bus's that is handed on, or kept for the reader.
LEMMA ToldOne ==
  ASSUME NEW st \in Seq(Message), NEW s \in Seq(Heard), NEW p \in Nat, NEW x \in Heard,
         Told(st, s, p), x.id = p + 1, Own(x, st[p + 1])
  PROVE  Told(st, Append(s, x), p + 1)
<1> DEFINE r == Append(s, x)
<1>1. /\ Len(r) = Len(s) + 1 /\ Len(s) \in Nat /\ r[Len(s) + 1] = x
      /\ \A i \in 1..Len(s) : r[i] = s[i]
  BY Appended
<1> HIDE DEF r
<1>2. \A i \in 1..Len(s) : s[i].id \in 1..p /\ Own(s[i], st[s[i].id])
  BY DEF Told
<1>3. \A i \in 1..Len(r) : i \in 1..Len(s) \/ i = Len(s) + 1
  BY ONLY <1>1
<1>4. ASSUME NEW i \in 1..Len(r) PROVE r[i].id \in 1..(p + 1) /\ Own(r[i], st[r[i].id])
  <2>1. CASE i \in 1..Len(s)
    <3>1. r[i] = s[i] /\ s[i].id \in 1..p /\ Own(s[i], st[s[i].id])
      BY <1>1, <1>2, <2>1
    <3>2. QED
      BY ONLY <3>1, p \in Nat
  <2>2. CASE i = Len(s) + 1
    <3>1. r[i] = x
      BY <1>1, <2>2
    <3>2. QED
      BY ONLY <3>1, x.id = p + 1, Own(x, st[p + 1]), p \in Nat
  <2>3. QED
    BY <1>3, <2>1, <2>2
<1>5. ASSUME NEW i \in 1..Len(r), NEW j \in 1..Len(r), i < j PROVE r[i].id < r[j].id
  <2>1. i \in 1..Len(s) /\ (j \in 1..Len(s) \/ j = Len(s) + 1)
    BY ONLY <1>1, <1>5
  <2>2. r[i] = s[i] /\ s[i].id \in 1..p /\ (j \in 1..Len(s) => r[j] = s[j] /\ s[i].id < s[j].id)
    BY <1>1, <1>2, <1>5, <2>1 DEF Told
  <2>3. j = Len(s) + 1 => r[j].id = p + 1
    BY <1>1
  <2>4. QED
    BY ONLY <2>1, <2>2, <2>3, p \in Nat
<1>6. ASSUME NEW k \in 1..(p + 1), Says(st[k]) PROVE \E i \in 1..Len(r) : r[i].id = k
  <2>1. CASE k = p + 1
    <3>1. Len(s) + 1 \in 1..Len(r) /\ r[Len(s) + 1].id = k
      BY <1>1, <2>1
    <3>2. QED
      BY <3>1
  <2>2. CASE k # p + 1
    <3>1. k \in 1..p
      BY <2>2
    <3>2. PICK i \in 1..Len(s) : s[i].id = k
      BY <1>6, <3>1 DEF Told
    <3>3. i \in 1..Len(r) /\ r[i] = s[i]
      BY <1>1
    <3>4. QED
      BY <3>2, <3>3
  <2>3. QED
    BY <2>1, <2>2
<1>7. QED
  BY <1>4, <1>5, <1>6 DEF Told, r

\* A message that is neither.
LEMMA ToldNone ==
  ASSUME NEW st \in Seq(Message), NEW s \in Seq(Heard), NEW p \in Nat, Told(st, s, p),
         ~Says(st[p + 1])
  PROVE  Told(st, s, p + 1)
<1>1. \A k \in 1..(p + 1) : k \in 1..p \/ k = p + 1
  OBVIOUS
<1>2. \A n \in 1..p : n \in 1..(p + 1)
  OBVIOUS
<1>3. \A i \in 1..Len(s) : s[i].id \in 1..(p + 1) /\ Own(s[i], st[s[i].id])
  BY <1>2 DEF Told
<1>4. \A k \in 1..(p + 1) : Says(st[k]) => \E i \in 1..Len(s) : s[i].id = k
  BY <1>1 DEF Told
<1>5. QED
  BY <1>3, <1>4 DEF Told

\* What a call returns is the answer to it.
LEMMA RepliedOne ==
  ASSUME NEW st, NEW a \in Seq(Nat), NEW p \in Nat, NEW v \in Nat, Replied(st, a, p),
         v # 0 => v = p + 1 /\ st[p + 1].re = Len(a) + 1
  PROVE  Replied(st, a, p + 1) /\ Replied(st, Append(a, v), p + 1)
<1> DEFINE r == Append(a, v)
<1>1. /\ Len(r) = Len(a) + 1 /\ Len(a) \in Nat /\ r[Len(a) + 1] = v
      /\ \A i \in 1..Len(a) : r[i] = a[i]
  BY ONLY a \in Seq(Nat), v \in Nat, Appended
<1> HIDE DEF r
<1>2. \A n \in 1..p : n \in 1..(p + 1)
  OBVIOUS
<1>3. Replied(st, a, p + 1)
  BY <1>2 DEF Replied
<1>4. \A i \in 1..Len(r) : i \in 1..Len(a) \/ i = Len(a) + 1
  <2>1. PICK l \in Nat : l = Len(a) /\ Len(r) = l + 1
    BY <1>1
  <2>2. QED
    BY ONLY <2>1
<1>5. ASSUME NEW c \in 1..Len(r), r[c] # 0 PROVE r[c] \in 1..(p + 1) /\ st[r[c]].re = c
  <2>1. CASE c \in 1..Len(a)
    BY <1>1, <1>3, <1>5, <2>1 DEF Replied
  <2>2. CASE c = Len(a) + 1
    <3>1. r[c] = v
      BY <1>1, <2>2
    <3>2. v = p + 1 /\ st[p + 1].re = c
      BY <1>5, <2>2, <3>1
    <3>3. QED
      BY ONLY <3>1, <3>2, p \in Nat
  <2>3. QED
    BY <1>4, <2>1, <2>2
<1>6. QED
  BY <1>3, <1>5 DEF Replied, r

\* What recv takes off the backlog was the next that it would return.
LEMMA Moved ==
  ASSUME NEW S, NEW g \in Seq(S), NEW b \in Seq(S), b # <<>>
  PROVE  Append(g, Head(b)) \o Tail(b) = g \o b
<1>1. /\ Head(b) \in S /\ Head(b) = b[1] /\ Len(b) \in Nat \ {0}
      /\ Tail(b) \in Seq(S) /\ Len(Tail(b)) = Len(b) - 1
  OBVIOUS
<1>2. PICK x \in S, t \in Seq(S) : x = Head(b) /\ t = Tail(b)
  BY <1>1
<1>3. \A i \in 1..Len(t) : t[i] = b[i + 1]
  BY <1>2
<1>4. Len(Append(g, x) \o t) = Len(g \o b)
  BY <1>1, <1>2
<1>5. ASSUME NEW i \in 1..(Len(g) + Len(b)) PROVE (Append(g, x) \o t)[i] = (g \o b)[i]
  <2>1. CASE i <= Len(g)
    BY <1>1, <1>2, <2>1
  <2>2. CASE i = Len(g) + 1
    BY <1>1, <1>2, <2>2
  <2>3. CASE i > Len(g) + 1
    <3>1. /\ Len(Append(g, x)) = Len(g) + 1 /\ i - (Len(g) + 1) \in 1..Len(t)
          /\ (i - (Len(g) + 1)) + 1 = i - Len(g)
      BY <1>1, <1>2, <2>3
    <3>2. (Append(g, x) \o t)[i] = t[i - (Len(g) + 1)]
      BY <3>1, <2>3
    <3>3. (g \o b)[i] = b[i - Len(g)]
      BY <1>1, <2>3
    <3>4. QED
      BY ONLY <1>3, <3>1, <3>2, <3>3
  <2>4. i <= Len(g) \/ i = Len(g) + 1 \/ i > Len(g) + 1
    <3>1. i \in Nat /\ Len(g) \in Nat
      BY <1>1
    <3>2. QED
      BY ONLY <3>1
  <2>5. QED
    BY ONLY <2>1, <2>2, <2>3, <2>4
<1>6. Append(g, x) \o t \in Seq(S) /\ g \o b \in Seq(S) /\ Len(g \o b) = Len(g) + Len(b)
  OBVIOUS
<1>7. PICK u \in Seq(S), v \in Seq(S) : u = Append(g, x) \o t /\ v = g \o b
  BY <1>6
<1>8. u = v
  <2>1. Len(u) = Len(v) /\ \A i \in 1..Len(v) : u[i] = v[i]
    BY ONLY <1>4, <1>5, <1>6, <1>7
  <2>2. QED
    BY ONLY <2>1, u \in Seq(S), v \in Seq(S)
<1>9. QED
  BY ONLY <1>2, <1>7, <1>8

\* What is kept comes after all that was.
LEMMA KeptLast ==
  ASSUME NEW S, NEW g \in Seq(S), NEW b \in Seq(S), NEW x \in S
  PROVE  g \o Append(b, x) = Append(g \o b, x)
  OBVIOUS

-----------------------------------------------------------------------------
(* The steps.                                                                *)

\* A new connection.
LEMMA BusInvStarts == ASSUME BusInit PROVE BusInv
<1>1. BusTypes
  <2>1. \A S : <<>> \in Seq(S)
    OBVIOUS
  <2>2. /\ stream \in Seq(Message) /\ inFds \in Seq(Nat) /\ answers \in Seq(Nat)
        /\ backlog \in Seq(Heard) /\ got \in Seq(Heard)
    BY ONLY <2>1, BusInit DEF BusInit
  <2>3. QED
    BY <2>2 DEF BusInit, BusTypes
<1>2. Seen = <<>>
  BY DEF BusInit, Seen
<1>3. End = 0
  BY <1>1, Ends DEF BusInit, BusTypes
<1>4. /\ Sized(stream, End) /\ fill <= End /\ Taken(stream, parsed, fill) /\ CallsOK
      /\ Replied(stream, answers, parsed)
  BY <1>3 DEF BusInit, Sized, Taken, CallsOK, Replied
<1>5. Carried(stream, inFds, parsed, fill) /\ Told(stream, Seen, parsed)
  BY <1>2 DEF BusInit, Carried, Told
<1>6. QED
  BY <1>1, <1>4, <1>5 DEF BusInv

\* A message that the bus sends.
LEMMA Sends ==
  ASSUME BusInv, NEW from \in {"bus", "peer"}, NEW re \in Nat, NEW bad \in BOOLEAN,
         NEW size \in Nat \ {0}, NEW fds \in 0..1, re # 0 => from = "peer",
         stream' = Sent(from, re, bad, size, fds), open' \subseteq open,
         UNCHANGED <<fill, inFds, parsed, backlog, serial, waiting, reading, got, answers, failed>>
  PROVE  BusInv'
<1> DEFINE m == [from |-> from, re |-> re, bad |-> bad, at |-> End, size |-> size, fds |-> fds]
<1>1. End \in Nat /\ stream \in Seq(Message)
  BY Ends DEF BusInv, BusTypes
<1>2. m \in Message
  BY <1>1 DEF Message
<1>3. stream' = Append(stream, m)
  BY DEF Sent
<1>4. m.at = End /\ m.size = size /\ m.re = re /\ m.from = from
  OBVIOUS
<1> HIDE DEF m
<1>5. /\ stream' \in Seq(Message) /\ Len(stream') = Len(stream) + 1 /\ stream'[Len(stream')] = m
      /\ Len(stream) \in Nat
  BY <1>1, <1>2, <1>3, Appended
<1>6. End' = End + size
  <2>1. stream' # <<>>
    BY <1>5
  <2>2. Last(stream)' = m
    BY <1>5 DEF Last
  <2>3. QED
    BY <2>1, <2>2, <1>4 DEF End
<1>7. BusTypes'
  BY <1>5 DEF BusInv, BusTypes
<1>8. CallsOK'
  BY DEF BusInv, CallsOK
<1>9. Sized(stream, End)'
  <2>1. Sized(Append(stream, m), End + m.size)
    BY <1>1, <1>2, <1>4, SizedOn DEF BusInv
  <2>2. QED
    BY <2>1, <1>3, <1>4, <1>6
<1>10. fill' <= End'
  BY <1>1, <1>6 DEF BusInv, BusTypes
<1>11. /\ Taken(stream', parsed, fill) /\ Carried(stream', inFds, parsed, fill)
       /\ Told(stream', Seen, parsed) /\ Replied(stream', answers, parsed)
  <2>1. Seen \in Seq(Heard) /\ fill <= m.at
    BY <1>4 DEF Seen, BusInv, BusTypes
  <2>2. inFds \in Seq(Nat) /\ parsed \in Nat /\ fill \in Nat /\ answers \in Seq(Nat)
    BY DEF BusInv, BusTypes
  <2>3. QED
    BY <1>1, <1>2, <1>3, <2>1, <2>2, KeptOn DEF BusInv
<1>12. Seen' = Seen
  BY DEF Seen
<1>13. QED
  BY <1>7, <1>8, <1>9, <1>10, <1>11, <1>12 DEF BusInv

\* A read.
LEMMA Fills ==
  ASSUME BusInv, NEW n \in Nat \ {0}, Fill(n)
  PROVE  BusInv'
<1> DEFINE begun == {i \in DOMAIN stream : fill <= stream[i].at /\ stream[i].at < fill + n /\ stream[i].fds > 0}
<1>1. /\ stream \in Seq(Message) /\ DOMAIN stream = 1..Len(stream)
      /\ fill \in Nat /\ inFds \in Seq(Nat) /\ parsed \in Nat
  BY DEF BusInv, BusTypes
<1>2. fill' = fill + n /\ fill + n <= End
  BY DEF Fill
<1>3. \A i \in begun : fill + n <= stream[i].at + stream[i].size
  BY DEF Fill
<1>4. inFds' = inFds \o IF begun = {} THEN <<>>
                        ELSE LET i == CHOOSE i \in begun : TRUE IN [j \in 1..stream[i].fds |-> i]
  BY DEF Fill
<1>5. UNCHANGED <<stream, parsed, backlog, serial, waiting, open, reading, got, answers, failed>>
  BY DEF Fill
<1>6. \A k \in 1..Len(stream) : stream[k].at \in Nat /\ stream[k].size \in Nat \ {0} /\ stream[k].fds \in 0..1
  BY <1>1, Each
<1>7. \A k \in 1..Len(stream) : k \in begun <=> fill <= stream[k].at /\ Waits(stream[k], fill + n)
  <2> TAKE k \in 1..Len(stream)
  <2>1. stream[k].fds \in 0..1
    BY <1>6
  <2>2. stream[k].fds > 0 <=> stream[k].fds = 1
    BY ONLY <2>1
  <2>3. QED
    BY <1>1, <2>2 DEF Waits
<1>8. begun \subseteq 1..Len(stream)
  BY <1>1
<1> HIDE DEF begun
<1>9. inFds' \in Seq(Nat) /\ Carried(stream, inFds', parsed, fill + n)
  <2>1. CASE begun = {}
    <3>1. inFds' = inFds
      BY <1>1, <1>4, <2>1
    <3>2. \A k \in 1..Len(stream) : Waits(stream[k], fill + n) <=> Waits(stream[k], fill)
      <4> TAKE k \in 1..Len(stream)
      <4>1. stream[k].at \in Nat
        BY <1>6
      <4>2. Waits(stream[k], fill + n) => stream[k].at < fill
        BY <1>1, <1>7, <2>1, <4>1
      <4>3. stream[k].at < fill => stream[k].at < fill + n
        BY ONLY <1>1, <4>1, n \in Nat \ {0}
      <4>4. QED
        BY <4>2, <4>3 DEF Waits
    <3>3. \A k \in (parsed + 1)..Len(stream) : k \in 1..Len(stream)
      BY <1>1
    <3>4. QED
      BY <1>1, <3>1, <3>2, <3>3 DEF BusInv, Carried
  <2>2. CASE begun # {}
    <3>1. PICK b \in begun : b = CHOOSE i \in begun : TRUE
      BY <2>2
    <3>2. b \in 1..Len(stream) /\ b \in Nat /\ Waits(stream[b], fill + n) /\ fill <= stream[b].at
      <4>1. b \in 1..Len(stream)
        BY <3>1, <1>8
      <4>2. QED
        BY <3>1, <4>1, <1>7
    <3>3. inFds' = inFds \o [j \in 1..stream[b].fds |-> b]
      BY <1>4, <2>2, <3>1
    <3>4. stream[b].fds = 1
      BY <3>2 DEF Waits
    <3>5. [j \in 1..stream[b].fds |-> b] = <<b>>
      BY <3>4
    <3>6. inFds' = Append(inFds, b)
      <4>1. \A t \in Seq(Nat), k \in Nat : t \o <<k>> = Append(t, k)
        OBVIOUS
      <4>2. QED
        BY ONLY <1>1, <3>2, <3>3, <3>5, <4>1
    <3>7. inFds' \in Seq(Nat)
      BY ONLY <1>1, <3>2, <3>6
    <3>8. fill + n \in Nat /\ fill <= fill + n
      BY ONLY <1>1, n \in Nat \ {0}
    <3>9. \A k \in 1..Len(stream) :
            Waits(stream[k], fill + n) /\ fill <= stream[k].at => fill + n <= stream[k].at + stream[k].size
      BY <1>3, <1>7
    <3>10. fill + n <= stream[b].at + stream[b].size
      BY <1>3, <3>1
    <3>11. Carried(stream, Append(inFds, b), parsed, fill + n)
      BY <1>1, <3>2, <3>8, <3>9, <3>10, CarriedFurther DEF BusInv
    <3>12. QED
      BY <3>6, <3>7, <3>11
  <2>3. QED
    BY <2>1, <2>2
<1>10. BusTypes'
  BY <1>1, <1>2, <1>5, <1>9 DEF BusInv, BusTypes
<1>11. CallsOK' /\ End' = End /\ Seen' = Seen
  BY <1>5 DEF BusInv, CallsOK, End, Seen
<1>12. Taken(stream, parsed, fill + n)
  <2>1. parsed <= Len(stream)
    BY DEF BusInv, Taken
  <2>2. ASSUME NEW k \in 1..parsed PROVE stream[k].at + stream[k].size <= fill + n
    <3>1. k \in 1..Len(stream)
      BY <1>1, <2>1
    <3>2. stream[k].at + stream[k].size <= fill /\ stream[k].at \in Nat /\ stream[k].size \in Nat
      BY <1>6, <3>1 DEF BusInv, Taken
    <3>3. QED
      BY ONLY <1>1, <3>2, n \in Nat \ {0}
  <2>3. QED
    BY <2>1, <2>2 DEF Taken
<1>13. QED
  BY <1>2, <1>5, <1>9, <1>10, <1>11, <1>12 DEF BusInv

\* A whole message is taken from the buffer.
LEMMA Takes ==
  ASSUME BusInv, Whole
  PROVE  LET m == stream[parsed + 1]
             q == SubSeq(inFds, FdsOf(m) + 1, Len(inFds))
         IN  /\ m \in Message /\ parsed + 1 \in Nat
             /\ FdsOf(m) \in Nat /\ FdsOf(m) <= Len(inFds) /\ Len(inFds) \in Nat
             /\ Item(m) \in Heard /\ Item(m).id = parsed + 1 /\ Own(Item(m), m)
             /\ q \in Seq(Nat) /\ Carried(stream, q, parsed + 1, fill)
             /\ Taken(stream, parsed + 1, fill)
<1> DEFINE m == stream[parsed + 1]
<1>1. stream \in Seq(Message) /\ parsed \in Nat /\ fill \in Nat /\ inFds \in Seq(Nat)
  BY DEF BusInv, BusTypes
<1>2. parsed < Len(stream) /\ m.at + m.size <= fill
  <2>1. parsed < Len(stream) /\ fill >= m.at + m.size
    BY DEF Whole
  <2>2. m \in Message
    BY <1>1, <2>1
  <2>3. m.at \in Nat /\ m.size \in Nat
    BY <2>2, Fields
  <2>4. QED
    BY ONLY <1>1, <2>1, <2>3
<1>3. m \in Message /\ parsed + 1 \in Nat
  BY <1>1, <1>2
<1>4. m.fds \in Nat
  BY <1>3, Fields
<1>5. FdsOf(m) = m.fds
  BY DEF FdsOf
<1>6. /\ m.fds <= Len(inFds) /\ SubSeq(inFds, 1, m.fds) = [j \in 1..m.fds |-> parsed + 1]
      /\ SubSeq(inFds, m.fds + 1, Len(inFds)) \in Seq(Nat)
      /\ Carried(stream, SubSeq(inFds, m.fds + 1, Len(inFds)), parsed + 1, fill)
  BY <1>1, <1>2, TakesOwn DEF BusInv
<1>7. Taken(stream, parsed + 1, fill)
  <2>1. \A k \in 1..(parsed + 1) : k \in 1..parsed \/ k = parsed + 1
    BY <1>1
  <2>2. parsed + 1 <= Len(stream)
    BY <1>1, <1>2
  <2>3. QED
    BY <1>2, <2>1, <2>2 DEF BusInv, Taken
<1>8. /\ Item(m).id = parsed + 1 /\ Item(m).fds = SubSeq(inFds, 1, m.fds)
      /\ Item(m) = [id |-> parsed + 1, fds |-> SubSeq(inFds, 1, m.fds)]
  BY <1>5 DEF Item
<1>9. SubSeq(inFds, 1, m.fds) \in Seq(Nat)
  BY ONLY <1>1, <1>4, <1>6
<1>10. Item(m) \in Heard
  BY <1>3, <1>8, <1>9 DEF Heard
<1>11. Own(Item(m), m)
  BY <1>6, <1>8 DEF Own
<1>12. Len(inFds) \in Nat
  BY <1>1
<1>13. QED
  BY <1>3, <1>4, <1>5, <1>6, <1>7, <1>8, <1>10, <1>11, <1>12

\* read_one for a call.
LEMMA CallTakes == ASSUME BusInv, CallReads PROVE BusInv'
<1> DEFINE m == stream[parsed + 1]
<1> DEFINE q == SubSeq(inFds, FdsOf(m) + 1, Len(inFds))
<1>1. Whole /\ waiting # 0 /\ UNCHANGED <<stream, fill, serial, open, reading, got>>
  BY DEF CallReads
<1>2. /\ m \in Message /\ parsed + 1 \in Nat
      /\ FdsOf(m) \in Nat /\ FdsOf(m) <= Len(inFds) /\ Len(inFds) \in Nat
      /\ Item(m) \in Heard /\ Item(m).id = parsed + 1 /\ Own(Item(m), m)
      /\ q \in Seq(Nat) /\ Carried(stream, q, parsed + 1, fill) /\ Taken(stream, parsed + 1, fill)
  BY <1>1, Takes
<1>3. ~(FdsOf(m) > Len(inFds))
  BY ONLY <1>2
<1>4. /\ inFds' = q /\ parsed' = parsed + 1
      /\ waiting' = IF m.re = waiting THEN 0 ELSE waiting
      /\ answers' = IF m.re = waiting THEN Append(answers, IF m.bad THEN 0 ELSE parsed + 1) ELSE answers
      /\ backlog' = IF m.re # waiting /\ Kept(m) THEN Append(backlog, Item(m)) ELSE backlog
      /\ failed' = failed
  BY <1>3 DEF CallReads
<1> DEFINE x == Item(m)
           v == IF m.bad THEN 0 ELSE parsed + 1
<1>5. m.re \in Nat /\ v \in Nat /\ (m.re # 0 => m.from = "peer")
  <2>1. m.re \in Nat
    BY <1>2, Fields
  <2>2. v \in Nat
    BY <1>2
  <2>3. parsed + 1 \in 1..Len(stream)
    BY <1>2 DEF BusInv, BusTypes, Taken
  <2>4. QED
    BY <2>1, <2>2, <2>3 DEF BusInv, Sized
<1>6. /\ stream \in Seq(Message) /\ got \in Seq(Heard) /\ backlog \in Seq(Heard) /\ answers \in Seq(Nat)
      /\ parsed \in Nat /\ serial \in Nat /\ waiting \in Nat
  BY DEF BusInv, BusTypes
<1>7. x \in Heard /\ x.id = parsed + 1 /\ Own(x, stream[parsed + 1]) /\ Seen \in Seq(Heard)
  BY <1>2, <1>6 DEF Seen
<1> HIDE DEF x, v, q
<1>8. Told(stream, Seen', parsed + 1)
  <2>1. CASE m.re # waiting /\ Kept(m)
    <3>1. backlog' = Append(backlog, x)
      BY <1>4, <2>1 DEF x
    <3>2. Seen' = Append(Seen, x)
      BY <1>1, <1>6, <1>7, <3>1, KeptLast DEF Seen
    <3>3. QED
      BY <1>6, <1>7, <3>2, ToldOne DEF BusInv
  <2>2. CASE ~(m.re # waiting /\ Kept(m))
    <3>1. Seen' = Seen
      BY <1>1, <1>4, <2>2 DEF Seen
    <3>2. ~Says(m)
      BY <1>1, <1>5, <2>2 DEF Says, Kept
    <3>3. QED
      BY <1>6, <1>7, <3>1, <3>2, ToldNone DEF BusInv
  <2>3. QED
    BY <2>1, <2>2
<1>9. waiting = serial /\ Len(answers) = serial - 1 /\ ~reading /\ Len(answers) + 1 = waiting
  BY <1>1, <1>6 DEF BusInv, CallsOK
<1>10. Replied(stream, answers', parsed + 1) /\ answers' \in Seq(Nat) /\ CallsOK'
  <2>1. CASE m.re = waiting
    <3>1. answers' = Append(answers, v) /\ waiting' = 0
      BY <1>4, <2>1 DEF v
    <3>2. v # 0 => v = parsed + 1 /\ stream[parsed + 1].re = Len(answers) + 1
      BY <1>9, <2>1 DEF v
    <3>3. Replied(stream, answers', parsed + 1)
      BY <1>5, <1>6, <3>1, <3>2, RepliedOne DEF BusInv
    <3>4. answers' \in Seq(Nat) /\ Len(answers') = Len(answers) + 1
      BY ONLY <1>5, <1>6, <3>1
    <3>5. Len(answers') = serial
      BY ONLY <1>9, <3>4
    <3>6. QED
      BY <1>1, <3>1, <3>3, <3>4, <3>5 DEF CallsOK
  <2>2. CASE m.re # waiting
    <3>1. answers' = answers /\ waiting' = waiting
      BY <1>4, <2>2
    <3>2. Replied(stream, answers, parsed + 1)
      <4>1. 0 # 0 => 0 = parsed + 1 /\ stream[parsed + 1].re = Len(answers) + 1
        OBVIOUS
      <4>2. QED
        BY <1>6, RepliedOne DEF BusInv
    <3>3. QED
      BY <1>1, <1>6, <1>9, <3>1, <3>2 DEF CallsOK
  <2>3. QED
    BY <2>1, <2>2
<1>11. BusTypes'
  <2>1. backlog' \in Seq(Heard) /\ waiting' \in Nat
    BY <1>4, <1>6, <1>7 DEF x
  <2>2. QED
    BY <1>1, <1>2, <1>4, <1>10, <2>1 DEF BusInv, BusTypes, q
<1>12. End' = End
  BY <1>1 DEF End
<1>13. QED
  BY <1>1, <1>2, <1>4, <1>8, <1>10, <1>11, <1>12 DEF BusInv, q

\* recv, from the backlog.
LEMMA BacklogTakes == ASSUME BusInv, RecvBacklog PROVE BusInv'
<1>1. /\ got \in Seq(Heard) /\ backlog \in Seq(Heard) /\ backlog # <<>>
      /\ got' = Append(got, Head(backlog)) /\ backlog' = Tail(backlog)
  BY DEF BusInv, BusTypes, RecvBacklog
<1>2. Seen' = Seen
  BY <1>1, Moved DEF Seen
<1>3. got' \in Seq(Heard) /\ backlog' \in Seq(Heard)
  BY ONLY <1>1
<1>4. UNCHANGED <<stream, fill, inFds, parsed, serial, waiting, open, reading, answers, failed>>
  BY DEF RecvBacklog
<1>5. BusTypes' /\ CallsOK' /\ End' = End
  BY <1>3, <1>4 DEF BusInv, BusTypes, CallsOK, End
<1>6. QED
  BY <1>2, <1>4, <1>5 DEF BusInv

\* recv, from the socket.
LEMMA RecvTakes == ASSUME BusInv, Recv PROVE BusInv'
<1> DEFINE m == stream[parsed + 1]
<1> DEFINE q == SubSeq(inFds, FdsOf(m) + 1, Len(inFds))
<1>1. Whole /\ reading /\ WantsOne /\ UNCHANGED <<stream, fill, backlog, serial, waiting, open, reading,
                                                  answers>>
  BY DEF Recv
<1>2. /\ m \in Message /\ parsed + 1 \in Nat
      /\ FdsOf(m) \in Nat /\ FdsOf(m) <= Len(inFds) /\ Len(inFds) \in Nat
      /\ Item(m) \in Heard /\ Item(m).id = parsed + 1 /\ Own(Item(m), m)
      /\ q \in Seq(Nat) /\ Carried(stream, q, parsed + 1, fill) /\ Taken(stream, parsed + 1, fill)
  BY <1>1, Takes
<1>3. ~(FdsOf(m) > Len(inFds))
  BY ONLY <1>2
<1>4. /\ inFds' = q /\ parsed' = parsed + 1 /\ failed' = failed
      /\ got' = IF m.bad THEN got ELSE Append(got, Item(m))
  BY <1>3 DEF Recv
<1> DEFINE x == Item(m)
<1>5. /\ stream \in Seq(Message) /\ got \in Seq(Heard) /\ backlog \in Seq(Heard) /\ answers \in Seq(Nat)
      /\ parsed \in Nat
  BY DEF BusInv, BusTypes
<1>6. x \in Heard /\ x.id = parsed + 1 /\ Own(x, stream[parsed + 1])
  BY <1>2
<1> HIDE DEF x, q
<1>7. backlog = <<>> /\ Seen = got
  <2>1. waiting = 0
    BY <1>1 DEF BusInv, CallsOK
  <2>2. backlog = <<>>
    BY <1>1, <2>1 DEF WantsOne
  <2>3. QED
    BY <1>5, <2>2 DEF Seen
<1>8. got' \in Seq(Heard) /\ Seen' = got'
  <2>1. got' \in Seq(Heard)
    BY <1>4, <1>5, <1>6 DEF x
  <2>2. backlog' = <<>>
    BY <1>1, <1>7
  <2>3. QED
    BY <2>1, <2>2 DEF Seen
<1>9. Told(stream, Seen', parsed + 1)
  <2>1. CASE m.bad
    <3>1. Seen' = Seen /\ ~Says(m) /\ Seen \in Seq(Heard)
      BY <1>4, <1>5, <1>7, <1>8, <2>1 DEF Says
    <3>2. QED
      BY <1>5, <3>1, ToldNone DEF BusInv
  <2>2. CASE ~m.bad
    <3>1. Seen' = Append(Seen, x) /\ Seen \in Seq(Heard)
      BY <1>4, <1>5, <1>7, <1>8, <2>2 DEF x
    <3>2. QED
      BY <1>5, <1>6, <3>1, ToldOne DEF BusInv
  <2>3. QED
    BY <2>1, <2>2
<1>10. Replied(stream, answers, parsed + 1)
  <2>1. 0 # 0 => 0 = parsed + 1 /\ stream[parsed + 1].re = Len(answers) + 1
    OBVIOUS
  <2>2. QED
    BY <1>5, <2>1, RepliedOne DEF BusInv
<1>11. BusTypes' /\ CallsOK' /\ End' = End
  BY <1>1, <1>2, <1>4, <1>8 DEF BusInv, BusTypes, CallsOK, End, q
<1>12. QED
  BY <1>1, <1>2, <1>4, <1>9, <1>10, <1>11 DEF BusInv, q

\* Every step keeps the invariant.
LEMMA NextInv == ASSUME BusAssumption, BusInv, [BusNext]_busVars PROVE BusInv'
<1>1. ASSUME NEW from \in {"bus", "peer"}, NEW bad \in BOOLEAN, NEW size \in 1..MaxSize, NEW fds \in 0..1,
             BusSends(from, bad, size, fds)
      PROVE  BusInv'
  <2>1. size \in Nat \ {0}
    BY DEF BusAssumption
  <2>2. QED
    BY <1>1, <2>1, Sends DEF BusSends
<1>2. ASSUME NEW s \in 1..MaxSetupCalls, NEW bad \in BOOLEAN, NEW fds \in 0..1, BusAnswers(s, bad, fds)
      PROVE  BusInv'
  <2>1. s \in Nat
    BY DEF BusAssumption
  <2>2. QED
    BY <1>2, <2>1, Sends DEF BusAnswers
<1>3. ASSUME NEW n \in 1..(MaxMessages * MaxSize), Fill(n) PROVE BusInv'
  <2>1. MaxMessages * MaxSize \in Nat
    BY DEF BusAssumption
  <2>2. n \in Nat \ {0}
    BY <2>1
  <2>3. QED
    BY <1>3, <2>2, Fills
<1>4. CASE CallFds
  <2>1. BusTypes' /\ CallsOK'
    BY <1>4 DEF BusInv, BusTypes, CallsOK, CallFds
  <2>2. QED
    BY <1>4, <2>1 DEF BusInv, CallFds, End, Seen
<1>5. CASE StartReading
  <2>1. BusTypes' /\ CallsOK'
    BY <1>5 DEF BusInv, BusTypes, CallsOK, StartReading
  <2>2. QED
    BY <1>5, <2>1 DEF BusInv, StartReading, End, Seen
<1>6. CASE CallReads
  BY <1>6, CallTakes
<1>7. CASE RecvBacklog
  BY <1>7, BacklogTakes
<1>8. CASE Recv
  BY <1>8, RecvTakes
<1>9. CASE UNCHANGED busVars
  BY <1>9 DEF busVars, BusInv, BusTypes, CallsOK, End, Seen
<1>10. QED
  BY <1>1, <1>2, <1>3, <1>4, <1>5, <1>6, <1>7, <1>8, <1>9 DEF BusNext

\* The reader of a connection gets all that the bus says and can be decoded, in order
\* and once, although `call` has read some of it; a call gets its own answer; and
\* every message has its own descriptors, those after one that cannot be decoded
\* too (Conn::call, Conn::recv, Conn::read_one).
THEOREM BusHeardHolds == ASSUME BusAssumption PROVE BusSpec => []BusHeard
<1>1. BusInv => BusHeard
  <2> SUFFICES ASSUME BusInv PROVE BusHeard
    OBVIOUS
  <2>1. /\ Seen \in Seq(Heard) /\ answers \in Seq(Nat) /\ failed = FALSE
        /\ Told(stream, Seen, parsed) /\ Replied(stream, answers, parsed)
    BY DEF BusInv, BusTypes, Seen
  <2>2. PICK s \in Seq(Heard) : s = got \o backlog
    BY <2>1 DEF Seen
  <2>3. DOMAIN s = 1..Len(s) /\ Len(s) \in Nat /\ DOMAIN answers = 1..Len(answers)
    BY <2>1
  <2>4. Told(stream, s, parsed)
    BY <2>1, <2>2 DEF Seen
  <2>5. \A i \in DOMAIN s : s[i].fds = [j \in 1..stream[s[i].id].fds |-> s[i].id]
    BY <2>3, <2>4 DEF Told, Own
  <2>6. \A i \in 1..(Len(s) - 1) : s[i].id < s[i + 1].id
    <3> TAKE i \in 1..(Len(s) - 1)
    <3>1. i \in 1..Len(s) /\ i + 1 \in 1..Len(s) /\ i < i + 1
      BY ONLY <2>3, i \in 1..(Len(s) - 1)
    <3>2. QED
      BY <2>4, <3>1 DEF Told
  <2>7. \A k \in 1..parsed : stream[k].from = "bus" /\ ~stream[k].bad => k \in {s[i].id : i \in DOMAIN s}
    BY <2>3, <2>4 DEF Told, Says
  <2>8. \A c \in DOMAIN answers : answers[c] # 0 => stream[answers[c]].re = c
    BY <2>1, <2>3 DEF Replied
  <2>9. QED
    <3>1. failed = FALSE
      BY <2>1
    <3>2. QED
      BY ONLY <2>2, <2>5, <2>6, <2>7, <2>8, <3>1, ZenonT(60) DEF BusHeard
<1>2. QED
  BY BusInvStarts, NextInv, <1>1, PTL DEF BusSpec

-----------------------------------------------------------------------------
(* The portal policy (Portal). *)

\* The path of a request of an app's, on either bus.
Handle(seg, token) == Path("request", seg, token)

\* What a host connection may have to read: an answer with the path of a request of this
\* connection or none, or a signal, a Response being about such a request.
Paths == [kind : Objects \cup {"none"}, seg : {HostSeg[c] : c \in Client} \cup {0}, token : Token \cup {0, 1}]
Messages(c) ==
  {m \in [type : {"reply", "signal"}, from : {"portal", "other"},
          iface : {"none", "Response", "Properties", "Notifications", "portal", "Other"},
          path : Paths, id : Nat, uris : SUBSET {HostUri(f) : f \in File}] :
     /\ m.type = "reply" => m.path = NoPath \/ \E token \in Token : m.path = Handle(HostSeg[c], token)
     /\ m.iface = "Response" => m.from = "portal" /\ \E token \in Token : m.path = Handle(HostSeg[c], token)}
PortalTypes ==
  /\ forwarded \in Nat
  /\ \A r \in atPortal : r.client \in Client /\ r.id \in Nat
  /\ \A r \in requests : r.client \in Client /\ \E token \in Token : r.path = Handle(HostSeg[r.client], token)
  /\ DOMAIN inbox = Client /\ \A c \in Client : inbox[c] \in Seq(Messages(c))

\* A call that waits for its reply has an id of its own.
PendingOwn ==
  /\ \A p \in pending : p.id \in Nat /\ p.id <= forwarded
  /\ \A p, q \in pending : p.id = q.id => p = q

\* A handle an app was given is recorded under the request's path on the host bus when it
\* asked for files, and each path once.
AsksFor(c, token, asks) == [client |-> c, path |-> Handle(HostSeg[c], token), kind |-> asks]
ToldRecorded ==
  /\ \A t \in told : \E token \in Token :
       /\ t.path = Handle(PrivateSeg[t.client], token)
       /\ t.asks # "none" => AsksFor(t.client, token, t.asks) \in fileRequests
  /\ \A t, u \in told : t.client = u.client /\ t.path = u.path => t = u
RecordedOnce == \A f, g \in fileRequests : f.client = g.client /\ f.path = g.path => f = g

\* The inductive invariant.
PortalInv == PortalTypes /\ PendingOwn /\ ToldRecorded /\ RecordedOnce /\ ResultsFit

\* The paths of a request on the two buses.
LEMMA HandleIs ==
  ASSUME NEW c \in Client, NEW token \in Token
  PROVE  /\ SwapSender(Handle(HostSeg[c], token), HostSeg[c], PrivateSeg[c]) = Handle(PrivateSeg[c], token)
         /\ Handle(HostSeg[c], token) \in Paths /\ Handle(HostSeg[c], token) # NoPath
         /\ Handle(PrivateSeg[c], token).seg = PrivateSeg[c]
<1>1. Handle(HostSeg[c], token) = [kind |-> "request", seg |-> HostSeg[c], token |-> token]
  BY DEF Handle, Path
<1>2. Handle(PrivateSeg[c], token) = [kind |-> "request", seg |-> PrivateSeg[c], token |-> token]
  BY DEF Handle, Path
<1>3. SwapSender(Handle(HostSeg[c], token), HostSeg[c], PrivateSeg[c]) = Handle(PrivateSeg[c], token)
  BY <1>1, <1>2 DEF SwapSender
<1>4. NoPath = [kind |-> "none", seg |-> 0, token |-> 0]
  BY DEF NoPath, Path
<1>5. QED
  BY <1>1, <1>2, <1>3, <1>4 DEF Paths, Objects

\* Two requests of a connection have different tokens.
LEMMA HandlesDiffer ==
  ASSUME NEW s, NEW t, NEW token, Handle(s, t) = Handle(s, token)
  PROVE  t = token
<1>1. Handle(s, t).token = t /\ Handle(s, token).token = token
  BY DEF Handle, Path
<1>2. QED
  BY <1>1

\* No path stays none.
LEMMA NoPathIs ==
  ASSUME NEW a, NEW b
  PROVE  SwapSender(NoPath, a, b) = NoPath /\ NoPath \in Paths
  BY DEF SwapSender, NoPath, Path, Paths

\* Something more for a connection to read.
LEMMA InboxGrows ==
  ASSUME PortalTypes, NEW c \in Client, NEW m \in Messages(c),
         inbox' = [inbox EXCEPT ![c] = Append(@, m)]
  PROVE  DOMAIN inbox' = Client /\ \A x \in Client : inbox'[x] \in Seq(Messages(x))
<1>1. Append(inbox[c], m) \in Seq(Messages(c))
  BY DEF PortalTypes
<1>2. DOMAIN inbox' = Client /\ inbox'[c] = Append(inbox[c], m) /\ \A x \in Client : x # c => inbox'[x] = inbox[x]
  BY DEF PortalTypes
<1>3. QED
  BY <1>1, <1>2 DEF PortalTypes

\* A connection reads the first of what it has.
LEMMA InboxRead ==
  ASSUME PortalTypes, NEW c \in Client, inbox[c] # <<>>, Read(c)
  PROVE  /\ DOMAIN inbox' = Client /\ \A x \in Client : inbox'[x] \in Seq(Messages(x))
         /\ Head(inbox[c]) \in Messages(c)
<1>1. inbox[c] \in Seq(Messages(c))
  BY DEF PortalTypes
<1>2. Tail(inbox[c]) \in Seq(Messages(c)) /\ Head(inbox[c]) \in Messages(c)
  BY <1>1
<1>3. DOMAIN inbox' = Client /\ inbox'[c] = Tail(inbox[c]) /\ \A x \in Client : x # c => inbox'[x] = inbox[x]
  BY DEF PortalTypes, Read
<1>4. QED
  BY <1>2, <1>3 DEF PortalTypes

\* The portal and the user answer: something to read.
LEMMA ReplyFits ==
  ASSUME NEW c \in Client, NEW id \in Nat, NEW p,
         p = NoPath \/ \E token \in Token : p = Handle(HostSeg[c], token)
  PROVE  Reply(id, p) \in Messages(c)
<1>1. p \in Paths
  BY HandleIs, NoPathIs
<1>2. Reply(id, p) = [type |-> "reply", from |-> "portal", iface |-> "none", path |-> p, id |-> id, uris |-> {}]
  BY DEF Reply
<1>3. QED
  BY <1>1, <1>2 DEF Messages

\* The steps that leave what apps were given and what is recorded of it.
LEMMA ToldStays ==
  ASSUME PortalInv, UNCHANGED <<told, fileRequests, seen>>
  PROVE  ToldRecorded' /\ RecordedOnce' /\ ResultsFit'
  BY DEF PortalInv, ToldRecorded, RecordedOnce, ResultsFit

\* A call is sent on with an id that none has, or answered by the gateway.
LEMMA CallsKeep ==
  ASSUME PortalInv, NEW c \in Client, NEW v, NEW token, NEW expects, Calls(c, v, token, expects)
  PROVE  PortalInv'
<1>1. CASE SendHost(c, v, token, expects)
  <2>1. forwarded \in Nat /\ forwarded' = forwarded + 1
    BY <1>1 DEF SendHost, PortalInv, PortalTypes
  <2>2. PortalTypes'
    BY <1>1, <2>1 DEF SendHost, PortalInv, PortalTypes
  <2>3. PendingOwn'
    <3>1. \A p \in pending : p.id \in Nat /\ p.id <= forwarded /\ p.id # forwarded + 1
      BY <2>1 DEF PortalInv, PendingOwn
    <3> DEFINE new == [client |-> c, id |-> forwarded + 1, file |-> v.file]
    <3>2. new.id = forwarded + 1
      OBVIOUS
    <3>3. \A p \in pending' : p \in pending \/ p = new
      BY <1>1 DEF SendHost
    <3> HIDE DEF new
    <3>4. \A p \in pending' : p.id \in Nat /\ p.id <= forwarded'
      BY <2>1, <3>1, <3>2, <3>3
    <3>5. \A p, q \in pending' : p.id = q.id => p = q
      BY <3>1, <3>2, <3>3 DEF PortalInv, PendingOwn
    <3>6. QED
      BY <3>4, <3>5 DEF PendingOwn
  <2>4. QED
    BY <1>1, <2>2, <2>3, ToldStays DEF SendHost, PortalInv
<1>2. CASE Refuse
  <2>1. ResultsFit'
    BY <1>2 DEF Refuse, ResultsFit, Nothing, Note
  <2>2. QED
    BY <1>2, <2>1 DEF Refuse, PortalInv, PortalTypes, PendingOwn, ToldRecorded, RecordedOnce
<1>3. QED
  BY <1>1, <1>2 DEF Calls

\* An app closes a request: its handle is forgotten.
LEMMA ClosesKeep ==
  ASSUME PortalInv, NEW c \in Client, NEW path, Closes(c, path)
  PROVE  PortalInv'
<1>1. /\ requests' \subseteq requests /\ told' \subseteq told
      /\ UNCHANGED <<forwarded, pending, fileRequests, atPortal, inbox, seen>>
  BY DEF Closes
<1>2. QED
  BY <1>1 DEF PortalInv, PortalTypes, PendingOwn, ToldRecorded, RecordedOnce, ResultsFit

\* The portal answers a call, with the path of a request of the connection's or without.
LEMMA PortalKeeps ==
  ASSUME PortalInv, NEW r \in atPortal,
         Answers(r) \/ \E token \in Token : Opens(r, token)
  PROVE  PortalInv'
<1>1. r.client \in Client /\ r.id \in Nat
  BY DEF PortalInv, PortalTypes
<1>2. CASE Answers(r)
  <2>1. Reply(r.id, NoPath) \in Messages(r.client)
    BY <1>1, ReplyFits
  <2>2. DOMAIN inbox' = Client /\ \A x \in Client : inbox'[x] \in Seq(Messages(x))
    BY <1>1, <1>2, <2>1, InboxGrows DEF Answers, PortalInv
  <2>3. PortalTypes'
    BY <1>2, <2>2 DEF Answers, PortalInv, PortalTypes
  <2>4. QED
    BY <1>2, <2>3, ToldStays DEF Answers, PortalInv, PendingOwn
<1>3. ASSUME NEW token \in Token, Opens(r, token)
      PROVE  PortalInv'
  <2> DEFINE p == Handle(HostSeg[r.client], token)
  <2>1. Reply(r.id, p) \in Messages(r.client)
    BY <1>1, ReplyFits
  <2>2. /\ inbox' = [inbox EXCEPT ![r.client] = Append(@, Reply(r.id, p))]
        /\ requests' = requests \cup {[client |-> r.client, path |-> p, asks |-> r.asks]}
        /\ atPortal' \subseteq atPortal
        /\ UNCHANGED <<forwarded, pending, fileRequests, told, seen>>
    BY <1>3 DEF Opens, Handle
  <2>3. DOMAIN inbox' = Client /\ \A x \in Client : inbox'[x] \in Seq(Messages(x))
    BY <1>1, <2>1, <2>2, InboxGrows DEF PortalInv
  <2>4. \A q \in requests' : q.client \in Client /\ \E t \in Token : q.path = Handle(HostSeg[q.client], t)
    BY <1>1, <2>2 DEF PortalInv, PortalTypes
  <2>5. PortalTypes'
    BY <2>2, <2>3, <2>4 DEF PortalInv, PortalTypes
  <2>6. QED
    BY <2>2, <2>5, ToldStays DEF PortalInv, PendingOwn
<1>4. QED
  BY <1>2, <1>3

\* The user answers a request, or a signal comes that is not about one.
LEMMA SignalsKeep ==
  ASSUME PortalInv, NEW c \in Client, NEW m \in Messages(c), forwarded' \in Nat,
         forwarded' >= forwarded,
         inbox' = [inbox EXCEPT ![c] = Append(@, m)], requests' \subseteq requests,
         UNCHANGED <<pending, fileRequests, atPortal, told, seen>>
  PROVE  PortalInv'
<1>1. DOMAIN inbox' = Client /\ \A x \in Client : inbox'[x] \in Seq(Messages(x))
  BY InboxGrows DEF PortalInv
<1>2. PortalTypes'
  BY <1>1 DEF PortalInv, PortalTypes
<1>3. PendingOwn'
  BY DEF PortalInv, PortalTypes, PendingOwn
<1>4. QED
  BY <1>2, <1>3, ToldStays DEF PortalInv

\* The user chooses files.
LEMMA RespondsKeeps ==
  ASSUME PortalInv, NEW r \in requests, NEW files \in SUBSET File, Responds(r, files)
  PROVE  PortalInv'
<1> DEFINE m == Signal("portal", "Response", r.path, {HostUri(f) : f \in files})
<1>1. r.client \in Client /\ \E token \in Token : r.path = Handle(HostSeg[r.client], token)
  BY DEF PortalInv, PortalTypes
<1>2. r.path \in Paths
  BY <1>1, HandleIs
<1>3. m = [type |-> "signal", from |-> "portal", iface |-> "Response", path |-> r.path, id |-> 0,
           uris |-> {HostUri(f) : f \in files}]
  BY DEF Signal
<1>4. {HostUri(f) : f \in files} \in SUBSET {HostUri(f) : f \in File}
  OBVIOUS
<1>5. m \in Messages(r.client)
  <2>1. m.type = "signal" /\ m.from = "portal" /\ m.path = r.path /\ m.iface = "Response"
    BY <1>3
  <2>2. m \in [type : {"reply", "signal"}, from : {"portal", "other"},
              iface : {"none", "Response", "Properties", "Notifications", "portal", "Other"},
              path : Paths, id : Nat, uris : SUBSET {HostUri(f) : f \in File}]
    BY <1>2, <1>3, <1>4
  <2> HIDE DEF m
  <2>3. QED
    BY <1>1, <2>1, <2>2 DEF Messages
<1>6. forwarded' \in Nat /\ forwarded' >= forwarded
  BY DEF Responds, PortalInv, PortalTypes
<1> HIDE DEF m
<1>7. inbox' = [inbox EXCEPT ![r.client] = Append(@, m)]
  BY DEF Responds, m
<1>8. QED
  BY <1>1, <1>5, <1>6, <1>7, SignalsKeep DEF Responds

\* A signal of a session of the portal's, or of another process.
LEMMA SignalsComeKeeps ==
  ASSUME PortalInv, NEW c \in Client, NEW from \in {"portal", "other"}, NEW object \in Objects,
         NEW iface \in {"Properties", "Notifications", "portal", "Other"}, Signals(c, from, object, iface)
  PROVE  PortalInv'
<1> DEFINE p == Path(object, HostSeg[c], 1)
           m == Signal(from, iface, p, {})
<1>1. p \in Paths
  BY DEF Path, Paths
<1> HIDE DEF p
<1>2. m = [type |-> "signal", from |-> from, iface |-> iface, path |-> p, id |-> 0, uris |-> {}]
  BY DEF Signal
<1>3. m \in Messages(c)
  BY <1>1, <1>2 DEF Messages
<1>4. forwarded \in Nat /\ forwarded' = forwarded + 1
  BY DEF Signals, PortalInv, PortalTypes
<1>5. forwarded' \in Nat /\ forwarded' >= forwarded
  BY <1>4
<1>6. inbox' = [inbox EXCEPT ![c] = Append(@, m)]
  BY DEF Signals, p
<1> HIDE DEF m
<1>7. QED
  BY <1>3, <1>5, <1>6, SignalsKeep DEF Signals

\* At most one call waits for a reply.
LEMMA WaitingIs ==
  ASSUME PortalInv, NEW c, NEW id
  PROVE  \A p, q \in {w \in pending : w.client = c /\ w.id = id} : p = q
  BY DEF PortalInv, PendingOwn

\* A reply is relayed: the app gets the handle, and the request is recorded when it is one
\* for files.
LEMMA RelayReplyKeeps ==
  ASSUME PortalInv, NEW c \in Client, RelayReply(c)
  PROVE  PortalInv'
<1> DEFINE m == Head(inbox[c])
           asked == {p \in pending : p.client = c /\ p.id = m.id}
           out == SwapSender(m.path, HostSeg[c], PrivateSeg[c])
           Rec(p) == [client |-> c, path |-> m.path, kind |-> p.file]
           New(p) == [client |-> c, path |-> out, asks |-> p.file]
<1>1. /\ DOMAIN inbox' = Client /\ \A x \in Client : inbox'[x] \in Seq(Messages(x))
      /\ m \in Messages(c)
  BY InboxRead DEF RelayReply, PortalInv
<1>2. /\ m.type = "reply" /\ pending' = pending \ asked
      /\ fileRequests' = (IF m.path # NoPath /\ \E p \in asked : p.file # "none"
                          THEN (fileRequests \ Recorded(c, m.path)) \cup {Rec(p) : p \in asked}
                          ELSE fileRequests)
      /\ told' = (told \ {t \in told : asked # {} /\ t.client = c /\ t.path = out})
                   \cup {New(p) : p \in {w \in asked : m.path # NoPath}}
      /\ seen' = (IF asked = {} THEN seen ELSE Note(c, "reply", out, {}, "portal", "none"))
      /\ UNCHANGED <<forwarded, atPortal, requests>>
  BY DEF RelayReply
<1>3. m.path = NoPath \/ \E token \in Token : m.path = Handle(HostSeg[c], token)
  BY <1>1, <1>2 DEF Messages
<1>4. \A p, q \in asked : p = q
  BY WaitingIs
<1> HIDE DEF m, asked
<1>5. PortalTypes' /\ PendingOwn'
  BY <1>1, <1>2 DEF PortalInv, PortalTypes, PendingOwn
<1>6. ASSUME NEW token \in Token, m.path = Handle(HostSeg[c], token)
      PROVE  out = Handle(PrivateSeg[c], token) /\ m.path # NoPath /\ out.seg = PrivateSeg[c]
  BY <1>6, HandleIs
<1>7. ResultsFit'
  <2>1. CASE asked = {}
    BY <1>2, <2>1 DEF PortalInv, ResultsFit
  <2>2. CASE asked # {}
    <3>1. seen' = [client |-> c, type |-> "reply", path |-> out, uris |-> {}, from |-> "portal", asks |-> "none"]
      BY <1>2, <2>2 DEF Note
    <3>2. out # NoPath => out.seg = PrivateSeg[c]
      BY <1>3, <1>6, NoPathIs
    <3> HIDE DEF out
    <3>3. QED
      BY <3>1, <3>2 DEF ResultsFit
  <2>3. QED
    BY <2>1, <2>2
<1>8. RecordedOnce'
  <2>1. \A f \in fileRequests' : f \in fileRequests \/ (f.client = c /\ f.path = m.path /\ \E p \in asked : f = Rec(p))
    BY <1>2
  <2>2. CASE fileRequests' = fileRequests
    BY <2>2 DEF PortalInv, RecordedOnce
  <2>3. CASE fileRequests' # fileRequests
    <3>1. fileRequests' = (fileRequests \ Recorded(c, m.path)) \cup {Rec(p) : p \in asked}
      BY <1>2, <2>3
    <3>2. \A f \in fileRequests' : \/ f \in fileRequests /\ ~(f.client = c /\ f.path = m.path)
                                   \/ f.client = c /\ f.path = m.path /\ \E p \in asked : f = Rec(p)
      BY <3>1 DEF Recorded
    <3>3. \A p, q \in asked : Rec(p) = Rec(q)
      BY <1>4
    <3> HIDE DEF Rec
    <3>4. QED
      BY <3>2, <3>3 DEF PortalInv, RecordedOnce
  <2>4. QED
    BY <2>2, <2>3
<1>9. ToldRecorded'
  <2>1. CASE asked = {}
    BY <1>2, <2>1 DEF PortalInv, ToldRecorded
  <2>2. CASE asked # {} /\ m.path = NoPath
    <3>1. told' \subseteq told /\ fileRequests' = fileRequests
      BY <1>2, <2>2
    <3>2. QED
      BY <3>1 DEF PortalInv, ToldRecorded
  <2>3. ASSUME asked # {}, NEW token \in Token, m.path = Handle(HostSeg[c], token)
        PROVE  ToldRecorded'
    <3>1. PICK w \in asked : \A p \in asked : p = w
      BY <1>4, <2>3
    <3>2. out = Handle(PrivateSeg[c], token) /\ m.path # NoPath
      BY <1>6, <2>3
    <3>3. asked = {w}
      BY <3>1
    <3>4. told' = (told \ {t \in told : t.client = c /\ t.path = out}) \cup {New(w)}
      BY <1>2, <3>2, <3>3
    <3>5. New(w).client = c /\ New(w).path = out /\ New(w).asks = w.file
      OBVIOUS
    <3>6. fileRequests' = IF w.file # "none" THEN (fileRequests \ Recorded(c, m.path)) \cup {AsksFor(c, token, w.file)}
                          ELSE fileRequests
      <4>1. Rec(w) = AsksFor(c, token, w.file)
        BY <2>3 DEF AsksFor
      <4> HIDE DEF Rec
      <4>2. QED
        BY <1>2, <3>2, <3>3, <4>1
    <3>7. \A t \in told' : t = New(w) \/ (t \in told /\ ~(t.client = c /\ t.path = out))
      BY <3>4
    <3> HIDE DEF New, out
    <3>8. ASSUME NEW t \in told'
          PROVE  \E k \in Token : /\ t.path = Handle(PrivateSeg[t.client], k)
                                  /\ t.asks # "none" => AsksFor(t.client, k, t.asks) \in fileRequests'
      <4>1. CASE t = New(w)
        BY <3>2, <3>5, <3>6, <4>1
      <4>2. CASE t \in told /\ ~(t.client = c /\ t.path = out)
        <5>1. PICK k \in Token : /\ t.path = Handle(PrivateSeg[t.client], k)
                                 /\ t.asks # "none" => AsksFor(t.client, k, t.asks) \in fileRequests
          BY <4>2 DEF PortalInv, ToldRecorded
        <5>2. AsksFor(t.client, k, t.asks) \notin Recorded(c, m.path)
          <6>1. t.client = c => k # token
            BY <3>2, <4>2, <5>1
          <6>2. t.client = c => Handle(HostSeg[c], k) # m.path
            BY <2>3, <6>1, HandlesDiffer
          <6>3. QED
            BY <6>2 DEF AsksFor, Recorded
        <5>3. QED
          BY <3>6, <5>1, <5>2
      <4>3. QED
        BY <3>7, <4>1, <4>2
    <3>9. \A t, u \in told' : t.client = u.client /\ t.path = u.path => t = u
      BY <3>5, <3>7 DEF PortalInv, ToldRecorded
    <3>10. QED
      BY <3>8, <3>9 DEF ToldRecorded
  <2>4. QED
    BY <1>3, <2>1, <2>2, <2>3
<1>10. QED
  BY <1>5, <1>7, <1>8, <1>9 DEF PortalInv

\* A signal is relayed: what a Response says of files is mapped by what the app asked for.
LEMMA RelaySignalKeeps ==
  ASSUME PortalInv, NEW c \in Client, NEW hidden, RelaySignal(c, hidden)
  PROVE  PortalInv'
<1> DEFINE m == Head(inbox[c])
           response == m.iface = "Response"
           kinds == IF response THEN Kind(c, m.path) ELSE {}
           uris == IF kinds = {} THEN m.uris
                   ELSE LET k == CHOOSE f \in kinds : TRUE IN MapFileResults(m.uris, k.kind, hidden)
           out == SwapSender(m.path, HostSeg[c], PrivateSeg[c])
           asks == IF AskedFor(c, out) = {} THEN "none" ELSE CHOOSE a \in AskedFor(c, out) : TRUE
           name == IF response THEN "response" ELSE "signal"
<1>1. /\ DOMAIN inbox' = Client /\ \A x \in Client : inbox'[x] \in Seq(Messages(x))
      /\ m \in Messages(c)
  BY InboxRead DEF RelaySignal, PortalInv
<1>2. /\ UNCHANGED <<forwarded, pending, atPortal, requests>>
      /\ \/ UNCHANGED <<seen, fileRequests, told>>
         \/ /\ m.from = "portal" /\ seen' = Note(c, name, out, uris, m.from, asks)
            /\ fileRequests' = fileRequests \ kinds
            /\ told' = IF response THEN {t \in told : t.client # c \/ t.path # out} ELSE told
  BY DEF RelaySignal
<1>3. PortalTypes' /\ PendingOwn'
  BY <1>1, <1>2 DEF PortalInv, PortalTypes, PendingOwn
<1>4. CASE UNCHANGED <<seen, fileRequests, told>>
  BY <1>3, <1>4, ToldStays DEF PortalInv
<1>5. CASE /\ m.from = "portal" /\ seen' = Note(c, name, out, uris, m.from, asks)
           /\ fileRequests' = fileRequests \ kinds
           /\ told' = IF response THEN {t \in told : t.client # c \/ t.path # out} ELSE told
  <2>1. seen' = [client |-> c, type |-> name, path |-> out, uris |-> uris, from |-> "portal", asks |-> asks]
    BY <1>5 DEF Note
  <2>2. CASE ~response
    <3>1. name = "signal" /\ kinds = {} /\ told' = told /\ fileRequests' = fileRequests
      BY <1>5, <2>2
    <3> HIDE DEF name, out, uris, asks
    <3>2. ResultsFit'
      BY <2>1, <3>1 DEF ResultsFit
    <3>3. QED
      BY <1>3, <3>1, <3>2 DEF PortalInv, ToldRecorded, RecordedOnce
  <2>3. CASE response
    <3>1. PICK token \in Token : m.path = Handle(HostSeg[c], token)
      BY <1>1, <2>3 DEF Messages
    <3>2. out = Handle(PrivateSeg[c], token) /\ out.seg = PrivateSeg[c]
      BY <3>1, HandleIs
    <3>3. kinds = {f \in fileRequests : f.client = c /\ f.path = m.path} /\ name = "response"
      BY <2>3 DEF Kind, Recorded
    <3>4. told' = {t \in told : t.client # c \/ t.path # out} /\ fileRequests' = fileRequests \ kinds
      BY <1>5, <2>3
    <3>5. ASSUME asks # "none"
          PROVE  \A u \in uris : u.exposed /\ (u.writable <=> asks = "Save")
      <4>1. PICK t \in told : t.client = c /\ t.path = out /\ t.asks = asks
        BY <3>5 DEF AskedFor
      <4>2. PICK k \in Token : /\ t.path = Handle(PrivateSeg[c], k)
                               /\ t.asks # "none" => AsksFor(c, k, t.asks) \in fileRequests
        BY <4>1 DEF PortalInv, ToldRecorded
      <4>3. k = token
        BY <3>2, <4>1, <4>2, HandlesDiffer
      <4> DEFINE rec == AsksFor(c, token, asks)
      <4>4. rec.client = c /\ rec.path = m.path /\ rec.kind = asks
        BY <3>1 DEF AsksFor
      <4>5. rec \in kinds
        BY <3>3, <3>5, <4>1, <4>2, <4>3, <4>4
      <4>6. \A f \in kinds : f = rec
        BY <3>3, <4>4, <4>5 DEF PortalInv, RecordedOnce
      <4> HIDE DEF rec, kinds, asks, m
      <4>7. (CHOOSE f \in kinds : TRUE) = rec
        BY <4>5, <4>6
      <4>8. uris = MapFileResults(m.uris, asks, hidden)
        BY <4>4, <4>5, <4>7
      <4>9. \A u \in MapFileResults(m.uris, asks, hidden) : \E f : u = FileUri(f, TRUE, asks = "Save")
        BY DEF MapFileResults
      <4>10. \A f : FileUri(f, TRUE, asks = "Save").exposed /\ (FileUri(f, TRUE, asks = "Save").writable <=> asks = "Save")
        BY DEF FileUri
      <4>11. ASSUME NEW u \in uris
             PROVE  u.exposed /\ (u.writable <=> asks = "Save")
        <5>1. PICK f : u = FileUri(f, TRUE, asks = "Save")
          BY <4>8, <4>9
        <5> HIDE DEF uris
        <5>2. QED
          BY <4>10, <5>1, Zenon
      <4>12. QED
        BY <4>11
    <3> HIDE DEF name, out, uris, asks, kinds
    <3>6. ResultsFit'
      BY <2>1, <3>2, <3>3, <3>5 DEF ResultsFit
    <3>7. RecordedOnce'
      BY <3>4 DEF PortalInv, RecordedOnce
    <3>8. ToldRecorded'
      <4>1. ASSUME NEW t \in told'
            PROVE  \E k \in Token : /\ t.path = Handle(PrivateSeg[t.client], k)
                                    /\ t.asks # "none" => AsksFor(t.client, k, t.asks) \in fileRequests'
        <5>1. t \in told /\ ~(t.client = c /\ t.path = out)
          BY <3>4
        <5>2. PICK k \in Token : /\ t.path = Handle(PrivateSeg[t.client], k)
                                 /\ t.asks # "none" => AsksFor(t.client, k, t.asks) \in fileRequests
          BY <5>1 DEF PortalInv, ToldRecorded
        <5>3. t.client = c => Handle(HostSeg[c], k) # m.path
          BY <3>1, <3>2, <5>1, <5>2, HandlesDiffer
        <5>4. AsksFor(t.client, k, t.asks) \notin kinds
          BY <3>3, <5>3 DEF AsksFor
        <5>5. QED
          BY <3>4, <5>2, <5>4
      <4>2. \A t, u \in told' : t.client = u.client /\ t.path = u.path => t = u
        BY <3>4 DEF PortalInv, ToldRecorded
      <4>3. QED
        BY <4>1, <4>2 DEF ToldRecorded
    <3>9. QED
      BY <1>3, <3>6, <3>7, <3>8 DEF PortalInv
  <2>4. QED
    BY <2>2, <2>3
<1>6. QED
  BY <1>2, <1>4, <1>5

(* What an app hears of a request is what it asked for, for any apps, requests and files,    *)
(* in whatever order they are answered (forward, relay_reply, relay_signal).                 *)
THEOREM ResultsFitHolds == PortalSpec => []ResultsFit
<1>1. PortalInit => PortalInv
  <2> SUFFICES ASSUME PortalInit
               PROVE  PortalInv
    OBVIOUS
  <2>1. PortalTypes
    BY DEF PortalInit, PortalTypes
  <2>2. ResultsFit
    BY DEF PortalInit, ResultsFit, Nothing, Note
  <2>3. QED
    BY <2>1, <2>2 DEF PortalInit, PortalInv, PendingOwn, ToldRecorded, RecordedOnce
<1>2. PortalInv /\ [PortalNext]_portalVars => PortalInv'
  <2> SUFFICES ASSUME PortalInv, [PortalNext]_portalVars
               PROVE  PortalInv'
    OBVIOUS
  <2>1. CASE \E c \in Client, v \in Verdicts, token \in Token, expects \in BOOLEAN : Calls(c, v, token, expects)
    BY <2>1, CallsKeep
  <2>2. CASE \E c \in Client, token \in Token : Closes(c, Path("request", PrivateSeg[c], token))
    BY <2>2, ClosesKeep
  <2>3. CASE (\E r \in atPortal, token \in Token : Opens(r, token)) \/ (\E r \in atPortal : Answers(r))
    BY <2>3, PortalKeeps
  <2>4. CASE \E r \in requests, files \in SUBSET File : Responds(r, files)
    BY <2>4, RespondsKeeps
  <2>5. CASE \E c \in Client, from \in {"portal", "other"}, object \in Objects,
                iface \in {"Properties", "Notifications", "portal", "Other"} : Signals(c, from, object, iface)
    BY <2>5, SignalsComeKeeps
  <2>6. CASE \E c \in Client : RelayReply(c)
    BY <2>6, RelayReplyKeeps
  <2>7. CASE \E c \in Client, hidden \in SUBSET File : RelaySignal(c, hidden)
    BY <2>7, RelaySignalKeeps
  <2>8. CASE UNCHANGED portalVars
    BY <2>8 DEF portalVars, PortalInv, PortalTypes, PendingOwn, ToldRecorded, RecordedOnce,
       ResultsFit
  <2>9. QED
    BY <2>1, <2>2, <2>3, <2>4, <2>5, <2>6, <2>7, <2>8 DEF PortalNext
<1>3. PortalInv => ResultsFit
  BY DEF PortalInv
<1>4. QED
  BY <1>1, <1>2, <1>3, PTL DEF PortalSpec

-----------------------------------------------------------------------------
(* The installation of desktop entries (Install). *)

States == {"missing", "broken", "ok"}
Wishes == {"none", "scratch", "copy"}

\* A file is one psbox wrote for a sandbox, one without a tag, or none of its own.
IsContent(c) ==
  /\ c = [kind |-> c.kind, by |-> c.by, ver |-> c.ver, from |-> c.from]
  /\ c.kind \in {"absent", "foreign", "unreadable", "untagged", "psbox"}
  /\ c.kind = "absent" => c = Absent
  /\ c.kind = "psbox" => c.by \in Sandboxes

InstallTypes ==
  /\ config \in [Sandboxes -> [state : States, ver : Nat, entry : [Entry -> Wishes]]]
  /\ disk = [f \in Entry |-> disk[f]] /\ before = [f \in Entry |-> before[f]]
  /\ \A f \in Entry : IsContent(disk[f]) /\ IsContent(before[f])
  /\ report = [added |-> report.added, updated |-> report.updated, unchanged |-> report.unchanged,
               removed |-> report.removed, skipped |-> report.skipped]
  /\ step \in {"off", "loaded", "writing", "done"}
  /\ \A g \in generated : g.path \in Entry /\ IsContent(g.body)

\* What was loaded is what the configs ask for.
LoadedRight ==
  /\ specs = [s \in Sandboxes |-> IF s \in Loaded THEN config[s] ELSE NoSpecs[s]]
  /\ failedSandboxes = NotLoading

\* What was generated is what should be there of it.
GeneratedRight ==
  /\ \A g \in generated : Best(g.path, g.body)
  /\ \A g, h \in generated : g.path = h.path => g = h
  /\ \A f \in Entry : Could(f) => \E g \in generated : g.path = f
  /\ \A f \in Entry : /\ f \in notGenerated => \E s \in Sandboxes : Wants(s, f)
                      /\ (\E s \in Sandboxes : Wants(s, f)) /\ ~Could(f) => f \in notGenerated

\* The files written so far, and the others as they were.
WrittenRight ==
  /\ report.removed = {}
  /\ \A f \in Entry \ Settled : disk[f] = before[f]
  /\ \A f \in Settled : \E g \in generated :
       /\ g.path = f
       /\ f \in report.added => before[f] = Absent
       /\ f \in report.updated => IsGenerated(before[f]) /\ before[f] # g.body
       /\ f \in report.added \cup report.updated => disk[f] = IF dryRun THEN before[f] ELSE g.body
       /\ f \in report.unchanged => before[f] = g.body /\ disk[f] = g.body
       /\ f \in report.skipped => Theirs(f) /\ disk[f] = before[f]

InstallInv ==
  /\ InstallTypes
  /\ undisturbed =>
       /\ step # "off" /\ LoadedRight
       /\ step = "loaded" => disk = before /\ report = NoReport
       /\ step = "writing" => GeneratedRight /\ WrittenRight
  /\ EntriesFollow

-----------------------------------------------------------------------------
(* Generating. *)

\* The kinds a file is of.
LEMMA ContentIs ==
  ASSUME NEW c, IsContent(c)
  PROVE  /\ (~IsGenerated(c) /\ c # Absent) <=> c.kind \in {"foreign", "unreadable"}
         /\ c = Absent <=> c.kind = "absent"
<1>1. Absent.kind = "absent"
  BY DEF Absent, Foreign
<1>2. QED
  BY <1>1 DEF IsContent, IsGenerated

\* Where an entry is looked for.
LEMMA SearchIs ==
  ASSUME NEW f \in Entry
  PROVE  /\ Len(Search(f)) \in Nat
         /\ \A i \in 1..Len(Search(f)) : Search(f)[i][1] \in Entry /\ Search(f)[i][2] \in {"own", "host"}
<1>1. CASE f = "app"
  <2>1. Search(f) = <<<<"app", "own">>, <<"app", "host">>>>
    BY <1>1 DEF Search
  <2>2. QED
    BY <2>1 DEF Entry
<1>2. CASE f = "auto"
  <2>1. Search(f) = <<<<"auto", "own">>, <<"auto", "host">>, <<"app", "own">>, <<"app", "host">>>>
    BY <1>2 DEF Search
  <2>2. QED
    BY <2>1 DEF Entry
<1>3. QED
  BY <1>1, <1>2 DEF Entry

\* What is found is the first of the entries a copy may be made of.
LEMMA FoundIs ==
  ASSUME InstallTypes, disk = before, NEW f \in Entry
  PROVE  /\ FoundAt(f) = {i \in Sources(f) : \A j \in Sources(f) : i <= j}
         /\ Sources(f) \subseteq Nat
         /\ \A i \in FoundAt(f) :
              Readable(Search(f)[i]) <=> (Search(f)[i][2] = "own" => before[Search(f)[i][1]].kind = "foreign")
<1>1. /\ Len(Search(f)) \in Nat
      /\ \A i \in 1..Len(Search(f)) : Search(f)[i][1] \in Entry /\ Search(f)[i][2] \in {"own", "host"}
  BY SearchIs
<1>2. \A g \in Entry : /\ (~IsGenerated(before[g]) /\ before[g] # Absent) <=> before[g].kind \in {"foreign", "unreadable"}
                       /\ IsContent(before[g])
  BY ContentIs DEF InstallTypes
<1>3. \A i \in 1..Len(Search(f)) : i \in Sources(f) <=> IsHostEntry(Search(f)[i])
  BY <1>1, <1>2 DEF Sources, IsHostEntry
<1>4. Sources(f) \subseteq 1..Len(Search(f)) /\ FoundAt(f) \subseteq 1..Len(Search(f))
  BY DEF Sources, FoundAt
<1>5. \A i, j \in 1..Len(Search(f)) : (j \in 1..(i - 1) <=> ~(i <= j)) /\ i \in Nat
  BY <1>1
<1>6. \A i \in 1..Len(Search(f)) : \A j \in 1..(i - 1) : j \in 1..Len(Search(f))
  BY <1>1
<1>7. ASSUME NEW i \in 1..Len(Search(f))
      PROVE  i \in FoundAt(f) <=> i \in Sources(f) /\ \A j \in Sources(f) : i <= j
  <2>1. i \in FoundAt(f) <=> IsHostEntry(Search(f)[i]) /\ \A j \in 1..(i - 1) : ~IsHostEntry(Search(f)[j])
    BY DEF FoundAt
  <2>2. (\A j \in 1..(i - 1) : ~IsHostEntry(Search(f)[j])) <=> (\A j \in Sources(f) : i <= j)
    BY <1>3, <1>4, <1>5, <1>6
  <2>3. QED
    BY <1>3, <2>1, <2>2
<1>8. FoundAt(f) = {i \in Sources(f) : \A j \in Sources(f) : i <= j}
  BY <1>4, <1>7
<1>9. ASSUME NEW i \in FoundAt(f)
      PROVE  Readable(Search(f)[i]) <=> (Search(f)[i][2] = "own" => before[Search(f)[i][1]].kind = "foreign")
  <2>1. IsHostEntry(Search(f)[i]) /\ i \in 1..Len(Search(f))
    BY <1>4 DEF FoundAt
  <2>2. QED
    BY <1>1, <2>1 DEF IsHostEntry, Readable
<1>10. QED
  BY <1>4, <1>5, <1>8, <1>9

\* A copy can be made of what is found when it can be read.
LEMMA CopyableIs ==
  ASSUME InstallTypes, disk = before, NEW f \in Entry
  PROVE  Copyable(f) <=> \E i \in FoundAt(f) : Readable(Search(f)[i])
<1>1. /\ FoundAt(f) = {i \in Sources(f) : \A j \in Sources(f) : i <= j}
      /\ \A i \in FoundAt(f) :
           Readable(Search(f)[i]) <=> (Search(f)[i][2] = "own" => before[Search(f)[i][1]].kind = "foreign")
  BY FoundIs
<1>2. ASSUME Copyable(f)
      PROVE  \E i \in FoundAt(f) : Readable(Search(f)[i])
  <2>1. PICK i \in Sources(f) : /\ \A j \in Sources(f) : i <= j
                                /\ Search(f)[i][2] = "own" => before[Search(f)[i][1]].kind = "foreign"
    BY <1>2 DEF Copyable
  <2>2. i \in FoundAt(f)
    BY <1>1, <2>1
  <2>3. QED
    BY <1>1, <2>1, <2>2
<1>3. ASSUME NEW i \in FoundAt(f), Readable(Search(f)[i])
      PROVE  Copyable(f)
  <2>1. /\ i \in Sources(f) /\ \A j \in Sources(f) : i <= j
        /\ Search(f)[i][2] = "own" => before[Search(f)[i][1]].kind = "foreign"
    BY <1>1, <1>3
  <2>2. QED
    BY <2>1 DEF Copyable
<1>4. QED
  BY <1>2, <1>3

\* Whether a sandbox wants an entry, and what it can be made into.
LEMMA BuiltIs ==
  ASSUME InstallTypes, LoadedRight, disk = before, NEW s \in Sandboxes, NEW f \in Entry
  PROVE  /\ Claims(s, f) <=> Wants(s, f)
         /\ Built(s, f) # {} <=> Can(s, f)
         /\ \A b \in Built(s, f) :
              /\ b.kind = "psbox" /\ b.by = s /\ b.ver = config[s].ver /\ IsContent(b)
              /\ IF config[s].entry[f] = "scratch" THEN b.from = <<>>
                 ELSE \E i \in Sources(f) : b.from = Search(f)[i] /\ \A j \in Sources(f) : i <= j
         /\ \A b, c \in Built(s, f) : b = c
<1>1. config[s].state \in States /\ config[s].entry[f] \in Wishes
  BY DEF InstallTypes
<1>2. specs[s] = IF config[s].state = "ok" THEN config[s] ELSE NoSpecs[s]
  BY DEF LoadedRight, Loaded
<1>3. NoSpecs[s].entry[f] = "none"
  BY DEF NoSpecs, NoEntries, Config
<1>4. CASE ~Wants(s, f)
  <2>1. specs[s].entry[f] = "none"
    BY <1>2, <1>3, <1>4 DEF Wants
  <2>2. Built(s, f) = {}
    BY <2>1 DEF Built
  <2>3. QED
    BY <1>4, <2>1, <2>2 DEF Claims, Can
<1>5. CASE Wants(s, f)
  <2>1. specs[s] = config[s] /\ specs[s].entry[f] \in {"scratch", "copy"}
    BY <1>1, <1>2, <1>5 DEF Wants, Wishes
  <2>2. \A from : LET b == Body(s, specs[s].ver, from)
                  IN b.kind = "psbox" /\ b.by = s /\ b.ver = config[s].ver /\ b.from = from /\ IsContent(b)
    BY <2>1 DEF Body, IsContent
  <2>3. CASE specs[s].entry[f] = "scratch"
    <3>1. Built(s, f) = {Body(s, specs[s].ver, <<>>)}
      BY <2>3 DEF Built
    <3>2. QED
      BY <1>5, <2>1, <2>2, <2>3, <3>1 DEF Claims, Can
  <2>4. CASE specs[s].entry[f] = "copy"
    <3>1. Built(s, f) = {Body(s, specs[s].ver, Search(f)[i]) : i \in {i \in FoundAt(f) : Readable(Search(f)[i])}}
      BY <2>4 DEF Built
    <3>2. /\ FoundAt(f) = {i \in Sources(f) : \A j \in Sources(f) : i <= j}
          /\ Sources(f) \subseteq Nat
          /\ \A i \in FoundAt(f) :
               Readable(Search(f)[i]) <=> (Search(f)[i][2] = "own" => before[Search(f)[i][1]].kind = "foreign")
      BY FoundIs
    <3>3. Built(s, f) # {} <=> \E i \in FoundAt(f) : Readable(Search(f)[i])
      BY <3>1
    <3>4. Can(s, f) <=> Copyable(f)
      BY <1>5, <2>1, <2>4 DEF Can
    <3>5. Built(s, f) # {} <=> Can(s, f)
      BY <3>3, <3>4, CopyableIs
    <3>6. \A i, j \in FoundAt(f) : i = j
      BY <3>2
    <3>7. \A b, c \in Built(s, f) : b = c
      BY <3>1, <3>6
    <3>8. ASSUME NEW b \in Built(s, f)
          PROVE  /\ b.kind = "psbox" /\ b.by = s /\ b.ver = config[s].ver /\ IsContent(b)
                 /\ \E i \in Sources(f) : b.from = Search(f)[i] /\ \A j \in Sources(f) : i <= j
      <4>1. PICK i \in FoundAt(f) : b = Body(s, specs[s].ver, Search(f)[i])
        BY <3>1
      <4>2. i \in Sources(f) /\ \A j \in Sources(f) : i <= j
        BY <3>2
      <4>3. QED
        BY <2>2, <4>1, <4>2
    <3>9. Claims(s, f) /\ config[s].entry[f] # "scratch"
      BY <2>1, <2>4 DEF Claims
    <3>10. QED
      BY <1>5, <3>5, <3>7, <3>8, <3>9
  <2>5. QED
    BY <2>1, <2>3, <2>4
<1>6. QED
  BY <1>4, <1>5

\* Of any sandboxes there is a first one.
LEMMA FirstOf ==
  ASSUME NEW some, some \subseteq Nat, some # {}
  PROVE  \E m \in some : \A n \in some : m <= n
<1> DEFINE Less == {ss \in Nat \X Nat : ss[1] < ss[2]}
<1>1. IsWellFoundedOn(Less, Nat)
  BY NatLessThanWellFounded DEF OpToRel
<1>2. PICK m \in some : \A n \in some : ~(<<n, m>> \in Less)
  <2> HIDE DEF Less
  <2>1. QED
    BY <1>1, WFMin
<1>3. ASSUME NEW n \in some
      PROVE  m <= n
  <2>1. <<n, m>> \in Nat \X Nat
    OBVIOUS
  <2>2. ~(n < m)
    BY <1>2, <2>1
  <2>3. QED
    BY <2>2
<1>4. QED
  BY <1>3

\* When nothing changed since the configs were loaded, the right entries are generated.
LEMMA GeneratesRight ==
  ASSUME InstallTypes, LoadedRight, disk = before, Generate
  PROVE  GeneratedRight'
<1>1. /\ generated' = Generated /\ notGenerated' = Failed
      /\ UNCHANGED <<config, hostEntry, before>>
  BY DEF Generate
<1>2. \A s \in Sandboxes, f \in Entry :
        /\ Claims(s, f) <=> Wants(s, f)
        /\ Built(s, f) # {} <=> Can(s, f)
        /\ \A b \in Built(s, f) :
             /\ b.kind = "psbox" /\ b.by = s /\ b.ver = config[s].ver /\ IsContent(b)
             /\ IF config[s].entry[f] = "scratch" THEN b.from = <<>>
                ELSE \E i \in Sources(f) : b.from = Search(f)[i] /\ \A j \in Sources(f) : i <= j
        /\ \A b, c \in Built(s, f) : b = c
  BY BuiltIs
<1>3. Sandboxes \subseteq Nat /\ \A s \in SUBSET Sandboxes : s # {} => \E r \in s : \A t \in s : r <= t
  BY InstallAssumption, FirstOf
<1>4. \A f \in Entry : \A s \in Firsts(f) : s \in Sandboxes /\ Can(s, f) /\ \A r \in Sandboxes : Can(r, f) => s <= r
  <2>1. ASSUME NEW f \in Entry, NEW s \in Firsts(f)
        PROVE  s \in Sandboxes /\ Can(s, f) /\ \A r \in Sandboxes : Can(r, f) => s <= r
    <3>1. s \in Sandboxes /\ Built(s, f) # {} /\ \A r \in Sandboxes : r < s => Built(r, f) = {}
      BY DEF Firsts
    <3>2. \A r \in Sandboxes : ~(r < s) => s <= r
      BY <1>3, <3>1
    <3>3. QED
      BY <1>2, <3>1, <3>2
  <2>2. QED
    BY <2>1
<1>5. \A f \in Entry : \A s, r \in Firsts(f) : s = r
  <2>1. ASSUME NEW f \in Entry, NEW s \in Firsts(f), NEW r \in Firsts(f)
        PROVE  s = r
    <3>1. s \in Nat /\ r \in Nat
      BY <1>3, <1>4
    <3>2. s <= r /\ r <= s
      BY <1>4
    <3>3. QED
      BY <3>1, <3>2
  <2>2. QED
    BY <2>1
<1>6. \A g : g \in Generated <=>
        \E f \in Entry : \E s \in Firsts(f) : \E b \in Built(s, f) : g = [path |-> f, body |-> b]
  BY DEF Generated
<1>7. ASSUME NEW g \in Generated
      PROVE  g.path \in Entry /\ Best(g.path, g.body) /\ IsContent(g.body)
  <2>1. PICK f \in Entry, s \in Sandboxes : s \in Firsts(f) /\ \E b \in Built(s, f) : g = [path |-> f, body |-> b]
    BY <1>6, <1>7 DEF Firsts
  <2>2. PICK b \in Built(s, f) : g = [path |-> f, body |-> b]
    BY <2>1
  <2>3. g.path = f /\ g.body = b
    BY <2>2
  <2>4. s \in Sandboxes /\ Can(s, f) /\ \A r \in Sandboxes : Can(r, f) => s <= r
    BY <1>4, <2>1
  <2>5. /\ b.kind = "psbox" /\ b.by = s /\ b.ver = config[s].ver /\ IsContent(b)
        /\ IF config[s].entry[f] = "scratch" THEN b.from = <<>>
           ELSE \E i \in Sources(f) : b.from = Search(f)[i] /\ \A j \in Sources(f) : i <= j
    BY <1>2, <2>2, <2>4
  <2>6. Best(f, b)
    BY <2>4, <2>5 DEF Best
  <2>7. QED
    BY <2>3, <2>5, <2>6
<1>8. ASSUME NEW g \in Generated, NEW h \in Generated, g.path = h.path
      PROVE  g = h
  <2>1. PICK f \in Entry, s \in Sandboxes : s \in Firsts(f) /\ \E b \in Built(s, f) : g = [path |-> f, body |-> b]
    BY <1>6, <1>8 DEF Firsts
  <2>2. PICK f2 \in Entry, s2 \in Sandboxes : s2 \in Firsts(f2) /\ \E b \in Built(s2, f2) : h = [path |-> f2, body |-> b]
    BY <1>6, <1>8 DEF Firsts
  <2>3. f2 = f
    BY <1>8, <2>1, <2>2
  <2>4. s2 = s /\ s \in Sandboxes
    BY <1>4, <1>5, <2>1, <2>2, <2>3
  <2>5. QED
    BY <1>2, <2>1, <2>2, <2>3, <2>4
<1>9. ASSUME NEW f \in Entry, Could(f)
      PROVE  \E g \in Generated : g.path = f
  <2> DEFINE able == {s \in Sandboxes : Can(s, f)}
  <2>1. able # {} /\ able \in SUBSET Sandboxes
    BY <1>9 DEF Could
  <2>2. PICK r \in able : \A t \in able : r <= t
    BY <1>3, <2>1
  <2>3. r \in Firsts(f)
    <3>1. r \in Sandboxes /\ Can(r, f) /\ r \in Nat
      BY <1>3, <2>2
    <3>2. \A t \in Sandboxes : t < r => ~Can(t, f)
      BY <1>3, <2>2, <3>1
    <3>3. QED
      BY <1>2, <3>1, <3>2 DEF Firsts
  <2>4. PICK b : b \in Built(r, f)
    BY <2>3 DEF Firsts
  <2>5. [path |-> f, body |-> b] \in Generated /\ [path |-> f, body |-> b].path = f
    BY <1>6, <2>3, <2>4
  <2>6. QED
    BY <2>5
<1>10. ASSUME NEW f \in Entry
       PROVE  /\ f \in Failed => \E s \in Sandboxes : Wants(s, f)
              /\ (\E s \in Sandboxes : Wants(s, f)) /\ ~Could(f) => f \in Failed
  BY <1>2 DEF Failed, Could
<1>11. GeneratedRight'
  <2>1. /\ \A f, c : Best(f, c)' <=> Best(f, c)
        /\ \A f : Could(f)' <=> Could(f)
        /\ \A s, f : Wants(s, f)' <=> Wants(s, f)
    BY <1>1 DEF Best, Could, Wants, Can, Copyable, Sources
  <2>2. QED
    BY <1>1, <1>7, <1>8, <1>9, <1>10, <2>1 DEF GeneratedRight
<1>12. QED
  BY <1>11

-----------------------------------------------------------------------------
(* Writing and removing. *)

\* There is one right entry.
LEMMA BestIsOne ==
  ASSUME NEW f \in Entry, NEW c, NEW d, IsContent(c), IsContent(d), Best(f, c), Best(f, d)
  PROVE  c = d
<1>1. c.kind = d.kind
  BY DEF Best
<1>2. c.by = d.by
  <2>1. c.by \in Nat /\ d.by \in Nat
    BY InstallAssumption DEF Best
  <2>2. c.by <= d.by /\ d.by <= c.by
    BY DEF Best
  <2>3. QED
    BY <2>1, <2>2
<1>3. c.ver = d.ver
  BY <1>2 DEF Best
<1>4. c.from = d.from
  <2>1. CASE config[c.by].entry[f] = "scratch"
    BY <1>2, <2>1 DEF Best
  <2>2. CASE config[c.by].entry[f] # "scratch"
    <3>1. PICK i \in Sources(f) : c.from = Search(f)[i] /\ \A j \in Sources(f) : i <= j
      BY <2>2 DEF Best
    <3>2. PICK k \in Sources(f) : d.from = Search(f)[k] /\ \A j \in Sources(f) : k <= j
      BY <1>2, <2>2 DEF Best
    <3>3. Sources(f) \subseteq Nat
      BY SearchIs DEF Sources
    <3>4. i = k
      BY <3>1, <3>2, <3>3
    <3>5. QED
      BY <3>1, <3>2, <3>4
  <2>3. QED
    BY <2>1, <2>2
<1>5. QED
  BY <1>1, <1>2, <1>3, <1>4 DEF IsContent

\* What is right stays so while the configs, the host's entries and the files there were stay.
LEMMA RightStays ==
  ASSUME UNCHANGED <<config, hostEntry, before>>
  PROVE  /\ \A f, c : Best(f, c)' <=> Best(f, c)
         /\ \A f, c : Right(f, c)' <=> Right(f, c)
         /\ \A f : Could(f)' <=> Could(f)
         /\ \A s, f : Wants(s, f)' <=> Wants(s, f)
         /\ \A f : Theirs(f)' <=> Theirs(f)
<1>1. /\ \A f : Sources(f)' = Sources(f)
      /\ \A s, f : Wants(s, f)' <=> Wants(s, f)
      /\ \A f : Theirs(f)' <=> Theirs(f)
  BY DEF Sources, Wants, Theirs
<1>2. \A f : Copyable(f)' <=> Copyable(f)
  BY <1>1 DEF Copyable
<1>3. \A s, f : Can(s, f)' <=> Can(s, f)
  BY <1>1, <1>2 DEF Can
<1>4. \A f : Could(f)' <=> Could(f)
  BY <1>3 DEF Could
<1>5. \A f, c : Best(f, c)' <=> Best(f, c)
  BY <1>1, <1>3 DEF Best
<1>6. \A f : Stays(f)' <=> Stays(f)
  BY <1>1, <1>4 DEF Stays
<1>7. QED
  BY <1>1, <1>4, <1>5, <1>6 DEF Right

\* A file that stays as it is is reported so.
LEMMA KeepKeeps ==
  ASSUME InstallTypes, GeneratedRight, WrittenRight, NEW g \in generated, Keep(g)
  PROVE  WrittenRight'
<1>1. /\ g.path \in Entry /\ g.path \notin Settled
      /\ UNCHANGED <<config, hostEntry, disk, dryRun, generated, before>>
  BY DEF Keep, Next1, InstallTypes
<1>2. disk[g.path] = before[g.path]
  BY <1>1 DEF WrittenRight
<1>3. report = [added |-> report.added, updated |-> report.updated, unchanged |-> report.unchanged,
                removed |-> report.removed, skipped |-> report.skipped]
  BY DEF InstallTypes
<1>4. \/ /\ disk[g.path] = g.body
         /\ report' = [report EXCEPT !.unchanged = @ \cup {g.path}]
      \/ /\ disk[g.path].kind \in {"foreign", "unreadable"}
         /\ report' = [report EXCEPT !.skipped = @ \cup {g.path}]
  BY DEF Keep
<1>5. /\ report'.added = report.added /\ report'.updated = report.updated
      /\ report'.removed = report.removed /\ Settled' = Settled \cup {g.path}
      /\ \A f \in report'.unchanged : f \in report.unchanged \/ (f = g.path /\ disk[g.path] = g.body)
      /\ \A f \in report'.skipped :
           f \in report.skipped \/ (f = g.path /\ disk[g.path].kind \in {"foreign", "unreadable"})
  <2>1. CASE disk[g.path] = g.body /\ report' = [report EXCEPT !.unchanged = @ \cup {g.path}]
    <3>1. /\ report'.unchanged = report.unchanged \cup {g.path} /\ report'.skipped = report.skipped
          /\ report'.added = report.added /\ report'.updated = report.updated
          /\ report'.removed = report.removed
      BY <1>3, <2>1
    <3>2. QED
      BY <2>1, <3>1 DEF Settled
  <2>2. CASE /\ disk[g.path].kind \in {"foreign", "unreadable"}
             /\ report' = [report EXCEPT !.skipped = @ \cup {g.path}]
    <3>1. /\ report'.skipped = report.skipped \cup {g.path} /\ report'.unchanged = report.unchanged
          /\ report'.added = report.added /\ report'.updated = report.updated
          /\ report'.removed = report.removed
      BY <1>3, <2>2
    <3>2. QED
      BY <2>2, <3>1 DEF Settled
  <2>3. QED
    BY <1>4, <2>1, <2>2
<1>6. ASSUME NEW f \in Settled'
      PROVE  \E h \in generated :
               /\ h.path = f
               /\ f \in report'.added => before[f] = Absent
               /\ f \in report'.updated => IsGenerated(before[f]) /\ before[f] # h.body
               /\ f \in report'.added \cup report'.updated => disk[f] = IF dryRun THEN before[f] ELSE h.body
               /\ f \in report'.unchanged => before[f] = h.body /\ disk[f] = h.body
               /\ f \in report'.skipped => Theirs(f) /\ disk[f] = before[f]
  <2>1. CASE f = g.path
    <3>1. f \notin report.added /\ f \notin report.updated /\ f \notin report.unchanged /\ f \notin report.skipped
      BY <1>1, <2>1 DEF Settled
    <3>2. QED
      BY <1>2, <1>5, <2>1, <3>1 DEF Theirs
  <2>2. CASE f # g.path
    <3>1. f \in Settled
      BY <1>5, <2>2
    <3>2. QED
      BY <1>5, <2>2, <3>1 DEF WrittenRight
  <2>3. QED
    BY <2>1, <2>2
<1>7. \A f \in Entry \ Settled' : disk[f] = before[f]
  BY <1>5 DEF WrittenRight
<1>8. report'.removed = {}
  BY <1>5 DEF WrittenRight
<1>9. \A f : Theirs(f)' <=> Theirs(f)
  BY <1>1, RightStays
<1>10. \A c : IsGenerated(c)' <=> IsGenerated(c)
  BY DEF IsGenerated
<1>11. QED
  BY <1>1, <1>6, <1>7, <1>8, <1>9, <1>10 DEF WrittenRight

\* A file that is written is the one that was generated.
LEMMA WriteKeeps ==
  ASSUME InstallTypes, GeneratedRight, WrittenRight, NEW g \in generated, Write(g)
  PROVE  WrittenRight'
<1>1. /\ g.path \in Entry /\ g.path \notin Settled
      /\ UNCHANGED <<config, hostEntry, dryRun, generated, before>>
      /\ disk[g.path] # g.body /\ disk[g.path].kind \notin {"foreign", "unreadable"}
      /\ disk' = IF dryRun THEN disk ELSE [disk EXCEPT ![g.path] = g.body]
      /\ report' = Noted(g.path, disk[g.path])
  BY DEF Write, Next1, InstallTypes
<1>2. disk[g.path] = before[g.path] /\ IsContent(before[g.path])
  BY <1>1 DEF WrittenRight, InstallTypes
<1>3. report = [added |-> report.added, updated |-> report.updated, unchanged |-> report.unchanged,
                removed |-> report.removed, skipped |-> report.skipped]
  BY DEF InstallTypes
<1>4. /\ report'.unchanged = report.unchanged /\ report'.skipped = report.skipped
      /\ report'.removed = report.removed
      /\ IF disk[g.path].kind = "absent"
         THEN report'.added = report.added \cup {g.path} /\ report'.updated = report.updated
         ELSE report'.added = report.added /\ report'.updated = report.updated \cup {g.path}
  BY <1>1, <1>3 DEF Noted
<1>5. Settled' = Settled \cup {g.path}
  BY <1>4 DEF Settled
<1>6. \A f \in Entry : f # g.path => disk'[f] = disk[f]
  BY <1>1 DEF InstallTypes
<1>7. disk'[g.path] = IF dryRun THEN before[g.path] ELSE g.body
  BY <1>1, <1>2 DEF InstallTypes
<1>8. /\ disk[g.path].kind = "absent" => before[g.path] = Absent
      /\ disk[g.path].kind # "absent" => IsGenerated(before[g.path]) /\ before[g.path] # g.body
  BY <1>1, <1>2 DEF IsContent, IsGenerated
<1>9. ASSUME NEW f \in Settled'
      PROVE  \E h \in generated :
               /\ h.path = f
               /\ f \in report'.added => before[f] = Absent
               /\ f \in report'.updated => IsGenerated(before[f]) /\ before[f] # h.body
               /\ f \in report'.added \cup report'.updated => disk'[f] = IF dryRun THEN before[f] ELSE h.body
               /\ f \in report'.unchanged => before[f] = h.body /\ disk'[f] = h.body
               /\ f \in report'.skipped => Theirs(f) /\ disk'[f] = before[f]
  <2>1. CASE f = g.path
    <3>1. f \notin report.added /\ f \notin report.updated /\ f \notin report.unchanged /\ f \notin report.skipped
      BY <1>1, <2>1 DEF Settled
    <3>2. QED
      BY <1>4, <1>7, <1>8, <2>1, <3>1
  <2>2. CASE f # g.path
    <3>1. f \in Settled
      BY <1>5, <2>2
    <3>2. PICK h \in generated :
            /\ h.path = f
            /\ f \in report.added => before[f] = Absent
            /\ f \in report.updated => IsGenerated(before[f]) /\ before[f] # h.body
            /\ f \in report.added \cup report.updated => disk[f] = IF dryRun THEN before[f] ELSE h.body
            /\ f \in report.unchanged => before[f] = h.body /\ disk[f] = h.body
            /\ f \in report.skipped => Theirs(f) /\ disk[f] = before[f]
      BY <3>1 DEF WrittenRight
    <3>3. disk'[f] = disk[f]
      BY <1>6, <2>2, <3>2 DEF InstallTypes
    <3>4. (f \in report'.added => f \in report.added) /\ (f \in report'.updated => f \in report.updated)
      BY <1>4, <2>2
    <3>5. QED
      BY <1>4, <3>2, <3>3, <3>4
  <2>3. QED
    BY <2>1, <2>2
<1>10. \A f \in Entry \ Settled' : disk'[f] = before[f]
  BY <1>5, <1>6 DEF WrittenRight
<1>11. report'.removed = {}
  BY <1>4 DEF WrittenRight
<1>12. \A f : Theirs(f)' <=> Theirs(f)
  BY <1>1, RightStays
<1>13. \A c : IsGenerated(c)' <=> IsGenerated(c)
  BY DEF IsGenerated
<1>14. QED
  BY <1>1, <1>9, <1>10, <1>11, <1>12, <1>13 DEF WrittenRight

\* What the run leaves of a file that was generated.
LEMMA GeneratedLeft ==
  ASSUME InstallTypes, GeneratedRight, WrittenRight, NEW g \in generated, g.path \in Settled
  PROVE  /\ IF dryRun THEN disk[g.path] = before[g.path] ELSE Right(g.path, disk[g.path])
         /\ g.path \in report.added => before[g.path] = Absent
         /\ g.path \in report.updated => IsGenerated(before[g.path])
         /\ g.path \in report.added \cup report.updated <=> ~Right(g.path, before[g.path])
<1> DEFINE f == g.path
<1>1. f \in Entry /\ IsContent(g.body) /\ IsContent(before[f]) /\ Best(f, g.body)
  BY DEF InstallTypes, GeneratedRight
<1>2. Could(f)
  BY <1>1 DEF Best, Could
<1>3. /\ f \in report.added => before[f] = Absent
      /\ f \in report.updated => IsGenerated(before[f]) /\ before[f] # g.body
      /\ f \in report.added \cup report.updated => disk[f] = IF dryRun THEN before[f] ELSE g.body
      /\ f \in report.unchanged => before[f] = g.body /\ disk[f] = g.body
      /\ f \in report.skipped => Theirs(f) /\ disk[f] = before[f]
  <2>1. PICK h \in generated :
          /\ h.path = f
          /\ f \in report.added => before[f] = Absent
          /\ f \in report.updated => IsGenerated(before[f]) /\ before[f] # h.body
          /\ f \in report.added \cup report.updated => disk[f] = IF dryRun THEN before[f] ELSE h.body
          /\ f \in report.unchanged => before[f] = h.body /\ disk[f] = h.body
          /\ f \in report.skipped => Theirs(f) /\ disk[f] = before[f]
    BY DEF WrittenRight
  <2>2. h = g
    BY <2>1 DEF GeneratedRight
  <2>3. QED
    BY <2>1, <2>2
<1>4. g.body.kind = "psbox" /\ Absent.kind = "absent"
  BY <1>1 DEF Best, Absent, Foreign
<1>5. Stays(f) <=> Theirs(f)
  BY <1>2 DEF Stays
<1>6. \A c : Right(f, c) <=> IF Theirs(f) THEN c = before[f] ELSE Best(f, c)
  BY <1>2, <1>5 DEF Right
<1>7. f \in report.added \cup report.updated \cup report.unchanged \cup report.skipped
  BY DEF Settled
<1> HIDE DEF f
<1>8. CASE f \in report.skipped
  <2>1. Theirs(f) /\ disk[f] = before[f]
    BY <1>3, <1>8
  <2>2. f \notin report.added /\ f \notin report.updated
    BY <1>3, <1>4, <2>1 DEF Theirs, IsGenerated
  <2>3. QED
    BY <1>6, <2>1, <2>2 DEF f
<1>9. CASE f \in report.unchanged
  <2>1. before[f] = g.body /\ disk[f] = g.body
    BY <1>3, <1>9
  <2>2. ~Theirs(f)
    BY <1>4, <2>1 DEF Theirs
  <2>3. f \notin report.added /\ f \notin report.updated
    BY <1>3, <1>4, <2>1
  <2>4. QED
    BY <1>1, <1>6, <2>1, <2>2, <2>3 DEF f
<1>10. CASE f \in report.added \cup report.updated
  <2>1. disk[f] = IF dryRun THEN before[f] ELSE g.body
    BY <1>3, <1>10
  <2>2. ~Theirs(f)
    BY <1>3, <1>4, <1>10 DEF Theirs, IsGenerated
  <2>3. ~Best(f, before[f])
    <3>1. CASE f \in report.added
      BY <1>3, <1>4, <3>1 DEF Best
    <3>2. CASE f \in report.updated
      <4>1. before[f] # g.body
        BY <1>3, <3>2
      <4>2. QED
        BY <1>1, <4>1, BestIsOne
    <3>3. QED
      BY <1>10, <3>1, <3>2
  <2>4. QED
    BY <1>1, <1>3, <1>6, <1>10, <2>1, <2>2, <2>3 DEF f
<1>11. QED
  BY <1>7, <1>8, <1>9, <1>10

\* What the run leaves of one that was not.
LEMMA OthersLeft ==
  ASSUME InstallTypes, LoadedRight, GeneratedRight, WrittenRight, NEW f \in Entry,
         \A g \in generated : g.path # f
  PROVE  /\ disk[f] = before[f] /\ f \notin report.added /\ f \notin report.updated
         /\ Stale(f) <=> ~Right(f, before[f])
         /\ Right(f, IF Stale(f) THEN Absent ELSE before[f])
<1>1. f \notin Settled
  BY DEF WrittenRight
<1>2. disk[f] = before[f] /\ IsContent(before[f])
  BY <1>1 DEF WrittenRight, InstallTypes
<1>3. f \notin report.added /\ f \notin report.updated
  BY <1>1 DEF Settled
<1>4. ~Could(f)
  BY DEF GeneratedRight
<1>5. f \in notGenerated <=> \E s \in Sandboxes : Wants(s, f)
  BY <1>4 DEF GeneratedRight
<1>6. before[f].kind = "psbox" =>
        (before[f].by \in failedSandboxes <=> config[before[f].by].state = "broken")
  BY <1>2 DEF IsContent, LoadedRight, NotLoading
<1>7. Stale(f) <=> /\ f \notin notGenerated
                   /\ \/ before[f].kind = "untagged"
                      \/ before[f].kind = "psbox" /\ before[f].by \notin failedSandboxes
  BY <1>2 DEF Stale
<1>8. Stays(f) <=> \/ before[f].kind \in {"foreign", "unreadable"}
                   \/ f \in notGenerated
                   \/ before[f].kind = "psbox" /\ before[f].by \in failedSandboxes
  BY <1>4, <1>5, <1>6 DEF Stays, Theirs
<1>9. \A c : Right(f, c) <=> IF Stays(f) THEN c = before[f] ELSE c = Absent
  BY <1>4 DEF Right
<1>10. before[f] = Absent <=> before[f].kind = "absent"
  BY <1>2, ContentIs
<1>11. before[f].kind \in {"absent", "foreign", "unreadable", "untagged", "psbox"}
  BY <1>2 DEF IsContent
<1>12. Stale(f) <=> ~Stays(f) /\ before[f] # Absent
  BY <1>7, <1>8, <1>10, <1>11
<1>13. QED
  BY <1>2, <1>3, <1>9, <1>12

\* A run that nothing disturbed leaves what it should.
LEMMA SweepRight ==
  ASSUME InstallTypes, LoadedRight, GeneratedRight, WrittenRight, Sweep
  PROVE  EntriesFollow'
<1>1. /\ \A g \in generated : g.path \in Settled
      /\ disk' = IF dryRun THEN disk ELSE [f \in Entry |-> IF f \in {h \in Entry : Stale(h)} THEN Absent ELSE disk[f]]
      /\ report' = [report EXCEPT !.removed = {h \in Entry : Stale(h)}]
      /\ UNCHANGED <<config, hostEntry, dryRun, before>>
  BY DEF Sweep
<1>2. \A f \in Entry : disk'[f] = IF ~dryRun /\ Stale(f) THEN Absent ELSE disk[f]
  BY <1>1
<1>3. /\ report'.added = report.added /\ report'.updated = report.updated
      /\ \A f \in Entry : f \in report'.removed <=> Stale(f)
  <2>1. report = [added |-> report.added, updated |-> report.updated, unchanged |-> report.unchanged,
                  removed |-> report.removed, skipped |-> report.skipped]
    BY DEF InstallTypes
  <2>2. report'.added = report.added /\ report'.updated = report.updated
    BY <1>1, <2>1
  <2>3. report'.removed = {h \in Entry : Stale(h)}
    BY <1>1, <2>1
  <2>4. QED
    BY <2>2, <2>3
<1>4. \A f, c : Right(f, c)' <=> Right(f, c)
  BY <1>1, RightStays
<1>5. ASSUME NEW f \in Entry
      PROVE  /\ IF dryRun THEN disk'[f] = before[f] ELSE Right(f, disk'[f])
             /\ f \in report'.added => before[f] = Absent
             /\ f \in report'.updated => IsGenerated(before[f])
             /\ (f \in report'.added \cup report'.updated \cup report'.removed) <=> ~Right(f, before[f])
             /\ f \in report'.removed => Right(f, Absent)
  <2>1. CASE \E g \in generated : g.path = f
    <3>1. PICK g \in generated : g.path = f
      BY <2>1
    <3>2. ~Stale(f)
      BY <3>1 DEF Stale
    <3>3. /\ IF dryRun THEN disk[g.path] = before[g.path] ELSE Right(g.path, disk[g.path])
          /\ g.path \in report.added => before[g.path] = Absent
          /\ g.path \in report.updated => IsGenerated(before[g.path])
          /\ g.path \in report.added \cup report.updated <=> ~Right(g.path, before[g.path])
      BY <1>1, GeneratedLeft
    <3>4. QED
      BY <1>2, <1>3, <3>1, <3>2, <3>3
  <2>2. CASE \A g \in generated : g.path # f
    <3>1. /\ disk[f] = before[f] /\ f \notin report.added /\ f \notin report.updated
          /\ Stale(f) <=> ~Right(f, before[f])
          /\ Right(f, IF Stale(f) THEN Absent ELSE before[f])
      BY <2>2, OthersLeft
    <3>2. QED
      BY <1>2, <1>3, <3>1
  <2>3. QED
    BY <2>1, <2>2
<1>6. \A c : IsGenerated(c)' <=> IsGenerated(c)
  BY DEF IsGenerated
<1>7. QED
  BY <1>1, <1>4, <1>5, <1>6 DEF EntriesFollow

-----------------------------------------------------------------------------
(* The invariant. *)

\* A body is one psbox wrote for the sandbox.
LEMMA BuiltTypes ==
  ASSUME NEW s \in Sandboxes, NEW f \in Entry, NEW b \in Built(s, f)
  PROVE  IsContent(b)
<1>1. \A v, from : IsContent(Body(s, v, from))
  BY DEF Body, IsContent
<1>2. CASE specs[s].entry[f] = "none"
  BY <1>2 DEF Built
<1>3. CASE specs[s].entry[f] = "scratch"
  <2>1. b = Body(s, specs[s].ver, <<>>)
    BY <1>3 DEF Built
  <2>2. QED
    BY <1>1, <2>1
<1>4. CASE specs[s].entry[f] \notin {"none", "scratch"}
  <2>1. \E from : b = Body(s, specs[s].ver, from)
    BY <1>4 DEF Built
  <2>2. QED
    BY <1>1, <2>1
<1>5. QED
  BY <1>2, <1>3, <1>4

\* The files have a known kind to begin with, and after every step.
LEMMA InstallTypesKept ==
  ASSUME InstallTypes, InstallNext
  PROVE  InstallTypes'
<1> DEFINE Parts(r) == r = [added |-> r.added, updated |-> r.updated, unchanged |-> r.unchanged,
                            removed |-> r.removed, skipped |-> r.skipped]
           Files(d) == d = [f \in Entry |-> d[f]] /\ \A f \in Entry : IsContent(d[f])
           Bodies(gs) == \A g \in gs : g.path \in Entry /\ IsContent(g.body)
<1>1. /\ Files(disk) /\ Files(before) /\ Parts(report) /\ Bodies(generated)
      /\ config \in [Sandboxes -> [state : States, ver : Nat, entry : [Entry -> Wishes]]]
      /\ step \in {"off", "loaded", "writing", "done"}
  BY DEF InstallTypes
<1>2. SUFFICES /\ Files(disk') /\ Files(before') /\ Parts(report') /\ Bodies(generated')
               /\ config' \in [Sandboxes -> [state : States, ver : Nat, entry : [Entry -> Wishes]]]
               /\ step' \in {"off", "loaded", "writing", "done"}
  BY <1>2 DEF InstallTypes, IsContent, Absent, Foreign
<1>3. Parts(NoReport) /\ Bodies({})
  BY DEF NoReport
<1>4. IsContent(Absent) /\ IsContent(Foreign("foreign"))
  BY DEF IsContent, Absent, Foreign
<1>5. ASSUME NEW dry \in BOOLEAN, Load(dry)
      PROVE  /\ Files(disk') /\ Files(before') /\ Parts(report') /\ Bodies(generated')
             /\ config' = config /\ step' = "loaded"
  <2>1. disk' = disk /\ before' = disk /\ report' = NoReport /\ generated' = {} /\ config' = config /\ step' = "loaded"
    BY <1>5 DEF Load
  <2> HIDE DEF Files, Parts, Bodies
  <2>2. QED
    BY <1>1, <1>3, <2>1
<1>6. ASSUME Generate
      PROVE  /\ Files(disk') /\ Files(before') /\ Parts(report') /\ Bodies(generated')
             /\ config' = config /\ step' = "writing"
  <2>1. disk' = disk /\ before' = before /\ report' = report /\ generated' = Generated /\ config' = config
        /\ step' = "writing"
    BY <1>6 DEF Generate
  <2>2. ASSUME NEW g \in Generated
        PROVE  g.path \in Entry /\ IsContent(g.body)
    <3>1. PICK f \in Entry, s \in Sandboxes : \E b \in Built(s, f) : g = [path |-> f, body |-> b]
      BY <2>2 DEF Generated, Firsts
    <3>2. PICK b \in Built(s, f) : g = [path |-> f, body |-> b]
      BY <3>1
    <3>3. g.path = f /\ g.body = b
      BY <3>2
    <3>4. QED
      BY <3>3, BuiltTypes
  <2>3. Bodies(generated')
    BY <2>1, <2>2
  <2> HIDE DEF Files, Parts, Bodies
  <2>4. QED
    BY <1>1, <2>1, <2>3
<1>7. ASSUME NEW g \in generated, Keep(g)
      PROVE  /\ Files(disk') /\ Files(before') /\ Parts(report') /\ Bodies(generated')
             /\ config' = config /\ step' = step
  <2>1. disk' = disk /\ before' = before /\ generated' = generated /\ config' = config /\ step' = step
    BY <1>7 DEF Keep
  <2>2. \/ report' = [report EXCEPT !.unchanged = @ \cup {g.path}]
        \/ report' = [report EXCEPT !.skipped = @ \cup {g.path}]
    BY <1>7 DEF Keep
  <2>3. Parts(report')
    BY <1>1, <2>2
  <2> HIDE DEF Files, Parts, Bodies
  <2>4. QED
    BY <1>1, <2>1, <2>3
<1>8. ASSUME NEW g \in generated, Write(g)
      PROVE  /\ Files(disk') /\ Files(before') /\ Parts(report') /\ Bodies(generated')
             /\ config' = config /\ step' = step
  <2>1. /\ disk' = IF dryRun THEN disk ELSE [disk EXCEPT ![g.path] = g.body]
        /\ before' = before /\ generated' = generated /\ config' = config /\ step' = step
    BY <1>8 DEF Write
  <2>2. \/ report' = [report EXCEPT !.added = @ \cup {g.path}]
        \/ report' = [report EXCEPT !.updated = @ \cup {g.path}]
    BY <1>8 DEF Write, Noted
  <2>3. Parts(report')
    BY <1>1, <2>2
  <2>4. g.path \in Entry /\ IsContent(g.body)
    BY <1>1
  <2>5. Files([disk EXCEPT ![g.path] = g.body])
    BY <1>1, <2>4
  <2> HIDE DEF Files, Parts, Bodies
  <2>6. QED
    BY <1>1, <2>1, <2>3, <2>5
<1>9. ASSUME Sweep
      PROVE  /\ Files(disk') /\ Files(before') /\ Parts(report') /\ Bodies(generated')
             /\ config' = config /\ step' = "done"
  <2> DEFINE stale == {f \in Entry : Stale(f)}
  <2>1. /\ disk' = IF dryRun THEN disk ELSE [f \in Entry |-> IF f \in stale THEN Absent ELSE disk[f]]
        /\ report' = [report EXCEPT !.removed = stale]
        /\ before' = before /\ generated' = generated /\ config' = config /\ step' = "done"
    BY <1>9 DEF Sweep
  <2> HIDE DEF stale
  <2>2. Parts(report')
    BY <1>1, <2>1
  <2>3. Files([f \in Entry |-> IF f \in stale THEN Absent ELSE disk[f]])
    BY <1>1, <1>4
  <2> HIDE DEF Files, Parts, Bodies
  <2>4. QED
    BY <1>1, <2>1, <2>2, <2>3
<1>10. ASSUME Finish
       PROVE  /\ Files(disk') /\ Files(before') /\ Parts(report') /\ Bodies(generated')
              /\ config' = config /\ step' = "off"
  <2>1. disk' = disk /\ before' = disk /\ report' = NoReport /\ generated' = {} /\ config' = config /\ step' = "off"
    BY <1>10 DEF Finish
  <2> HIDE DEF Files, Parts, Bodies
  <2>2. QED
    BY <1>1, <1>3, <2>1
<1>11. ASSUME NEW s \in Sandboxes, NEW state \in States, EditConfig(s, state)
       PROVE  /\ Files(disk') /\ Files(before') /\ Parts(report') /\ Bodies(generated') /\ step' = step
              /\ config' \in [Sandboxes -> [state : States, ver : Nat, entry : [Entry -> Wishes]]]
  <2>1. /\ disk' = disk /\ before' = before /\ report' = report /\ generated' = generated /\ step' = step
        /\ config' = [config EXCEPT ![s] = Config(state, IF state = "ok" THEN @.ver + 1 ELSE @.ver, @.entry)]
    BY <1>11 DEF EditConfig, Others, run
  <2>2. config[s].ver \in Nat /\ config[s].entry \in [Entry -> Wishes]
    BY <1>1
  <2>3. Config(state, IF state = "ok" THEN config[s].ver + 1 ELSE config[s].ver, config[s].entry)
          \in [state : States, ver : Nat, entry : [Entry -> Wishes]]
    BY <2>2 DEF Config
  <2>4. config' \in [Sandboxes -> [state : States, ver : Nat, entry : [Entry -> Wishes]]]
    BY <1>1, <2>1, <2>3
  <2> HIDE DEF Files, Parts, Bodies
  <2>5. QED
    BY <1>1, <2>1, <2>4
<1>12. ASSUME NEW f \in Entry, Package(f)
       PROVE  /\ Files(disk') /\ Files(before') /\ Parts(report') /\ Bodies(generated')
              /\ config' = config /\ step' = step
  <2>1. disk' = disk /\ before' = before /\ report' = report /\ generated' = generated /\ config' = config
        /\ step' = step
    BY <1>12 DEF Package, Others, run
  <2> HIDE DEF Files, Parts, Bodies
  <2>2. QED
    BY <1>1, <2>1
<1>13. ASSUME NEW f \in Entry, NEW k \in {"absent", "foreign"}, UserWrites(f, k)
       PROVE  /\ Files(disk') /\ Files(before') /\ Parts(report') /\ Bodies(generated')
              /\ config' = config /\ step' = step
  <2>1. /\ disk' = [disk EXCEPT ![f] = Foreign(k)]
        /\ before' = before /\ report' = report /\ generated' = generated /\ config' = config /\ step' = step
    BY <1>13 DEF UserWrites, Others, run
  <2>2. IsContent(Foreign(k))
    BY <1>4 DEF Absent
  <2>3. Files(disk')
    BY <1>1, <2>1, <2>2
  <2> HIDE DEF Files, Parts, Bodies
  <2>4. QED
    BY <1>1, <2>1, <2>3
<1> HIDE DEF Files, Parts, Bodies
<1>14. QED
  BY <1>1, <1>5, <1>6, <1>7, <1>8, <1>9, <1>10, <1>11, <1>12, <1>13 DEF InstallNext, States

\* The invariant holds to begin with.
LEMMA InstallStarts ==
  ASSUME InstallInit
  PROVE  InstallInv
<1>1. /\ config \in [Sandboxes -> {Config("broken", 1, NoEntries)} \cup {Config("ok", 1, e) : e \in Asked}]
      /\ disk \in [Entry -> Contents] /\ before = disk
      /\ step = "off" /\ generated = {} /\ report = NoReport /\ undisturbed = FALSE
  BY DEF InstallInit
<1>2. config \in [Sandboxes -> [state : States, ver : Nat, entry : [Entry -> Wishes]]]
  <2>1. NoEntries \in [Entry -> Wishes] /\ Asked \subseteq [Entry -> Wishes]
    BY InstallAssumption DEF NoEntries, Wishes
  <2>2. \A e \in [Entry -> Wishes], st \in States :
          Config(st, 1, e) \in [state : States, ver : Nat, entry : [Entry -> Wishes]]
    BY DEF Config
  <2>3. QED
    BY <1>1, <2>1, <2>2 DEF States
<1>3. \A c \in Contents : IsContent(c)
  <2>1. \A k \in {"absent", "foreign", "unreadable", "untagged"} : IsContent(Foreign(k))
    BY DEF Foreign, IsContent, Absent
  <2>2. \A s \in Sandboxes : IsContent(Body(s, 1, <<>>))
    BY DEF Body, IsContent
  <2>3. QED
    BY <2>1, <2>2 DEF Contents
<1>4. NoReport = [added |-> NoReport.added, updated |-> NoReport.updated, unchanged |-> NoReport.unchanged,
                  removed |-> NoReport.removed, skipped |-> NoReport.skipped]
  BY DEF NoReport
<1>5. QED
  BY <1>1, <1>2, <1>3, <1>4 DEF InstallInv, InstallTypes, EntriesFollow

\* A step of a run that nothing disturbed, or of one that starts.
LEMMA InstallKeeps ==
  ASSUME InstallInv, InstallNext
  PROVE  InstallInv'
<1>1. InstallTypes /\ InstallTypes'
  BY InstallTypesKept DEF InstallInv
<1>2. SUFFICES /\ undisturbed' =>
                    /\ step' # "off" /\ LoadedRight'
                    /\ step' = "loaded" => disk' = before' /\ report' = NoReport
                    /\ step' = "writing" => GeneratedRight' /\ WrittenRight'
               /\ EntriesFollow'
  BY <1>1, <1>2 DEF InstallInv, NoReport
<1>3. ASSUME undisturbed' = FALSE
      PROVE  EntriesFollow' /\ ~undisturbed'
  BY <1>3 DEF EntriesFollow
<1>4. ASSUME step' # "done"
      PROVE  EntriesFollow'
  BY <1>4 DEF EntriesFollow
<1>5. ASSUME UNCHANGED <<config, specs, failedSandboxes>>, LoadedRight
      PROVE  LoadedRight'
  BY <1>5 DEF LoadedRight, Loaded, NotLoading, NoSpecs, Config, NoEntries
<1>6. ASSUME NEW dry \in BOOLEAN, Load(dry)
      PROVE  /\ LoadedRight' /\ disk' = before' /\ report' = NoReport /\ step' = "loaded"
  <2>1. /\ specs' = [s \in Sandboxes |-> IF s \in Loaded THEN config[s] ELSE NoSpecs[s]]
        /\ failedSandboxes' = NotLoading /\ config' = config /\ before' = disk /\ disk' = disk
        /\ report' = NoReport /\ step' = "loaded"
    BY <1>6 DEF Load
  <2>2. Loaded' = Loaded /\ NotLoading' = NotLoading /\ NoSpecs' = NoSpecs
    BY <2>1 DEF Loaded, NotLoading, NoSpecs, Config, NoEntries
  <2>3. QED
    BY <2>1, <2>2 DEF LoadedRight
<1>7. ASSUME Generate
      PROVE  /\ undisturbed' => LoadedRight' /\ GeneratedRight' /\ WrittenRight'
             /\ step' = "writing"
  <2>1. /\ UNCHANGED <<config, disk, before, specs, failedSandboxes, report, undisturbed>>
        /\ step = "loaded" /\ step' = "writing"
    BY <1>7 DEF Generate
  <2>2. ASSUME undisturbed
        PROVE  LoadedRight' /\ GeneratedRight' /\ WrittenRight'
    <3>1. LoadedRight /\ disk = before /\ report = NoReport
      BY <2>1, <2>2 DEF InstallInv
    <3>2. LoadedRight'
      BY <1>5, <2>1, <3>1
    <3>3. GeneratedRight'
      BY <1>1, <1>7, <3>1, GeneratesRight
    <3>4. WrittenRight'
      <4>1. Settled' = {} /\ report'.removed = {}
        BY <2>1, <3>1 DEF Settled, NoReport
      <4>2. QED
        BY <2>1, <3>1, <4>1 DEF WrittenRight
    <3>5. QED
      BY <3>2, <3>3, <3>4
  <2>3. QED
    BY <2>1, <2>2
<1>8. ASSUME NEW g \in generated, Keep(g) \/ Write(g)
      PROVE  /\ undisturbed' => LoadedRight' /\ GeneratedRight' /\ WrittenRight'
             /\ step' = "writing"
  <2>1. /\ UNCHANGED <<config, hostEntry, before, specs, failedSandboxes, generated, notGenerated, undisturbed>>
        /\ step = "writing" /\ step' = step
    BY <1>8 DEF Keep, Write, Next1
  <2>2. ASSUME undisturbed
        PROVE  LoadedRight' /\ GeneratedRight' /\ WrittenRight'
    <3>1. LoadedRight /\ GeneratedRight /\ WrittenRight
      BY <2>1, <2>2 DEF InstallInv
    <3>2. LoadedRight'
      BY <1>5, <2>1, <3>1
    <3>3. GeneratedRight'
      BY <2>1, <3>1, RightStays DEF GeneratedRight
    <3>4. WrittenRight'
      BY <1>1, <1>8, <3>1, KeepKeeps, WriteKeeps
    <3>5. QED
      BY <3>2, <3>3, <3>4
  <2>3. QED
    BY <2>1, <2>2
<1>9. ASSUME Sweep
      PROVE  /\ undisturbed' => LoadedRight' /\ EntriesFollow'
             /\ step' = "done"
  <2>1. /\ UNCHANGED <<config, specs, failedSandboxes, undisturbed>> /\ step = "writing" /\ step' = "done"
    BY <1>9 DEF Sweep
  <2>2. ASSUME undisturbed
        PROVE  LoadedRight' /\ EntriesFollow'
    <3>1. LoadedRight /\ GeneratedRight /\ WrittenRight
      BY <2>1, <2>2 DEF InstallInv
    <3>2. QED
      BY <1>1, <1>5, <1>9, <2>1, <3>1, SweepRight
  <2>3. QED
    BY <2>1, <2>2
<1>10. ASSUME Finish
       PROVE  undisturbed' = FALSE
  BY <1>10 DEF Finish
<1>11. ASSUME NEW s \in Sandboxes, NEW state \in States, EditConfig(s, state)
       PROVE  undisturbed' = FALSE
  BY <1>11 DEF EditConfig, Others
<1>12. ASSUME NEW f \in Entry, Package(f)
       PROVE  undisturbed' = FALSE
  BY <1>12 DEF Package, Others
<1>13. ASSUME NEW f \in Entry, NEW k \in {"absent", "foreign"}, UserWrites(f, k)
       PROVE  undisturbed' = FALSE
  BY <1>13 DEF UserWrites, Others
<1> DEFINE Goal == /\ undisturbed' =>
                        /\ step' # "off" /\ LoadedRight'
                        /\ step' = "loaded" => disk' = before' /\ report' = NoReport
                        /\ step' = "writing" => GeneratedRight' /\ WrittenRight'
                   /\ EntriesFollow'
<1>14. ASSUME undisturbed' = FALSE
       PROVE  Goal
  BY <1>3, <1>14
<1>15. ASSUME NEW dry \in BOOLEAN, Load(dry)
       PROVE  Goal
  BY <1>4, <1>6, <1>15
<1>16. ASSUME Generate
       PROVE  Goal
  BY <1>4, <1>7, <1>16
<1>17. ASSUME NEW g \in generated, Keep(g) \/ Write(g)
       PROVE  Goal
  BY <1>4, <1>8, <1>17
<1>18. ASSUME Sweep
       PROVE  Goal
  <2>1. CASE undisturbed'
    BY <1>9, <1>18, <2>1
  <2>2. CASE ~undisturbed'
    BY <1>9, <1>18, <2>2 DEF EntriesFollow
  <2>3. QED
    BY <2>1, <2>2
<1> HIDE DEF Goal
<1>19. Goal
  BY <1>10, <1>11, <1>12, <1>13, <1>14, <1>15, <1>16, <1>17, <1>18 DEF InstallNext, States
<1>20. QED
  BY <1>19 DEF Goal

\* A run of the command that nothing disturbs leaves each desktop file right, and reports exactly
\* what it changed (install.rs apply, generate).
THEOREM EntriesFollowHolds == InstallSpec => []EntriesFollow
<1>1. InstallInit => InstallInv
  BY InstallStarts
<1>2. InstallInv /\ [InstallNext]_installVars => InstallInv'
  <2> SUFFICES ASSUME InstallInv, [InstallNext]_installVars
               PROVE  InstallInv'
    OBVIOUS
  <2>1. CASE InstallNext
    BY <2>1, InstallKeeps
  <2>2. CASE UNCHANGED installVars
    <3>1. UNCHANGED <<config, hostEntry, disk, step, dryRun, specs, failedSandboxes, generated, notGenerated,
                      report, before, undisturbed>>
      BY <2>2 DEF installVars
    <3>2. InstallTypes'
      BY <3>1 DEF InstallInv, InstallTypes, IsContent, Absent, Foreign
    <3>3. LoadedRight => LoadedRight'
      BY <3>1 DEF LoadedRight, Loaded, NotLoading, NoSpecs, Config, NoEntries
    <3>4. /\ \A f, c : Best(f, c)' <=> Best(f, c)
          /\ \A f, c : Right(f, c)' <=> Right(f, c)
          /\ \A f : Could(f)' <=> Could(f)
          /\ \A s, f : Wants(s, f)' <=> Wants(s, f)
          /\ \A f : Theirs(f)' <=> Theirs(f)
      BY <3>1, RightStays
    <3>5. GeneratedRight => GeneratedRight'
      BY <3>1, <3>4 DEF GeneratedRight
    <3>6. Settled' = Settled
      BY <3>1 DEF Settled
    <3>7. WrittenRight => WrittenRight'
      BY <3>1, <3>4, <3>6 DEF WrittenRight, IsGenerated, Absent, Foreign
    <3>8. EntriesFollow => EntriesFollow'
      <4>1. \A f : Contested(f)' <=> Contested(f)
        BY <3>1, <3>4 DEF Contested
      <4>2. QED
        BY <3>1, <3>4, <4>1 DEF EntriesFollow, IsGenerated, Absent, Foreign
    <3>9. QED
      BY <3>1, <3>2, <3>3, <3>5, <3>7, <3>8 DEF InstallInv, NoReport
  <2>3. QED
    BY <2>1, <2>2
<1>3. InstallInv => EntriesFollow
  BY DEF InstallInv
<1>4. QED
  BY <1>1, <1>2, <1>3, PTL DEF InstallSpec
=============================================================================
