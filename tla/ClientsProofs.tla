--------------------------- MODULE ClientsProofs ---------------------------
(***************************************************************************)
(* Proofs about Clients, for any apps, readers and pids and any number of   *)
(* calls and connections.                                                   *)
(***************************************************************************)
EXTENDS Clients, FiniteSetTheorems, SequenceTheorems, TLAPS

\* What the theorems assume of the constants: the portal's reader is one of the
\* readers, and no reader is called like the free lock.
ReadersAssumption == "portal" \in Readers /\ "none" \notin Readers

Message == [type : {"call", "left"}, app : Apps]
Ids == {"none", "first", "bus"}
Connection ==
    [app : Apps, id : Ids, open : BOOLEAN, gone : BOOLEAN, served : BOOLEAN, waits : BOOLEAN, held : BOOLEAN]

\* A reader with a connection it is setting up; one with the lock; one that
\* handles a call.
Setup == {"credentials", "cgroup", "recheck", "insert", "onBus"}
Locked == {"connect"} \cup Setup
Busy == {"lock", "send"} \cup Locked

Shapes ==
    /\ pid \in [Apps -> Pids \cup {None}]
    /\ left \subseteq Apps
    /\ launch \in [Apps -> Launches]
    /\ clients \in [Apps -> Nat]
    /\ creating \in Readers \cup {"none"}
    /\ pc \in [Readers -> {"idle"} \cup Busy]
    /\ cur \in [Readers -> Apps \cup {None}]
    /\ conn \in [Readers -> Nat]
    /\ seenPid \in [Readers -> Pids \cup {None}]
    /\ seenLaunch \in [Readers -> Launches \cup {"none"}]
Lists == queue \in [Readers -> Seq(Message)] /\ conns \in Seq(Connection)
Types == Shapes /\ Lists

\* A process has its pid alone and, once it has left, none again.
PidsOK ==
    /\ \A a, b \in Apps : pid[a] # None /\ pid[a] = pid[b] => a = b
    /\ \A a \in left : pid[a] = None

\* Only the holder of `creating` sets up a connection, for an app that has no
\* other.
LockAt(r) ==
    /\ pc[r] \in Locked <=> creating = r
    /\ pc[r] \in Busy => cur[r] \in Apps
    /\ pc[r] \in Setup => conn[r] \in DOMAIN conns /\ conns[conn[r]].app = cur[r] /\ ~conns[conn[r]].served
    /\ pc[r] = "send" => conn[r] \in DOMAIN conns
    /\ pc[r] \in Locked \ {"onBus"} => clients[cur[r]] = None
    /\ pc[r] = "onBus" => clients[cur[r]] \in {None, conn[r]}
    /\ pc[r] = "onBus" /\ cur[r] \notin left => clients[cur[r]] = conn[r]
LockOK == \A r \in Readers : LockAt(r)

\* While the identity is looked up, the process is the one whose pid was read or
\* has gone for good; what its cgroup says is its own if it is still there.
LookupOK ==
    \A r \in Readers :
      /\ pc[r] \in {"cgroup", "recheck"} =>
           seenPid[r] # None /\ (pid[cur[r]] = seenPid[r] \/ cur[r] \in left)
      /\ pc[r] = "recheck" /\ pid[cur[r]] = seenPid[r] => seenLaunch[r] = launch[cur[r]]

\* An entry of the map is a connection of its app.
EntryAt(a) == clients[a] # None => clients[a] \in DOMAIN conns /\ conns[clients[a]].app = a
EntriesOK == \A a \in Apps : EntryAt(a)

\* The connection of an app that has left is kept for an answer.
Kept(k) == conns[k].served /\ conns[k].gone /\ conns[k].waits /\ conns[k].app \in left

\* An open connection is its app's entry and has a reader, is being set up, or is
\* kept; one with a reader is its app's entry as long as the app is there.
OpenAt(k) ==
    /\ conns[k].open => \/ conns[k].served /\ clients[conns[k].app] = k
                        \/ \E r \in Readers : pc[r] \in Setup /\ conn[r] = k
                        \/ Kept(k)
    /\ conns[k].served /\ conns[k].app \notin left => clients[conns[k].app] = k
OpenOK == \A k \in DOMAIN conns : OpenAt(k)

\* No two connections of an app have readers, whether it is there or has left.
ServedOK ==
    \A j, k \in DOMAIN conns : conns[j].served /\ conns[k].served /\ conns[j].app = conns[k].app => j = k

\* The departure of an app with an entry has still to be read, or to be seen by
\* the reader that has just made the entry; no app is reported that is there.
In(m, q) == \E i \in DOMAIN q : q[i] = m
Departure(a) == [type |-> "left", app |-> a]
Reported(q, gone) == \A r \in Readers, m \in Message : In(m, q[r]) /\ m.type = "left" => m.app \in gone
LeftOK ==
    /\ \A a \in left : clients[a] # None =>
         In(Departure(a), queue["portal"]) \/ \E r \in Readers : pc[r] = "onBus" /\ cur[r] = a
    /\ Reported(queue, left)

\* The inductive invariant.
Inv == Types /\ PidsOK /\ LockOK /\ LookupOK /\ EntriesOK /\ OpenOK /\ ServedOK /\ LeftOK /\ RightIdentity

-----------------------------------------------------------------------------
(* What is in a queue, and what a change of one connection leaves alone.     *)

\* Appending to a queue adds the message to those in it.
LEMMA InAppend ==
  ASSUME NEW q \in Seq(Message), NEW x \in Message, NEW m \in Message
  PROVE  /\ Append(q, x) \in Seq(Message)
         /\ In(m, Append(q, x)) <=> In(m, q) \/ m = x
  BY DEF In

\* Reading the first message leaves the others.
LEMMA InTail ==
  ASSUME NEW q \in Seq(Message), q # <<>>, NEW m \in Message
  PROVE  /\ Tail(q) \in Seq(Message) /\ Head(q) \in Message
         /\ In(Head(q), q)
         /\ In(m, Tail(q)) => In(m, q)
         /\ In(m, q) /\ m # Head(q) => In(m, Tail(q))
<1>1. \A i \in DOMAIN Tail(q) : i + 1 \in DOMAIN q /\ Tail(q)[i] = q[i + 1]
  OBVIOUS
<1>2. ASSUME In(m, q), m # Head(q) PROVE In(m, Tail(q))
  <2>1. PICK i \in DOMAIN q : q[i] = m
    BY <1>2 DEF In
  <2>2. i # 1
    BY <1>2, <2>1
  <2>3. i - 1 \in DOMAIN Tail(q) /\ Tail(q)[i - 1] = m
    BY <2>1, <2>2
  <2>4. QED
    BY <2>3 DEF In
<1>3. 1 \in DOMAIN q /\ q[1] = Head(q)
  OBVIOUS
<1>4. QED
  BY <1>1, <1>2, <1>3 DEF In

\* A list of connections.
ListOf(cs) == cs \in Seq(Connection)

\* A message that is sent, and reports nobody who is there, keeps the departures
\* in the queues.
LEMMA SentLeft ==
  ASSUME NEW r \in Readers, NEW x \in Message, Lists,
         queue' = [queue EXCEPT ![r] = Append(queue[r], x)],
         x.type = "left" => x.app \in left', left \subseteq left', Reported(queue, left)
  PROVE  /\ \A q \in Readers, m \in Message : In(m, queue[q]) => In(m, queue'[q])
         /\ In(x, queue'[r])
         /\ Reported(queue', left')
<1>1. queue[r] \in Seq(Message) /\ queue'[r] = Append(queue[r], x) /\ \A q \in Readers : q # r => queue'[q] = queue[q]
  BY DEF Lists
<1>2. \A m \in Message : In(m, queue'[r]) <=> In(m, queue[r]) \/ m = x
  BY <1>1, InAppend
<1>3. QED
  BY <1>1, <1>2 DEF Reported

\* The connections ds are those of cs, but for what the k-th is now.
Changed(cs, ds, k) ==
    /\ ListOf(ds) /\ DOMAIN ds = DOMAIN cs
    /\ \A j \in DOMAIN cs : ds[j].app = cs[j].app /\ (j # k => ds[j] = cs[j])

\* A connection that is replaced in place.
LEMMA Replaced ==
  ASSUME NEW cs \in Seq(Connection), NEW k \in DOMAIN cs, NEW c \in Connection, c.app = cs[k].app
  PROVE  Changed(cs, [cs EXCEPT ![k] = c], k) /\ [cs EXCEPT ![k] = c][k] = c
  BY DEF Changed, ListOf

\* Closing a connection.
LEMMA Closing ==
  ASSUME NEW cs \in Seq(Connection), NEW k \in DOMAIN cs
  PROVE  LET ds == [cs EXCEPT ![k].open = FALSE] IN
         /\ Changed(cs, ds, k)
         /\ ~ds[k].open /\ (ds[k].served <=> cs[k].served) /\ ds[k].id = cs[k].id
<1> DEFINE c == [cs[k] EXCEPT !.open = FALSE]
<1>0. cs[k] \in Connection
  OBVIOUS
<1>1. c \in Connection /\ c.app = cs[k].app /\ ~c.open /\ (c.served <=> cs[k].served) /\ c.id = cs[k].id
  BY <1>0 DEF Connection
<1>2. QED
  BY <1>1, Replaced

\* Closing the connection of an app that has left, unless it waits.
LEMMA Leaving ==
  ASSUME NEW cs \in Seq(Connection), NEW k \in DOMAIN cs
  PROVE  LET ds == [cs EXCEPT ![k].gone = TRUE, ![k].open = OpenAfter(cs[k])] IN
         /\ Changed(cs, ds, k)
         /\ ds[k].gone /\ (ds[k].open <=> cs[k].open /\ cs[k].waits) /\ (ds[k].waits <=> cs[k].waits)
         /\ (ds[k].served <=> cs[k].served) /\ ds[k].id = cs[k].id
<1> DEFINE es == [cs EXCEPT ![k].gone = TRUE]
           c == [cs[k] EXCEPT !.gone = TRUE]
           b == OpenAfter(cs[k])
           d == [c EXCEPT !.open = b]
<1>0. cs[k] \in Connection /\ b \in BOOLEAN /\ (b <=> cs[k].open /\ cs[k].waits)
  <2>1. cs[k] \in Connection
    OBVIOUS
  <2>2. cs[k].open \in BOOLEAN /\ cs[k].waits \in BOOLEAN
    BY <2>1 DEF Connection
  <2>3. QED
    BY <2>1, <2>2 DEF OpenAfter
<1> HIDE DEF b
<1>1. /\ c \in Connection /\ c.app = cs[k].app /\ c.gone /\ (c.served <=> cs[k].served)
      /\ (c.waits <=> cs[k].waits) /\ c.id = cs[k].id
  BY <1>0 DEF Connection
<1>2. Changed(cs, es, k) /\ es[k] = c
  BY <1>1, Replaced
<1>3. es \in Seq(Connection) /\ k \in DOMAIN es
  BY <1>2 DEF Changed, ListOf
<1>4. /\ d \in Connection /\ d.app = c.app /\ d.gone = c.gone /\ (d.served <=> c.served)
      /\ (d.waits <=> c.waits) /\ d.id = c.id /\ (d.open <=> b)
  BY <1>0, <1>1 DEF Connection
<1>5. [es EXCEPT ![k].open = b] = [es EXCEPT ![k] = d]
  BY <1>2, <1>3
<1> HIDE DEF c, es, d
<1>6. Changed(es, [es EXCEPT ![k] = d], k) /\ [es EXCEPT ![k] = d][k] = d
  BY <1>2, <1>3, <1>4, Replaced
<1>7. /\ Changed(cs, [es EXCEPT ![k] = d], k)
      /\ d.gone /\ (d.open <=> cs[k].open /\ cs[k].waits) /\ (d.waits <=> cs[k].waits)
      /\ (d.served <=> cs[k].served) /\ d.id = cs[k].id
  BY <1>0, <1>1, <1>2, <1>4, <1>6 DEF Changed
<1>8. [cs EXCEPT ![k].gone = TRUE, ![k].open = OpenAfter(cs[k])] = [es EXCEPT ![k].open = b]
  BY DEF es, b
<1>9. QED
  BY <1>5, <1>6, <1>7, <1>8

\* A connection gets its reader, or loses it.
LEMMA Serving ==
  ASSUME NEW cs \in Seq(Connection), NEW k \in DOMAIN cs, NEW b \in BOOLEAN
  PROVE  LET ds == [cs EXCEPT ![k].served = b] IN
         /\ Changed(cs, ds, k)
         /\ (ds[k].open <=> cs[k].open) /\ (ds[k].served <=> b) /\ ds[k].id = cs[k].id
<1> DEFINE c == [cs[k] EXCEPT !.served = b]
<1>0. cs[k] \in Connection
  OBVIOUS
<1>1. c \in Connection /\ c.app = cs[k].app /\ (c.open <=> cs[k].open) /\ (c.served <=> b) /\ c.id = cs[k].id
  BY <1>0 DEF Connection
<1>2. QED
  BY <1>1, Replaced

\* The reader of a connection ends.
LEMMA Ending ==
  ASSUME NEW cs \in Seq(Connection), NEW k \in DOMAIN cs
  PROVE  LET ds == [cs EXCEPT ![k].served = FALSE, ![k].waits = FALSE] IN
         /\ Changed(cs, ds, k)
         /\ (ds[k].open <=> cs[k].open) /\ ~ds[k].served /\ ds[k].id = cs[k].id
<1> DEFINE c == [cs[k] EXCEPT !.served = FALSE, !.waits = FALSE]
<1>0. cs[k] \in Connection
  OBVIOUS
<1>1. c \in Connection /\ c.app = cs[k].app /\ (c.open <=> cs[k].open) /\ ~c.served /\ c.id = cs[k].id
  BY <1>0 DEF Connection
<1>2. [cs EXCEPT ![k].served = FALSE, ![k].waits = FALSE] = [cs EXCEPT ![k] = c]
  OBVIOUS
<1> HIDE DEF c
<1>3. QED
  BY <1>1, <1>2, Replaced

\* More is waited for on a connection than before.
More(c, d) ==
    /\ d.app = c.app /\ (d.open <=> c.open) /\ (d.served <=> c.served) /\ d.id = c.id
    /\ (d.gone <=> c.gone) /\ (c.waits => d.waits)

\* A call is waited for, or held.
LEMMA Holding ==
  ASSUME NEW cs \in Seq(Connection), NEW k \in DOMAIN cs, NEW v \in BOOLEAN, NEW w \in BOOLEAN,
         cs[k].waits => w
  PROVE  LET ds == [cs EXCEPT ![k].held = v, ![k].waits = w] IN
         Changed(cs, ds, k) /\ More(cs[k], ds[k])
<1> DEFINE c == [cs[k] EXCEPT !.held = v, !.waits = w]
<1>0. cs[k] \in Connection
  OBVIOUS
<1>1. c \in Connection /\ c.app = cs[k].app /\ More(cs[k], c)
  BY <1>0 DEF Connection, More
<1>2. [cs EXCEPT ![k].held = v, ![k].waits = w] = [cs EXCEPT ![k] = c]
  OBVIOUS
<1> HIDE DEF c
<1>3. QED
  BY <1>1, <1>2, Replaced

\* The same, of the fields one by one.
LEMMA HoldingOne ==
  ASSUME NEW cs \in Seq(Connection), NEW k \in DOMAIN cs
  PROVE  /\ Changed(cs, [cs EXCEPT ![k].waits = TRUE], k) /\ More(cs[k], [cs EXCEPT ![k].waits = TRUE][k])
         /\ Changed(cs, [cs EXCEPT ![k].held = TRUE], k) /\ More(cs[k], [cs EXCEPT ![k].held = TRUE][k])
<1> DEFINE c == [cs[k] EXCEPT !.waits = TRUE]
           d == [cs[k] EXCEPT !.held = TRUE]
<1>0. cs[k] \in Connection
  OBVIOUS
<1>1. c \in Connection /\ c.app = cs[k].app /\ More(cs[k], c)
  BY <1>0 DEF Connection, More
<1>2. d \in Connection /\ d.app = cs[k].app /\ More(cs[k], d)
  BY <1>0 DEF Connection, More
<1>3. QED
  BY <1>1, <1>2, Replaced

\* The last that was waited for has been answered.
LEMMA Answering ==
  ASSUME NEW cs \in Seq(Connection), NEW k \in DOMAIN cs
  PROVE  LET ds == [cs EXCEPT ![k].waits = FALSE, ![k].open = @ /\ ~cs[k].gone] IN
         /\ Changed(cs, ds, k)
         /\ (ds[k].open <=> cs[k].open /\ ~cs[k].gone) /\ (ds[k].served <=> cs[k].served) /\ ds[k].id = cs[k].id
<1> DEFINE b == cs[k].open /\ ~cs[k].gone
           c == [cs[k] EXCEPT !.waits = FALSE, !.open = b]
<1>0. cs[k] \in Connection /\ b \in BOOLEAN
  <2>1. cs[k] \in Connection
    OBVIOUS
  <2>2. cs[k].open \in BOOLEAN /\ cs[k].gone \in BOOLEAN
    BY <2>1 DEF Connection
  <2>3. QED
    BY <2>1, <2>2
<1> HIDE DEF b
<1>1. c \in Connection /\ c.app = cs[k].app /\ (c.open <=> b) /\ (c.served <=> cs[k].served) /\ c.id = cs[k].id
  BY <1>0 DEF Connection
<1>2. [cs EXCEPT ![k].waits = FALSE, ![k].open = b] = [cs EXCEPT ![k] = c]
  OBVIOUS
<1> HIDE DEF c
<1>3. Changed(cs, [cs EXCEPT ![k].waits = FALSE, ![k].open = b], k) /\ [cs EXCEPT ![k].waits = FALSE, ![k].open = b][k] = c
  BY <1>1, <1>2, Replaced
<1>4. [cs EXCEPT ![k].waits = FALSE, ![k].open = @ /\ ~cs[k].gone] = [cs EXCEPT ![k].waits = FALSE, ![k].open = b]
  BY <1>0 DEF b
<1>5. QED
  BY <1>1, <1>3, <1>4 DEF b

\* A connection is registered.
LEMMA Registering ==
  ASSUME NEW cs \in Seq(Connection), NEW k \in DOMAIN cs, NEW x \in Ids
  PROVE  LET ds == [cs EXCEPT ![k].id = x] IN
         /\ Changed(cs, ds, k)
         /\ (ds[k].open <=> cs[k].open) /\ (ds[k].served <=> cs[k].served) /\ ds[k].id = x
<1> DEFINE c == [cs[k] EXCEPT !.id = x]
<1>0. cs[k] \in Connection
  OBVIOUS
<1>1. c \in Connection /\ c.app = cs[k].app /\ (c.open <=> cs[k].open) /\ (c.served <=> cs[k].served) /\ c.id = x
  BY <1>0 DEF Connection
<1>2. QED
  BY <1>1, Replaced

\* A connection is made.
LEMMA Making ==
  ASSUME NEW cs \in Seq(Connection), NEW c \in Connection
  PROVE  /\ Append(cs, c) \in Seq(Connection) /\ Len(Append(cs, c)) = Len(cs) + 1
         /\ DOMAIN Append(cs, c) = DOMAIN cs \cup {Len(cs) + 1} /\ Len(cs) + 1 \notin DOMAIN cs
         /\ \A j \in DOMAIN cs : Append(cs, c)[j] = cs[j]
         /\ Append(cs, c)[Len(cs) + 1] = c
  OBVIOUS

-----------------------------------------------------------------------------
(* What the actions that change connections or queues do, field by field.    *)

Closed(k) ==
    /\ Changed(conns, conns', k)
    /\ ~conns'[k].open /\ (conns'[k].served <=> conns[k].served) /\ conns'[k].id = conns[k].id

\* The host closes a connection, and nothing else changes.
HostClosesDoes(k) ==
    Closed(k) /\ UNCHANGED <<pid, left, launch, queue, clients, creating, pc, cur, conn, seenPid,
                             seenLaunch>>

\* That is what HostCloses does.
LEMMA HostClosesEffect ==
  ASSUME Types, NEW k \in DOMAIN conns, HostCloses(k)
  PROVE  HostClosesDoes(k)
  BY Closing DEF HostClosesDoes, HostCloses, Closed, Types, Shapes, Lists, apps, reader

\* A connection loses its reader, and its app's entry goes.
ServeEndsDoes(k) ==
    /\ conns[k].served /\ ~conns[k].open
    /\ Changed(conns, conns', k)
    /\ ~conns'[k].open /\ ~conns'[k].served /\ conns'[k].id = conns[k].id
    /\ conns[k].app \in Apps /\ clients' = [clients EXCEPT ![conns[k].app] = None]
    /\ UNCHANGED <<pid, left, launch, queue, creating, pc, cur, conn, seenPid, seenLaunch>>

\* That is what ServeEnds does.
LEMMA ServeEndsEffect ==
  ASSUME Types, NEW k \in DOMAIN conns, ServeEnds(k)
  PROVE  ServeEndsDoes(k)
<1> USE DEF ServeEndsDoes
<1>1. conns[k] \in Connection
  BY DEF Types, Shapes, Lists
<1>2. conns[k].app \in Apps
  BY <1>1 DEF Connection
<1>3. QED
  BY <1>2, Ending DEF ServeEnds, Types, Shapes, Lists, apps, reader

\* The app of a connection has left: it is closed unless it waits.
AppLeft(k) ==
    /\ Changed(conns, conns', k)
    /\ conns'[k].gone /\ (conns'[k].open <=> conns[k].open /\ conns[k].waits) /\ (conns'[k].waits <=> conns[k].waits)
    /\ (conns'[k].served <=> conns[k].served) /\ conns'[k].id = conns[k].id

\* A departure is read: the app's entry goes, and its connection unless it waits.
NameChangedDoes(r) ==
    \E a \in Apps :
      /\ pc[r] = "idle" /\ queue[r] # <<>> /\ Head(queue[r]) \in Message
      /\ Head(queue[r]).type = "left" /\ Head(queue[r]).app = a
      /\ queue' = [queue EXCEPT ![r] = Tail(queue[r])]
      /\ clients' = [clients EXCEPT ![a] = None]
      /\ clients[a] = None => conns' = conns
      /\ clients[a] # None => clients[a] \in DOMAIN conns /\ AppLeft(clients[a])
      /\ UNCHANGED <<pid, left, launch, creating, pc, cur, conn, seenPid, seenLaunch>>

\* That is what NameChanged does.
LEMMA NameChangedEffect ==
  ASSUME Types, EntriesOK, NEW r \in Readers, NameChanged(r)
  PROVE  NameChangedDoes(r)
<1> USE DEF NameChangedDoes
<1> DEFINE a == Head(queue[r]).app
<1>1. queue[r] \in Seq(Message) /\ queue[r] # <<>>
  BY DEF NameChanged, ListOf, Types, Shapes, Lists
<1>2. Head(queue[r]) \in Message
  BY <1>1, InTail
<1>3. a \in Apps
  BY <1>2 DEF Message
<1>4. ASSUME clients[a] # None PROVE clients[a] \in DOMAIN conns /\ AppLeft(clients[a])
  <2>1. clients[a] \in DOMAIN conns
    BY <1>3, <1>4 DEF EntriesOK, EntryAt
  <2>2. conns' = [conns EXCEPT ![clients[a]].gone = TRUE, ![clients[a]].open = OpenAfter(conns[clients[a]])]
    BY <1>4 DEF NameChanged
  <2>3. conns \in Seq(Connection)
    BY DEF Types, Shapes, Lists
  <2>4. QED
    BY <2>1, <2>2, <2>3, Leaving DEF AppLeft
<1>5. QED
  BY <1>1, <1>2, <1>3, <1>4 DEF NameChanged, apps, reader

\* A new connection is appended for the app whose call is handled.
ConnectDoes(r) ==
    /\ pc[r] = "connect" /\ cur[r] \in Apps
    /\ ListOf(conns)'
    /\ DOMAIN conns' = DOMAIN conns \cup {conn'[r]} /\ conn'[r] \notin DOMAIN conns /\ conn'[r] \in Nat \ {0}
    /\ \A j \in DOMAIN conns : conns'[j] = conns[j]
    /\ conns'[conn'[r]].app = cur[r] /\ conns'[conn'[r]].id = "none" /\ ~conns'[conn'[r]].served
    /\ \A q \in Readers \ {r} : conn'[q] = conn[q]
    /\ conn' \in [Readers -> Nat]
    /\ pc' = [pc EXCEPT ![r] = "credentials"]
    /\ UNCHANGED <<pid, left, launch, queue, clients, creating, cur, seenPid, seenLaunch>>

\* That is what Connect does.
LEMMA ConnectEffect ==
  ASSUME Types, LockOK, NEW r \in Readers, Connect(r)
  PROVE  ConnectDoes(r)
<1> USE DEF ConnectDoes
<1> DEFINE c == [app |-> cur[r], id |-> "none", open |-> TRUE, gone |-> FALSE, served |-> FALSE, waits |-> FALSE, held |-> FALSE]
<1>1. pc[r] = "connect" /\ cur[r] \in Apps
  BY DEF Connect, LockOK, LockAt, Busy, Locked
<1>2. c \in Connection /\ c.app = cur[r] /\ c.id = "none" /\ ~c.served
  BY <1>1 DEF Connection, Ids
<1> HIDE DEF c
<1>3. conns' = Append(conns, c) /\ conn' = [conn EXCEPT ![r] = Len(conns) + 1]
  BY DEF Connect, c
<1>4. conns \in Seq(Connection) /\ conn \in [Readers -> Nat] /\ Len(conns) + 1 \in Nat \ {0}
  BY DEF Types, Shapes, Lists
<1>5. conn'[r] = Len(conns) + 1 /\ conn' \in [Readers -> Nat] /\ \A q \in Readers \ {r} : conn'[q] = conn[q]
  BY <1>3, <1>4
<1>6. QED
  BY <1>1, <1>2, <1>3, <1>4, <1>5, Making DEF ListOf, Connect, Go, apps, reader

\* A reader gives up: it frees the lock and drops the connection it has.
FailDoes(r) ==
    /\ pc[r] \in {"connect", "insert"}
    /\ pc[r] = "insert" => conn[r] \in DOMAIN conns /\ Closed(conn[r])
    /\ pc[r] = "connect" => conns' = conns
    /\ creating' = "none" /\ Done(r)
    /\ UNCHANGED <<pid, left, launch, queue, clients>>

\* That is what Fail does.
LEMMA FailEffect ==
  ASSUME Types, LockOK, NEW r \in Readers, Fail(r)
  PROVE  FailDoes(r)
<1> USE DEF FailDoes
<1>1. ASSUME pc[r] = "insert" PROVE conn[r] \in DOMAIN conns /\ Closed(conn[r])
  <2>1. conn[r] \in DOMAIN conns
    BY <1>1 DEF LockOK, LockAt, Setup
  <2>2. QED
    BY <1>1, <2>1, Closing DEF Fail, Closed, Types, Shapes, Lists
<1>2. QED
  BY <1>1 DEF Fail, apps

\* The identity read for the process is registered if the process still runs.
RegisterDoes(r) ==
    /\ pc[r] = "recheck" /\ conn[r] \in DOMAIN conns
    /\ Changed(conns, conns', conn[r])
    /\ (conns'[conn[r]].open <=> conns[conn[r]].open) /\ (conns'[conn[r]].served <=> conns[conn[r]].served)
    /\ conns'[conn[r]].id \in {conns[conn[r]].id, Identity(launch[cur[r]])}
    /\ pc' = [pc EXCEPT ![r] = "insert"]
    /\ UNCHANGED <<pid, left, launch, queue, clients, creating, cur, conn, seenPid, seenLaunch>>

\* That is what Register does.
LEMMA RegisterEffect ==
  ASSUME Types, LockOK, LookupOK, NEW r \in Readers, Register(r)
  PROVE  RegisterDoes(r)
<1> USE DEF RegisterDoes
<1>1. pc[r] = "recheck" /\ conn[r] \in DOMAIN conns /\ cur[r] \in Apps
  BY DEF Register, LockOK, LockAt, Setup, Locked, Busy
<1>2. CASE StillRuns(r)
  <2>1. seenLaunch[r] = launch[cur[r]]
    BY <1>1, <1>2 DEF LookupOK, StillRuns
  <2>2. Identity(seenLaunch[r]) \in Ids
    BY <1>1, <2>1 DEF Ids, Types, Shapes, Lists, Launches, Identity
  <2>3. conns' = [conns EXCEPT ![conn[r]].id = Identity(seenLaunch[r])]
    BY <1>2 DEF Register
  <2>4. conns \in Seq(Connection)
    BY DEF Types, Shapes, Lists
  <2>5. /\ Changed(conns, conns', conn[r])
        /\ (conns'[conn[r]].open <=> conns[conn[r]].open) /\ (conns'[conn[r]].served <=> conns[conn[r]].served)
        /\ conns'[conn[r]].id = Identity(seenLaunch[r])
    BY <1>1, <2>2, <2>3, <2>4, Registering
  <2>6. QED
    BY <1>1, <2>1, <2>5 DEF Register, Go, apps, reader
<1>3. CASE ~StillRuns(r)
  <2>1. conns' = conns
    BY <1>3 DEF Register
  <2>2. QED
    BY <1>1, <2>1 DEF Register, Go, apps, reader, Changed, ListOf, Types, Shapes, Lists
<1>4. QED
  BY <1>2, <1>3

\* The connection of an app that is there gets its reader; that of one that has
\* left is closed, and its entry goes.
ServeDoes(r) ==
    /\ pc[r] = "onBus" /\ cur[r] \in Apps /\ conn[r] \in DOMAIN conns
    /\ creating' = "none"
    /\ \/ /\ cur[r] \notin left
          /\ Changed(conns, conns', conn[r])
          /\ (conns'[conn[r]].open <=> conns[conn[r]].open) /\ conns'[conn[r]].served
          /\ conns'[conn[r]].id = conns[conn[r]].id
          /\ pc' = [pc EXCEPT ![r] = "send"]
          /\ UNCHANGED <<clients, cur, conn, seenPid, seenLaunch>>
       \/ /\ cur[r] \in left
          /\ Closed(conn[r])
          /\ clients' = [clients EXCEPT ![cur[r]] = None]
          /\ Done(r)
    /\ UNCHANGED <<pid, left, launch, queue>>

\* That is what Serve does.
LEMMA ServeEffect ==
  ASSUME Types, LockOK, NEW r \in Readers, Serve(r)
  PROVE  ServeDoes(r)
<1> USE DEF ServeDoes
<1>1. pc[r] = "onBus" /\ cur[r] \in Apps /\ conn[r] \in DOMAIN conns
  BY DEF Serve, LockOK, LockAt, Setup, Locked, Busy
<1>2. conns \in Seq(Connection)
  BY DEF Types, Shapes, Lists
<1>3. CASE cur[r] \notin left
  <2>1. conns' = [conns EXCEPT ![conn[r]].served = TRUE]
    BY <1>3 DEF Serve, OnBus
  <2>2. QED
    BY <1>1, <1>2, <1>3, <2>1, Serving DEF Serve, OnBus, Go, apps
<1>4. CASE cur[r] \in left
  <2>1. conns' = [conns EXCEPT ![conn[r]].open = FALSE]
    BY <1>4 DEF Serve, OnBus
  <2>2. Closed(conn[r])
    BY <1>1, <1>2, <2>1, Closing DEF Closed
  <2>3. QED
    BY <1>1, <1>4, <2>2 DEF Serve, OnBus, apps
<1>5. QED
  BY <1>3, <1>4

\* More is waited for on a connection than before.
Waiting(k) == Changed(conns, conns', k) /\ More(conns[k], conns'[k])

\* A reader is done with a call that is waited for or held.
SendWaitsDoes(r) ==
    /\ pc[r] = "send" /\ conn[r] \in DOMAIN conns /\ Waiting(conn[r])
    /\ Done(r)
    /\ UNCHANGED <<pid, left, launch, queue, clients, creating>>

\* That is what SendOpen and Hold do.
LEMMA SendWaitsEffect ==
  ASSUME Types, LockOK, NEW r \in Readers, SendOpen(r) \/ Hold(r)
  PROVE  SendWaitsDoes(r)
<1>1. pc[r] = "send" /\ conn[r] \in DOMAIN conns
  BY DEF SendOpen, Hold, LockOK, LockAt
<1>2. conns \in Seq(Connection)
  BY DEF Types, Lists
<1>3. Waiting(conn[r])
  BY <1>1, <1>2, HoldingOne DEF SendOpen, Hold, Waiting
<1>4. QED
  BY <1>1, <1>3 DEF SendOpen, Hold, SendWaitsDoes, apps

\* Held calls are passed on.
PassHeldDoes(k) ==
    Waiting(k) /\ UNCHANGED <<pid, left, launch, queue, clients, creating, pc, cur, conn, seenPid, seenLaunch>>

\* That is what PassHeld does.
LEMMA PassHeldEffect ==
  ASSUME Types, NEW k \in DOMAIN conns, PassHeld(k)
  PROVE  PassHeldDoes(k)
<1>1. conns \in Seq(Connection) /\ conns[k].waits \in BOOLEAN
  <2>1. conns \in Seq(Connection) /\ conns[k] \in Connection
    BY DEF Types, Lists
  <2>2. QED
    BY <2>1 DEF Connection
<1>2. PICK opens \in {conns[k].waits, TRUE} : conns' = [conns EXCEPT ![k].held = FALSE, ![k].waits = opens]
  BY DEF PassHeld
<1>3. opens \in BOOLEAN /\ (conns[k].waits => opens)
  BY <1>1
<1>4. Waiting(k)
  BY <1>1, <1>2, <1>3, Holding DEF Waiting
<1>5. QED
  BY <1>4 DEF PassHeld, PassHeldDoes, apps, reader

\* Nothing is waited for any longer.
OpenAnsweredDoes(k) ==
    /\ conns[k].served
    /\ Changed(conns, conns', k)
    /\ (conns'[k].open <=> conns[k].open /\ ~conns[k].gone)
    /\ (conns'[k].served <=> conns[k].served) /\ conns'[k].id = conns[k].id
    /\ UNCHANGED <<pid, left, launch, queue, clients, creating, pc, cur, conn, seenPid, seenLaunch>>

\* That is what OpenAnswered does.
LEMMA OpenAnsweredEffect ==
  ASSUME Types, NEW k \in DOMAIN conns, OpenAnswered(k)
  PROVE  OpenAnsweredDoes(k)
<1>1. conns \in Seq(Connection)
  BY DEF Types, Lists
<1>2. QED
  BY <1>1, Answering DEF OpenAnswered, OpenAnsweredDoes, apps, reader

\* A connection is one of an app.
LEMMA AppsOf == Types => \A k \in DOMAIN conns : conns[k].app \in Apps
<1> SUFFICES ASSUME Types, NEW k \in DOMAIN conns PROVE conns[k].app \in Apps
  OBVIOUS
<1>1. conns[k] \in Connection
  BY DEF Types, Lists
<1>2. QED
  BY <1>1 DEF Connection

\* No connection is numbered None.
LEMMA NoneFree == Types => None \notin DOMAIN conns
  BY DEF Types, Lists, None

-----------------------------------------------------------------------------
(* One lemma per part of the invariant, with one step per action.           *)

\* Queues and connections stay lists.
LEMMA ListsStep ==
  ASSUME ReadersAssumption, Types, LockOK, LookupOK, EntriesOK, [Next]_vars
  PROVE  Lists'
<1>1. ASSUME NEW a \in Apps, NEW p \in Pids, AppStarts(a, p) PROVE Lists'
  BY <1>1 DEF AppStarts, Types, Lists
<1>2. ASSUME NEW a \in Apps, NEW r \in Readers, AppCalls(a, r) PROVE Lists'
  <2>1. [type |-> "call", app |-> a] \in Message /\ queue[r] \in Seq(Message)
    BY DEF Message, Types, Lists
  <2>2. QED
    BY <1>2, <2>1, InAppend DEF AppCalls, Types, Lists
<1>3. ASSUME NEW a \in Apps, AppExits(a) PROVE Lists'
  <2>1. [type |-> "left", app |-> a] \in Message /\ queue["portal"] \in Seq(Message)
    BY DEF Message, Types, Lists, ReadersAssumption
  <2>2. QED
    BY <1>3, <2>1, InAppend DEF AppExits, Types, Lists
<1>4. ASSUME NEW k \in DOMAIN conns, HostCloses(k) PROVE Lists'
  <2>1. HostClosesDoes(k)
    BY <1>4, HostClosesEffect
  <2>2. QED
    BY <2>1 DEF HostClosesDoes, Closed, Changed, Types, Lists, ListOf
<1>5. ASSUME NEW k \in DOMAIN conns, ServeEnds(k) PROVE Lists'
  <2>1. ServeEndsDoes(k)
    BY <1>5, ServeEndsEffect
  <2>2. QED
    BY <2>1 DEF ServeEndsDoes, Changed, Types, Lists, ListOf
<1>6. ASSUME NEW r \in Readers, NameChanged(r) PROVE Lists'
  <2>1. NameChangedDoes(r)
    BY <1>6, NameChangedEffect
  <2>2. queue[r] # <<>> => Tail(queue[r]) \in Seq(Message)
    BY DEF Types, Lists
  <2>3. queue' = [queue EXCEPT ![r] = Tail(queue[r])] /\ queue[r] # <<>> /\ conns' \in Seq(Connection)
    BY <2>1 DEF NameChangedDoes, AppLeft, Closed, Changed, ListOf, Types, Lists
  <2>4. QED
    BY <2>2, <2>3 DEF Types, Lists
<1>7. ASSUME NEW r \in Readers, Call(r) PROVE Lists'
  <2>1. queue[r] # <<>> => Tail(queue[r]) \in Seq(Message)
    BY DEF Types, Lists
  <2>2. QED
    BY <1>7, <2>1 DEF Call, Types, Lists
<1>8. ASSUME NEW r \in Readers, Lock(r) PROVE Lists'
  BY <1>8 DEF Lock, Go, Types, Lists
<1>9. ASSUME NEW r \in Readers, Connect(r) PROVE Lists'
  <2>1. ConnectDoes(r)
    BY <1>9, ConnectEffect
  <2>2. QED
    BY <2>1 DEF ConnectDoes, Types, Lists, ListOf
<1>10. ASSUME NEW r \in Readers, Fail(r) PROVE Lists'
  <2>1. FailDoes(r)
    BY <1>10, FailEffect
  <2>2. QED
    BY <2>1 DEF FailDoes, Closed, Changed, Done, Go, Types, Lists, ListOf
<1>11. ASSUME NEW r \in Readers, Credentials(r) PROVE Lists'
  BY <1>11 DEF Credentials, Go, Types, Lists
<1>12. ASSUME NEW r \in Readers, ReadCgroup(r) PROVE Lists'
  BY <1>12 DEF ReadCgroup, Go, Types, Lists
<1>13. ASSUME NEW r \in Readers, Register(r) PROVE Lists'
  <2>1. RegisterDoes(r)
    BY <1>13, RegisterEffect
  <2>2. QED
    BY <2>1 DEF RegisterDoes, Changed, Types, Lists, ListOf
<1>14. ASSUME NEW r \in Readers, RegisterFails(r) PROVE Lists'
  BY <1>14 DEF RegisterFails, Go, Types, Lists
<1>15. ASSUME NEW r \in Readers, Insert(r) PROVE Lists'
  BY <1>15 DEF Insert, Go, Types, Lists
<1>16. ASSUME NEW r \in Readers, Serve(r) PROVE Lists'
  <2>1. ServeDoes(r)
    BY <1>16, ServeEffect
  <2>2. QED
    BY <2>1 DEF ServeDoes, Closed, Changed, Done, Go, Types, Lists, ListOf
<1>17. ASSUME NEW r \in Readers, Send(r) PROVE Lists'
  BY <1>17 DEF Send, Done, Go, Types, Lists
<1>18. ASSUME NEW k \in DOMAIN conns, PassHeld(k) PROVE Lists'
  <2>1. PassHeldDoes(k)
    BY <1>18, PassHeldEffect
  <2>2. QED
    BY <2>1 DEF PassHeldDoes, Waiting, More, Changed, Types, Lists, ListOf
<1>19. ASSUME NEW k \in DOMAIN conns, OpenAnswered(k) PROVE Lists'
  <2>1. OpenAnsweredDoes(k)
    BY <1>19, OpenAnsweredEffect
  <2>2. QED
    BY <2>1 DEF OpenAnsweredDoes, Changed, Types, Lists, ListOf
<1>20. ASSUME NEW r \in Readers, SendOpen(r) PROVE Lists'
  <2>1. SendWaitsDoes(r)
    BY <1>20, SendWaitsEffect
  <2>2. QED
    BY <2>1 DEF SendWaitsDoes, Waiting, More, Changed, Done, Go, Types, Lists, ListOf
<1>21. ASSUME NEW r \in Readers, Hold(r) PROVE Lists'
  <2>1. SendWaitsDoes(r)
    BY <1>21, SendWaitsEffect
  <2>2. QED
    BY <2>1 DEF SendWaitsDoes, Waiting, More, Changed, Done, Go, Types, Lists, ListOf
<1>22. CASE UNCHANGED vars
  BY <1>22 DEF vars, apps, reader, Types, Lists, ListOf
<1>23. QED
  BY <1>1, <1>2, <1>3, <1>4, <1>5, <1>6, <1>7, <1>8, <1>9, <1>10, <1>11, <1>12, <1>13,
     <1>14, <1>15, <1>16, <1>17, <1>18, <1>19, <1>20, <1>21, <1>22 DEF Next

\* The other variables keep their types.
LEMMA ShapesStep ==
  ASSUME ReadersAssumption, Types, LockOK, LookupOK, EntriesOK, [Next]_vars
  PROVE  Shapes'
<1>1. ASSUME NEW a \in Apps, NEW p \in Pids, AppStarts(a, p) PROVE Shapes'
  BY <1>1 DEF AppStarts, ReadersAssumption, Types, Shapes, Setup, Locked, LockAt, apps,
     reader
<1>2. ASSUME NEW a \in Apps, NEW r \in Readers, AppCalls(a, r) PROVE Shapes'
  BY <1>2 DEF AppCalls, ReadersAssumption, Types, Shapes, Setup, Locked, LockAt, apps,
     reader
<1>3. ASSUME NEW a \in Apps, AppExits(a) PROVE Shapes'
  BY <1>3 DEF AppExits, ReadersAssumption, Types, Shapes, Setup, Locked, LockAt, apps,
     reader
<1>4. ASSUME NEW k \in DOMAIN conns, HostCloses(k) PROVE Shapes'
  <2>1. HostClosesDoes(k)
    BY <1>4, HostClosesEffect
  <2>2. QED
    BY <2>1 DEF HostClosesDoes, Closed, Changed, ReadersAssumption, Types, Shapes
<1>5. ASSUME NEW k \in DOMAIN conns, ServeEnds(k) PROVE Shapes'
  <2>1. ServeEndsDoes(k)
    BY <1>5, ServeEndsEffect
  <2>2. QED
    BY <2>1 DEF ServeEndsDoes, Changed, ReadersAssumption, Types, Shapes, None, LockOK,
       LockAt
<1>6. ASSUME NEW r \in Readers, NameChanged(r) PROVE Shapes'
  <2>1. NameChangedDoes(r)
    BY <1>6, NameChangedEffect
  <2>2. QED
    BY <2>1 DEF NameChangedDoes, AppLeft, Closed, Changed, ReadersAssumption, Types, Shapes, None,
       LockOK, LockAt
<1>7. ASSUME NEW r \in Readers, Call(r) PROVE Shapes'
  <2>1. queue[r] \in Seq(Message) /\ queue[r] # <<>>
    BY <1>7 DEF Call, Types, Lists
  <2>2. Head(queue[r]) \in Message
    BY <2>1
  <2>3. Head(queue[r]).app \in Apps
    BY <2>2 DEF Message
  <2>4. QED
    BY <1>7, <2>3, NoneFree DEF Call, Go, apps, reader, ReadersAssumption, Types, Shapes,
       Setup, Locked, Busy
<1>8. ASSUME NEW r \in Readers, Lock(r) PROVE Shapes'
  BY <1>8 DEF Lock, Go, ReadersAssumption, Types, Shapes, Setup, Locked, Busy, None, LockOK,
     LockAt, apps, reader
<1>9. ASSUME NEW r \in Readers, Connect(r) PROVE Shapes'
  <2>1. ConnectDoes(r)
    BY <1>9, ConnectEffect
  <2>2. QED
    BY <2>1 DEF ConnectDoes, ReadersAssumption, Types, Shapes, Setup, Locked, Busy
<1>10. ASSUME NEW r \in Readers, Fail(r) PROVE Shapes'
  <2>1. FailDoes(r)
    BY <1>10, FailEffect
  <2>2. QED
    BY <2>1 DEF FailDoes, Closed, Changed, Done, Go, ReadersAssumption, Types, Shapes, None,
       LockOK, LockAt
<1>11. ASSUME NEW r \in Readers, Credentials(r) PROVE Shapes'
  BY <1>11 DEF Credentials, Go, ReadersAssumption, Types, Shapes, Setup, Locked, Busy, None,
     LockOK, LockAt, apps, reader
<1>12. ASSUME NEW r \in Readers, ReadCgroup(r) PROVE Shapes'
  <2> DEFINE there == {a \in Apps : pid[a] = seenPid[r]}
  <2>1. there # {} => (CHOOSE a \in there : TRUE) \in Apps
    OBVIOUS
  <2> HIDE DEF there
  <2>2. seenLaunch' \in [Readers -> Launches \cup {"none"}]
    BY <1>12, <2>1 DEF ReadCgroup, there, Types, Shapes
  <2>3. pc' \in [Readers -> {"idle"} \cup Busy]
    BY <1>12 DEF ReadCgroup, Go, Types, Shapes, Busy, Locked, Setup
  <2>4. QED
    BY <1>12, <2>2, <2>3 DEF ReadCgroup, Types, Shapes, apps
<1>13. ASSUME NEW r \in Readers, Register(r) PROVE Shapes'
  <2>1. RegisterDoes(r)
    BY <1>13, RegisterEffect
  <2>2. QED
    BY <2>1 DEF RegisterDoes, Changed, ReadersAssumption, Types, Shapes, Setup, Locked, Busy
<1>14. ASSUME NEW r \in Readers, RegisterFails(r) PROVE Shapes'
  BY <1>14 DEF RegisterFails, Go, ReadersAssumption, Types, Shapes, Setup, Locked, Busy,
     None, LockOK, LockAt, apps, reader
<1>15. ASSUME NEW r \in Readers, Insert(r) PROVE Shapes'
  BY <1>15 DEF Insert, Go, ReadersAssumption, Types, Shapes, Setup, Locked, Busy, None,
     LockOK, LockAt, apps, reader
<1>16. ASSUME NEW r \in Readers, Serve(r) PROVE Shapes'
  <2>1. ServeDoes(r)
    BY <1>16, ServeEffect
  <2>2. QED
    BY <2>1 DEF ServeDoes, Closed, Changed, Done, Go, ReadersAssumption, Types, Shapes,
       Setup, Locked, Busy, None, LockOK, LockAt
<1>17. ASSUME NEW r \in Readers, Send(r) PROVE Shapes'
  BY <1>17 DEF Send, Done, Go, ReadersAssumption, Types, Shapes, Setup, Locked, Busy, None,
     LockOK, LockAt, apps, reader
<1>18. ASSUME NEW k \in DOMAIN conns, PassHeld(k) PROVE Shapes'
  <2>1. PassHeldDoes(k)
    BY <1>18, PassHeldEffect
  <2>2. QED
    BY <2>1 DEF PassHeldDoes, Waiting, More, Changed, ReadersAssumption, Types, Shapes, Setup,
       Locked, Busy, None
<1>19. ASSUME NEW k \in DOMAIN conns, OpenAnswered(k) PROVE Shapes'
  <2>1. OpenAnsweredDoes(k)
    BY <1>19, OpenAnsweredEffect
  <2>2. QED
    BY <2>1 DEF OpenAnsweredDoes, Changed, ReadersAssumption, Types, Shapes, Setup, Locked,
       Busy, None
<1>20. ASSUME NEW r \in Readers, SendOpen(r) PROVE Shapes'
  <2>1. SendWaitsDoes(r)
    BY <1>20, SendWaitsEffect
  <2>2. QED
    BY <2>1 DEF SendWaitsDoes, Waiting, More, Changed, Done, Go, ReadersAssumption, Types,
       Shapes, Setup, Locked, Busy, None
<1>21. ASSUME NEW r \in Readers, Hold(r) PROVE Shapes'
  <2>1. SendWaitsDoes(r)
    BY <1>21, SendWaitsEffect
  <2>2. QED
    BY <2>1 DEF SendWaitsDoes, Waiting, More, Changed, Done, Go, ReadersAssumption, Types,
       Shapes, Setup, Locked, Busy, None
<1>22. CASE UNCHANGED vars
  BY <1>22 DEF vars, apps, reader, ReadersAssumption, Types, Shapes
<1>23. QED
  BY <1>1, <1>2, <1>3, <1>4, <1>5, <1>6, <1>7, <1>8, <1>9, <1>10, <1>11, <1>12, <1>13,
     <1>14, <1>15, <1>16, <1>17, <1>18, <1>19, <1>20, <1>21, <1>22 DEF Next

\* A pid is used again only when its process has gone, and no app comes back.
LEMMA PidsStep ==
  ASSUME ReadersAssumption, Types, PidsOK, LockOK, LookupOK, EntriesOK, [Next]_vars
  PROVE  PidsOK'
<1>1. ASSUME NEW a \in Apps, NEW p \in Pids, AppStarts(a, p) PROVE PidsOK'
  BY <1>1 DEF AppStarts, ReadersAssumption, PidsOK, apps, reader
<1>2. ASSUME NEW a \in Apps, NEW r \in Readers, AppCalls(a, r) PROVE PidsOK'
  BY <1>2 DEF AppCalls, ReadersAssumption, PidsOK, apps, reader
<1>3. ASSUME NEW a \in Apps, AppExits(a) PROVE PidsOK'
  BY <1>3 DEF AppExits, ReadersAssumption, Types, Shapes, Setup, PidsOK, apps, reader
<1>4. ASSUME NEW k \in DOMAIN conns, HostCloses(k) PROVE PidsOK'
  <2>1. HostClosesDoes(k)
    BY <1>4, HostClosesEffect
  <2>2. QED
    BY <2>1 DEF HostClosesDoes, Closed, Busy, None, PidsOK
<1>5. ASSUME NEW k \in DOMAIN conns, ServeEnds(k) PROVE PidsOK'
  <2>1. ServeEndsDoes(k)
    BY <1>5, ServeEndsEffect
  <2>2. QED
    BY <2>1 DEF ServeEndsDoes, Busy, None, PidsOK
<1>6. ASSUME NEW r \in Readers, NameChanged(r) PROVE PidsOK'
  <2>1. NameChangedDoes(r)
    BY <1>6, NameChangedEffect
  <2>2. QED
    BY <2>1 DEF NameChangedDoes, AppLeft, Closed, Busy, None, PidsOK
<1>7. ASSUME NEW r \in Readers, Call(r) PROVE PidsOK'
  BY <1>7 DEF Call, Go, ReadersAssumption, PidsOK, apps, reader
<1>8. ASSUME NEW r \in Readers, Lock(r) PROVE PidsOK'
  BY <1>8 DEF Lock, Go, ReadersAssumption, PidsOK, apps, reader
<1>9. ASSUME NEW r \in Readers, Connect(r) PROVE PidsOK'
  <2>1. ConnectDoes(r)
    BY <1>9, ConnectEffect
  <2>2. QED
    BY <2>1 DEF ConnectDoes, ReadersAssumption, Types, Busy, None, PidsOK
<1>10. ASSUME NEW r \in Readers, Fail(r) PROVE PidsOK'
  <2>1. FailDoes(r)
    BY <1>10, FailEffect
  <2>2. QED
    BY <2>1 DEF FailDoes, Busy, None, PidsOK
<1>11. ASSUME NEW r \in Readers, Credentials(r) PROVE PidsOK'
  BY <1>11 DEF Credentials, Go, ReadersAssumption, PidsOK, apps, reader
<1>12. ASSUME NEW r \in Readers, ReadCgroup(r) PROVE PidsOK'
  BY <1>12 DEF ReadCgroup, Go, ReadersAssumption, PidsOK, apps, reader
<1>13. ASSUME NEW r \in Readers, Register(r) PROVE PidsOK'
  <2>1. RegisterDoes(r)
    BY <1>13, RegisterEffect
  <2>2. QED
    BY <2>1 DEF RegisterDoes, Busy, None, PidsOK
<1>14. ASSUME NEW r \in Readers, RegisterFails(r) PROVE PidsOK'
  BY <1>14 DEF RegisterFails, Go, ReadersAssumption, PidsOK, apps, reader
<1>15. ASSUME NEW r \in Readers, Insert(r) PROVE PidsOK'
  BY <1>15 DEF Insert, Go, ReadersAssumption, PidsOK, apps, reader
<1>16. ASSUME NEW r \in Readers, Serve(r) PROVE PidsOK'
  <2>1. ServeDoes(r)
    BY <1>16, ServeEffect
  <2>2. QED
    BY <2>1 DEF ServeDoes, Busy, None, PidsOK
<1>17. ASSUME NEW r \in Readers, Send(r) PROVE PidsOK'
  BY <1>17 DEF Send, PidsOK, apps, reader
<1>18. ASSUME NEW k \in DOMAIN conns, PassHeld(k) PROVE PidsOK'
  <2>1. PassHeldDoes(k)
    BY <1>18, PassHeldEffect
  <2>2. QED
    BY <2>1 DEF PassHeldDoes, Waiting, More, Changed, Busy, None, PidsOK
<1>19. ASSUME NEW k \in DOMAIN conns, OpenAnswered(k) PROVE PidsOK'
  <2>1. OpenAnsweredDoes(k)
    BY <1>19, OpenAnsweredEffect
  <2>2. QED
    BY <2>1 DEF OpenAnsweredDoes, Changed, Busy, None, PidsOK
<1>20. ASSUME NEW r \in Readers, SendOpen(r) PROVE PidsOK'
  <2>1. SendWaitsDoes(r)
    BY <1>20, SendWaitsEffect
  <2>2. QED
    BY <2>1 DEF SendWaitsDoes, Waiting, More, Changed, Done, Go, Busy, None, PidsOK
<1>21. ASSUME NEW r \in Readers, Hold(r) PROVE PidsOK'
  <2>1. SendWaitsDoes(r)
    BY <1>21, SendWaitsEffect
  <2>2. QED
    BY <2>1 DEF SendWaitsDoes, Waiting, More, Changed, Done, Go, Busy, None, PidsOK
<1>22. CASE UNCHANGED vars
  BY <1>22 DEF vars, apps, Busy, None, PidsOK
<1>23. QED
  BY <1>1, <1>2, <1>3, <1>4, <1>5, <1>6, <1>7, <1>8, <1>9, <1>10, <1>11, <1>12, <1>13,
     <1>14, <1>15, <1>16, <1>17, <1>18, <1>19, <1>20, <1>21, <1>22 DEF Next

\* Only the holder of the lock sets up a connection.
LEMMA LockStep ==
  ASSUME ReadersAssumption, Types, LockOK, LookupOK, EntriesOK, OpenOK, LeftOK, [Next]_vars
  PROVE  LockOK'
<1>1. ASSUME NEW a \in Apps, NEW p \in Pids, AppStarts(a, p) PROVE LockOK'
  BY <1>1, NoneFree DEF AppStarts, None, LockOK, LockAt, OpenAt, apps, reader
<1>2. ASSUME NEW a \in Apps, NEW r \in Readers, AppCalls(a, r) PROVE LockOK'
  BY <1>2, NoneFree DEF AppCalls, None, LockOK, LockAt, OpenAt, apps, reader
<1>3. ASSUME NEW a \in Apps, AppExits(a) PROVE LockOK'
  BY <1>3, NoneFree DEF AppExits, None, LockOK, LockAt, OpenAt, apps, reader
<1>4. ASSUME NEW k \in DOMAIN conns, HostCloses(k) PROVE LockOK'
  <2>1. HostClosesDoes(k)
    BY <1>4, HostClosesEffect
  <2>2. QED
    BY <2>1, NoneFree DEF HostClosesDoes, Closed, Changed, ReadersAssumption, LockOK,
       LockAt, EntriesOK
<1>5. ASSUME NEW k \in DOMAIN conns, ServeEnds(k) PROVE LockOK'
  <2>1. ServeEndsDoes(k)
    BY <1>5, ServeEndsEffect
  <2>2. QED
    BY <2>1, NoneFree DEF ServeEndsDoes, Changed, ReadersAssumption, Types, Shapes, Setup,
       LockOK, LockAt, EntriesOK, EntryAt, OpenOK, OpenAt
<1>6. ASSUME NEW r \in Readers, NameChanged(r) PROVE LockOK'
  <2>1. NameChangedDoes(r)
    BY <1>6, NameChangedEffect
  <2>2. PICK a \in Apps :
           /\ Head(queue[r]) \in Message /\ queue[r] # <<>>
           /\ Head(queue[r]).type = "left" /\ Head(queue[r]).app = a
           /\ clients' = [clients EXCEPT ![a] = None]
           /\ clients[a] = None => conns' = conns
           /\ clients[a] # None => clients[a] \in DOMAIN conns /\ AppLeft(clients[a])
           /\ UNCHANGED <<left, creating, pc, cur, conn>>
    BY <2>1 DEF NameChangedDoes
  <2>3. a \in left
    BY <2>2, InTail DEF LeftOK, Reported, Types, Lists
  <2>4. ASSUME NEW q \in Readers PROVE LockAt(q)'
    <3>1. LockAt(q) /\ EntryAt(a)
      BY DEF LockOK, EntriesOK
    <3>2. pc[q] \in Setup => conns'[conn[q]].app = conns[conn[q]].app /\ (conns'[conn[q]].served <=> conns[conn[q]].served) /\ conn[q] \in DOMAIN conns'
      BY <2>2, <3>1 DEF LockAt, AppLeft, Changed
    <3>3. pc[q] \in Busy => clients'[cur[q]] = IF cur[q] = a THEN None ELSE clients[cur[q]]
      BY <2>2, <3>1 DEF LockAt, Types, Shapes
    <3>4. pc[q] = "send" => conn[q] \in DOMAIN conns'
      BY <2>2, <3>1 DEF LockAt, AppLeft, Changed
    <3>5. QED
      BY <2>2, <2>3, <3>1, <3>2, <3>3, <3>4 DEF LockAt, Busy, Locked, Setup
  <2>5. QED
    BY <2>4 DEF LockOK
<1>7. ASSUME NEW r \in Readers, Call(r) PROVE LockOK'
  <2>1. queue[r] \in Seq(Message) /\ queue[r] # <<>>
    BY <1>7 DEF Call, Types, Lists
  <2>2. Head(queue[r]) \in Message
    BY <2>1
  <2>3. Head(queue[r]).app \in Apps
    BY <2>2 DEF Message
  <2>4. clients[Head(queue[r]).app] # None => clients[Head(queue[r]).app] \in DOMAIN conns
    BY <2>3 DEF EntriesOK, EntryAt
  <2>5. QED
    BY <1>7, <2>3, <2>4, NoneFree DEF Call, Go, apps, reader, ReadersAssumption, Types, Shapes,
       Setup, Locked, Busy, None, LockOK, LockAt
<1>8. ASSUME NEW r \in Readers, Lock(r) PROVE LockOK'
  <2>1. cur[r] \in Apps
    BY <1>8 DEF Lock, LockOK, LockAt, Busy
  <2>2. clients[cur[r]] # None => clients[cur[r]] \in DOMAIN conns
    BY <2>1 DEF EntriesOK, EntryAt
  <2>3. QED
    BY <1>8, <2>2, NoneFree DEF Lock, Go, ReadersAssumption, Types, Shapes, Setup, Locked, Busy,
       None, LockOK, LockAt
<1>9. ASSUME NEW r \in Readers, Connect(r) PROVE LockOK'
  <2>1. ConnectDoes(r)
    BY <1>9, ConnectEffect
  <2>2. QED
    BY <2>1, NoneFree DEF ConnectDoes, ReadersAssumption, Types, Shapes, Setup, Locked,
       Busy, None, LockOK, LockAt, EntriesOK
<1>10. ASSUME NEW r \in Readers, Fail(r) PROVE LockOK'
  <2>1. FailDoes(r)
    BY <1>10, FailEffect
  <2>2. QED
    BY <2>1, NoneFree DEF FailDoes, Closed, Changed, Done, Go, ReadersAssumption, Types,
       Shapes, Setup, Locked, Busy, None, LockOK, LockAt, EntriesOK
<1>11. ASSUME NEW r \in Readers, Credentials(r) PROVE LockOK'
  BY <1>11, NoneFree DEF Credentials, Go, Setup, Locked, Busy, None, LockOK, LockAt
<1>12. ASSUME NEW r \in Readers, ReadCgroup(r) PROVE LockOK'
  BY <1>12, NoneFree DEF ReadCgroup, Go, ReadersAssumption, Types, Shapes, Setup, Locked,
     Busy, None, LockOK, LockAt
<1>13. ASSUME NEW r \in Readers, Register(r) PROVE LockOK'
  <2>1. RegisterDoes(r)
    BY <1>13, RegisterEffect
  <2>2. QED
    BY <2>1, NoneFree DEF RegisterDoes, Changed, ReadersAssumption, Types, Shapes, Setup,
       Locked, Busy, None, LockOK, LockAt, EntriesOK
<1>14. ASSUME NEW r \in Readers, RegisterFails(r) PROVE LockOK'
  BY <1>14, NoneFree DEF RegisterFails, Go, Setup, Locked, Busy, None, LockOK, LockAt
<1>15. ASSUME NEW r \in Readers, Insert(r) PROVE LockOK'
  BY <1>15, NoneFree DEF Insert, Go, ReadersAssumption, Types, Shapes, Setup, Locked, Busy,
     None, LockOK, LockAt
<1>16. ASSUME NEW r \in Readers, Serve(r) PROVE LockOK'
  <2>1. ServeDoes(r)
    BY <1>16, ServeEffect
  <2>2. QED
    BY <2>1, NoneFree DEF ServeDoes, Closed, Changed, Done, Go, ReadersAssumption, Types,
       Shapes, Setup, Locked, Busy, None, LockOK, LockAt, EntriesOK
<1>17. ASSUME NEW r \in Readers, Send(r) PROVE LockOK'
  BY <1>17, NoneFree DEF Send, Done, Go, ReadersAssumption, Types, Shapes, Setup, Locked,
     Busy, None, LockOK, LockAt, OpenAt, apps, reader
<1>18. ASSUME NEW k \in DOMAIN conns, PassHeld(k) PROVE LockOK'
  <2>1. PassHeldDoes(k)
    BY <1>18, PassHeldEffect
  <2>2. QED
    BY <2>1, NoneFree DEF PassHeldDoes, Waiting, More, Changed, ReadersAssumption, Types,
       Shapes, Setup, Locked, Busy, None, LockOK, LockAt, EntriesOK
<1>19. ASSUME NEW k \in DOMAIN conns, OpenAnswered(k) PROVE LockOK'
  <2>1. OpenAnsweredDoes(k)
    BY <1>19, OpenAnsweredEffect
  <2>2. QED
    BY <2>1, NoneFree DEF OpenAnsweredDoes, Changed, ReadersAssumption, Types, Shapes, Setup,
       Locked, Busy, None, LockOK, LockAt, EntriesOK
<1>20. ASSUME NEW r \in Readers, SendOpen(r) PROVE LockOK'
  <2>1. SendWaitsDoes(r)
    BY <1>20, SendWaitsEffect
  <2>2. QED
    BY <2>1, NoneFree DEF SendWaitsDoes, Waiting, More, Changed, Done, Go, ReadersAssumption,
       Types, Shapes, Setup, Locked, Busy, None, LockOK, LockAt, EntriesOK
<1>21. ASSUME NEW r \in Readers, Hold(r) PROVE LockOK'
  <2>1. SendWaitsDoes(r)
    BY <1>21, SendWaitsEffect
  <2>2. QED
    BY <2>1, NoneFree DEF SendWaitsDoes, Waiting, More, Changed, Done, Go, ReadersAssumption,
       Types, Shapes, Setup, Locked, Busy, None, LockOK, LockAt, EntriesOK
<1>22. CASE UNCHANGED vars
  BY <1>22 DEF vars, apps, reader, ReadersAssumption, LockOK, LockAt, EntriesOK
<1>23. QED
  BY <1>1, <1>2, <1>3, <1>4, <1>5, <1>6, <1>7, <1>8, <1>9, <1>10, <1>11, <1>12, <1>13,
     <1>14, <1>15, <1>16, <1>17, <1>18, <1>19, <1>20, <1>21, <1>22 DEF Next

\* What is read of a process is its own while it runs.
LEMMA LookupStep ==
  ASSUME ReadersAssumption, Types, PidsOK, LockOK, LookupOK, EntriesOK, [Next]_vars
  PROVE  LookupOK'
<1>1. ASSUME NEW a \in Apps, NEW p \in Pids, AppStarts(a, p) PROVE LookupOK'
  BY <1>1 DEF AppStarts, ReadersAssumption, LookupOK, apps, reader
<1>2. ASSUME NEW a \in Apps, NEW r \in Readers, AppCalls(a, r) PROVE LookupOK'
  BY <1>2 DEF AppCalls, ReadersAssumption, LookupOK, apps, reader
<1>3. ASSUME NEW a \in Apps, AppExits(a) PROVE LookupOK'
  BY <1>3 DEF AppExits, ReadersAssumption, LookupOK, apps, reader
<1>4. ASSUME NEW k \in DOMAIN conns, HostCloses(k) PROVE LookupOK'
  <2>1. HostClosesDoes(k)
    BY <1>4, HostClosesEffect
  <2>2. QED
    BY <2>1 DEF HostClosesDoes, Closed, LockOK, LockAt, LookupOK
<1>5. ASSUME NEW k \in DOMAIN conns, ServeEnds(k) PROVE LookupOK'
  <2>1. ServeEndsDoes(k)
    BY <1>5, ServeEndsEffect
  <2>2. QED
    BY <2>1 DEF ServeEndsDoes, LockOK, LockAt, LookupOK
<1>6. ASSUME NEW r \in Readers, NameChanged(r) PROVE LookupOK'
  <2>1. NameChangedDoes(r)
    BY <1>6, NameChangedEffect
  <2>2. QED
    BY <2>1 DEF NameChangedDoes, AppLeft, Closed, LockOK, LockAt, LookupOK
<1>7. ASSUME NEW r \in Readers, Call(r) PROVE LookupOK'
  BY <1>7 DEF Call, Go, ReadersAssumption, LookupOK, apps, reader
<1>8. ASSUME NEW r \in Readers, Lock(r) PROVE LookupOK'
  BY <1>8 DEF Lock, Go, ReadersAssumption, Types, Shapes, Setup, LookupOK, apps, reader
<1>9. ASSUME NEW r \in Readers, Connect(r) PROVE LookupOK'
  <2>1. ConnectDoes(r)
    BY <1>9, ConnectEffect
  <2>2. QED
    BY <2>1 DEF ConnectDoes, ReadersAssumption, Types, LockOK, LockAt, LookupOK
<1>10. ASSUME NEW r \in Readers, Fail(r) PROVE LookupOK'
  <2>1. FailDoes(r)
    BY <1>10, FailEffect
  <2>2. QED
    BY <2>1 DEF FailDoes, Closed, Changed, Done, Go, ReadersAssumption, Types, LockOK,
       LockAt, LookupOK
<1>11. ASSUME NEW r \in Readers, Credentials(r) PROVE LookupOK'
  BY <1>11 DEF Credentials, Go, ReadersAssumption, Types, Shapes, Setup, LookupOK, apps,
     reader
<1>12. ASSUME NEW r \in Readers, ReadCgroup(r) PROVE LookupOK'
  BY <1>12 DEF ReadCgroup, Go, ReadersAssumption, Types, Shapes, Setup, PidsOK, LockOK,
     LockAt, LookupOK, apps, reader
<1>13. ASSUME NEW r \in Readers, Register(r) PROVE LookupOK'
  <2>1. RegisterDoes(r)
    BY <1>13, RegisterEffect
  <2>2. QED
    BY <2>1 DEF RegisterDoes, LockOK, LockAt, LookupOK
<1>14. ASSUME NEW r \in Readers, RegisterFails(r) PROVE LookupOK'
  BY <1>14 DEF RegisterFails, Go, ReadersAssumption, LookupOK, apps, reader
<1>15. ASSUME NEW r \in Readers, Insert(r) PROVE LookupOK'
  BY <1>15 DEF Insert, Go, ReadersAssumption, LookupOK, apps, reader
<1>16. ASSUME NEW r \in Readers, Serve(r) PROVE LookupOK'
  <2>1. ServeDoes(r)
    BY <1>16, ServeEffect
  <2>2. QED
    BY <2>1 DEF ServeDoes, Closed, Changed, Done, Go, ReadersAssumption, Types, Shapes,
       Setup, Locked, LockOK, LockAt, LookupOK
<1>17. ASSUME NEW r \in Readers, Send(r) PROVE LookupOK'
  BY <1>17 DEF Send, Done, Go, ReadersAssumption, LookupOK, apps, reader
<1>18. ASSUME NEW k \in DOMAIN conns, PassHeld(k) PROVE LookupOK'
  <2>1. PassHeldDoes(k)
    BY <1>18, PassHeldEffect
  <2>2. QED
    BY <2>1 DEF PassHeldDoes, Waiting, More, Changed, LockOK, LockAt, LookupOK
<1>19. ASSUME NEW k \in DOMAIN conns, OpenAnswered(k) PROVE LookupOK'
  <2>1. OpenAnsweredDoes(k)
    BY <1>19, OpenAnsweredEffect
  <2>2. QED
    BY <2>1 DEF OpenAnsweredDoes, Changed, LockOK, LockAt, LookupOK
<1>20. ASSUME NEW r \in Readers, SendOpen(r) PROVE LookupOK'
  <2>1. SendWaitsDoes(r)
    BY <1>20, SendWaitsEffect
  <2>2. QED
    BY <2>1 DEF SendWaitsDoes, Waiting, More, Changed, Done, Go, LockOK, LockAt, LookupOK
<1>21. ASSUME NEW r \in Readers, Hold(r) PROVE LookupOK'
  <2>1. SendWaitsDoes(r)
    BY <1>21, SendWaitsEffect
  <2>2. QED
    BY <2>1 DEF SendWaitsDoes, Waiting, More, Changed, Done, Go, LockOK, LockAt, LookupOK
<1>22. CASE UNCHANGED vars
  BY <1>22 DEF vars, apps, reader, ReadersAssumption, Types, LockOK, LockAt, LookupOK
<1>23. QED
  BY <1>1, <1>2, <1>3, <1>4, <1>5, <1>6, <1>7, <1>8, <1>9, <1>10, <1>11, <1>12, <1>13,
     <1>14, <1>15, <1>16, <1>17, <1>18, <1>19, <1>20, <1>21, <1>22 DEF Next

\* An entry stays a connection of its app.
LEMMA EntriesStep ==
  ASSUME ReadersAssumption, Types, LockOK, LookupOK, EntriesOK, [Next]_vars
  PROVE  EntriesOK'
<1>1. ASSUME NEW a \in Apps, NEW p \in Pids, AppStarts(a, p) PROVE EntriesOK'
  BY <1>1, NoneFree DEF AppStarts, ReadersAssumption, LockOK, LockAt, EntriesOK, EntryAt,
     apps, reader
<1>2. ASSUME NEW a \in Apps, NEW r \in Readers, AppCalls(a, r) PROVE EntriesOK'
  BY <1>2, NoneFree DEF AppCalls, ReadersAssumption, LockOK, LockAt, EntriesOK, EntryAt,
     apps, reader
<1>3. ASSUME NEW a \in Apps, AppExits(a) PROVE EntriesOK'
  BY <1>3, NoneFree DEF AppExits, ReadersAssumption, LockOK, LockAt, EntriesOK, EntryAt,
     apps, reader
<1>4. ASSUME NEW k \in DOMAIN conns, HostCloses(k) PROVE EntriesOK'
  <2>1. HostClosesDoes(k)
    BY <1>4, HostClosesEffect
  <2>2. QED
    BY <2>1, NoneFree DEF HostClosesDoes, Closed, Changed, ReadersAssumption, Types, LockAt,
       EntriesOK, EntryAt
<1>5. ASSUME NEW k \in DOMAIN conns, ServeEnds(k) PROVE EntriesOK'
  <2>1. ServeEndsDoes(k)
    BY <1>5, ServeEndsEffect
  <2>2. QED
    BY <2>1, NoneFree DEF ServeEndsDoes, Changed, ReadersAssumption, Types, LockAt,
       EntriesOK, EntryAt
<1>6. ASSUME NEW r \in Readers, NameChanged(r) PROVE EntriesOK'
  <2>1. NameChangedDoes(r)
    BY <1>6, NameChangedEffect
  <2>2. QED
    BY <2>1, NoneFree DEF NameChangedDoes, AppLeft, Closed, Changed, ReadersAssumption, Types,
       LockAt, EntriesOK, EntryAt
<1>7. ASSUME NEW r \in Readers, Call(r) PROVE EntriesOK'
  BY <1>7, NoneFree DEF Call, Go, ReadersAssumption, LockOK, LockAt, EntriesOK, EntryAt,
     apps, reader
<1>8. ASSUME NEW r \in Readers, Lock(r) PROVE EntriesOK'
  BY <1>8, NoneFree DEF Lock, Go, ReadersAssumption, LockOK, LockAt, EntriesOK, EntryAt,
     apps, reader
<1>9. ASSUME NEW r \in Readers, Connect(r) PROVE EntriesOK'
  <2>1. ConnectDoes(r)
    BY <1>9, ConnectEffect
  <2>2. QED
    BY <2>1, NoneFree DEF ConnectDoes, ReadersAssumption, Types, LockAt, EntriesOK, EntryAt
<1>10. ASSUME NEW r \in Readers, Fail(r) PROVE EntriesOK'
  <2>1. FailDoes(r)
    BY <1>10, FailEffect
  <2>2. QED
    BY <2>1, NoneFree DEF FailDoes, Closed, Changed, Done, LockAt, EntriesOK, EntryAt
<1>11. ASSUME NEW r \in Readers, Credentials(r) PROVE EntriesOK'
  BY <1>11, NoneFree DEF Credentials, Go, ReadersAssumption, LockOK, LockAt, EntriesOK,
     EntryAt, apps, reader
<1>12. ASSUME NEW r \in Readers, ReadCgroup(r) PROVE EntriesOK'
  BY <1>12, NoneFree DEF ReadCgroup, Go, ReadersAssumption, LockOK, LockAt, EntriesOK,
     EntryAt, apps, reader
<1>13. ASSUME NEW r \in Readers, Register(r) PROVE EntriesOK'
  <2>1. RegisterDoes(r)
    BY <1>13, RegisterEffect
  <2>2. QED
    BY <2>1, NoneFree DEF RegisterDoes, Changed, ReadersAssumption, Types, LockAt,
       EntriesOK, EntryAt
<1>14. ASSUME NEW r \in Readers, RegisterFails(r) PROVE EntriesOK'
  BY <1>14, NoneFree DEF RegisterFails, Go, ReadersAssumption, LockOK, LockAt, EntriesOK,
     EntryAt, apps, reader
<1>15. ASSUME NEW r \in Readers, Insert(r) PROVE EntriesOK'
  BY <1>15, NoneFree DEF Insert, Go, ReadersAssumption, Types, Shapes, Setup, LockOK,
     LockAt, EntriesOK, EntryAt, apps, reader
<1>16. ASSUME NEW r \in Readers, Serve(r) PROVE EntriesOK'
  <2>1. ServeDoes(r)
    BY <1>16, ServeEffect
  <2>2. QED
    BY <2>1, NoneFree DEF ServeDoes, Closed, Changed, Done, Go, ReadersAssumption, Types,
       Shapes, Setup, Locked, LockAt, EntriesOK, EntryAt
<1>17. ASSUME NEW r \in Readers, Send(r) PROVE EntriesOK'
  BY <1>17, NoneFree DEF Send, LockOK, LockAt, EntriesOK, EntryAt, apps, reader
<1>18. ASSUME NEW k \in DOMAIN conns, PassHeld(k) PROVE EntriesOK'
  <2>1. PassHeldDoes(k)
    BY <1>18, PassHeldEffect
  <2>2. QED
    BY <2>1, NoneFree DEF PassHeldDoes, Waiting, More, Changed, ReadersAssumption, Types,
       LockAt, EntriesOK, EntryAt
<1>19. ASSUME NEW k \in DOMAIN conns, OpenAnswered(k) PROVE EntriesOK'
  <2>1. OpenAnsweredDoes(k)
    BY <1>19, OpenAnsweredEffect
  <2>2. QED
    BY <2>1, NoneFree DEF OpenAnsweredDoes, Changed, ReadersAssumption, Types, LockAt,
       EntriesOK, EntryAt
<1>20. ASSUME NEW r \in Readers, SendOpen(r) PROVE EntriesOK'
  <2>1. SendWaitsDoes(r)
    BY <1>20, SendWaitsEffect
  <2>2. QED
    BY <2>1, NoneFree DEF SendWaitsDoes, Waiting, More, Changed, Done, Go, ReadersAssumption,
       Types, LockAt, EntriesOK, EntryAt
<1>21. ASSUME NEW r \in Readers, Hold(r) PROVE EntriesOK'
  <2>1. SendWaitsDoes(r)
    BY <1>21, SendWaitsEffect
  <2>2. QED
    BY <2>1, NoneFree DEF SendWaitsDoes, Waiting, More, Changed, Done, Go, ReadersAssumption,
       Types, LockAt, EntriesOK, EntryAt
<1>22. CASE UNCHANGED vars
  BY <1>22 DEF vars, apps, LockAt, EntriesOK, EntryAt
<1>23. QED
  BY <1>1, <1>2, <1>3, <1>4, <1>5, <1>6, <1>7, <1>8, <1>9, <1>10, <1>11, <1>12, <1>13,
     <1>14, <1>15, <1>16, <1>17, <1>18, <1>19, <1>20, <1>21, <1>22 DEF Next

\* An open connection stays its app's entry, or that of the reader that makes it.
LEMMA OpenStep ==
  ASSUME ReadersAssumption, Types, LockOK, LookupOK, EntriesOK, OpenOK, ServedOK, LeftOK,
         [Next]_vars
  PROVE  OpenOK'
<1>1. ASSUME NEW a \in Apps, NEW p \in Pids, AppStarts(a, p) PROVE OpenOK'
  BY <1>1, NoneFree DEF AppStarts, EntriesOK, EntryAt, OpenOK, OpenAt, Kept, apps, reader
<1>2. ASSUME NEW a \in Apps, NEW r \in Readers, AppCalls(a, r) PROVE OpenOK'
  BY <1>2, NoneFree DEF AppCalls, EntriesOK, EntryAt, OpenOK, OpenAt, Kept, apps, reader
<1>3. ASSUME NEW a \in Apps, AppExits(a) PROVE OpenOK'
  BY <1>3, NoneFree DEF AppExits, EntriesOK, EntryAt, OpenOK, OpenAt, Kept, apps, reader
<1>4. ASSUME NEW k \in DOMAIN conns, HostCloses(k) PROVE OpenOK'
  <2>1. HostClosesDoes(k)
    BY <1>4, HostClosesEffect
  <2>2. QED
    BY <2>1, NoneFree DEF HostClosesDoes, Closed, Changed, ReadersAssumption, EntryAt,
       OpenOK, OpenAt, Kept
<1>5. ASSUME NEW k \in DOMAIN conns, ServeEnds(k) PROVE OpenOK'
  <2>1. ServeEndsDoes(k)
    BY <1>5, ServeEndsEffect
  <2>2. ASSUME NEW j \in DOMAIN conns' PROVE OpenAt(j)'
    <3>1. j \in DOMAIN conns /\ conns'[j].app = conns[j].app /\ conns[j].app \in Apps
      BY <2>1, AppsOf DEF ServeEndsDoes, Changed
    <3>2. OpenAt(j) /\ (conns[j].served /\ conns[j].app = conns[k].app => j = k)
      BY <2>1, <3>1 DEF OpenOK, ServedOK, ServeEndsDoes
    <3>3. CASE j = k
      BY <2>1, <3>3 DEF ServeEndsDoes, OpenAt, Kept
    <3>4. CASE j # k
      <4>1. conns'[j] = conns[j]
        BY <2>1, <3>1, <3>4 DEF ServeEndsDoes, Changed
      <4>2. conns[j].app # conns[k].app => clients'[conns[j].app] = clients[conns[j].app]
        BY <2>1, <3>1 DEF ServeEndsDoes
      <4>3. QED
        BY <2>1, <3>1, <3>2, <3>4, <4>1, <4>2 DEF ServeEndsDoes, OpenAt, Kept
    <3>5. QED
      BY <3>3, <3>4
  <2>3. QED
    BY <2>2 DEF OpenOK
<1>6. ASSUME NEW r \in Readers, NameChanged(r) PROVE OpenOK'
  <2>1. NameChangedDoes(r)
    BY <1>6, NameChangedEffect
  <2>2. PICK a \in Apps :
           /\ Head(queue[r]) \in Message /\ queue[r] # <<>>
           /\ Head(queue[r]).type = "left" /\ Head(queue[r]).app = a
           /\ clients' = [clients EXCEPT ![a] = None]
           /\ clients[a] = None => conns' = conns
           /\ clients[a] # None => clients[a] \in DOMAIN conns /\ AppLeft(clients[a])
           /\ UNCHANGED <<left, creating, pc, cur, conn>>
    BY <2>1 DEF NameChangedDoes
  <2>3. a \in left
    BY <2>2, InTail DEF LeftOK, Reported, Types, Lists
  <2>4. ASSUME NEW j \in DOMAIN conns' PROVE OpenAt(j)'
    <3>1. j \in DOMAIN conns /\ conns'[j].app = conns[j].app /\ conns[j].app \in Apps
      BY <2>2, AppsOf DEF AppLeft, Changed
    <3>2. OpenAt(j) /\ EntryAt(a)
      BY <3>1 DEF OpenOK, EntriesOK
    <3>3. (conns'[j].served <=> conns[j].served) /\ (conns'[j].open => conns[j].open)
      BY <2>2, <3>1 DEF AppLeft, Changed
    <3>4. clients'[conns[j].app] = IF conns[j].app = a THEN None ELSE clients[conns[j].app]
      BY <2>2, <3>1 DEF Types, Shapes
    <3>5. conns[j].app = a /\ clients[a] = j /\ conns'[j].open => conns'[j].gone /\ conns'[j].waits
      BY <2>2, <3>1, NoneFree DEF AppLeft
    <3>6. Kept(j) => Kept(j)'
      BY <2>2, <3>1, <3>3 DEF AppLeft, Changed, Kept
    <3>7. conns[j].app = a /\ clients[a] = j /\ conns'[j].open /\ conns[j].served => Kept(j)'
      BY <2>2, <2>3, <3>1, <3>3, <3>5 DEF Kept
    <3>8. QED
      BY <2>2, <2>3, <3>1, <3>2, <3>3, <3>4, <3>6, <3>7 DEF OpenAt
  <2>5. QED
    BY <2>4 DEF OpenOK
<1>7. ASSUME NEW r \in Readers, Call(r) PROVE OpenOK'
  BY <1>7, NoneFree DEF Call, Go, Setup, Locked, Busy, EntriesOK, EntryAt, OpenOK, OpenAt, Kept,
     apps, reader
<1>8. ASSUME NEW r \in Readers, Lock(r) PROVE OpenOK'
  BY <1>8, NoneFree DEF Lock, Go, ReadersAssumption, Types, Shapes, Setup, Locked, Busy,
     EntriesOK, EntryAt, OpenOK, OpenAt, Kept, apps, reader
<1>9. ASSUME NEW r \in Readers, Connect(r) PROVE OpenOK'
  <2>1. ConnectDoes(r)
    BY <1>9, ConnectEffect
  <2>2. QED
    BY <2>1, NoneFree DEF ConnectDoes, ReadersAssumption, Types, Shapes, Setup, EntryAt,
       OpenOK, OpenAt, Kept
<1>10. ASSUME NEW r \in Readers, Fail(r) PROVE OpenOK'
  <2>1. FailDoes(r)
    BY <1>10, FailEffect
  <2>2. QED
    BY <2>1, NoneFree DEF FailDoes, Closed, Changed, Done, Go, ReadersAssumption, Types,
       Shapes, Setup, EntryAt, OpenOK, OpenAt, Kept
<1>11. ASSUME NEW r \in Readers, Credentials(r) PROVE OpenOK'
  BY <1>11, NoneFree DEF Credentials, Go, Setup, Locked, Busy, EntriesOK, EntryAt, OpenOK,
     OpenAt, Kept, apps, reader
<1>12. ASSUME NEW r \in Readers, ReadCgroup(r) PROVE OpenOK'
  BY <1>12, NoneFree DEF ReadCgroup, Go, ReadersAssumption, Types, Shapes, Setup, Locked,
     Busy, EntriesOK, EntryAt, OpenOK, OpenAt, Kept, apps, reader
<1>13. ASSUME NEW r \in Readers, Register(r) PROVE OpenOK'
  <2>1. RegisterDoes(r)
    BY <1>13, RegisterEffect
  <2>2. QED
    BY <2>1, NoneFree DEF RegisterDoes, Changed, ReadersAssumption, Types, Shapes, Setup,
       EntryAt, OpenOK, OpenAt, Kept
<1>14. ASSUME NEW r \in Readers, RegisterFails(r) PROVE OpenOK'
  BY <1>14, NoneFree DEF RegisterFails, Go, Setup, Locked, Busy, EntriesOK, EntryAt, OpenOK,
     OpenAt, Kept, apps, reader
<1>15. ASSUME NEW r \in Readers, Insert(r) PROVE OpenOK'
  BY <1>15, NoneFree DEF Insert, Go, Setup, Locked, Busy, None, LockOK, LockAt, EntriesOK,
     EntryAt, OpenOK, OpenAt, Kept, apps, reader
<1>16. ASSUME NEW r \in Readers, Serve(r) PROVE OpenOK'
  <2>1. ServeDoes(r)
    BY <1>16, ServeEffect
  <2>2. ASSUME NEW j \in DOMAIN conns' PROVE OpenAt(j)'
    <3>1. j \in DOMAIN conns /\ conns'[j].app = conns[j].app /\ conns[j].app \in Apps
      BY <2>1, AppsOf DEF ServeDoes, Closed, Changed
    <3>2. OpenAt(j) /\ LockAt(r) /\ conns[conn[r]].app = cur[r]
      BY <2>1, <3>1 DEF OpenOK, LockOK, LockAt, ServeDoes, Setup
    <3>3. \A q \in Readers : pc[q] \in Setup => q = r
      BY <2>1, <3>2 DEF LockOK, LockAt, ServeDoes, Setup, Locked
    <3>4. CASE j = conn[r]
      BY <2>1, <3>1, <3>2, <3>4 DEF ServeDoes, LockAt, OpenAt, Kept, Closed
    <3>5. CASE j # conn[r]
      <4>1. conns'[j] = conns[j] /\ ~\E q \in Readers : pc[q] \in Setup /\ conn[q] = j
        BY <2>1, <3>1, <3>3, <3>5 DEF ServeDoes, Closed, Changed
      <4>2. conns[j].app # cur[r] \/ cur[r] \notin left => clients'[conns[j].app] = clients[conns[j].app]
        BY <2>1, <3>1 DEF ServeDoes, Types, Shapes
      <4>3. conns[j].app = cur[r] /\ cur[r] \in left => clients[cur[r]] # j
        BY <2>1, <3>1, <3>2, <3>5, NoneFree DEF LockAt, ServeDoes
      <4>4. QED
        BY <2>1, <3>1, <3>2, <4>1, <4>2, <4>3 DEF ServeDoes, OpenAt, Kept
    <3>6. QED
      BY <3>4, <3>5
  <2>3. QED
    BY <2>2 DEF OpenOK
<1>17. ASSUME NEW r \in Readers, Send(r) PROVE OpenOK'
  BY <1>17, NoneFree DEF Send, Done, Go, Setup, Locked, Busy, EntriesOK, EntryAt, OpenOK,
     OpenAt, Kept, apps, reader
<1>18. ASSUME NEW k \in DOMAIN conns, PassHeld(k) PROVE OpenOK'
  <2>1. PassHeldDoes(k)
    BY <1>18, PassHeldEffect
  <2>2. QED
    BY <2>1, NoneFree DEF PassHeldDoes, Waiting, More, Changed, ReadersAssumption, Types,
       Shapes, Setup, Locked, Busy, EntryAt, OpenOK, OpenAt, Kept
<1>19. ASSUME NEW k \in DOMAIN conns, OpenAnswered(k) PROVE OpenOK'
  <2>1. OpenAnsweredDoes(k)
    BY <1>19, OpenAnsweredEffect
  <2>2. QED
    BY <2>1, NoneFree DEF OpenAnsweredDoes, Changed, ReadersAssumption, Types, Shapes, Setup,
       Locked, Busy, EntryAt, OpenOK, OpenAt, Kept
<1>20. ASSUME NEW r \in Readers, SendOpen(r) PROVE OpenOK'
  <2>1. SendWaitsDoes(r)
    BY <1>20, SendWaitsEffect
  <2>2. QED
    BY <2>1, NoneFree DEF SendWaitsDoes, Waiting, More, Changed, Done, Go, ReadersAssumption,
       Types, Shapes, Setup, Locked, Busy, EntryAt, OpenOK, OpenAt, Kept
<1>21. ASSUME NEW r \in Readers, Hold(r) PROVE OpenOK'
  <2>1. SendWaitsDoes(r)
    BY <1>21, SendWaitsEffect
  <2>2. QED
    BY <2>1, NoneFree DEF SendWaitsDoes, Waiting, More, Changed, Done, Go, ReadersAssumption,
       Types, Shapes, Setup, Locked, Busy, EntryAt, OpenOK, OpenAt, Kept
<1>22. CASE UNCHANGED vars
  BY <1>22 DEF vars, apps, reader, ReadersAssumption, EntryAt, OpenOK, OpenAt, Kept
<1>23. QED
  BY <1>1, <1>2, <1>3, <1>4, <1>5, <1>6, <1>7, <1>8, <1>9, <1>10, <1>11, <1>12, <1>13,
     <1>14, <1>15, <1>16, <1>17, <1>18, <1>19, <1>20, <1>21, <1>22 DEF Next

\* No second connection of an app gets a reader.
LEMMA ServedStep ==
  ASSUME ReadersAssumption, Types, LockOK, LookupOK, EntriesOK, OpenOK, ServedOK, [Next]_vars
  PROVE  ServedOK'
<1>1. ASSUME NEW a \in Apps, NEW p \in Pids, AppStarts(a, p) PROVE ServedOK'
  BY <1>1 DEF AppStarts, ReadersAssumption, Types, ServedOK, apps, reader
<1>2. ASSUME NEW a \in Apps, NEW r \in Readers, AppCalls(a, r) PROVE ServedOK'
  BY <1>2 DEF AppCalls, ReadersAssumption, Types, ServedOK, apps, reader
<1>3. ASSUME NEW a \in Apps, AppExits(a) PROVE ServedOK'
  BY <1>3 DEF AppExits, ReadersAssumption, Types, ServedOK, apps, reader
<1>4. ASSUME NEW k \in DOMAIN conns, HostCloses(k) PROVE ServedOK'
  <2>1. HostClosesDoes(k)
    BY <1>4, HostClosesEffect
  <2>2. QED
    BY <2>1 DEF HostClosesDoes, Closed, Changed, OpenOK, OpenAt, ServedOK
<1>5. ASSUME NEW k \in DOMAIN conns, ServeEnds(k) PROVE ServedOK'
  <2>1. ServeEndsDoes(k)
    BY <1>5, ServeEndsEffect
  <2>2. QED
    BY <2>1 DEF ServeEndsDoes, Changed, OpenOK, OpenAt, ServedOK
<1>6. ASSUME NEW r \in Readers, NameChanged(r) PROVE ServedOK'
  <2>1. NameChangedDoes(r)
    BY <1>6, NameChangedEffect
  <2>2. DOMAIN conns' = DOMAIN conns /\ \A j \in DOMAIN conns : conns'[j].app = conns[j].app /\ (conns'[j].served <=> conns[j].served)
    BY <2>1 DEF NameChangedDoes, AppLeft, Closed, Changed
  <2>3. QED
    BY <2>2 DEF ServedOK
<1>7. ASSUME NEW r \in Readers, Call(r) PROVE ServedOK'
  BY <1>7 DEF Call, ServedOK, apps, reader
<1>8. ASSUME NEW r \in Readers, Lock(r) PROVE ServedOK'
  BY <1>8 DEF Lock, ServedOK, apps, reader
<1>9. ASSUME NEW r \in Readers, Connect(r) PROVE ServedOK'
  <2>1. ConnectDoes(r)
    BY <1>9, ConnectEffect
  <2>2. QED
    BY <2>1 DEF ConnectDoes, OpenOK, OpenAt, ServedOK
<1>10. ASSUME NEW r \in Readers, Fail(r) PROVE ServedOK'
  <2>1. FailDoes(r)
    BY <1>10, FailEffect
  <2>2. QED
    BY <2>1 DEF FailDoes, Closed, Changed, Done, Go, OpenOK, OpenAt, ServedOK
<1>11. ASSUME NEW r \in Readers, Credentials(r) PROVE ServedOK'
  BY <1>11 DEF Credentials, ServedOK, apps, reader
<1>12. ASSUME NEW r \in Readers, ReadCgroup(r) PROVE ServedOK'
  BY <1>12 DEF ReadCgroup, ServedOK, apps, reader
<1>13. ASSUME NEW r \in Readers, Register(r) PROVE ServedOK'
  <2>1. RegisterDoes(r)
    BY <1>13, RegisterEffect
  <2>2. QED
    BY <2>1 DEF RegisterDoes, Changed, OpenOK, OpenAt, ServedOK
<1>14. ASSUME NEW r \in Readers, RegisterFails(r) PROVE ServedOK'
  BY <1>14 DEF RegisterFails, ServedOK, apps, reader
<1>15. ASSUME NEW r \in Readers, Insert(r) PROVE ServedOK'
  BY <1>15 DEF Insert, ServedOK, apps, reader
<1>16. ASSUME NEW r \in Readers, Serve(r) PROVE ServedOK'
  <2>1. ServeDoes(r)
    BY <1>16, ServeEffect
  <2>2. QED
    BY <2>1 DEF ServeDoes, Closed, Changed, Done, Go, Setup, Locked, Busy, None, LockOK,
       LockAt, OpenOK, OpenAt, ServedOK
<1>17. ASSUME NEW r \in Readers, Send(r) PROVE ServedOK'
  BY <1>17 DEF Send, Done, ServedOK, apps, reader
<1>18. ASSUME NEW k \in DOMAIN conns, PassHeld(k) PROVE ServedOK'
  <2>1. PassHeldDoes(k)
    BY <1>18, PassHeldEffect
  <2>2. QED
    BY <2>1 DEF PassHeldDoes, Waiting, More, Changed, OpenOK, OpenAt, ServedOK
<1>19. ASSUME NEW k \in DOMAIN conns, OpenAnswered(k) PROVE ServedOK'
  <2>1. OpenAnsweredDoes(k)
    BY <1>19, OpenAnsweredEffect
  <2>2. QED
    BY <2>1 DEF OpenAnsweredDoes, Changed, OpenOK, OpenAt, ServedOK
<1>20. ASSUME NEW r \in Readers, SendOpen(r) PROVE ServedOK'
  <2>1. SendWaitsDoes(r)
    BY <1>20, SendWaitsEffect
  <2>2. QED
    BY <2>1 DEF SendWaitsDoes, Waiting, More, Changed, Done, Go, OpenOK, OpenAt, ServedOK
<1>21. ASSUME NEW r \in Readers, Hold(r) PROVE ServedOK'
  <2>1. SendWaitsDoes(r)
    BY <1>21, SendWaitsEffect
  <2>2. QED
    BY <2>1 DEF SendWaitsDoes, Waiting, More, Changed, Done, Go, OpenOK, OpenAt, ServedOK
<1>22. CASE UNCHANGED vars
  BY <1>22 DEF vars, apps, reader, OpenOK, OpenAt, ServedOK
<1>23. QED
  BY <1>1, <1>2, <1>3, <1>4, <1>5, <1>6, <1>7, <1>8, <1>9, <1>10, <1>11, <1>12, <1>13,
     <1>14, <1>15, <1>16, <1>17, <1>18, <1>19, <1>20, <1>21, <1>22 DEF Next

\* The departure of an app with an entry is not forgotten.
LEMMA LeftStep ==
  ASSUME ReadersAssumption, Types, LockOK, LookupOK, EntriesOK, LeftOK, [Next]_vars
  PROVE  LeftOK'
<1>1. ASSUME NEW a \in Apps, NEW p \in Pids, AppStarts(a, p) PROVE LeftOK'
  BY <1>1, NoneFree DEF AppStarts, ReadersAssumption, LockOK, LockAt, LeftOK, Reported,
     apps, reader
<1>2. ASSUME NEW a \in Apps, NEW r \in Readers, AppCalls(a, r) PROVE LeftOK'
  <2> DEFINE x == [type |-> "call", app |-> a]
  <2>1. x \in Message /\ x.type = "call"
    BY DEF Message
  <2> HIDE DEF x
  <2>2. queue' = [queue EXCEPT ![r] = Append(queue[r], x)] /\ queue[r] \in Seq(Message)
    BY <1>2 DEF AppCalls, Types, Lists, x
  <2>3. Lists /\ Reported(queue, left) /\ UNCHANGED <<left, clients, pc, cur>> /\ "portal" \in Readers
    BY <1>2 DEF AppCalls, Types, LeftOK, reader, ReadersAssumption
  <2>4. Reported(queue', left') /\ \A q \in Readers, m \in Message : In(m, queue[q]) => In(m, queue'[q])
    BY <2>1, <2>2, <2>3, SentLeft
  <2>5. \A b \in Apps : Departure(b) \in Message
    BY DEF Departure, Message
  <2>6. QED
    BY <2>3, <2>4, <2>5 DEF LeftOK, Types, Shapes
<1>3. ASSUME NEW a \in Apps, AppExits(a) PROVE LeftOK'
  <2>1. Departure(a) \in Message /\ Departure(a).app = a /\ "portal" \in Readers
    BY DEF Departure, Message, ReadersAssumption
  <2>2. queue' = [queue EXCEPT !["portal"] = Append(queue["portal"], Departure(a))]
    BY <1>3 DEF AppExits, Departure
  <2>3. Departure(a).type = "left" => Departure(a).app \in left'
    BY <1>3, <2>1 DEF AppExits
  <2>4. Lists /\ Reported(queue, left) /\ UNCHANGED <<clients, pc, cur>> /\ left' = left \cup {a}
    BY <1>3 DEF AppExits, Types, LeftOK, reader
  <2>5. /\ Reported(queue', left') /\ In(Departure(a), queue'["portal"])
        /\ \A q \in Readers, m \in Message : In(m, queue[q]) => In(m, queue'[q])
    BY <2>1, <2>2, <2>3, <2>4, SentLeft
  <2>6. \A b \in Apps : Departure(b) \in Message
    BY DEF Departure, Message
  <2>7. QED
    BY <2>1, <2>4, <2>5, <2>6 DEF LeftOK, Types, Shapes
<1>4. ASSUME NEW k \in DOMAIN conns, HostCloses(k) PROVE LeftOK'
  <2>1. HostClosesDoes(k)
    BY <1>4, HostClosesEffect
  <2>2. QED
    BY <2>1, NoneFree DEF HostClosesDoes, Closed, LockAt, LeftOK, Reported
<1>5. ASSUME NEW k \in DOMAIN conns, ServeEnds(k) PROVE LeftOK'
  <2>1. ServeEndsDoes(k)
    BY <1>5, ServeEndsEffect
  <2>2. QED
    BY <2>1, NoneFree DEF ServeEndsDoes, LockAt, LeftOK, Reported
<1>6. ASSUME NEW r \in Readers, NameChanged(r) PROVE LeftOK'
  <2>1. NameChangedDoes(r)
    BY <1>6, NameChangedEffect
  <2>2. PICK a \in Apps :
           /\ Head(queue[r]) \in Message /\ queue[r] # <<>>
           /\ Head(queue[r]).type = "left" /\ Head(queue[r]).app = a
           /\ queue' = [queue EXCEPT ![r] = Tail(queue[r])]
           /\ clients' = [clients EXCEPT ![a] = None]
           /\ UNCHANGED <<left, pc, cur>>
    BY <2>1 DEF NameChangedDoes
  <2>3. queue[r] \in Seq(Message)
    BY DEF Types, Lists
  <2>4. \A q \in Readers, m \in Message :
          /\ In(m, queue'[q]) => In(m, queue[q])
          /\ In(m, queue[q]) /\ m # Head(queue[r]) => In(m, queue'[q])
    BY <2>2, <2>3, InTail DEF Types, Lists
  <2>5. \A b \in Apps : Departure(b) \in Message /\ (b # a => Departure(b) # Head(queue[r]))
    BY <2>2 DEF Departure, Message
  <2>6. QED
    BY <2>2, <2>4, <2>5 DEF LeftOK, Reported, Types, Shapes, ReadersAssumption
<1>7. ASSUME NEW r \in Readers, Call(r) PROVE LeftOK'
  <2>1. queue[r] \in Seq(Message) /\ queue[r] # <<>> /\ Head(queue[r]).type = "call"
    BY <1>7 DEF Call, Types, Lists
  <2>2. \A q \in Readers, m \in Message :
          /\ In(m, queue'[q]) => In(m, queue[q])
          /\ In(m, queue[q]) /\ m # Head(queue[r]) => In(m, queue'[q])
    BY <1>7, <2>1, InTail DEF Call, Types, Lists
  <2>3. \A b \in Apps : Departure(b) \in Message /\ Departure(b) # Head(queue[r])
    BY <2>1 DEF Departure, Message
  <2>4. QED
    BY <1>7, <2>2, <2>3 DEF Call, Go, LeftOK, Reported, Types, Shapes, ReadersAssumption,
       apps
<1>8. ASSUME NEW r \in Readers, Lock(r) PROVE LeftOK'
  BY <1>8, NoneFree DEF Lock, Go, ReadersAssumption, Types, Shapes, Setup, LockOK, LockAt,
     LeftOK, Reported, apps, reader
<1>9. ASSUME NEW r \in Readers, Connect(r) PROVE LeftOK'
  <2>1. ConnectDoes(r)
    BY <1>9, ConnectEffect
  <2>2. QED
    BY <2>1, NoneFree DEF ConnectDoes, ReadersAssumption, Types, LockAt, LeftOK, Reported
<1>10. ASSUME NEW r \in Readers, Fail(r) PROVE LeftOK'
  <2>1. FailDoes(r)
    BY <1>10, FailEffect
  <2>2. QED
    BY <2>1, NoneFree DEF FailDoes, Closed, Changed, Done, Go, ReadersAssumption, Types,
       LockAt, LeftOK, Reported
<1>11. ASSUME NEW r \in Readers, Credentials(r) PROVE LeftOK'
  BY <1>11, NoneFree DEF Credentials, Go, ReadersAssumption, LockOK, LockAt, LeftOK,
     Reported, apps, reader
<1>12. ASSUME NEW r \in Readers, ReadCgroup(r) PROVE LeftOK'
  BY <1>12, NoneFree DEF ReadCgroup, Go, ReadersAssumption, Types, Shapes, Setup, LockOK,
     LockAt, LeftOK, Reported, apps, reader
<1>13. ASSUME NEW r \in Readers, Register(r) PROVE LeftOK'
  <2>1. RegisterDoes(r)
    BY <1>13, RegisterEffect
  <2>2. QED
    BY <2>1, NoneFree DEF RegisterDoes, LockAt, LeftOK, Reported
<1>14. ASSUME NEW r \in Readers, RegisterFails(r) PROVE LeftOK'
  BY <1>14, NoneFree DEF RegisterFails, Go, ReadersAssumption, LockOK, LockAt, LeftOK,
     Reported, apps, reader
<1>15. ASSUME NEW r \in Readers, Insert(r) PROVE LeftOK'
  BY <1>15, NoneFree DEF Insert, Go, ReadersAssumption, Types, Shapes, Setup, LockOK,
     LockAt, LeftOK, Reported, apps, reader
<1>16. ASSUME NEW r \in Readers, Serve(r) PROVE LeftOK'
  <2>1. ServeDoes(r)
    BY <1>16, ServeEffect
  <2>2. QED
    BY <2>1, NoneFree DEF ServeDoes, Closed, Changed, Done, Go, ReadersAssumption, Types,
       Shapes, Setup, Locked, LockAt, LeftOK, Reported
<1>17. ASSUME NEW r \in Readers, Send(r) PROVE LeftOK'
  BY <1>17, NoneFree DEF Send, Done, Go, ReadersAssumption, LockOK, LockAt, LeftOK,
     Reported, apps, reader
<1>18. ASSUME NEW k \in DOMAIN conns, PassHeld(k) PROVE LeftOK'
  <2>1. PassHeldDoes(k)
    BY <1>18, PassHeldEffect
  <2>2. QED
    BY <2>1, NoneFree DEF PassHeldDoes, Waiting, More, Changed, LockAt, LeftOK, Reported,
       ReadersAssumption
<1>19. ASSUME NEW k \in DOMAIN conns, OpenAnswered(k) PROVE LeftOK'
  <2>1. OpenAnsweredDoes(k)
    BY <1>19, OpenAnsweredEffect
  <2>2. QED
    BY <2>1, NoneFree DEF OpenAnsweredDoes, Changed, LockAt, LeftOK, Reported, ReadersAssumption
<1>20. ASSUME NEW r \in Readers, SendOpen(r) PROVE LeftOK'
  <2>1. SendWaitsDoes(r)
    BY <1>20, SendWaitsEffect
  <2>2. QED
    BY <2>1, NoneFree DEF SendWaitsDoes, Waiting, More, Changed, Done, Go, LockAt, LeftOK,
       Reported, ReadersAssumption
<1>21. ASSUME NEW r \in Readers, Hold(r) PROVE LeftOK'
  <2>1. SendWaitsDoes(r)
    BY <1>21, SendWaitsEffect
  <2>2. QED
    BY <2>1, NoneFree DEF SendWaitsDoes, Waiting, More, Changed, Done, Go, LockAt, LeftOK,
       Reported, ReadersAssumption
<1>22. CASE UNCHANGED vars
  BY <1>22 DEF vars, apps, reader, ReadersAssumption, Types, LockAt, LeftOK, Reported
<1>23. QED
  BY <1>1, <1>2, <1>3, <1>4, <1>5, <1>6, <1>7, <1>8, <1>9, <1>10, <1>11, <1>12, <1>13,
     <1>14, <1>15, <1>16, <1>17, <1>18, <1>19, <1>20, <1>21, <1>22 DEF Next

\* No connection is registered under another launch's identity.
LEMMA IdentityStep ==
  ASSUME ReadersAssumption, Types, PidsOK, LockOK, LookupOK, EntriesOK, RightIdentity, [Next]_vars
  PROVE  RightIdentity'
<1>1. ASSUME NEW a \in Apps, NEW p \in Pids, AppStarts(a, p) PROVE RightIdentity'
  BY <1>1 DEF AppStarts, RightIdentity, apps, reader
<1>2. ASSUME NEW a \in Apps, NEW r \in Readers, AppCalls(a, r) PROVE RightIdentity'
  BY <1>2 DEF AppCalls, RightIdentity, apps, reader
<1>3. ASSUME NEW a \in Apps, AppExits(a) PROVE RightIdentity'
  BY <1>3 DEF AppExits, RightIdentity, apps, reader
<1>4. ASSUME NEW k \in DOMAIN conns, HostCloses(k) PROVE RightIdentity'
  <2>1. HostClosesDoes(k)
    BY <1>4, HostClosesEffect
  <2>2. QED
    BY <2>1 DEF HostClosesDoes, Closed, Changed, ReadersAssumption, LockOK, LockAt,
       RightIdentity
<1>5. ASSUME NEW k \in DOMAIN conns, ServeEnds(k) PROVE RightIdentity'
  <2>1. ServeEndsDoes(k)
    BY <1>5, ServeEndsEffect
  <2>2. QED
    BY <2>1 DEF ServeEndsDoes, Changed, ReadersAssumption, LockOK, LockAt, RightIdentity
<1>6. ASSUME NEW r \in Readers, NameChanged(r) PROVE RightIdentity'
  <2>1. NameChangedDoes(r)
    BY <1>6, NameChangedEffect
  <2>2. /\ launch' = launch /\ DOMAIN conns' = DOMAIN conns
        /\ \A k \in DOMAIN conns : conns'[k].app = conns[k].app /\ conns'[k].id = conns[k].id
    BY <2>1 DEF NameChangedDoes, AppLeft, Closed, Changed
  <2>3. QED
    BY <2>2 DEF RightIdentity
<1>7. ASSUME NEW r \in Readers, Call(r) PROVE RightIdentity'
  BY <1>7 DEF Call, Go, RightIdentity, apps, reader
<1>8. ASSUME NEW r \in Readers, Lock(r) PROVE RightIdentity'
  BY <1>8 DEF Lock, Go, RightIdentity, apps, reader
<1>9. ASSUME NEW r \in Readers, Connect(r) PROVE RightIdentity'
  <2>1. ConnectDoes(r)
    BY <1>9, ConnectEffect
  <2>2. QED
    BY <2>1 DEF ConnectDoes, ReadersAssumption, LockOK, LockAt, RightIdentity
<1>10. ASSUME NEW r \in Readers, Fail(r) PROVE RightIdentity'
  <2>1. FailDoes(r)
    BY <1>10, FailEffect
  <2>2. QED
    BY <2>1 DEF FailDoes, Closed, Changed, LockOK, LockAt, RightIdentity
<1>11. ASSUME NEW r \in Readers, Credentials(r) PROVE RightIdentity'
  BY <1>11 DEF Credentials, Go, RightIdentity, apps, reader
<1>12. ASSUME NEW r \in Readers, ReadCgroup(r) PROVE RightIdentity'
  BY <1>12 DEF ReadCgroup, Go, RightIdentity, apps, reader
<1>13. ASSUME NEW r \in Readers, Register(r) PROVE RightIdentity'
  <2>1. RegisterDoes(r)
    BY <1>13, RegisterEffect
  <2>2. QED
    BY <2>1 DEF RegisterDoes, Changed, ReadersAssumption, Types, Shapes, Setup, LockOK,
       LockAt, RightIdentity
<1>14. ASSUME NEW r \in Readers, RegisterFails(r) PROVE RightIdentity'
  BY <1>14 DEF RegisterFails, Go, RightIdentity, apps, reader
<1>15. ASSUME NEW r \in Readers, Insert(r) PROVE RightIdentity'
  BY <1>15 DEF Insert, Go, RightIdentity, apps, reader
<1>16. ASSUME NEW r \in Readers, Serve(r) PROVE RightIdentity'
  <2>1. ServeDoes(r)
    BY <1>16, ServeEffect
  <2>2. QED
    BY <2>1 DEF ServeDoes, Closed, Changed, LockOK, LockAt, RightIdentity
<1>17. ASSUME NEW r \in Readers, Send(r) PROVE RightIdentity'
  BY <1>17 DEF Send, Done, Go, RightIdentity, apps, reader
<1>18. ASSUME NEW k \in DOMAIN conns, PassHeld(k) PROVE RightIdentity'
  <2>1. PassHeldDoes(k)
    BY <1>18, PassHeldEffect
  <2>2. QED
    BY <2>1 DEF PassHeldDoes, Waiting, More, Changed, LockOK, LockAt, RightIdentity
<1>19. ASSUME NEW k \in DOMAIN conns, OpenAnswered(k) PROVE RightIdentity'
  <2>1. OpenAnsweredDoes(k)
    BY <1>19, OpenAnsweredEffect
  <2>2. QED
    BY <2>1 DEF OpenAnsweredDoes, Changed, LockOK, LockAt, RightIdentity
<1>20. ASSUME NEW r \in Readers, SendOpen(r) PROVE RightIdentity'
  <2>1. SendWaitsDoes(r)
    BY <1>20, SendWaitsEffect
  <2>2. QED
    BY <2>1 DEF SendWaitsDoes, Waiting, More, Changed, Done, Go, LockOK, LockAt, RightIdentity
<1>21. ASSUME NEW r \in Readers, Hold(r) PROVE RightIdentity'
  <2>1. SendWaitsDoes(r)
    BY <1>21, SendWaitsEffect
  <2>2. QED
    BY <2>1 DEF SendWaitsDoes, Waiting, More, Changed, Done, Go, LockOK, LockAt, RightIdentity
<1>22. CASE UNCHANGED vars
  BY <1>22 DEF vars, apps, reader, ReadersAssumption, LockOK, LockAt, RightIdentity
<1>23. QED
  BY <1>1, <1>2, <1>3, <1>4, <1>5, <1>6, <1>7, <1>8, <1>9, <1>10, <1>11, <1>12, <1>13,
     <1>14, <1>15, <1>16, <1>17, <1>18, <1>19, <1>20, <1>21, <1>22 DEF Next

-----------------------------------------------------------------------------
(* The theorems.                                                             *)

\* The invariant holds initially.
LEMMA InitInv == ASSUME ReadersAssumption, Init PROVE Inv
<1>1. Types
  BY DEF Init, Types, Shapes, Lists, None, Launches, Busy
<1>2. DOMAIN conns = {}
  BY DEF Init
<1>3. PidsOK
  BY DEF Init, PidsOK
<1>4. LockOK /\ LookupOK
  BY DEF Init, LockOK, LockAt, LookupOK, Busy, Locked, Setup, ReadersAssumption
<1>5. EntriesOK /\ OpenOK /\ ServedOK /\ RightIdentity
  BY <1>2 DEF Init, EntriesOK, EntryAt, OpenOK, ServedOK, RightIdentity
<1>6. LeftOK
  <2>1. \A r \in Readers, m \in Message : ~In(m, queue[r])
    BY DEF Init, In
  <2>2. QED
    BY <2>1 DEF Init, LeftOK, Reported
<1>7. QED
  BY <1>1, <1>3, <1>4, <1>5, <1>6 DEF Inv

\* Every step keeps the invariant.
LEMMA StepInv == ASSUME ReadersAssumption, Inv, [Next]_vars PROVE Inv'
  BY ListsStep, ShapesStep, PidsStep, LockStep, LookupStep, EntriesStep, OpenStep,
     ServedStep, LeftStep, IdentityStep DEF Inv, Types

\* In every state the gateway reaches, the map of clients, the lock, what the
\* readers know and the connections fit together as the parts of Inv say.
THEOREM InvHolds == ASSUME ReadersAssumption PROVE Spec => []Inv
<1>1. Init => Inv
  BY InitInv
<1>2. Inv /\ [Next]_vars => Inv'
  BY StepInv
<1>3. QED
  BY <1>1, <1>2, PTL DEF Spec

\* A set whose elements are all one has at most one.
LEMMA AtMostOne ==
  ASSUME NEW S, \A j, k \in S : j = k
  PROVE  Cardinality(S) <= 1
<1>1. CASE S = {}
  BY <1>1, FS_EmptySet
<1>2. ASSUME NEW j \in S PROVE Cardinality(S) <= 1
  <2>1. S = {j}
    OBVIOUS
  <2>2. Cardinality({j}) = 1
    BY FS_Singleton
  <2>3. QED
    BY <2>1, <2>2
<1>3. QED
  BY <1>1, <1>2

\* An app that is there has one host connection at a time, however many readers get
\* its first calls at once; there or gone, one connection at most answers for it; and
\* an open entry without a reader is being set up (gateway.rs client, name_changed,
\* serve_host).
THEOREM OneConnectionHolds == ASSUME ReadersAssumption PROVE Spec => []OneConnection
<1>1. Inv => OneConnection
  <2> SUFFICES ASSUME Inv, NEW a \in Apps
               PROVE  /\ a \notin left => Cardinality({k \in DOMAIN conns : conns[k].app = a /\ conns[k].open}) <= 1
                      /\ Cardinality({k \in DOMAIN conns : conns[k].app = a /\ conns[k].served}) <= 1
                      /\ clients[a] # None /\ conns[clients[a]].open /\ ~conns[clients[a]].served =>
                           \E r \in Readers : pc[r] = "onBus" /\ conn[r] = clients[a]
    BY DEF OneConnection
  <2> DEFINE S == {k \in DOMAIN conns : conns[k].app = a /\ conns[k].open}
             V == {k \in DOMAIN conns : conns[k].app = a /\ conns[k].served}
  <2>1. ASSUME a \notin left, NEW j \in S, NEW k \in S PROVE j = k
    <3>1. OpenAt(j) /\ OpenAt(k) /\ ~Kept(j) /\ ~Kept(k) /\ j # None /\ k # None
      BY <2>1, NoneFree DEF Inv, OpenOK, Kept
    <3>2. \A r \in Readers : LockAt(r)
      BY DEF Inv, LockOK
    <3>3. ASSUME NEW q \in Readers, NEW r \in Readers, pc[q] \in Setup, pc[r] \in Setup PROVE q = r
      BY <3>2, <3>3 DEF LockAt, Locked
    <3>4. ASSUME NEW r \in Readers, pc[r] \in Setup, conn[r] \in S PROVE clients[a] \in {None, conn[r]}
      BY <3>2, <3>4 DEF LockAt, Locked
    <3>5. QED
      BY <3>1, <3>3, <3>4 DEF OpenAt
  <2>2. a \notin left => Cardinality(S) <= 1
    BY <2>1, AtMostOne
  <2>3. Cardinality(V) <= 1
    <3>1. \A j, k \in V : j = k
      BY DEF Inv, ServedOK
    <3>2. QED
      BY <3>1, AtMostOne
  <2>4. ASSUME clients[a] # None, conns[clients[a]].open, ~conns[clients[a]].served
        PROVE  \E r \in Readers : pc[r] = "onBus" /\ conn[r] = clients[a]
    <3>1. clients[a] \in DOMAIN conns /\ conns[clients[a]].app = a /\ OpenAt(clients[a])
      BY <2>4 DEF Inv, EntriesOK, EntryAt, OpenOK
    <3>2. PICK r \in Readers : pc[r] \in Setup /\ conn[r] = clients[a]
      BY <2>4, <3>1 DEF OpenAt, Kept
    <3>3. LockAt(r)
      BY DEF Inv, LockOK
    <3>4. QED
      BY <2>4, <3>1, <3>2, <3>3 DEF LockAt, Setup, Locked
  <2>5. QED
    BY <2>2, <2>3, <2>4
<1>2. Spec => []Inv
  BY InvHolds
<1>3. QED
  BY <1>1, <1>2, PTL

\* Once an app has left and nothing it sent is still being handled, it has no entry,
\* and a host connection of it that is open waits for an OpenURI answer that somebody
\* will get (gateway.rs name_changed, close_if_done, on_bus, relay_reply).
THEOREM LeftForgottenHolds == ASSUME ReadersAssumption PROVE Spec => []LeftForgotten
<1>1. Inv => LeftForgotten
  <2> SUFFICES ASSUME Inv, NEW a \in left,
                      \A r \in Readers : /\ pc[r] # "idle" => cur[r] # a
                                         /\ \A i \in DOMAIN queue[r] : queue[r][i].app # a
               PROVE  /\ clients[a] = None
                      /\ \A k \in DOMAIN conns : conns[k].app = a /\ conns[k].open =>
                           conns[k].gone /\ conns[k].waits /\ conns[k].served
    BY DEF LeftForgotten
  <2>1. a \in Apps /\ Departure(a).app = a
    BY DEF Inv, Types, Shapes, Departure
  <2>2. ~In(Departure(a), queue["portal"])
    BY <2>1 DEF In, ReadersAssumption
  <2>3. clients[a] = None
    BY <2>1, <2>2 DEF Inv, LeftOK
  <2>4. ASSUME NEW k \in DOMAIN conns, conns[k].app = a, conns[k].open
        PROVE  conns[k].gone /\ conns[k].waits /\ conns[k].served
    <3>1. OpenAt(k) /\ k # None
      BY NoneFree DEF Inv, OpenOK
    <3>2. \A r \in Readers : pc[r] \in Setup => conns[conn[r]].app = cur[r] /\ pc[r] # "idle"
      BY DEF Inv, LockOK, LockAt, Setup
    <3>3. QED
      BY <2>3, <2>4, <3>1, <3>2 DEF OpenAt, Kept
  <2>5. QED
    BY <2>3, <2>4
<1>2. Spec => []Inv
  BY InvHolds
<1>3. QED
  BY <1>1, <1>2, PTL

\* No host connection is registered under the identity of a launch other than its
\* app's, whatever ends and takes over pids while it is looked up (identity.rs
\* process_cgroup).
THEOREM RightIdentityHolds == ASSUME ReadersAssumption PROVE Spec => []RightIdentity
<1>1. Inv => RightIdentity
  BY DEF Inv
<1>2. Spec => []Inv
  BY InvHolds
<1>3. QED
  BY <1>1, <1>2, PTL
=============================================================================
