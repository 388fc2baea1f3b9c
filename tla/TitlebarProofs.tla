--------------------------- MODULE TitlebarProofs ---------------------------
(***************************************************************************)
(* Proofs about the title bar proxy: its connections, for any limit of      *)
(* descriptors per write, and messages of any number, size and number of    *)
(* descriptors; the screen the bridge is told of, for any modes, logical    *)
(* sizes and scales; and the windows, for any sizes, buffers and title bar. *)
(***************************************************************************)
EXTENDS Wire, Frames, OutputModes, FiniteSetTheorems, TLAPS

-----------------------------------------------------------------------------
(* A connection (Wire). *)

\* The constants are numbers.
WireAssumption == MaxFds \in Nat /\ MaxMessages \in Nat /\ MaxSize \in Nat /\ MaxCount \in Nat

Fd == Nat \X Nat
Message == [at : Nat, size : Nat, fds : Seq(Fd)]
Entry == [at : Nat, fd : Fd]
Piece == [bytes : Nat, fds : Seq(Fd)]

Types ==
  /\ msgs \in Seq(Message) /\ outFds \in Seq(Entry) /\ kernel \in Seq(Piece) /\ inFds \in Seq(Fd)
  /\ written \in Nat /\ got \in Nat
  /\ received \in Seq(Seq(Fd)) /\ Len(received) <= Len(msgs)

\* All that has been sent, in order: A as outgoing_fds would hold it had nothing been
\* taken off, where the descriptors of message k begin after start[k].
Sent(A, start) ==
  /\ A \in Seq(Entry) /\ start \in [1..(Len(msgs) + 1) -> 0..Len(A)]
  /\ start[Len(msgs) + 1] = Len(A)
  /\ \A k \in 1..Len(msgs) : start[k + 1] = start[k] + Len(msgs[k].fds)
  /\ \A k \in 1..Len(msgs) : \A j \in 1..Len(msgs[k].fds) :
       A[start[k] + j].fd = msgs[k].fds[j] /\ A[start[k] + j].at = msgs[k].at
  /\ \A x \in DOMAIN A : A[x].at <= End
  /\ \A x, y \in DOMAIN A : x <= y => A[x].at <= A[y].at

\* Where it is: what the other end has and has not parsed begins after base, and the
\* descriptors of the write i it has still to read after off[i].
Split(A, base, off) ==
  /\ off \in [1..(Len(kernel) + 1) -> 0..Len(A)]
  /\ off[1] = base + Len(inFds)
  /\ \A j \in 1..Len(inFds) : inFds[j] = A[base + j].fd
  /\ \A i \in 1..Len(kernel) : off[i + 1] = off[i] + Len(kernel[i].fds)
  /\ \A i \in 1..Len(kernel) : \A j \in 1..Len(kernel[i].fds) : kernel[i].fds[j] = A[off[i] + j].fd
  /\ off[Len(kernel) + 1] + Len(outFds) = Len(A)
  /\ \A j \in 1..Len(outFds) : outFds[j] = A[off[Len(kernel) + 1] + j]

\* The bytes of the write i begin at pos[i], and no descriptor that comes with them or
\* later belongs to a message that began before.
Paced(A, off, pos) ==
  /\ pos \in [1..(Len(kernel) + 1) -> 0..End]
  /\ pos[1] = got /\ pos[Len(kernel) + 1] = written
  /\ \A i \in 1..Len(kernel) : pos[i + 1] = pos[i] + kernel[i].bytes
  /\ \A i \in 1..(Len(kernel) + 1) : \A x \in DOMAIN A : x > off[i] => A[x].at >= pos[i]

Fits(A, start, off, pos) == Sent(A, start) /\ Split(A, start[Len(received) + 1], off) /\ Paced(A, off, pos)

\* The inductive invariant.
Inv ==
  /\ Types
  /\ \A k \in 1..Len(msgs) : msgs[k].size > 0
  /\ \E A, start, off, pos : Fits(A, start, off, pos)

-----------------------------------------------------------------------------
\* A set of numbers up to b has a largest one.
LEMMA Largest ==
  ASSUME NEW b \in Nat, NEW S \in SUBSET (0..b), S # {}
  PROVE  \E n \in S : \A o \in S : o <= n
<1> DEFINE Above(n) == {o \in S : o > n}
<1> DEFINE T == {Above(n) : n \in S}
<1>1. IsFiniteSet(S)
  <2>1. IsFiniteSet(0..b)
    BY FS_Interval
  <2>2. QED
    BY <2>1, FS_Subset
<1>2. FiniteSubsetsOf(S) = SUBSET S
  BY <1>1, FS_FiniteSubsetsOfFinite
<1>3. T \subseteq FiniteSubsetsOf(S) /\ T # {}
  <2>1. \A n \in S : Above(n) \in FiniteSubsetsOf(S)
    BY <1>2
  <2> HIDE DEF Above
  <2>2. QED
    BY <2>1
<1>4. IsWellFoundedOn(StrictSubsetOrdering(S), FiniteSubsetsOf(S))
  BY FS_StrictSubsetOrderingWellFounded
<1>5. PICK x \in T : \A y \in T : ~(<<y, x>> \in StrictSubsetOrdering(S))
  <2> HIDE DEF T
  <2>1. QED
    BY <1>3, <1>4, WFMin
<1>6. PICK n \in S : x = Above(n)
  BY <1>5
<1>7. ASSUME NEW o \in S, o > n PROVE FALSE
  <2>1. Above(o) \in T /\ Above(o) \subseteq S /\ x \subseteq S
    BY <1>6
  <2>2. Above(o) \subseteq x /\ o \in x /\ o \notin Above(o)
    <3>1. S \subseteq Int /\ n \in Int /\ o \in Int
      OBVIOUS
    <3>2. \A i \in S : i > o => i > n
      BY <1>7, <3>1
    <3>3. ~(o > o)
      BY <3>1
    <3>4. QED
      BY <1>6, <1>7, <3>2, <3>3
  <2>3. <<Above(o), x>> \in StrictSubsetOrdering(S)
    <3> HIDE DEF Above
    <3>1. QED
      BY <2>1, <2>2 DEF StrictSubsetOrdering
  <2>4. QED
    BY <1>5, <2>1, <2>3
<1>8. QED
  BY <1>7

\* The next write takes some of the descriptors, or none.
LEMMA BatchOK == ASSUME WireAssumption, Types PROVE Batch \in 0..Len(outFds)
<1> DEFINE whole == {n \in 0..Len(outFds) :
                      n <= MaxFds /\ (n = 0 \/ n = Len(outFds) \/ outFds[n + 1].at # outFds[n].at)}
<1>1. Len(outFds) \in Nat
  BY DEF Types
<1>2. 0 \in whole /\ whole \in SUBSET (0..Len(outFds))
  BY <1>1 DEF WireAssumption
<1>3. Batch = CHOOSE n \in whole : \A o \in whole : o <= n
  BY DEF Batch
<1> HIDE DEF whole
<1>4. \E n \in whole : \A o \in whole : o <= n
  BY <1>1, <1>2, Largest
<1>5. Batch \in whole
  BY <1>3, <1>4
<1>6. QED
  BY <1>2, <1>5

\* The end of the stream is a number, and that of the last message.
LEMMA EndOK == ASSUME Types PROVE End \in Nat
<1>1. CASE msgs = <<>>
  BY <1>1 DEF End
<1>2. CASE msgs # <<>>
  <2>1. msgs[Len(msgs)] \in Message
    BY <1>2 DEF Types
  <2>2. QED
    BY <1>2, <2>1 DEF End, Message
<1>3. QED
  BY <1>1, <1>2

\* Two sequences joined.
LEMMA Joined ==
  ASSUME NEW S, NEW s \in Seq(S), NEW u \in Seq(S)
  PROVE  /\ s \o u \in Seq(S) /\ Len(s \o u) = Len(s) + Len(u)
         /\ Len(s) \in Nat /\ Len(u) \in Nat
         /\ \A i \in 1..Len(s) : (s \o u)[i] = s[i]
         /\ \A i \in 1..Len(u) : (s \o u)[Len(s) + i] = u[i]
<1>1. s \o u \in Seq(S) /\ Len(s \o u) = Len(s) + Len(u) /\ Len(s) \in Nat /\ Len(u) \in Nat
  OBVIOUS
<1>2. \A i \in 1..Len(s) : (s \o u)[i] = s[i]
  OBVIOUS
<1>3. ASSUME NEW i \in 1..Len(u) PROVE (s \o u)[Len(s) + i] = u[i]
  <2>1. Len(s) + i \in 1..(Len(s) + Len(u)) /\ Len(s) + i > Len(s) /\ Len(s) + i - Len(s) = i
    BY <1>1
  <2>2. QED
    BY <1>1, <2>1
<1>4. QED
  BY <1>1, <1>2, <1>3

\* What the messages consist of.
LEMMA Fields ==
  ASSUME Types
  PROVE  /\ Len(msgs) \in Nat
         /\ \A k \in 1..Len(msgs) : /\ msgs[k] \in Message /\ msgs[k].at \in Nat /\ msgs[k].size \in Nat
                                     /\ msgs[k].fds \in Seq(Fd) /\ Len(msgs[k].fds) \in Nat
<1>1. Len(msgs) \in Nat /\ \A k \in 1..Len(msgs) : msgs[k] \in Message
  BY DEF Types
<1>2. \A m \in Message : m.at \in Nat /\ m.size \in Nat /\ m.fds \in Seq(Fd)
  BY DEF Message
<1>3. \A f \in Seq(Fd) : Len(f) \in Nat
  OBVIOUS
<1>4. QED
  BY <1>1, <1>2, <1>3

\* The descriptors of a message are among those sent.
LEMMA StartOK ==
  ASSUME Types, NEW A, NEW start, Sent(A, start), NEW k \in 1..Len(msgs),
         NEW j \in 1..Len(msgs[k].fds)
  PROVE  start[k] + j \in 1..Len(A)
<1>1. k \in 1..(Len(msgs) + 1) /\ k + 1 \in 1..(Len(msgs) + 1) /\ Len(msgs[k].fds) \in Nat
  BY Fields
<1>2. Len(A) \in Nat /\ start[k] \in 0..Len(A) /\ start[k + 1] \in 0..Len(A)
  <2>1. A \in Seq(Entry) /\ start \in [1..(Len(msgs) + 1) -> 0..Len(A)]
    BY DEF Sent
  <2>2. QED
    BY <1>1, <2>1, SMTT(30)
<1>3. start[k + 1] = start[k] + Len(msgs[k].fds)
  BY DEF Sent
<1>4. PICK u, v, w \in Nat : u = start[k] /\ v = Len(A) /\ w = Len(msgs[k].fds)
  BY <1>1, <1>2, SMTT(30)
<1>5. u + w <= v
  BY ONLY <1>2, <1>3, <1>4
<1>6. u + j \in 1..v
  BY ONLY <1>4, <1>5, u \in Nat, v \in Nat, w \in Nat, j \in 1..Len(msgs[k].fds), SMTT(30)
<1>7. QED
  BY <1>4, <1>6

\* What Socket::send adds: a message where the stream ends, and an entry for each of its
\* descriptors.
LEMMA SendAdds ==
  ASSUME WireAssumption, Types, NEW size \in 1..MaxSize, NEW count \in 0..MaxCount, SocketSend(size,
         count)
  PROVE  \E x \in Message, es \in Seq(Entry) :
           /\ msgs' = Append(msgs, x) /\ outFds' = outFds \o es
           /\ x.at = End /\ x.size > 0 /\ Len(es) = Len(x.fds)
           /\ \A j \in 1..Len(x.fds) : es[j].at = End /\ es[j].fd = x.fds[j]
<1> DEFINE fds == [j \in 1..count |-> <<Len(msgs) + 1, j>>]
<1> DEFINE es == [j \in 1..count |-> [at |-> End, fd |-> fds[j]]]
<1> DEFINE x == [at |-> End, size |-> size, fds |-> fds]
<1>1. count \in Nat /\ size \in Nat /\ size > 0 /\ End \in Nat /\ Len(msgs) + 1 \in Nat
  BY EndOK DEF WireAssumption, Types
<1>2. fds \in Seq(Fd) /\ Len(fds) = count
  <2>1. fds \in [1..count -> Fd]
    BY <1>1 DEF Fd
  <2> HIDE DEF fds
  <2>2. QED
    BY <1>1, <2>1
<1>3. msgs' = Append(msgs, x) /\ outFds' = outFds \o es
  BY DEF SocketSend
<1> HIDE DEF fds
<1>4. \A j \in 1..count : es[j] \in Entry /\ es[j].at = End /\ es[j].fd = fds[j]
  <2>1. \A j \in 1..count : fds[j] \in Fd
    BY <1>1, <1>2
  <2>2. QED
    BY <1>1, <2>1 DEF Entry
<1>5. es \in Seq(Entry) /\ Len(es) = count
  <2>1. es \in [1..count -> Entry]
    BY <1>4
  <2> HIDE DEF es
  <2>2. QED
    BY <1>1, <2>1
<1>6. x \in Message /\ x.at = End /\ x.size > 0 /\ x.fds = fds
  BY <1>1, <1>2 DEF Message
<1> HIDE DEF es, x
<1>7. QED
  BY <1>2, <1>3, <1>4, <1>5, <1>6

\* A message more.
LEMMA SentGrows ==
  ASSUME Types, NEW x \in Message, NEW es \in Seq(Entry), msgs' = Append(msgs, x), x.at = End,
         Len(es) = Len(x.fds), \A j \in 1..Len(x.fds) : es[j].at = End /\ es[j].fd = x.fds[j],
         NEW A, NEW start, Sent(A, start),
         NEW s, s = [k \in 1..(Len(msgs) + 2) |-> IF k = Len(msgs) + 2 THEN Len(A) + Len(es) ELSE start[k]]
  PROVE  Sent(A \o es, s)' /\ End' \in Nat /\ End <= End'
<1> DEFINE B == A \o es
<1>1. Len(msgs) \in Nat /\ Len(A) \in Nat /\ Len(es) \in Nat /\ x.size \in Nat /\ End \in Nat /\ A \in Seq(Entry)
  BY EndOK DEF Types, Sent, Message
<1>2. Len(msgs') = Len(msgs) + 1 /\ msgs'[Len(msgs) + 1] = x /\ \A k \in 1..Len(msgs) : msgs'[k] = msgs[k]
  BY DEF Types
<1>3. End' = End + x.size
  <2>1. msgs' # <<>>
    BY <1>1, <1>2
  <2>2. QED
    BY <1>2, <2>1 DEF End
<1>4. /\ B \in Seq(Entry) /\ Len(B) = Len(A) + Len(es)
      /\ \A i \in 1..Len(A) : B[i] = A[i]
      /\ \A i \in 1..Len(es) : B[Len(A) + i] = es[i]
  <2>1. A \in Seq(Entry) /\ es \in Seq(Entry)
    BY <1>1
  <2>2. /\ A \o es \in Seq(Entry) /\ Len(A \o es) = Len(A) + Len(es)
        /\ \A i \in 1..Len(A) : (A \o es)[i] = A[i]
        /\ \A i \in 1..Len(es) : (A \o es)[Len(A) + i] = es[i]
    BY ONLY <2>1, Joined
  <2>3. QED
    BY <2>2
<1>5. DOMAIN A = 1..Len(A) /\ DOMAIN B = 1..(Len(A) + Len(es))
  BY <1>1, <1>4
<1>6. \A i \in DOMAIN B : i \in 1..Len(A) \/ \E j \in 1..Len(es) : i = Len(A) + j
  <2>1. \A i \in DOMAIN B : i \in 1..Len(A) \/ (i - Len(A) \in 1..Len(es) /\ i = Len(A) + (i - Len(A)))
    BY <1>1, <1>5
  <2>2. QED
    BY <2>1
<1> HIDE DEF B
<1>7. \A i \in DOMAIN B : B[i].at <= End /\ (i \notin 1..Len(A) => B[i].at = End)
  <2>1. \A i \in 1..Len(A) : A[i].at <= End
    BY <1>5 DEF Sent
  <2>2. \A i \in 1..Len(es) : B[Len(A) + i].at = End /\ Len(A) + i \notin 1..Len(A)
    <3> TAKE i \in 1..Len(es)
    <3>1. B[Len(A) + i] = es[i] /\ es[i].at = End
      BY <1>1, <1>4
    <3>2. PICK l \in Nat : l = Len(A)
      BY <1>1
    <3>3. l + i \notin 1..l
      BY ONLY i \in 1..Len(es), l \in Nat
    <3>4. QED
      BY ONLY <3>1, <3>2, <3>3
  <2>3. ASSUME NEW i \in DOMAIN B PROVE B[i].at <= End /\ (i \notin 1..Len(A) => B[i].at = End)
    <3>1. CASE i \in 1..Len(A)
      BY <1>4, <2>1, <3>1
    <3>2. CASE \E j \in 1..Len(es) : i = Len(A) + j
      <4>1. B[i].at = End
        BY <2>2, <3>2
      <4>2. QED
        BY <1>1, <4>1
    <3>3. QED
      BY <1>6, <3>1, <3>2
  <2>4. QED
    BY <2>3
<1>8. \A i, j \in DOMAIN B : i <= j => B[i].at <= B[j].at
  <2>1. ASSUME NEW i \in DOMAIN B, NEW j \in DOMAIN B, i <= j PROVE B[i].at <= B[j].at
    <3>1. CASE j \in 1..Len(A)
      <4>1. i \in 1..Len(A)
        BY <1>1, <1>5, <2>1, <3>1
      <4>2. QED
        BY <1>4, <1>5, <2>1, <3>1, <4>1 DEF Sent
    <3>2. CASE j \notin 1..Len(A)
      BY <1>7, <3>2
    <3>3. QED
      BY <3>1, <3>2
  <2>2. QED
    BY <2>1
<1>9. /\ s \in [1..(Len(msgs') + 1) -> 0..Len(B)] /\ s[Len(msgs') + 1] = Len(B)
      /\ \A k \in 1..(Len(msgs) + 1) : s[k] = start[k]
  BY <1>1, <1>2, <1>4, SMTT(30) DEF Sent
<1>10. \A k \in 1..Len(msgs') : s[k + 1] = s[k] + Len(msgs'[k].fds)
  <2>1. \A k \in 1..Len(msgs) : k + 1 \in 1..(Len(msgs) + 1) /\ s[k + 1] = s[k] + Len(msgs'[k].fds)
    BY <1>1, <1>2, <1>9 DEF Sent
  <2>2. s[Len(msgs) + 2] = s[Len(msgs) + 1] + Len(x.fds)
    <3>1. s[Len(msgs) + 1] = Len(A)
      BY <1>1, <1>9 DEF Sent
    <3>2. s[Len(msgs) + 2] = Len(A) + Len(es)
      BY <1>1
    <3>3. QED
      BY <3>1, <3>2
  <2>3. \A k \in 1..Len(msgs') : k \in 1..Len(msgs) \/ k = Len(msgs) + 1
    BY <1>1, <1>2
  <2>4. Len(msgs) + 1 + 1 = Len(msgs) + 2
    BY <1>1
  <2>5. QED
    BY <1>2, <2>1, <2>2, <2>3, <2>4
<1>11. \A k \in 1..Len(msgs') : \A j \in 1..Len(msgs'[k].fds) :
          B[s[k] + j].fd = msgs'[k].fds[j] /\ B[s[k] + j].at = msgs'[k].at
  <2>1. ASSUME NEW k \in 1..Len(msgs), NEW j \in 1..Len(msgs[k].fds)
        PROVE  B[s[k] + j].fd = msgs[k].fds[j] /\ B[s[k] + j].at = msgs[k].at
    <3>1. s[k] = start[k] /\ s[k] + j \in 1..Len(A)
      BY <1>1, <1>9, StartOK
    <3>2. B[s[k] + j] = A[start[k] + j]
      BY <1>4, <3>1
    <3>3. QED
      BY <3>2 DEF Sent
  <2>2. ASSUME NEW j \in 1..Len(x.fds)
        PROVE  B[s[Len(msgs) + 1] + j].fd = x.fds[j] /\ B[s[Len(msgs) + 1] + j].at = x.at
    <3>1. s[Len(msgs) + 1] = Len(A)
      BY <1>1, <1>9 DEF Sent
    <3>2. B[s[Len(msgs) + 1] + j] = es[j]
      BY <1>4, <3>1
    <3>3. QED
      BY <3>2
  <2>3. \A k \in 1..Len(msgs') : k \in 1..Len(msgs) \/ k = Len(msgs) + 1
    BY <1>1, <1>2
  <2>4. ASSUME NEW k \in 1..Len(msgs'), NEW j \in 1..Len(msgs'[k].fds)
        PROVE  B[s[k] + j].fd = msgs'[k].fds[j] /\ B[s[k] + j].at = msgs'[k].at
    <3>1. CASE k \in 1..Len(msgs)
      <4>1. msgs'[k] = msgs[k] /\ j \in 1..Len(msgs[k].fds)
        BY <1>2, <2>4, <3>1
      <4>2. B[s[k] + j].fd = msgs[k].fds[j] /\ B[s[k] + j].at = msgs[k].at
        BY ONLY <2>1, <3>1, <4>1
      <4>3. QED
        BY ONLY <4>1, <4>2
    <3>2. CASE k = Len(msgs) + 1
      BY <1>2, <2>2, <2>4, <3>2
    <3>3. QED
      BY <2>3, <3>1, <3>2
  <2>5. QED
    BY <2>4
<1>12. Sent(B, s)'
  <2>1. \A i \in DOMAIN B : B[i].at <= End'
    <3>1. \A i \in DOMAIN B : B[i] \in Entry
      BY <1>4
    <3>2. \A i \in DOMAIN B : B[i].at \in Nat
      BY <3>1 DEF Entry
    <3>3. QED
      BY <1>1, <1>3, <1>7, <3>2
  <2>2. QED
    BY <1>4, <1>8, <1>9, <1>10, <1>11, <2>1 DEF Sent
<1>13. QED
  BY <1>1, <1>3, <1>12 DEF B

\* What the writes consist of.
LEMMA Pieces ==
  ASSUME Types
  PROVE  /\ Len(kernel) \in Nat /\ Len(inFds) \in Nat /\ Len(outFds) \in Nat
         /\ \A i \in 1..Len(kernel) : /\ kernel[i] \in Piece /\ kernel[i].bytes \in Nat
                                      /\ kernel[i].fds \in Seq(Fd) /\ Len(kernel[i].fds) \in Nat
<1>1. Len(kernel) \in Nat /\ \A k \in 1..Len(kernel) : kernel[k] \in Piece
  BY DEF Types
<1>2. \A m \in Piece : m.bytes \in Nat /\ m.fds \in Seq(Fd)
  BY DEF Piece
<1>3. \A f \in Seq(Fd) : Len(f) \in Nat
  OBVIOUS
<1>4. Len(inFds) \in Nat /\ Len(outFds) \in Nat
  BY DEF Types
<1>5. QED
  BY ONLY <1>1, <1>2, <1>3, <1>4

\* The places the other end's descriptors have among those sent.
LEMMA SplitOK ==
  ASSUME Types, NEW A \in Seq(Entry), NEW base \in Nat, NEW off, Split(A, base, off)
  PROVE  /\ Len(A) \in Nat /\ \A i \in 1..(Len(kernel) + 1) : off[i] \in 0..Len(A)
         /\ \A j \in 1..Len(inFds) : base + j \in 1..Len(A)
         /\ \A i \in 1..Len(kernel) : \A j \in 1..Len(kernel[i].fds) : off[i] + j \in 1..Len(A)
         /\ \A j \in 1..Len(outFds) : off[Len(kernel) + 1] + j \in 1..Len(A)
<1>1. off \in [1..(Len(kernel) + 1) -> 0..Len(A)] /\ off[1] = base + Len(inFds)
      /\ off[Len(kernel) + 1] + Len(outFds) = Len(A)
      /\ \A i \in 1..Len(kernel) : off[i + 1] = off[i] + Len(kernel[i].fds)
  BY DEF Split
<1>2. Len(A) \in Nat /\ \A i \in 1..(Len(kernel) + 1) : off[i] \in 0..Len(A)
  BY <1>1
<1>3. \A j \in 1..Len(inFds) : base + j \in 1..Len(A)
  <2>1. off[1] \in 0..Len(A)
    BY <1>2, Pieces
  <2>2. QED
    BY <1>1, <1>2, <2>1, Pieces
<1>4. ASSUME NEW i \in 1..Len(kernel), NEW j \in 1..Len(kernel[i].fds) PROVE off[i] + j \in 1..Len(A)
  <2>1. Len(kernel) \in Nat /\ Len(kernel[i].fds) \in Nat
    BY Pieces
  <2>2. i \in 1..(Len(kernel) + 1) /\ i + 1 \in 1..(Len(kernel) + 1)
    BY <2>1
  <2>3. off[i] \in 0..Len(A) /\ off[i + 1] \in 0..Len(A) /\ off[i + 1] = off[i] + Len(kernel[i].fds)
    BY <1>1, <1>2, <2>2
  <2>4. QED
    BY <1>2, <1>4, <2>1, <2>3, SMTT(30)
<1>5. ASSUME NEW j \in 1..Len(outFds) PROVE off[Len(kernel) + 1] + j \in 1..Len(A)
  <2>1. Len(kernel) \in Nat /\ Len(outFds) \in Nat
    BY Pieces
  <2>2. off[Len(kernel) + 1] \in 0..Len(A)
    BY <1>2, <2>1
  <2>3. QED
    BY <1>1, <1>2, <1>5, <2>1, <2>2
<1>6. QED
  BY <1>2, <1>3, <1>4, <1>5

\* SocketSend: what is on its way stays where it is.
LEMMA SplitGrows ==
  ASSUME Types, NEW A \in Seq(Entry), NEW es \in Seq(Entry), NEW base \in Nat, NEW off, Split(A,
         base, off),
         UNCHANGED <<kernel, inFds>>, outFds' = outFds \o es
  PROVE  Split(A \o es, base, off)'
<1> DEFINE B == A \o es
<1>1. /\ B \in Seq(Entry) /\ Len(B) = Len(A) + Len(es) /\ Len(A) \in Nat /\ Len(es) \in Nat
      /\ \A i \in 1..Len(A) : B[i] = A[i]
      /\ \A i \in 1..Len(es) : B[Len(A) + i] = es[i]
  BY ONLY A \in Seq(Entry), es \in Seq(Entry), Joined
<1> HIDE DEF B
<1>2. /\ Len(outFds') = Len(outFds) + Len(es) /\ Len(outFds) \in Nat
      /\ \A i \in 1..Len(outFds) : outFds'[i] = outFds[i]
      /\ \A i \in 1..Len(es) : outFds'[Len(outFds) + i] = es[i]
  <2>1. outFds \in Seq(Entry)
    BY DEF Types
  <2>2. QED
    BY ONLY <2>1, es \in Seq(Entry), outFds' = outFds \o es, Joined
<1>3. /\ \A j \in 1..Len(inFds) : base + j \in 1..Len(A)
      /\ \A i \in 1..Len(kernel) : \A j \in 1..Len(kernel[i].fds) : off[i] + j \in 1..Len(A)
      /\ \A j \in 1..Len(outFds) : off[Len(kernel) + 1] + j \in 1..Len(A)
      /\ off[Len(kernel) + 1] \in 0..Len(A)
  BY SplitOK, Pieces, SMTT(30)
<1>0. off[Len(kernel) + 1] + Len(outFds) = Len(A)
  BY DEF Split
<1>4. off \in [1..(Len(kernel) + 1) -> 0..Len(B)] /\ off[1] = base + Len(inFds)
      /\ \A i \in 1..Len(kernel) : off[i + 1] = off[i] + Len(kernel[i].fds)
  BY <1>1 DEF Split
<1>5. off[Len(kernel) + 1] + Len(outFds') = Len(B)
  <2>1. PICK l \in Nat : l = off[Len(kernel) + 1]
    BY <1>1, <1>3
  <2>2. l + Len(outFds) = Len(A) /\ Len(outFds') = Len(outFds) + Len(es) /\ Len(outFds) \in Nat
        /\ Len(B) = Len(A) + Len(es) /\ Len(es) \in Nat
    BY <1>0, <1>1, <1>2, <2>1
  <2>3. l + Len(outFds') = Len(B)
    BY ONLY <2>2, l \in Nat
  <2>4. QED
    BY <2>1, <2>3
<1>6. \A j \in 1..Len(inFds) : inFds[j] = B[base + j].fd
  BY <1>1, <1>3 DEF Split
<1>7. \A i \in 1..Len(kernel) : \A j \in 1..Len(kernel[i].fds) : kernel[i].fds[j] = B[off[i] + j].fd
  BY <1>1, <1>3, ZenonT(30) DEF Split
<1>8. ASSUME NEW j \in 1..Len(outFds') PROVE outFds'[j] = B[off[Len(kernel) + 1] + j]
  <2>1. CASE j \in 1..Len(outFds)
    <3>1. B[off[Len(kernel) + 1] + j] = A[off[Len(kernel) + 1] + j]
      BY <1>1, <1>3, <2>1
    <3>2. QED
      BY <1>2, <2>1, <3>1 DEF Split
  <2>2. CASE j \notin 1..Len(outFds)
    <3>1. PICK l \in 1..Len(es) : j = Len(outFds) + l
      <4>1. j - Len(outFds) \in 1..Len(es) /\ j = Len(outFds) + (j - Len(outFds))
        BY <1>1, <1>2, <1>8, <2>2
      <4>2. QED
        BY <4>1
    <3>2. off[Len(kernel) + 1] + j = Len(A) + l
      <4>1. PICK o \in Nat : o = off[Len(kernel) + 1]
        BY <1>1, <1>3
      <4>2. o + Len(outFds) = Len(A) /\ Len(outFds) \in Nat /\ l \in Nat
        BY <1>0, <1>1, <1>2, <4>1
      <4>3. o + (Len(outFds) + l) = Len(A) + l
        BY ONLY <4>2, o \in Nat
      <4>4. QED
        BY <3>1, <4>1, <4>3
    <3>3. QED
      BY <1>1, <1>2, <3>1, <3>2
  <2>3. QED
    BY <2>1, <2>2
<1>9. Split(B, base, off)'
  BY <1>4, <1>5, <1>6, <1>7, <1>8 DEF Split
<1>10. QED
  BY <1>9 DEF B

\* SocketSend: the new descriptors belong to a message that begins where the stream ended.
LEMMA PacedGrows ==
  ASSUME Types, NEW A \in Seq(Entry), NEW es \in Seq(Entry), NEW off, NEW pos, Paced(A, off, pos),
         \A j \in 1..Len(es) : es[j].at = End, End \in Nat, End' \in Nat, End <= End',
         UNCHANGED <<kernel, got, written>>
  PROVE  Paced(A \o es, off, pos)'
<1> DEFINE B == A \o es
<1>1. /\ B \in Seq(Entry) /\ Len(B) = Len(A) + Len(es) /\ Len(A) \in Nat /\ Len(es) \in Nat
      /\ \A i \in 1..Len(A) : B[i] = A[i]
      /\ \A i \in 1..Len(es) : B[Len(A) + i] = es[i]
  BY ONLY A \in Seq(Entry), es \in Seq(Entry), Joined
<1>2. DOMAIN B = 1..(Len(A) + Len(es)) /\ DOMAIN A = 1..Len(A)
  BY <1>1
<1> HIDE DEF B
<1>3. /\ pos \in [1..(Len(kernel) + 1) -> 0..End] /\ pos[1] = got /\ pos[Len(kernel) + 1] = written
      /\ \A i \in 1..Len(kernel) : pos[i + 1] = pos[i] + kernel[i].bytes
  BY DEF Paced
<1>4. pos \in [1..(Len(kernel) + 1) -> 0..End']
  BY <1>3
<1>5. ASSUME NEW i \in 1..(Len(kernel) + 1), NEW x \in DOMAIN B, x > off[i] PROVE B[x].at >= pos[i]
  <2>1. CASE x \in 1..Len(A)
    BY <1>1, <1>2, <1>5, <2>1 DEF Paced
  <2>2. CASE x \notin 1..Len(A)
    <3>1. PICK l \in 1..Len(es) : x = Len(A) + l
      <4>1. x - Len(A) \in 1..Len(es) /\ x = Len(A) + (x - Len(A))
        BY <1>1, <1>2, <1>5, <2>2
      <4>2. QED
        BY <4>1
    <3>2. B[x].at = End
      BY <1>1, <3>1
    <3>3. pos[i] \in 0..End
      BY <1>3
    <3>4. QED
      BY <3>2, <3>3
  <2>3. QED
    BY <2>1, <2>2
<1>6. Paced(B, off, pos)'
  BY <1>3, <1>4, <1>5 DEF Paced
<1>7. QED
  BY <1>6 DEF B

\* Where the descriptors that are not parsed begin.
LEMMA BaseOK ==
  ASSUME Types, NEW A, NEW start, Sent(A, start)
  PROVE  A \in Seq(Entry) /\ Len(received) + 1 \in 1..(Len(msgs) + 1) /\ start[Len(received) + 1] \in Nat
<1>1. Len(msgs) \in Nat /\ Len(received) \in Nat /\ Len(received) <= Len(msgs)
  BY DEF Types
<1>2. Len(received) + 1 \in 1..(Len(msgs) + 1)
  BY ONLY <1>1
<1>3. A \in Seq(Entry) /\ start \in [1..(Len(msgs) + 1) -> 0..Len(A)]
  BY DEF Sent
<1>4. QED
  BY ONLY <1>2, <1>3

\* SocketSend keeps the invariant.
LEMMA SendStep ==
  ASSUME WireAssumption, Inv, NEW size \in 1..MaxSize, NEW count \in 0..MaxCount,
         SocketSend(size, count)
  PROVE  Inv'
<1>1. Types /\ UNCHANGED <<written, kernel, got, inFds, received>>
  BY DEF Inv, SocketSend
<1>2. PICK x \in Message, es \in Seq(Entry) :
         /\ msgs' = Append(msgs, x) /\ outFds' = outFds \o es
         /\ x.at = End /\ x.size > 0 /\ Len(es) = Len(x.fds)
         /\ \A j \in 1..Len(x.fds) : es[j].at = End /\ es[j].fd = x.fds[j]
  BY <1>1, SendAdds
<1>3. PICK A, start, off, pos : Fits(A, start, off, pos)
  BY DEF Inv
<1>4. PICK s : s = [k \in 1..(Len(msgs) + 2) |-> IF k = Len(msgs) + 2 THEN Len(A) + Len(es) ELSE start[k]]
  OBVIOUS
<1>5. Sent(A, start) /\ Split(A, start[Len(received) + 1], off) /\ Paced(A, off, pos)
  BY <1>3 DEF Fits
<1>6. Sent(A \o es, s)' /\ End' \in Nat /\ End <= End'
  BY <1>1, <1>2, <1>4, <1>5, SentGrows
<1>7. Types'
  <2>1. msgs' \in Seq(Message) /\ outFds' \in Seq(Entry) /\ Len(msgs') = Len(msgs) + 1
    BY <1>1, <1>2 DEF Types
  <2>2. QED
    BY <1>1, <2>1 DEF Types
<1>8. \A k \in 1..Len(msgs') : msgs'[k].size > 0
  <2>1. Len(msgs) \in Nat /\ Len(msgs') = Len(msgs) + 1 /\ msgs'[Len(msgs) + 1] = x
        /\ \A k \in 1..Len(msgs) : msgs'[k] = msgs[k]
    BY <1>1, <1>2 DEF Types
  <2>2. QED
    BY <1>2, <2>1 DEF Inv
<1>9. A \in Seq(Entry) /\ start[Len(received) + 1] \in Nat /\ s[Len(received) + 1] = start[Len(received) + 1]
  <2>1. Len(msgs) \in Nat /\ Len(received) \in Nat /\ Len(received) <= Len(msgs)
    BY <1>1 DEF Types
  <2>2. Len(received) + 1 \in 1..(Len(msgs) + 1) /\ Len(received) + 1 # Len(msgs) + 2
    BY <2>1
  <2>3. A \in Seq(Entry) /\ start \in [1..(Len(msgs) + 1) -> 0..Len(A)]
    BY <1>5 DEF Sent
  <2>4. start[Len(received) + 1] \in 0..Len(A) /\ Len(received) + 1 \in 1..(Len(msgs) + 2)
    BY <2>1, <2>2, <2>3
  <2>5. QED
    BY <1>4, <2>2, <2>3, <2>4
<1>10. Split(A \o es, s[Len(received) + 1], off)'
  <2>1. Split(A \o es, start[Len(received) + 1], off)'
    <3>1. PICK base \in Nat : base = start[Len(received) + 1]
      BY <1>9
    <3>2. Split(A \o es, base, off)'
      BY <1>1, <1>2, <1>5, <1>9, <3>1, SplitGrows
    <3>3. base = start[Len(received') + 1]
      BY <1>1, <3>1
    <3>4. QED
      BY <3>2, <3>3
  <2>2. s[Len(received') + 1] = start[Len(received') + 1]
    BY <1>1, <1>9
  <2>3. QED
    BY <2>1, <2>2
<1>11. Paced(A \o es, off, pos)'
  <2>1. End \in Nat /\ End' \in Nat
    BY <1>1, <1>6, EndOK
  <2>2. QED
    BY <1>1, <1>2, <1>5, <1>6, <1>9, <2>1, PacedGrows
<1>12. Fits(A \o es, s, off, pos)'
  BY <1>6, <1>10, <1>11 DEF Fits
<1>13. QED
  BY <1>7, <1>8, <1>12 DEF Inv

-----------------------------------------------------------------------------
(* A write.                                                                  *)

\* What a turn of Socket::flush does: a piece more in the kernel, with the descriptors
\* that are taken off the front.
LEMMA FlushMoves ==
  ASSUME WireAssumption, Types, NEW bytes, Flush(bytes)
  PROVE  \E y \in Piece, b \in 0..Len(outFds) :
           /\ kernel' = Append(kernel, y) /\ Len(y.fds) = b
           /\ \A j \in 1..b : y.fds[j] = outFds[j].fd
           /\ outFds' \in Seq(Entry) /\ Len(outFds') = Len(outFds) - b
           /\ \A j \in 1..(Len(outFds) - b) : outFds'[j] = outFds[b + j]
           /\ y.bytes = bytes /\ bytes \in 1..Limit(b) /\ written' = written + bytes
<1> DEFINE b == Batch
<1> DEFINE q == [j \in 1..b |-> outFds[j].fd]
<1> DEFINE y == [bytes |-> bytes, fds |-> q]
<1>1. b \in 0..Len(outFds) /\ Len(outFds) \in Nat /\ outFds \in Seq(Entry)
  BY BatchOK DEF Types
<1>2. /\ kernel' = Append(kernel, y) /\ bytes \in 1..Limit(b) /\ written' = written + bytes
      /\ outFds' = SubSeq(outFds, b + 1, Len(outFds))
  BY DEF Flush
<1> HIDE DEF b
<1>3. \A j \in 1..b : j \in 1..Len(outFds) /\ outFds[j] \in Entry
  BY <1>1
<1>4. q \in [1..b -> Fd]
  BY <1>3 DEF Entry
<1>5. q \in Seq(Fd) /\ Len(q) = b /\ \A j \in 1..b : q[j] = outFds[j].fd
  <2>1. b \in Nat
    BY <1>1
  <2>2. q \in Seq(Fd) /\ Len(q) = b
    <3> HIDE DEF q
    <3>1. QED
      BY ONLY <1>4, <2>1
  <2>3. QED
    BY <2>2
<1> HIDE DEF q
<1>6. bytes \in Nat
  BY ONLY <1>2
<1>7. y \in Piece /\ y.bytes = bytes /\ y.fds = q
  BY ONLY <1>5, <1>6 DEF Piece
<1>8. /\ outFds' \in Seq(Entry) /\ Len(outFds') = Len(outFds) - b
      /\ \A j \in 1..(Len(outFds) - b) : outFds'[j] = outFds[b + j]
  <2>1. b + 1 \in 1..(Len(outFds) + 1)
    BY ONLY <1>1
  <2>2. outFds' \in Seq(Entry) /\ Len(outFds') = Len(outFds) - b
    BY ONLY <1>1, <1>2, <2>1
  <2>3. \A j \in 1..(Len(outFds) - b) : outFds'[j] = outFds[b + 1 + j - 1] /\ b + 1 + j - 1 = b + j
    BY ONLY <1>1, <1>2, <2>1
  <2>4. QED
    BY ONLY <2>2, <2>3
<1> HIDE DEF y
<1>9. QED
  BY ONLY <1>1, <1>2, <1>5, <1>7, <1>8

\* A sequence that grows.
LEMMA Grown ==
  ASSUME NEW S, NEW s \in Seq(S), NEW x \in S
  PROVE  /\ Append(s, x) \in Seq(S) /\ Len(Append(s, x)) = Len(s) + 1 /\ Len(s) \in Nat
         /\ Append(s, x)[Len(s) + 1] = x
         /\ \A i \in 1..Len(s) : Append(s, x)[i] = s[i]
         /\ \A i \in 1..(Len(s) + 1) : i \in 1..Len(s) \/ i = Len(s) + 1
  OBVIOUS

\* Flush: the descriptors taken are those of the new piece.
LEMMA SplitWrites ==
  ASSUME Types, NEW A \in Seq(Entry), NEW base \in Nat, NEW off, Split(A, base, off),
         NEW y \in Piece, NEW b \in 0..Len(outFds), UNCHANGED inFds,
         kernel' = Append(kernel, y), Len(y.fds) = b, \A j \in 1..b : y.fds[j] = outFds[j].fd,
         Len(outFds') = Len(outFds) - b, \A j \in 1..(Len(outFds) - b) : outFds'[j] = outFds[b + j],
         NEW o, o = [i \in 1..(Len(kernel) + 2) |-> IF i = Len(kernel) + 2 THEN off[Len(kernel) + 1] + b ELSE off[i]]
  PROVE  Split(A, base, o)'
<1>1. /\ Len(kernel') = Len(kernel) + 1 /\ Len(kernel) \in Nat /\ kernel'[Len(kernel) + 1] = y
      /\ \A i \in 1..Len(kernel) : kernel'[i] = kernel[i]
      /\ \A i \in 1..(Len(kernel) + 1) : i \in 1..Len(kernel) \/ i = Len(kernel) + 1
  <2>1. kernel \in Seq(Piece)
    BY DEF Types
  <2>2. QED
    BY ONLY <2>1, y \in Piece, kernel' = Append(kernel, y), Grown
<1>2. /\ Len(A) \in Nat /\ Len(outFds) \in Nat /\ b \in Nat /\ b <= Len(outFds)
      /\ \A i \in 1..(Len(kernel) + 1) : off[i] \in 0..Len(A)
  BY SplitOK, Pieces
<1>3. PICK l \in 0..Len(A) : l = off[Len(kernel) + 1]
  <2>1. Len(kernel) + 1 \in 1..(Len(kernel) + 1)
    BY ONLY <1>1
  <2>2. QED
    BY ONLY <1>2, <2>1
<1>4. l + Len(outFds) = Len(A)
  BY <1>3 DEF Split
<1>5. l + b \in 0..Len(A) /\ (l + b) + (Len(outFds) - b) = Len(A)
  BY ONLY <1>2, <1>4, l \in 0..Len(A)
<1>6. \A i \in 1..(Len(kernel) + 1) : i # Len(kernel) + 2 /\ i \in 1..(Len(kernel) + 2)
  BY ONLY <1>1
<1>7. (\A i \in 1..(Len(kernel) + 1) : o[i] = off[i]) /\ o[Len(kernel) + 2] = l + b /\ o[Len(kernel) + 1] = l
  <2>1. \A i \in 1..(Len(kernel) + 1) : o[i] = off[i]
    BY <1>6
  <2>2. Len(kernel) + 2 \in 1..(Len(kernel) + 2) /\ Len(kernel) + 1 \in 1..(Len(kernel) + 1)
    BY ONLY <1>1
  <2>3. QED
    BY <1>3, <2>1, <2>2
<1>8. o \in [1..(Len(kernel') + 1) -> 0..Len(A)]
  <2>1. \A i \in 1..(Len(kernel) + 2) : i = Len(kernel) + 2 \/ i \in 1..(Len(kernel) + 1)
    BY ONLY <1>1
  <2>2. \A i \in 1..(Len(kernel) + 2) : o[i] \in 0..Len(A)
    BY ONLY <1>2, <1>5, <1>7, <2>1
  <2>3. Len(kernel') + 1 = Len(kernel) + 2
    BY ONLY <1>1
  <2>4. QED
    BY <2>2, <2>3
<1>9. o[1] = base + Len(inFds)
  <2>1. off[1] = base + Len(inFds) /\ 1 \in 1..(Len(kernel) + 1)
    BY <1>1 DEF Split
  <2>2. QED
    BY ONLY <1>7, <2>1
<1>10. ASSUME NEW i \in 1..Len(kernel')
       PROVE  /\ o[i + 1] = o[i] + Len(kernel'[i].fds)
              /\ \A j \in 1..Len(kernel'[i].fds) : kernel'[i].fds[j] = A[o[i] + j].fd
  <2>1. CASE i \in 1..Len(kernel)
    <3>1. i \in 1..(Len(kernel) + 1) /\ i + 1 \in 1..(Len(kernel) + 1)
      BY ONLY <1>1, <2>1
    <3>2. off[i + 1] = off[i] + Len(kernel[i].fds) /\ \A j \in 1..Len(kernel[i].fds) : kernel[i].fds[j] = A[off[i] + j].fd
      BY <2>1 DEF Split
    <3>3. kernel'[i] = kernel[i] /\ o[i] = off[i] /\ o[i + 1] = off[i + 1]
      BY ONLY <1>1, <1>7, <2>1, <3>1
    <3>4. QED
      BY ONLY <3>2, <3>3
  <2>2. CASE i = Len(kernel) + 1
    <3>1. kernel'[i] = y /\ o[i] = l /\ o[i + 1] = l + b
      <4>1. i + 1 = Len(kernel) + 2
        BY ONLY <1>1, <2>2
      <4>2. QED
        BY ONLY <1>1, <1>7, <2>2, <4>1
    <3>2. \A j \in 1..b : y.fds[j] = A[l + j].fd
      <4>1. \A j \in 1..Len(outFds) : outFds[j] = A[l + j]
        BY <1>3 DEF Split
      <4>2. \A j \in 1..b : j \in 1..Len(outFds)
        BY ONLY <1>2
      <4>3. QED
        BY <4>1, <4>2
    <3>3. QED
      BY <3>1, <3>2, SMTT(30)
  <2>3. QED
    BY <1>1, <1>10, <2>1, <2>2
<1>11. o[Len(kernel') + 1] = l + b
  <2>1. Len(kernel') + 1 = Len(kernel) + 2
    BY ONLY <1>1
  <2>2. QED
    BY ONLY <1>7, <2>1
<1>12. o[Len(kernel') + 1] + Len(outFds') = Len(A)
  BY <1>5, <1>11
<1>13. ASSUME NEW j \in 1..Len(outFds') PROVE outFds'[j] = A[o[Len(kernel') + 1] + j]
  <2>1. j \in 1..(Len(outFds) - b) /\ b + j \in 1..Len(outFds) /\ l + (b + j) = (l + b) + j
    BY <1>2, <1>13
  <2>2. outFds[b + j] = A[l + (b + j)]
    BY <1>3, <2>1 DEF Split
  <2>3. outFds'[j] = outFds[b + j]
    BY <2>1
  <2>4. QED
    BY ONLY <1>11, <2>1, <2>2, <2>3
<1>14. inFds' = inFds /\ \A j \in 1..Len(inFds) : inFds[j] = A[base + j].fd
  BY DEF Split
<1>15. QED
  BY ONLY <1>8, <1>9, <1>10, <1>12, <1>13, <1>14 DEF Split

\* The order of what has been sent, and what is left of it.
Rising(A) ==
  \A x \in DOMAIN A : A[x].at <= End /\ \A z \in DOMAIN A : x <= z => A[x].at <= A[z].at
Left(A, off) ==
  /\ off \in [1..(Len(kernel) + 1) -> 0..Len(A)]
  /\ off[Len(kernel) + 1] + Len(outFds) = Len(A)
  /\ \A j \in 1..Len(outFds) : outFds[j] = A[off[Len(kernel) + 1] + j]

\* Flush: the write stops before a message whose descriptors are left.
LEMMA PacedWrites ==
  ASSUME Types, NEW A \in Seq(Entry), NEW off, NEW pos, Rising(A), Left(A, off), Paced(A, off, pos),
         NEW y \in Piece, NEW b \in 0..Len(outFds), y.bytes \in 1..Limit(b),
         kernel' = Append(kernel, y), written' = written + y.bytes, UNCHANGED <<msgs, got>>,
         NEW o, o = [i \in 1..(Len(kernel) + 2) |-> IF i = Len(kernel) + 2 THEN off[Len(kernel) + 1] + b ELSE off[i]],
         NEW p, p = [i \in 1..(Len(kernel) + 2) |-> IF i = Len(kernel) + 2 THEN written + y.bytes ELSE pos[i]]
  PROVE  Paced(A, o, p)'
<1> DEFINE bytes == y.bytes
<1>1. /\ Len(kernel') = Len(kernel) + 1 /\ Len(kernel) \in Nat /\ kernel'[Len(kernel) + 1] = y
      /\ \A i \in 1..Len(kernel) : kernel'[i] = kernel[i]
      /\ \A i \in 1..(Len(kernel) + 1) : i \in 1..Len(kernel) \/ i = Len(kernel) + 1
  <2>1. kernel \in Seq(Piece)
    BY DEF Types
  <2>2. QED
    BY ONLY <2>1, y \in Piece, kernel' = Append(kernel, y), Grown
<1>2. /\ Len(A) \in Nat /\ Len(outFds) \in Nat /\ b \in Nat /\ b <= Len(outFds) /\ DOMAIN A = 1..Len(A)
      /\ \A i \in 1..(Len(kernel) + 1) : off[i] \in 0..Len(A)
  <2>1. off \in [1..(Len(kernel) + 1) -> 0..Len(A)]
    BY DEF Left
  <2>2. \A i \in 1..(Len(kernel) + 1) : off[i] \in 0..Len(A)
    BY ONLY <2>1
  <2>3. Len(A) \in Nat /\ DOMAIN A = 1..Len(A)
    BY ONLY A \in Seq(Entry)
  <2>4. Len(outFds) \in Nat
    BY Pieces
  <2>5. b \in Nat /\ b <= Len(outFds)
    BY ONLY <2>4, b \in 0..Len(outFds)
  <2>6. QED
    BY ONLY <2>2, <2>3, <2>4, <2>5
<1>3. PICK l \in 0..Len(A) : l = off[Len(kernel) + 1]
  <2>1. Len(kernel) + 1 \in 1..(Len(kernel) + 1)
    BY ONLY <1>1
  <2>2. QED
    BY ONLY <1>2, <2>1
<1>4. l + Len(outFds) = Len(A) /\ \A j \in 1..Len(outFds) : outFds[j] = A[l + j]
  BY <1>3 DEF Left
<1>5. /\ pos \in [1..(Len(kernel) + 1) -> 0..End] /\ pos[1] = got /\ pos[Len(kernel) + 1] = written
      /\ \A i \in 1..Len(kernel) : pos[i + 1] = pos[i] + kernel[i].bytes
      /\ \A i \in 1..(Len(kernel) + 1) : \A x \in DOMAIN A : x > off[i] => A[x].at >= pos[i]
  BY DEF Paced
<1>6. (\A i \in 1..(Len(kernel) + 1) : i \in 1..(Len(kernel) + 2) /\ i # Len(kernel) + 2)
      /\ Len(kernel) + 2 \in 1..(Len(kernel) + 2) /\ Len(kernel') + 1 = Len(kernel) + 2
      /\ \A i \in 1..(Len(kernel) + 2) : i = Len(kernel) + 2 \/ i \in 1..(Len(kernel) + 1)
  BY ONLY <1>1
<1>7. /\ \A i \in 1..(Len(kernel) + 1) : o[i] = off[i] /\ p[i] = pos[i]
      /\ o[Len(kernel) + 2] = l + b /\ p[Len(kernel) + 2] = written + bytes
  BY <1>3, <1>6
<1>8. End \in Nat /\ End' = End /\ written \in Nat /\ written <= End
  <2>1. Len(kernel) + 1 \in 1..(Len(kernel) + 1)
    BY ONLY <1>1
  <2>2. pos[Len(kernel) + 1] \in 0..End
    BY ONLY <1>5, <2>1
  <2>3. End \in Nat /\ End' = End
    BY EndOK DEF End
  <2>4. QED
    BY ONLY <1>5, <2>2, <2>3
<1>9. \A x \in DOMAIN A : A[x].at \in Nat /\ A[x].at <= End /\ \A z \in DOMAIN A : x <= z => A[x].at <= A[z].at
  <2>1. \A x \in DOMAIN A : A[x] \in Entry
    OBVIOUS
  <2>2. \A x \in DOMAIN A : A[x].at \in Nat
    BY <2>1 DEF Entry
  <2>3. QED
    BY <2>2 DEF Rising
<1>10. /\ bytes \in Nat /\ bytes > 0 /\ written + bytes <= End
       /\ \A x \in DOMAIN A : x > l + b => A[x].at >= written + bytes
  <2>1. CASE b < Len(outFds)
    <3>1. b + 1 \in 1..Len(outFds) /\ l + (b + 1) \in DOMAIN A
      BY ONLY <1>2, <1>4, <2>1, l \in 0..Len(A)
    <3>2. outFds[b + 1].at = A[l + (b + 1)].at
      BY ONLY <1>4, <3>1
    <3>3. PICK e \in Nat : e = A[l + (b + 1)].at
      BY ONLY <1>9, <3>1
    <3>4. Limit(b) = e - written
      BY <2>1, <3>2, <3>3 DEF Limit
    <3>5. bytes \in 1..(e - written)
      BY <3>4
    <3>6. bytes \in Nat /\ bytes > 0 /\ written + bytes <= e
      BY ONLY <1>8, <3>3, <3>5, SMTT(30)
    <3>7. e <= End
      BY ONLY <1>9, <3>1, <3>3
    <3>8. ASSUME NEW x \in DOMAIN A, x > l + b PROVE A[x].at >= written + bytes
      <4>1. l + (b + 1) <= x
        BY ONLY <1>2, <3>8, l \in 0..Len(A)
      <4>2. e <= A[x].at /\ A[x].at \in Nat
        BY ONLY <1>9, <3>1, <3>3, <3>8, <4>1
      <4>3. QED
        BY ONLY <1>8, <3>3, <3>6, <4>2, SMTT(30)
    <3>9. QED
      BY ONLY <1>8, <3>3, <3>6, <3>7, <3>8, SMTT(30)
  <2>2. CASE ~(b < Len(outFds))
    <3>1. Limit(b) = End - written
      BY <2>2 DEF Limit
    <3>2. bytes \in 1..(End - written)
      BY <3>1
    <3>3. ASSUME NEW x \in DOMAIN A, x > l + b PROVE FALSE
      BY ONLY <1>2, <1>4, <2>2, <3>3, l \in 0..Len(A)
    <3>4. QED
      BY ONLY <1>8, <3>2, <3>3
  <2>3. QED
    BY ONLY <2>1, <2>2
<1>11. p \in [1..(Len(kernel') + 1) -> 0..End']
  <2>1. \A i \in 1..(Len(kernel) + 1) : pos[i] \in 0..End
    BY ONLY <1>5
  <2>2. written + bytes \in 0..End
    BY ONLY <1>8, <1>10
  <2>3. \A i \in 1..(Len(kernel) + 2) : p[i] \in 0..End
    BY ONLY <1>6, <1>7, <2>1, <2>2
  <2>4. QED
    BY <1>6, <1>8, <2>3
<1>12. p[1] = got' /\ p[Len(kernel') + 1] = written'
  <2>1. 1 \in 1..(Len(kernel) + 1)
    BY ONLY <1>1
  <2>2. QED
    BY <1>5, <1>6, <1>7, <2>1
<1>13. ASSUME NEW i \in 1..Len(kernel') PROVE p[i + 1] = p[i] + kernel'[i].bytes
  <2>1. CASE i \in 1..Len(kernel)
    <3>1. i \in 1..(Len(kernel) + 1) /\ i + 1 \in 1..(Len(kernel) + 1)
      BY ONLY <1>1, <2>1
    <3>2. QED
      BY ONLY <1>1, <1>5, <1>7, <2>1, <3>1
  <2>2. CASE i = Len(kernel) + 1
    <3>1. i + 1 = Len(kernel) + 2 /\ i \in 1..(Len(kernel) + 1)
      BY ONLY <1>1, <2>2
    <3>2. kernel'[i].bytes = bytes
      BY ONLY <1>1, <2>2
    <3>3. QED
      BY ONLY <1>5, <1>7, <2>2, <3>1, <3>2
  <2>3. QED
    BY ONLY <1>1, <1>13, <2>1, <2>2
<1>14. ASSUME NEW i \in 1..(Len(kernel') + 1), NEW x \in DOMAIN A, x > o[i] PROVE A[x].at >= p[i]
  <2>1. CASE i \in 1..(Len(kernel) + 1)
    BY ONLY <1>5, <1>7, <1>14, <2>1
  <2>2. CASE i = Len(kernel) + 2
    BY ONLY <1>7, <1>10, <1>14, <2>2
  <2>3. QED
    BY ONLY <1>6, <1>14, <2>1, <2>2
<1>15. QED
  BY ONLY <1>11, <1>12, <1>13, <1>14 DEF Paced

\* Flush keeps the invariant.
LEMMA FlushStep == ASSUME WireAssumption, Inv, NEW bytes, Flush(bytes) PROVE Inv'
<1>1. Types /\ UNCHANGED <<msgs, got, inFds, received>>
  BY DEF Inv, Flush
<1>2. PICK y \in Piece, b \in 0..Len(outFds) :
         /\ kernel' = Append(kernel, y) /\ Len(y.fds) = b
         /\ \A j \in 1..b : y.fds[j] = outFds[j].fd
         /\ outFds' \in Seq(Entry) /\ Len(outFds') = Len(outFds) - b
         /\ \A j \in 1..(Len(outFds) - b) : outFds'[j] = outFds[b + j]
         /\ y.bytes = bytes /\ bytes \in 1..Limit(b) /\ written' = written + bytes
  BY <1>1, FlushMoves
<1>3. PICK A, start, off, pos : Fits(A, start, off, pos)
  BY DEF Inv
<1>4. Sent(A, start) /\ Split(A, start[Len(received) + 1], off) /\ Paced(A, off, pos)
  BY <1>3 DEF Fits
<1>5. A \in Seq(Entry) /\ start[Len(received) + 1] \in Nat
  BY <1>1, <1>4, BaseOK
<1>6. PICK base \in Nat : base = start[Len(received) + 1]
  BY <1>5
<1>7. PICK o : o = [i \in 1..(Len(kernel) + 2) |->
                      IF i = Len(kernel) + 2 THEN off[Len(kernel) + 1] + b ELSE off[i]]
  OBVIOUS
<1>8. PICK p : p = [i \in 1..(Len(kernel) + 2) |->
                      IF i = Len(kernel) + 2 THEN written + y.bytes ELSE pos[i]]
  OBVIOUS
<1>9. Split(A, base, o)'
  <2>1. Split(A, base, off)
    BY <1>4, <1>6
  <2>2. QED
    BY ONLY <1>1, <1>2, <1>5, <1>7, <2>1, base \in Nat, SplitWrites
<1>10. Paced(A, o, p)'
  <2>1. Rising(A) /\ Left(A, off) /\ Paced(A, off, pos)
    BY <1>4 DEF Sent, Split, Rising, Left
  <2>2. Types /\ A \in Seq(Entry) /\ UNCHANGED <<msgs, got>>
    BY <1>1, <1>5
  <2>3. y.bytes \in 1..Limit(b) /\ kernel' = Append(kernel, y) /\ written' = written + y.bytes
    BY <1>2
  <2>4. QED
    BY ONLY <1>7, <1>8, <2>1, <2>2, <2>3, y \in Piece, b \in 0..Len(outFds), PacedWrites, ZenonT(30)
<1>11. Sent(A, start)'
  BY <1>1, <1>4 DEF Sent, End
<1>12. Fits(A, start, o, p)'
  <2>1. base = start[Len(received') + 1]
    BY <1>1, <1>6
  <2>2. QED
    BY <1>9, <1>10, <1>11, <2>1 DEF Fits
<1>13. Types'
  <2>1. kernel' \in Seq(Piece)
    BY <1>1, <1>2 DEF Types
  <2>2. bytes \in Nat
    BY ONLY <1>2
  <2>3. QED
    BY <1>1, <1>2, <2>1, <2>2 DEF Types
<1>14. QED
  BY <1>1, <1>12, <1>13 DEF Inv

-----------------------------------------------------------------------------
(* A read.                                                                   *)

\* What Socket::fill does: it takes the descriptors of the first write and some of its
\* bytes, and the write with them, or its rest without descriptors.
LEMMA FillMoves ==
  ASSUME Types, NEW bytes, Fill(bytes)
  PROVE  /\ Len(kernel) \in Nat /\ 1 \in 1..Len(kernel) /\ bytes \in 1..kernel[1].bytes
         /\ inFds' = inFds \o kernel[1].fds /\ got' = got + bytes
         /\ kernel' \in Seq(Piece)
         /\ \/ /\ bytes = kernel[1].bytes /\ Len(kernel') = Len(kernel) - 1
               /\ \A i \in 1..(Len(kernel) - 1) : kernel'[i] = kernel[i + 1]
            \/ /\ Len(kernel') = Len(kernel)
               /\ kernel'[1].bytes = kernel[1].bytes - bytes /\ kernel'[1].fds = <<>>
               /\ \A i \in 2..Len(kernel) : kernel'[i] = kernel[i]
<1>1. kernel \in Seq(Piece) /\ kernel # <<>>
  BY DEF Types, Fill
<1>2. Len(kernel) \in Nat /\ 1 \in 1..Len(kernel) /\ Head(kernel) = kernel[1] /\ kernel[1] \in Piece
  BY ONLY <1>1
<1>3. bytes \in 1..kernel[1].bytes /\ inFds' = inFds \o kernel[1].fds /\ got' = got + bytes
  BY <1>2 DEF Fill
<1>4. kernel' = IF bytes = kernel[1].bytes THEN Tail(kernel)
                ELSE <<[bytes |-> kernel[1].bytes - bytes, fds |-> <<>>]>> \o Tail(kernel)
  BY <1>2 DEF Fill
<1>5. /\ Tail(kernel) \in Seq(Piece) /\ Len(Tail(kernel)) = Len(kernel) - 1
      /\ \A i \in 1..(Len(kernel) - 1) : Tail(kernel)[i] = kernel[i + 1]
  BY ONLY <1>1
<1>6. CASE bytes = kernel[1].bytes
  BY ONLY <1>2, <1>3, <1>4, <1>5, <1>6
<1>7. CASE bytes # kernel[1].bytes
  <2>1. PICK z : z = [bytes |-> kernel[1].bytes - bytes, fds |-> <<>>]
    OBVIOUS
  <2>2. kernel[1].bytes \in Nat /\ kernel[1].bytes - bytes \in Nat
    <3>1. \A q \in Piece : q.bytes \in Nat
      BY DEF Piece
    <3>2. QED
      BY ONLY <1>2, <1>3, <3>1
  <2>3. z \in Piece /\ z.bytes = kernel[1].bytes - bytes /\ z.fds = <<>>
    <3>1. <<>> \in Seq(Fd)
      OBVIOUS
    <3>2. QED
      BY ONLY <2>1, <2>2, <3>1 DEF Piece
  <2>4. kernel' = <<z>> \o Tail(kernel)
    BY ONLY <1>4, <1>7, <2>1
  <2>5. <<z>> \in Seq(Piece) /\ Len(<<z>>) = 1 /\ <<z>>[1] = z
    BY ONLY <2>3
  <2>6. /\ kernel' \in Seq(Piece) /\ Len(kernel') = 1 + (Len(kernel) - 1) /\ kernel'[1] = z
        /\ \A i \in 1..(Len(kernel) - 1) : kernel'[1 + i] = Tail(kernel)[i]
    BY ONLY <1>5, <2>4, <2>5, Joined
  <2>7. \A i \in 2..Len(kernel) : kernel'[i] = kernel[i]
    <3>1. \A i \in 2..Len(kernel) : i - 1 \in 1..(Len(kernel) - 1) /\ 1 + (i - 1) = i /\ (i - 1) + 1 = i
      BY ONLY <1>2
    <3>2. ASSUME NEW i \in 2..Len(kernel) PROVE kernel'[i] = kernel[i]
      <4>1. i - 1 \in 1..(Len(kernel) - 1) /\ 1 + (i - 1) = i /\ (i - 1) + 1 = i
        BY ONLY <3>1, i \in 2..Len(kernel)
      <4>2. kernel'[1 + (i - 1)] = Tail(kernel)[i - 1] /\ Tail(kernel)[i - 1] = kernel[(i - 1) + 1]
        BY ONLY <1>5, <2>6, <4>1
      <4>3. QED
        BY ONLY <4>1, <4>2
    <3>3. QED
      BY ONLY <3>2
  <2>8. Len(kernel') = Len(kernel)
    BY ONLY <1>2, <2>6
  <2>9. QED
    BY ONLY <1>2, <1>3, <2>3, <2>6, <2>7, <2>8
<1>8. QED
  BY ONLY <1>6, <1>7

\* Fill: the descriptors read follow those that had arrived.
LEMMA ArriveMore ==
  ASSUME Types, NEW A \in Seq(Entry), NEW base \in Nat, NEW off, Split(A, base, off),
         1 \in 1..Len(kernel), inFds' = inFds \o kernel[1].fds
  PROVE  /\ inFds' \in Seq(Fd) /\ 2 \in 1..(Len(kernel) + 1) /\ off[2] = base + Len(inFds')
         /\ \A j \in 1..Len(inFds') : inFds'[j] = A[base + j].fd
<1>1. Len(kernel) \in Nat /\ Len(inFds) \in Nat /\ kernel[1].fds \in Seq(Fd) /\ Len(kernel[1].fds) \in Nat
  BY Pieces
<1>2. inFds \in Seq(Fd)
  BY DEF Types
<1>3. /\ inFds' \in Seq(Fd) /\ Len(inFds') = Len(inFds) + Len(kernel[1].fds)
      /\ \A i \in 1..Len(inFds) : inFds'[i] = inFds[i]
      /\ \A i \in 1..Len(kernel[1].fds) : inFds'[Len(inFds) + i] = kernel[1].fds[i]
  BY ONLY <1>1, <1>2, inFds' = inFds \o kernel[1].fds, Joined
<1>4. off[1] = base + Len(inFds) /\ off[1 + 1] = off[1] + Len(kernel[1].fds)
      /\ \A j \in 1..Len(kernel[1].fds) : kernel[1].fds[j] = A[off[1] + j].fd
  BY DEF Split
<1>5. 2 \in 1..(Len(kernel) + 1) /\ off[2] = base + Len(inFds')
  <2>1. (base + Len(inFds)) + Len(kernel[1].fds) = base + (Len(inFds) + Len(kernel[1].fds)) /\ 1 + 1 = 2
    <3>1. PICK u \in Nat, v \in Nat : u = Len(inFds) /\ v = Len(kernel[1].fds)
      BY ONLY <1>1
    <3>2. (base + u) + v = base + (u + v) /\ 1 + 1 = 2
      BY ONLY base \in Nat, u \in Nat, v \in Nat
    <3>3. QED
      BY ONLY <3>1, <3>2
  <2>2. 2 \in 1..(Len(kernel) + 1)
    BY ONLY <1>1, 1 \in 1..Len(kernel)
  <2>3. QED
    BY ONLY <1>3, <1>4, <2>1, <2>2
<1>6. ASSUME NEW j \in 1..Len(inFds') PROVE inFds'[j] = A[base + j].fd
  <2>1. CASE j \in 1..Len(inFds)
    BY <1>3, <2>1 DEF Split
  <2>2. CASE j \notin 1..Len(inFds)
    <3>1. PICK i \in 1..Len(kernel[1].fds) : j = Len(inFds) + i
      <4>1. j - Len(inFds) \in 1..Len(kernel[1].fds) /\ j = Len(inFds) + (j - Len(inFds))
        BY ONLY <1>1, <1>3, <1>6, <2>2
      <4>2. QED
        BY ONLY <4>1
    <3>2. (base + Len(inFds)) + i = base + (Len(inFds) + i)
      BY ONLY <1>1, base \in Nat, i \in 1..Len(kernel[1].fds)
    <3>3. QED
      BY ONLY <1>3, <1>4, <3>1, <3>2
  <2>3. QED
    BY ONLY <2>1, <2>2
<1>7. QED
  BY ONLY <1>3, <1>5, <1>6

\* Fill, a write read to its end: the writes after it move up.
LEMMA WholeRead ==
  ASSUME Types, NEW A \in Seq(Entry), NEW base \in Nat, NEW off, NEW pos, Split(A, base, off),
         Paced(A, off, pos),
         1 \in 1..Len(kernel), Len(kernel') = Len(kernel) - 1,
         \A i \in 1..(Len(kernel) - 1) : kernel'[i] = kernel[i + 1],
         inFds' = inFds \o kernel[1].fds, got' = got + kernel[1].bytes,
         UNCHANGED <<msgs, outFds, written>>
  PROVE  \E o, p : Split(A, base, o)' /\ Paced(A, o, p)'
<1>0. PICK o, p : o = [i \in 1..Len(kernel) |-> off[i + 1]] /\ p = [i \in 1..Len(kernel) |-> pos[i + 1]]
  OBVIOUS
<1>1. Len(kernel) \in Nat /\ Len(kernel') + 1 = Len(kernel)
  <2>1. Len(kernel) \in Nat
    BY Pieces
  <2>2. QED
    BY ONLY <2>1, Len(kernel') = Len(kernel) - 1
<1>2. \A i \in 1..Len(kernel) : i + 1 \in 1..(Len(kernel) + 1) /\ o[i] = off[i + 1] /\ p[i] = pos[i + 1]
  BY ONLY <1>0, <1>1
<1>3. \A i \in 1..Len(kernel') : /\ i \in 1..Len(kernel) /\ i + 1 \in 1..Len(kernel)
                                  /\ kernel'[i] = kernel[i + 1]
  BY ONLY <1>1, Len(kernel') = Len(kernel) - 1,
     \A i \in 1..(Len(kernel) - 1) : kernel'[i] = kernel[i + 1]
<1>4. /\ inFds' \in Seq(Fd) /\ off[2] = base + Len(inFds')
      /\ \A j \in 1..Len(inFds') : inFds'[j] = A[base + j].fd
  BY ArriveMore
<1>5. /\ off \in [1..(Len(kernel) + 1) -> 0..Len(A)]
      /\ \A i \in 1..Len(kernel) : off[i + 1] = off[i] + Len(kernel[i].fds)
      /\ \A i \in 1..Len(kernel) : \A j \in 1..Len(kernel[i].fds) : kernel[i].fds[j] = A[off[i] + j].fd
      /\ off[Len(kernel) + 1] + Len(outFds) = Len(A)
      /\ \A j \in 1..Len(outFds) : outFds[j] = A[off[Len(kernel) + 1] + j]
  BY DEF Split
<1>6. /\ pos \in [1..(Len(kernel) + 1) -> 0..End] /\ pos[1] = got /\ pos[Len(kernel) + 1] = written
      /\ \A i \in 1..Len(kernel) : pos[i + 1] = pos[i] + kernel[i].bytes
      /\ \A i \in 1..(Len(kernel) + 1) : \A x \in DOMAIN A : x > off[i] => A[x].at >= pos[i]
  BY DEF Paced
<1>7. 1 + 1 = 2 /\ Len(kernel) \in 1..Len(kernel)
  BY ONLY <1>1, 1 \in 1..Len(kernel)
<1>8. o[1] = off[2] /\ p[1] = pos[2] /\ o[Len(kernel)] = off[Len(kernel) + 1] /\ p[Len(kernel)] = pos[Len(kernel) + 1]
  BY ONLY <1>2, <1>7, 1 \in 1..Len(kernel)
<1>9. o \in [1..Len(kernel) -> 0..Len(A)] /\ p \in [1..Len(kernel) -> 0..End]
  <2>1. \A i \in 1..Len(kernel) : off[i + 1] \in 0..Len(A) /\ pos[i + 1] \in 0..End
    BY ONLY <1>2, <1>5, <1>6
  <2>2. QED
    BY ONLY <1>0, <2>1
<1>10. ASSUME NEW i \in 1..Len(kernel')
       PROVE  /\ o[i + 1] = o[i] + Len(kernel'[i].fds) /\ p[i + 1] = p[i] + kernel'[i].bytes
              /\ \A j \in 1..Len(kernel'[i].fds) : kernel'[i].fds[j] = A[o[i] + j].fd
  <2>1. i \in 1..Len(kernel) /\ i + 1 \in 1..Len(kernel) /\ kernel'[i] = kernel[i + 1]
    BY ONLY <1>3, i \in 1..Len(kernel')
  <2>2. o[i] = off[i + 1] /\ o[i + 1] = off[i + 1 + 1] /\ p[i] = pos[i + 1] /\ p[i + 1] = pos[i + 1 + 1]
    BY ONLY <1>2, <2>1
  <2>3. /\ off[i + 1 + 1] = off[i + 1] + Len(kernel[i + 1].fds) /\ pos[i + 1 + 1] = pos[i + 1] + kernel[i + 1].bytes
        /\ \A j \in 1..Len(kernel[i + 1].fds) : kernel[i + 1].fds[j] = A[off[i + 1] + j].fd
    BY ONLY <1>5, <1>6, <2>1
  <2>4. QED
    BY ONLY <2>1, <2>2, <2>3
<1>11. Split(A, base, o)'
  <2>1. o \in [1..(Len(kernel') + 1) -> 0..Len(A)]
    BY ONLY <1>1, <1>9
  <2>2. o[1] = base + Len(inFds')
    BY ONLY <1>4, <1>8
  <2>3. outFds' = outFds /\ o[Len(kernel') + 1] = off[Len(kernel) + 1]
    BY <1>1, <1>8
  <2>4. /\ o[Len(kernel') + 1] + Len(outFds') = Len(A)
        /\ \A j \in 1..Len(outFds') : outFds'[j] = A[o[Len(kernel') + 1] + j]
    BY ONLY <1>5, <2>3
  <2>5. QED
    BY ONLY <1>4, <1>10, <2>1, <2>2, <2>4 DEF Split
<1>12. Paced(A, o, p)'
  <2>1. End' = End
    BY DEF End
  <2>2. p \in [1..(Len(kernel') + 1) -> 0..End']
    BY ONLY <1>1, <1>9, <2>1
  <2>3. p[1] = got'
    <3>1. pos[1 + 1] = pos[1] + kernel[1].bytes
      BY ONLY <1>6, 1 \in 1..Len(kernel)
    <3>2. QED
      BY <1>6, <1>7, <1>8, <3>1
  <2>4. p[Len(kernel') + 1] = written'
    BY <1>1, <1>6, <1>8
  <2>5. \A i \in 1..(Len(kernel') + 1) : \A x \in DOMAIN A : x > o[i] => A[x].at >= p[i]
    BY ONLY <1>1, <1>2, <1>6
  <2>6. QED
    BY ONLY <1>10, <2>2, <2>3, <2>4, <2>5 DEF Paced
<1>13. QED
  BY <1>11, <1>12

\* Fill, a part of a write: its rest stays, without descriptors.
LEMMA PartRead ==
  ASSUME Types, NEW A \in Seq(Entry), NEW base \in Nat, NEW off, NEW pos, Split(A, base, off),
         Paced(A, off, pos),
         1 \in 1..Len(kernel), NEW bytes \in 1..kernel[1].bytes, Len(kernel') = Len(kernel),
         kernel'[1].bytes = kernel[1].bytes - bytes, kernel'[1].fds = <<>>,
         \A i \in 2..Len(kernel) : kernel'[i] = kernel[i],
         inFds' = inFds \o kernel[1].fds, got' = got + bytes,
         UNCHANGED <<msgs, outFds, written>>
  PROVE  \E o, p : Split(A, base, o)' /\ Paced(A, o, p)'
<1>0. PICK o, p : /\ o = [i \in 1..(Len(kernel) + 1) |-> IF i = 1 THEN off[2] ELSE off[i]]
                  /\ p = [i \in 1..(Len(kernel) + 1) |-> IF i = 1 THEN got + bytes ELSE pos[i]]
  OBVIOUS
<1>1. Len(kernel) \in Nat /\ kernel[1].bytes \in Nat /\ got \in Nat /\ bytes \in Nat /\ bytes <= kernel[1].bytes
  <2>1. Len(kernel) \in Nat /\ kernel[1].bytes \in Nat /\ got \in Nat
    BY Pieces DEF Types
  <2>2. QED
    BY ONLY <2>1, bytes \in 1..kernel[1].bytes
<1>2. /\ 1 \in 1..(Len(kernel) + 1) /\ 2 \in 1..(Len(kernel) + 1) /\ 1 + 1 = 2
      /\ Len(kernel) + 1 \in 1..(Len(kernel) + 1) /\ Len(kernel) + 1 # 1
      /\ \A i \in 1..Len(kernel) : i = 1 \/ i \in 2..Len(kernel)
      /\ \A i \in 2..Len(kernel) : i \in 1..Len(kernel) /\ i \in 1..(Len(kernel) + 1) /\ i + 1 \in 1..(Len(kernel) + 1)
                                   /\ i # 1 /\ i + 1 # 1
  BY ONLY <1>1, 1 \in 1..Len(kernel)
<1>3. /\ o[1] = off[2] /\ p[1] = got + bytes
      /\ \A i \in 1..(Len(kernel) + 1) : i # 1 => o[i] = off[i] /\ p[i] = pos[i]
  BY ONLY <1>0, <1>2
<1>4. /\ inFds' \in Seq(Fd) /\ off[2] = base + Len(inFds')
      /\ \A j \in 1..Len(inFds') : inFds'[j] = A[base + j].fd
  BY ArriveMore
<1>5. /\ off \in [1..(Len(kernel) + 1) -> 0..Len(A)]
      /\ \A i \in 1..Len(kernel) : off[i + 1] = off[i] + Len(kernel[i].fds)
      /\ \A i \in 1..Len(kernel) : \A j \in 1..Len(kernel[i].fds) : kernel[i].fds[j] = A[off[i] + j].fd
      /\ off[Len(kernel) + 1] + Len(outFds) = Len(A)
      /\ \A j \in 1..Len(outFds) : outFds[j] = A[off[Len(kernel) + 1] + j]
  BY DEF Split
<1>6. /\ pos \in [1..(Len(kernel) + 1) -> 0..End] /\ pos[1] = got /\ pos[Len(kernel) + 1] = written
      /\ \A i \in 1..Len(kernel) : pos[i + 1] = pos[i] + kernel[i].bytes
      /\ \A i \in 1..(Len(kernel) + 1) : \A x \in DOMAIN A : x > off[i] => A[x].at >= pos[i]
  BY DEF Paced
<1>7. off[2] \in Nat /\ off[2] \in 0..Len(A) /\ pos[2] \in 0..End /\ pos[2] = got + kernel[1].bytes
  <2>1. off[2] \in 0..Len(A) /\ pos[2] \in 0..End
    BY ONLY <1>2, <1>5, <1>6
  <2>2. pos[1 + 1] = pos[1] + kernel[1].bytes
    BY ONLY <1>6, 1 \in 1..Len(kernel)
  <2>3. QED
    BY ONLY <1>2, <1>6, <2>1, <2>2
<1>8. End \in Nat /\ End' = End /\ got + bytes \in 0..End /\ got + bytes <= pos[2]
  <2>1. End \in Nat /\ End' = End
    BY EndOK DEF End
  <2>2. PICK k \in Nat : k = kernel[1].bytes
    BY ONLY <1>1
  <2>3. got + k \in 0..End /\ bytes <= k
    BY ONLY <1>1, <1>7, <2>2
  <2>4. got + bytes \in 0..End /\ got + bytes <= got + k
    BY ONLY <1>1, <2>1, <2>3, k \in Nat
  <2>5. QED
    BY ONLY <1>7, <2>1, <2>2, <2>4
<1>9. o \in [1..(Len(kernel) + 1) -> 0..Len(A)] /\ p \in [1..(Len(kernel) + 1) -> 0..End]
  <2>1. \A i \in 1..(Len(kernel) + 1) : off[i] \in 0..Len(A) /\ pos[i] \in 0..End
    BY ONLY <1>5, <1>6
  <2>2. QED
    BY ONLY <1>0, <1>7, <1>8, <2>1
<1>10. ASSUME NEW i \in 1..Len(kernel')
       PROVE  /\ o[i + 1] = o[i] + Len(kernel'[i].fds) /\ p[i + 1] = p[i] + kernel'[i].bytes
              /\ \A j \in 1..Len(kernel'[i].fds) : kernel'[i].fds[j] = A[o[i] + j].fd
  <2>0. i \in 1..Len(kernel)
    BY ONLY i \in 1..Len(kernel'), Len(kernel') = Len(kernel)
  <2>1. CASE i = 1
    <3>1. o[i + 1] = off[2] /\ o[i] = off[2] /\ p[i + 1] = pos[2] /\ p[i] = got + bytes
      BY ONLY <1>2, <1>3, <2>1
    <3>2. Len(kernel'[i].fds) = 0
      BY <2>1
    <3>3. pos[2] = (got + bytes) + kernel'[1].bytes
      <4>1. PICK k \in Nat : k = kernel[1].bytes
        BY ONLY <1>1
      <4>2. got + k = (got + bytes) + (k - bytes)
        BY ONLY <1>1, k \in Nat
      <4>3. kernel'[1].bytes = k - bytes
        BY <4>1
      <4>4. QED
        BY ONLY <1>7, <4>1, <4>2, <4>3
    <3>4. off[2] = off[2] + 0
      BY ONLY <1>7
    <3>5. \A j \in 1..0 : FALSE
      OBVIOUS
    <3>6. QED
      BY ONLY <2>1, <3>1, <3>2, <3>3, <3>4, <3>5
  <2>2. CASE i \in 2..Len(kernel)
    <3>1. kernel'[i] = kernel[i]
      BY <2>2
    <3>2. o[i] = off[i] /\ o[i + 1] = off[i + 1] /\ p[i] = pos[i] /\ p[i + 1] = pos[i + 1]
      BY ONLY <1>2, <1>3, <2>2
    <3>3. QED
      BY ONLY <1>5, <1>6, <2>0, <3>1, <3>2
  <2>3. QED
    BY ONLY <1>2, <2>0, <2>1, <2>2
<1>11. o[Len(kernel) + 1] = off[Len(kernel) + 1] /\ p[Len(kernel) + 1] = pos[Len(kernel) + 1]
  BY ONLY <1>2, <1>3
<1>12. Split(A, base, o)'
  <2>1. o \in [1..(Len(kernel') + 1) -> 0..Len(A)]
    BY ONLY <1>9, Len(kernel') = Len(kernel)
  <2>2. o[1] = base + Len(inFds')
    BY ONLY <1>3, <1>4
  <2>3. outFds' = outFds /\ o[Len(kernel') + 1] = off[Len(kernel) + 1]
    BY <1>11
  <2>4. /\ o[Len(kernel') + 1] + Len(outFds') = Len(A)
        /\ \A j \in 1..Len(outFds') : outFds'[j] = A[o[Len(kernel') + 1] + j]
    BY ONLY <1>5, <2>3
  <2>5. QED
    BY ONLY <1>4, <1>10, <2>1, <2>2, <2>4 DEF Split
<1>13. ASSUME NEW i \in 1..(Len(kernel) + 1), NEW x \in DOMAIN A, x > o[i] PROVE A[x].at >= p[i]
  <2>1. CASE i = 1
    <3>1. A[x].at >= pos[2]
      BY ONLY <1>2, <1>3, <1>6, <1>13, <2>1
    <3>2. A[x].at \in Nat
      <4>1. A[x] \in Entry
        BY ONLY A \in Seq(Entry), x \in DOMAIN A
      <4>2. QED
        BY <4>1 DEF Entry
    <3>3. QED
      BY ONLY <1>1, <1>3, <1>7, <1>8, <2>1, <3>1, <3>2, SMTT(30)
  <2>2. CASE i # 1
    BY ONLY <1>3, <1>6, <1>13, <2>2
  <2>3. QED
    BY ONLY <2>1, <2>2
<1>14. Paced(A, o, p)'
  <2>1. p \in [1..(Len(kernel') + 1) -> 0..End']
    BY ONLY <1>8, <1>9, Len(kernel') = Len(kernel)
  <2>2. p[1] = got' /\ p[Len(kernel') + 1] = written'
    BY <1>3, <1>6, <1>11
  <2>3. \A i \in 1..(Len(kernel') + 1) : \A x \in DOMAIN A : x > o[i] => A[x].at >= p[i]
    BY ONLY <1>13, Len(kernel') = Len(kernel)
  <2>4. QED
    BY ONLY <1>10, <2>1, <2>2, <2>3 DEF Paced
<1>15. QED
  BY <1>12, <1>14

\* Fill keeps the invariant.
LEMMA FillStep == ASSUME Inv, NEW bytes, Fill(bytes) PROVE Inv'
<1>1. Types /\ UNCHANGED <<msgs, outFds, written, received>>
  BY DEF Inv, Fill
<1>2. /\ Len(kernel) \in Nat /\ 1 \in 1..Len(kernel) /\ bytes \in 1..kernel[1].bytes
      /\ inFds' = inFds \o kernel[1].fds /\ got' = got + bytes
      /\ kernel' \in Seq(Piece)
      /\ \/ /\ bytes = kernel[1].bytes /\ Len(kernel') = Len(kernel) - 1
            /\ \A i \in 1..(Len(kernel) - 1) : kernel'[i] = kernel[i + 1]
         \/ /\ Len(kernel') = Len(kernel)
            /\ kernel'[1].bytes = kernel[1].bytes - bytes /\ kernel'[1].fds = <<>>
            /\ \A i \in 2..Len(kernel) : kernel'[i] = kernel[i]
  BY <1>1, FillMoves
<1>3. PICK A, start, off, pos : Fits(A, start, off, pos)
  BY DEF Inv
<1>4. Sent(A, start) /\ Split(A, start[Len(received) + 1], off) /\ Paced(A, off, pos)
  BY <1>3 DEF Fits
<1>5. A \in Seq(Entry) /\ start[Len(received) + 1] \in Nat
  BY <1>1, <1>4, BaseOK
<1>6. PICK base \in Nat : base = start[Len(received) + 1]
  BY <1>5
<1>7. Split(A, base, off)
  BY <1>4, <1>6
<1>8. PICK o, p : Split(A, base, o)' /\ Paced(A, o, p)'
  <2>1. CASE bytes = kernel[1].bytes /\ Len(kernel') = Len(kernel) - 1
             /\ \A i \in 1..(Len(kernel) - 1) : kernel'[i] = kernel[i + 1]
    <3>1. got' = got + kernel[1].bytes /\ UNCHANGED <<msgs, outFds, written>>
      BY <1>1, <1>2, <2>1
    <3>2. QED
      BY ONLY <1>1, <1>2, <1>4, <1>5, <1>7, <2>1, <3>1, base \in Nat, WholeRead
  <2>2. CASE /\ Len(kernel') = Len(kernel)
             /\ kernel'[1].bytes = kernel[1].bytes - bytes /\ kernel'[1].fds = <<>>
             /\ \A i \in 2..Len(kernel) : kernel'[i] = kernel[i]
    <3>1. UNCHANGED <<msgs, outFds, written>> /\ Paced(A, off, pos)
      BY <1>1, <1>4
    <3>2. QED
      BY ONLY <1>1, <1>2, <1>5, <1>7, <2>2, <3>1, base \in Nat, PartRead
  <2>3. QED
    BY ONLY <1>2, <2>1, <2>2
<1>9. Sent(A, start)'
  BY <1>1, <1>4 DEF Sent, End
<1>10. Fits(A, start, o, p)'
  <2>1. base = start[Len(received') + 1]
    BY <1>1, <1>6
  <2>2. QED
    BY <1>8, <1>9, <2>1 DEF Fits
<1>11. Types'
  <2>1. inFds' \in Seq(Fd)
    BY <1>1, <1>2, <1>5, <1>7, ArriveMore
  <2>2. got' \in Nat
    <3>1. bytes \in Nat /\ got \in Nat
      BY <1>1, <1>2 DEF Types
    <3>2. QED
      BY <1>2, <3>1
  <2>3. QED
    BY <1>1, <1>2, <2>1, <2>2 DEF Types
<1>12. QED
  BY <1>1, <1>10, <1>11 DEF Inv

-----------------------------------------------------------------------------
(* A parsed message.                                                         *)

\* A message that has arrived has its descriptors: the next descriptor would be its
\* own, and it cannot come with bytes after its first.
LEMMA Arrived ==
  ASSUME Inv, Len(received) < Len(msgs),
         got >= msgs[Len(received) + 1].at + msgs[Len(received) + 1].size
  PROVE  Len(msgs[Len(received) + 1].fds) <= Len(inFds)
<1>1. Types /\ \A k \in 1..Len(msgs) : msgs[k].size > 0
  BY DEF Inv
<1>2. PICK A, start, off, pos : Sent(A, start) /\ Split(A, start[Len(received) + 1], off) /\ Paced(A, off, pos)
  BY DEF Inv, Fits
<1>3. PICK c : c = Len(received) + 1
  OBVIOUS
<1>4. c \in 1..Len(msgs) /\ Len(received) \in Nat /\ got \in Nat
  <2>1. Len(received) \in Nat /\ Len(msgs) \in Nat /\ got \in Nat
    BY <1>1 DEF Types
  <2>2. QED
    BY ONLY <1>3, <2>1, Len(received) < Len(msgs)
<1>5. PICK w \in Nat, t \in Nat, z \in Nat : w = Len(msgs[c].fds) /\ t = msgs[c].at /\ z = msgs[c].size
  BY <1>1, <1>4, Fields
<1>6. PICK n \in Nat, base \in Nat : n = Len(inFds) /\ base = start[c]
  BY <1>1, <1>2, <1>3, Pieces, BaseOK
<1>7. ASSUME w > n PROVE FALSE
  <2>1. n + 1 \in 1..w
    BY ONLY <1>5, <1>6, <1>7
  <2>2. A[base + (n + 1)].at = t /\ base + (n + 1) \in 1..Len(A)
    <3>1. n + 1 \in 1..Len(msgs[c].fds) /\ start[c] = base
      BY ONLY <1>5, <1>6, <2>1
    <3>2. start[c] + (n + 1) \in 1..Len(A)
      BY ONLY <1>1, <1>2, <1>4, <3>1, StartOK
    <3>3. A[start[c] + (n + 1)].at = msgs[c].at
      BY ONLY <1>2, <1>4, <3>1 DEF Sent
    <3>4. QED
      BY ONLY <1>5, <3>1, <3>2, <3>3
  <2>3. off[1] = base + n /\ pos[1] = got
    BY <1>2, <1>3, <1>6 DEF Split, Paced
  <2>4. base + (n + 1) \in DOMAIN A /\ base + (n + 1) > off[1]
    <3>1. A \in Seq(Entry)
      BY <1>2 DEF Sent
    <3>2. base + (n + 1) \in DOMAIN A
      BY ONLY <2>2, <3>1
    <3>3. base + (n + 1) > base + n
      BY ONLY <1>6
    <3>4. QED
      BY ONLY <2>3, <3>2, <3>3
  <2>5. A[base + (n + 1)].at >= pos[1]
    <3>1. 1 \in 1..(Len(kernel) + 1)
      BY <1>1, Pieces
    <3>2. QED
      BY ONLY <1>2, <2>4, <3>1 DEF Paced
  <2>6. got >= t + z /\ z > 0
    BY <1>1, <1>3, <1>4, <1>5
  <2>7. QED
    BY ONLY <1>4, <1>5, <2>2, <2>3, <2>5, <2>6
<1>8. QED
  BY ONLY <1>3, <1>5, <1>6, <1>7

\* What Socket::next does with a message that has arrived: it takes as many descriptors
\* as the message has, and those are its own.
LEMMA Taken ==
  ASSUME Inv, Parse
  PROVE  /\ Len(received) < Len(msgs) /\ UNCHANGED <<msgs, outFds, written, kernel, got>>
         /\ received' = Append(received, msgs[Len(received) + 1].fds)
         /\ inFds' \in Seq(Fd) /\ Len(inFds') = Len(inFds) - Len(msgs[Len(received) + 1].fds)
         /\ Len(msgs[Len(received) + 1].fds) <= Len(inFds)
         /\ \A j \in 1..Len(inFds') : inFds'[j] = inFds[Len(msgs[Len(received) + 1].fds) + j]
<1>1. Types /\ Len(received) < Len(msgs) /\ UNCHANGED <<msgs, outFds, written, kernel, got>>
  BY DEF Inv, Parse
<1>2. PICK c : c = Len(received) + 1
  OBVIOUS
<1>3. c \in 1..Len(msgs)
  <2>1. Len(received) \in Nat /\ Len(msgs) \in Nat
    BY <1>1 DEF Types
  <2>2. QED
    BY ONLY <1>1, <1>2, <2>1
<1>4. got >= msgs[c].at + msgs[c].size
  BY <1>2 DEF Parse
<1>5. Len(msgs[c].fds) <= Len(inFds)
  BY <1>1, <1>2, <1>4, Arrived
<1>6. PICK f \in Seq(Fd) : f = msgs[c].fds
  BY <1>1, <1>3, Fields
<1>7. inFds \in Seq(Fd) /\ Len(inFds) \in Nat /\ Len(f) \in Nat /\ Len(f) <= Len(inFds)
  BY <1>1, <1>5, <1>6 DEF Types
<1>8. received' = Append(received, SubSeq(inFds, 1, Len(f))) /\ inFds' = SubSeq(inFds, Len(f) + 1, Len(inFds))
  <2>1. ~(Wanted(msgs[c]) > Len(inFds)) /\ Wanted(msgs[c]) = Len(f)
    BY <1>6, <1>7 DEF Wanted
  <2>2. QED
    BY <1>2, <2>1 DEF Parse
<1>9. /\ inFds' \in Seq(Fd) /\ Len(inFds') = Len(inFds) - Len(f)
      /\ \A j \in 1..Len(inFds') : inFds'[j] = inFds[Len(f) + j]
  <2>1. Len(f) + 1 \in 1..(Len(inFds) + 1)
    BY ONLY <1>7
  <2>2. inFds' \in Seq(Fd) /\ Len(inFds') = Len(inFds) - Len(f)
    BY ONLY <1>7, <1>8, <2>1
  <2>3. \A j \in 1..(Len(inFds) - Len(f)) : inFds'[j] = inFds[Len(f) + 1 + j - 1] /\ Len(f) + 1 + j - 1 = Len(f) + j
    BY ONLY <1>7, <1>8, <2>1
  <2>4. QED
    BY ONLY <2>2, <2>3
<1>10. SubSeq(inFds, 1, Len(f)) = f
  <2>1. PICK A, start, off, pos : Sent(A, start) /\ Split(A, start[Len(received) + 1], off)
    BY DEF Inv, Fits
  <2>2. ASSUME NEW j \in 1..Len(f) PROVE inFds[j] = f[j]
    <3>1. j \in 1..Len(inFds) /\ j \in 1..Len(msgs[c].fds)
      BY ONLY <1>6, <1>7, j \in 1..Len(f)
    <3>2. inFds[j] = A[start[c] + j].fd
      BY ONLY <1>2, <2>1, <3>1 DEF Split
    <3>3. A[start[c] + j].fd = msgs[c].fds[j]
      BY ONLY <1>3, <2>1, <3>1 DEF Sent
    <3>4. QED
      BY ONLY <1>6, <3>2, <3>3
  <2>3. PICK g : g = SubSeq(inFds, 1, Len(f))
    OBVIOUS
  <2>4. g \in Seq(Fd) /\ Len(g) = Len(f) /\ \A j \in 1..Len(f) : g[j] = inFds[j]
    BY ONLY <1>7, <2>3
  <2>5. \A j \in 1..Len(f) : g[j] = f[j]
    BY ONLY <2>2, <2>4
  <2>6. g = f
    BY ONLY <2>4, <2>5, f \in Seq(Fd)
  <2>7. QED
    BY ONLY <2>3, <2>6
<1>11. QED
  BY ONLY <1>1, <1>2, <1>6, <1>7, <1>8, <1>9, <1>10

\* Parse keeps the invariant.
LEMMA ParseStep == ASSUME Inv, Parse PROVE Inv'
<1>1. Types /\ \A k \in 1..Len(msgs) : msgs[k].size > 0
  BY DEF Inv
<1>2. /\ Len(received) < Len(msgs) /\ UNCHANGED <<msgs, outFds, written, kernel, got>>
      /\ received' = Append(received, msgs[Len(received) + 1].fds)
      /\ inFds' \in Seq(Fd) /\ Len(inFds') = Len(inFds) - Len(msgs[Len(received) + 1].fds)
      /\ Len(msgs[Len(received) + 1].fds) <= Len(inFds)
      /\ \A j \in 1..Len(inFds') : inFds'[j] = inFds[Len(msgs[Len(received) + 1].fds) + j]
  BY Taken
<1>3. PICK A, start, off, pos : Sent(A, start) /\ Split(A, start[Len(received) + 1], off) /\ Paced(A, off, pos)
  BY DEF Inv, Fits
<1>4. PICK c : c = Len(received) + 1
  OBVIOUS
<1>5. c \in 1..Len(msgs) /\ Len(received) \in Nat /\ Len(msgs) \in Nat
  <2>1. Len(received) \in Nat /\ Len(msgs) \in Nat
    BY <1>1 DEF Types
  <2>2. QED
    BY ONLY <1>2, <1>4, <2>1
<1>6. PICK f \in Seq(Fd) : f = msgs[c].fds
  BY <1>1, <1>5, Fields
<1>7. /\ received' = Append(received, f) /\ Len(inFds') = Len(inFds) - Len(f) /\ Len(f) <= Len(inFds)
      /\ \A j \in 1..Len(inFds') : inFds'[j] = inFds[Len(f) + j]
  BY ONLY <1>2, <1>4, <1>6
<1>8. received' \in Seq(Seq(Fd)) /\ Len(received') = c
  <2>1. received \in Seq(Seq(Fd))
    BY <1>1 DEF Types
  <2>2. QED
    BY ONLY <1>4, <1>7, <2>1, f \in Seq(Fd), Grown
<1>9. Types'
  <2>1. Len(received') <= Len(msgs')
    BY <1>2, <1>5, <1>8
  <2>2. QED
    BY <1>1, <1>2, <1>8, <2>1 DEF Types
<1>10. PICK n \in Nat, w \in Nat, base \in Nat : n = Len(inFds) /\ w = Len(f) /\ base = start[c]
  <2>1. Len(inFds) \in Nat /\ start[c] \in Nat
    BY <1>1, <1>3, <1>4, Pieces, BaseOK
  <2>2. Len(f) \in Nat
    BY ONLY f \in Seq(Fd)
  <2>3. QED
    BY ONLY <2>1, <2>2
<1>11. start[c + 1] = base + w
  <2>1. start[c + 1] = start[c] + Len(msgs[c].fds)
    BY ONLY <1>3, <1>5 DEF Sent
  <2>2. QED
    BY ONLY <1>6, <1>10, <2>1
<1>12. PICK next : next = base + w
  OBVIOUS
<1>13. Split(A, next, off)'
  <2>1. /\ off \in [1..(Len(kernel) + 1) -> 0..Len(A)]
        /\ off[1] = base + n
        /\ \A j \in 1..n : inFds[j] = A[base + j].fd
        /\ \A i \in 1..Len(kernel) : off[i + 1] = off[i] + Len(kernel[i].fds)
        /\ \A i \in 1..Len(kernel) : \A j \in 1..Len(kernel[i].fds) : kernel[i].fds[j] = A[off[i] + j].fd
        /\ off[Len(kernel) + 1] + Len(outFds) = Len(A)
        /\ \A j \in 1..Len(outFds) : outFds[j] = A[off[Len(kernel) + 1] + j]
    BY <1>3, <1>4, <1>10 DEF Split
  <2>2. off[1] = next + Len(inFds')
    <3>1. base + n = (base + w) + (n - w)
      BY ONLY <1>10
    <3>2. Len(inFds') = n - w
      BY ONLY <1>7, <1>10
    <3>3. QED
      BY ONLY <1>12, <2>1, <3>1, <3>2
  <2>3. ASSUME NEW j \in 1..Len(inFds') PROVE inFds'[j] = A[next + j].fd
    <3>1. Len(inFds') = n - w
      BY ONLY <1>7, <1>10
    <3>2. w + j \in 1..n /\ base + (w + j) = (base + w) + j
      <4>1. j \in 1..(n - w) /\ n \in Nat /\ w \in Nat /\ base \in Nat
        BY ONLY <1>10, <3>1, j \in 1..Len(inFds')
      <4>2. QED
        BY ONLY <4>1
    <3>3. inFds'[j] = inFds[w + j]
      BY ONLY <1>7, <1>10, j \in 1..Len(inFds')
    <3>4. inFds[w + j] = A[base + (w + j)].fd
      BY ONLY <2>1, <3>2
    <3>5. QED
      BY ONLY <1>12, <3>2, <3>3, <3>4
  <2>4. kernel' = kernel /\ outFds' = outFds
    BY <1>2
  <2>5. QED
    BY ONLY <2>1, <2>2, <2>3, <2>4 DEF Split
<1>14. Split(A, start[Len(received) + 1], off)'
  <2>1. start[Len(received') + 1] = next
    BY ONLY <1>8, <1>11, <1>12
  <2>2. QED
    BY <1>13, <2>1
<1>15. Sent(A, start)' /\ Paced(A, off, pos)'
  BY <1>2, <1>3 DEF Sent, Paced, End
<1>16. Fits(A, start, off, pos)'
  BY <1>14, <1>15 DEF Fits
<1>17. QED
  BY <1>1, <1>2, <1>9, <1>16 DEF Inv

-----------------------------------------------------------------------------
(* The invariant holds.                                                      *)

\* Nothing has been sent.
LEMMA InitInv == ASSUME WireInit PROVE Inv
<1>1. /\ msgs = <<>> /\ outFds = <<>> /\ written = 0
      /\ kernel = <<>> /\ got = 0 /\ inFds = <<>> /\ received = <<>>
  BY DEF WireInit
<1>2. Types
  BY <1>1 DEF Types
<1>3. Len(msgs) = 0 /\ Len(outFds) = 0 /\ Len(kernel) = 0 /\ Len(inFds) = 0 /\ Len(received) = 0 /\ End = 0
  BY <1>1 DEF End
<1>4. PICK A, z : A = <<>> /\ z = [i \in 1..1 |-> 0]
  OBVIOUS
<1>5. A \in Seq(Entry) /\ Len(A) = 0 /\ DOMAIN A = {}
  BY <1>4
<1>6. z \in [1..1 -> 0..0] /\ z[1] = 0
  BY <1>4
<1>7. \A j \in 1..0 : FALSE
  OBVIOUS
<1>8. 0 + 1 = 1 /\ 0 + 0 = 0
  OBVIOUS
<1>9. Sent(A, z)
  BY ONLY <1>3, <1>5, <1>6, <1>7, <1>8 DEF Sent
<1>10. Split(A, z[Len(received) + 1], z)
  BY ONLY <1>3, <1>5, <1>6, <1>7, <1>8 DEF Split
<1>11. Paced(A, z, z)
  BY ONLY <1>1, <1>3, <1>5, <1>6, <1>7, <1>8 DEF Paced
<1>12. Fits(A, z, z, z)
  BY <1>9, <1>10, <1>11 DEF Fits
<1>13. QED
  BY <1>2, <1>3, <1>7, <1>12 DEF Inv

\* The connection ending, or resting, moves nothing.
LEMMA Rests ==
  ASSUME Inv, UNCHANGED <<msgs, outFds, written, kernel, got, inFds, received>>
  PROVE  Inv'
<1>1. Types' /\ \A k \in 1..Len(msgs') : msgs'[k].size > 0
  BY DEF Inv, Types
<1>2. PICK A, start, off, pos : Sent(A, start) /\ Split(A, start[Len(received) + 1], off) /\ Paced(A, off, pos)
  BY DEF Inv, Fits
<1>3. Sent(A, start)' /\ Split(A, start[Len(received) + 1], off)' /\ Paced(A, off, pos)'
  BY <1>2 DEF Sent, Split, Paced, End
<1>4. Fits(A, start, off, pos)'
  BY <1>3 DEF Fits
<1>5. QED
  BY <1>1, <1>4 DEF Inv

\* Every step keeps the invariant.
LEMMA NextInv == ASSUME WireAssumption, Inv, [WireNext]_wireVars PROVE Inv'
<1>1. ASSUME NEW s \in 1..MaxSize, NEW c \in 0..MaxCount, SocketSend(s, c) PROVE Inv'
  BY <1>1, SendStep
<1>2. ASSUME NEW b, Flush(b) PROVE Inv'
  BY <1>2, FlushStep
<1>3. ASSUME NEW b, Fill(b) PROVE Inv'
  BY <1>3, FillStep
<1>4. CASE FlushFails
  BY <1>4, Rests DEF FlushFails
<1>5. CASE Parse
  BY <1>5, ParseStep
<1>6. CASE UNCHANGED wireVars
  BY <1>6, Rests DEF wireVars
<1>7. QED
  BY <1>1, <1>2, <1>3, <1>4, <1>5, <1>6 DEF WireNext

\* The invariant holds always.
LEMMA InvHolds == ASSUME WireAssumption PROVE WireSpec => []Inv
<1>1. WireInit => Inv
  BY InitInv
<1>2. Inv /\ [WireNext]_wireVars => Inv'
  BY NextInv
<1>3. QED
  BY <1>1, <1>2, PTL DEF WireSpec

\* A message whose bytes have all arrived has its descriptors, in whatever pieces
\* Socket::flush wrote and Socket::fill read the stream, and however many descriptors
\* one write takes: Socket::next never ends a connection for want of descriptors.
THEOREM DescriptorsArriveHolds == ASSUME WireAssumption PROVE WireSpec => []DescriptorsArrive
<1>1. Inv => DescriptorsArrive
  <2> SUFFICES ASSUME Inv, Len(received) < Len(msgs),
                      got >= msgs[Len(received) + 1].at + msgs[Len(received) + 1].size
               PROVE  Len(inFds) >= Len(msgs[Len(received) + 1].fds)
    BY DEF DescriptorsArrive, Wanted
  <2>1. Len(msgs[Len(received) + 1].fds) <= Len(inFds)
    BY Arrived
  <2>2. QED
    BY ONLY <2>1
<1>2. WireSpec => []Inv
  BY InvHolds
<1>3. QED
  BY <1>1, <1>2, PTL

\* Sequences that agree are equal.
LEMMA Same ==
  ASSUME NEW S, NEW s \in Seq(S), NEW u \in Seq(S), Len(s) = Len(u),
         \A i \in 1..Len(u) : s[i] = u[i]
  PROVE  s = u
  OBVIOUS

\* The descriptors of the messages sent, as the queue has them.
LEMMA QueueGrows ==
  ASSUME Types, NEW x \in Message, msgs' = Append(msgs, x), UNCHANGED received
  PROVE  Queue!Send
<1>1. PICK u, v : u = [k \in 1..Len(msgs) |-> msgs[k].fds] /\ v = [k \in 1..Len(msgs') |-> msgs'[k].fds]
  OBVIOUS
<1>2. /\ Len(msgs') = Len(msgs) + 1 /\ Len(msgs) \in Nat
      /\ \A k \in 1..Len(msgs) : msgs'[k] = msgs[k]
      /\ msgs'[Len(msgs) + 1] = x
  <2>1. msgs \in Seq(Message)
    BY DEF Types
  <2>2. QED
    BY ONLY <2>1, x \in Message, msgs' = Append(msgs, x), Grown
<1>3. u \in Seq(Seq(Fd)) /\ Len(u) = Len(msgs)
  <2>1. \A k \in 1..Len(msgs) : msgs[k].fds \in Seq(Fd)
    BY Fields
  <2>2. u \in [1..Len(msgs) -> Seq(Fd)]
    BY ONLY <1>1, <2>1
  <2>3. QED
    BY ONLY <1>2, <2>2
<1>4. v \in Seq(Seq(Fd)) /\ Len(v) = Len(msgs')
  <2>1. \A k \in 1..Len(msgs) : msgs[k].fds \in Seq(Fd)
    BY Fields
  <2>2. x.fds \in Seq(Fd)
    BY DEF Message
  <2>3. \A k \in 1..Len(msgs') : k \in 1..Len(msgs) \/ k = Len(msgs) + 1
    BY ONLY <1>2
  <2>4. \A k \in 1..Len(msgs') : msgs'[k].fds \in Seq(Fd)
    BY ONLY <1>2, <2>1, <2>2, <2>3
  <2>5. v \in [1..Len(msgs') -> Seq(Fd)] /\ Len(msgs') \in Nat
    BY ONLY <1>1, <1>2, <2>4
  <2>6. QED
    BY ONLY <2>5
<1>5. SubSeq(v, 1, Len(u)) = u
  <2>1. \A k \in 1..Len(msgs) : v[k] = u[k]
    <3>1. \A k \in 1..Len(msgs) : k \in 1..Len(msgs')
      BY ONLY <1>2
    <3>2. QED
      BY ONLY <1>1, <1>2, <3>1
  <2>2. PICK g : g = SubSeq(v, 1, Len(u))
    OBVIOUS
  <2>3. Len(u) \in Nat /\ Len(u) <= Len(v)
    BY ONLY <1>2, <1>3, <1>4
  <2>4. g \in Seq(Seq(Fd)) /\ Len(g) = Len(u) /\ \A k \in 1..Len(u) : g[k] = v[k]
    BY ONLY <1>4, <2>2, <2>3
  <2>5. \A k \in 1..Len(u) : g[k] = u[k]
    BY ONLY <1>3, <2>1, <2>4
  <2>6. g = u
    BY ONLY <1>3, <2>4, <2>5, Same
  <2>7. QED
    BY ONLY <2>2, <2>6
<1>6. Len(v) = Len(u) + 1
  BY ONLY <1>2, <1>3, <1>4
<1>7. QED
  BY <1>1, <1>5, <1>6 DEF Queue!Send

\* A message parsed is the next of the queue.
LEMMA QueueShrinks == ASSUME Inv, Parse PROVE Queue!Receive
<1>1. /\ Len(received) < Len(msgs) /\ msgs' = msgs
      /\ received' = Append(received, msgs[Len(received) + 1].fds)
  BY Taken
<1>2. PICK u : u = [k \in 1..Len(msgs) |-> msgs[k].fds]
  OBVIOUS
<1>3. Len(msgs) \in Nat /\ Len(received) \in Nat
  BY DEF Inv, Types
<1>4. Len(u) = Len(msgs) /\ u[Len(received) + 1] = msgs[Len(received) + 1].fds
  <2>1. Len(received) + 1 \in 1..Len(msgs)
    BY ONLY <1>1, <1>3
  <2>2. \A k \in 1..Len(msgs) : msgs[k].fds \in Seq(Fd)
    BY Fields DEF Inv
  <2>3. u \in [1..Len(msgs) -> Seq(Fd)]
    BY ONLY <1>2, <2>2
  <2>4. Len(u) = Len(msgs)
    BY ONLY <1>3, <2>3
  <2>5. QED
    BY ONLY <1>2, <2>1, <2>4
<1>5. QED
  BY <1>1, <1>2, <1>4 DEF Queue!Receive

\* The connection implements the queue: in whatever pieces its bytes are written and
\* read, each message is received once, in order and with its own descriptors
\* (wire.rs Socket::send, flush, fill, next).
THEOREM ImplementsHolds == ASSUME WireAssumption PROVE WireSpec => Implements
<1>1. WireInit => Queue!Init
  BY DEF WireInit, Queue!Init
<1>2. Inv /\ [WireNext]_wireVars =>
        [Queue!Send \/ Queue!Receive]_<<[k \in 1..Len(msgs) |-> msgs[k].fds], received>>
  <2> SUFFICES ASSUME Inv, [WireNext]_wireVars,
                      ~(UNCHANGED <<[k \in 1..Len(msgs) |-> msgs[k].fds], received>>)
               PROVE  Queue!Send \/ Queue!Receive
    OBVIOUS
  <2>1. ASSUME NEW s \in 1..MaxSize, NEW c \in 0..MaxCount, SocketSend(s, c) PROVE Queue!Send
    <3>1. Types /\ UNCHANGED received
      BY <2>1 DEF Inv, SocketSend
    <3>2. PICK x \in Message : msgs' = Append(msgs, x)
      BY <2>1, <3>1, SendAdds
    <3>3. QED
      BY <3>1, <3>2, QueueGrows
  <2>2. ~ UNCHANGED <<msgs, received>>
    OBVIOUS
  <2>3. ASSUME NEW b PROVE ~ Flush(b) /\ ~ Fill(b)
    BY <2>2 DEF Flush, Fill
  <2>4. ~ FlushFails /\ ~ UNCHANGED wireVars
    BY <2>2 DEF FlushFails, wireVars
  <2>5. CASE Parse
    BY <2>5, QueueShrinks
  <2>6. QED
    BY <2>1, <2>3, <2>4, <2>5 DEF WireNext
<1>3. WireSpec => []Inv
  BY InvHolds
<1>4. QED
  BY <1>1, <1>2, <1>3, PTL DEF WireSpec, Implements, Queue!Spec

-----------------------------------------------------------------------------
(* The outputs (OutputModes). *)

\* What an event says.
Value(e) == IF e.ev = "geometry" THEN e.rotated ELSE IF e.ev = "scale" THEN e.scale ELSE e.size

\* Of what is still to be read in q, the last event of its kind says v, or v is known when there is none.
Ends(q, ev, known, v) ==
  /\ \A i \in 1..Len(q) :
       q[i].ev = ev /\ (\A j \in 1..Len(q) : j > i => q[j].ev # ev) => Value(q[i]) = v
  /\ (\A i \in 1..Len(q) : q[i].ev # ev) => known = v

Event == [ev : {"geometry"}, rotated : BOOLEAN] \cup [ev : {"mode"}, size : Modes] \cup [ev : {"scale"}, scale : Scales]
         \cup [ev : {"logical"}, size : Logicals] \cup [ev : {"done", "xdg_done"}]

\* The parts of Role::Output.
Parted(o) ==
  o = [scale |-> o.scale, rotated |-> o.rotated, logical |-> o.logical, mode |-> o.mode, told |-> o.told]

OutputTypes ==
  /\ queue \in Seq(Event) /\ xdg \in BOOLEAN /\ Parted(out)
  /\ host \in [mode : Modes, logical : Logicals, rotated : BOOLEAN, scale : Scales]

\* The events that wait end at what the compositor has, and with a `done`.
EventsEnd ==
  /\ xdg => Described
  /\ Described => /\ Ends(queue, "geometry", out.rotated, host.rotated)
                  /\ Ends(queue, "mode", out.mode, host.mode)
                  /\ Ends(queue, "scale", out.scale, host.scale)
  /\ xdg => Ends(queue, "logical", out.logical, host.logical)
  /\ queue # <<>> => queue[Len(queue)].ev \in {"done", "xdg_done"}

\* The bridge has the mode it was told, or the compositor's own; the last `done` told it the one for
\* the output as it was described, whatever the proxy's connection says of it.
ModeTold ==
  /\ IF kind = "native" THEN bridgeMode = out.mode ELSE bridgeMode = out.told
  /\ kind # "native" /\ queue = <<>> /\ out.mode # NoSize /\ out.logical # NoSize => out.told = ToldMode(out, own)

\* The size of the screen follows the mode.
SizeFollows == xdg /\ kind # "native" => sized \/ \E i \in 1..Len(queue) : queue[i].ev = "logical"

OutputInv == OutputTypes /\ EventsEnd /\ ModeTold /\ SizeFollows

-----------------------------------------------------------------------------
(* Events that wait. *)

\* After one is read the last ones are what they were.
LEMMA EndsTail ==
  ASSUME NEW S, NEW q \in Seq(S), q # <<>>, NEW ev, NEW known, NEW v, Ends(q, ev, known, v)
  PROVE  Ends(Tail(q), ev, IF Head(q).ev = ev THEN Value(Head(q)) ELSE known, v)
<1>1. /\ Len(q) \in Nat /\ Len(q) >= 1 /\ Len(Tail(q)) = Len(q) - 1 /\ Head(q) = q[1]
      /\ \A i \in 1..Len(Tail(q)) : Tail(q)[i] = q[i + 1]
  OBVIOUS
<1>2. /\ \A i \in 1..Len(q) :
           q[i].ev = ev /\ (\A j \in 1..Len(q) : j > i => q[j].ev # ev) => Value(q[i]) = v
      /\ (\A i \in 1..Len(q) : q[i].ev # ev) => known = v
  BY DEF Ends
<1> HIDE DEF Value
<1>3. ASSUME NEW i \in 1..Len(Tail(q)), Tail(q)[i].ev = ev,
             \A j \in 1..Len(Tail(q)) : j > i => Tail(q)[j].ev # ev
      PROVE  Value(Tail(q)[i]) = v
  <2>1. i + 1 \in 1..Len(q) /\ Tail(q)[i] = q[i + 1]
    BY <1>1
  <2>2. ASSUME NEW j \in 1..Len(q), j > i + 1
        PROVE  q[j].ev # ev
    <3>1. j - 1 \in 1..Len(Tail(q)) /\ j - 1 > i /\ (j - 1) + 1 = j
      BY <1>1, <2>2
    <3>2. Tail(q)[j - 1] = q[j]
      BY <1>1, <3>1
    <3>3. QED
      BY <1>3, <3>1, <3>2
  <2>3. QED
    BY <1>2, <1>3, <2>1, <2>2
<1>4. ASSUME \A i \in 1..Len(Tail(q)) : Tail(q)[i].ev # ev
      PROVE  (IF Head(q).ev = ev THEN Value(Head(q)) ELSE known) = v
  <2>1. ASSUME NEW j \in 1..Len(q), j > 1
        PROVE  q[j].ev # ev
    <3>1. j - 1 \in 1..Len(Tail(q)) /\ (j - 1) + 1 = j
      BY <1>1, <2>1
    <3>2. Tail(q)[j - 1] = q[j]
      BY <1>1, <3>1
    <3>3. QED
      BY <1>4, <3>1, <3>2
  <2>2. CASE q[1].ev = ev
    <3>1. 1 \in 1..Len(q)
      BY <1>1
    <3>2. Value(q[1]) = v
      BY <1>2, <2>1, <2>2, <3>1
    <3>3. QED
      BY <1>1, <2>2, <3>2
  <2>3. CASE q[1].ev # ev
    <3>1. \A i \in 1..Len(q) : q[i].ev # ev
      BY <2>1, <2>3
    <3>2. QED
      BY <1>1, <1>2, <2>3, <3>1
  <2>4. QED
    BY <2>2, <2>3
<1>5. QED
  BY <1>3, <1>4 DEF Ends

\* Other events after them change nothing.
LEMMA EndsWithout ==
  ASSUME NEW S, NEW q \in Seq(S), NEW r \in Seq(S), NEW ev, NEW known, NEW v, Ends(q, ev, known, v),
         \A i \in 1..Len(r) : r[i].ev # ev
  PROVE  Ends(q \o r, ev, known, v)
<1>1. /\ Len(q) \in Nat /\ Len(r) \in Nat /\ Len(q \o r) = Len(q) + Len(r)
      /\ \A i \in 1..Len(q) : (q \o r)[i] = q[i]
      /\ \A i \in 1..Len(q \o r) : i > Len(q) => (q \o r)[i] = r[i - Len(q)] /\ i - Len(q) \in 1..Len(r)
  OBVIOUS
<1>2. \A i \in 1..Len(q \o r) : i > Len(q) => (q \o r)[i].ev # ev
  BY <1>1
<1>3. \A i \in 1..Len(q) : i \in 1..Len(q \o r)
  BY <1>1
<1>4. \A i \in 1..Len(q \o r) : i \in 1..Len(q) \/ i > Len(q)
  BY <1>1
<1> HIDE DEF Value
<1>5. ASSUME NEW i \in 1..Len(q \o r), (q \o r)[i].ev = ev,
             \A j \in 1..Len(q \o r) : j > i => (q \o r)[j].ev # ev
      PROVE  Value((q \o r)[i]) = v
  <2>1. i \in 1..Len(q)
    BY <1>2, <1>4, <1>5
  <2>2. \A j \in 1..Len(q) : j > i => q[j].ev # ev
    BY <1>1, <1>3, <1>5
  <2>3. QED
    BY <1>1, <1>5, <2>1, <2>2 DEF Ends
<1>6. ASSUME \A i \in 1..Len(q \o r) : (q \o r)[i].ev # ev
      PROVE  known = v
  <2>1. \A i \in 1..Len(q) : q[i].ev # ev
    BY <1>1, <1>3, <1>6
  <2>2. QED
    BY <2>1 DEF Ends
<1>7. QED
  BY <1>5, <1>6 DEF Ends

\* The same event after them is the last one.
LEMMA EndsWith ==
  ASSUME NEW S, NEW q \in Seq(S), NEW r \in Seq(S), NEW ev, NEW known, NEW v,
         \E i \in 1..Len(r) : r[i].ev = ev,
         \A i \in 1..Len(r) : r[i].ev = ev => Value(r[i]) = v
  PROVE  Ends(q \o r, ev, known, v)
<1>1. /\ Len(q) \in Nat /\ Len(r) \in Nat /\ Len(q \o r) = Len(q) + Len(r)
      /\ \A i \in 1..Len(q \o r) : i > Len(q) => (q \o r)[i] = r[i - Len(q)] /\ i - Len(q) \in 1..Len(r)
      /\ \A k \in 1..Len(r) : Len(q) + k \in 1..Len(q \o r) /\ Len(q) + k > Len(q) /\ (q \o r)[Len(q) + k] = r[k]
  OBVIOUS
<1>2. PICK k \in 1..Len(r) : r[k].ev = ev
  OBVIOUS
<1>3. Len(q) + k \in 1..Len(q \o r) /\ Len(q) + k > Len(q) /\ (q \o r)[Len(q) + k].ev = ev
  BY <1>1, <1>2
<1>4. \A i \in 1..Len(q \o r) : i > Len(q) \/ Len(q) + k > i
  BY <1>1
<1> HIDE DEF Value
<1>5. ASSUME NEW i \in 1..Len(q \o r), (q \o r)[i].ev = ev,
             \A j \in 1..Len(q \o r) : j > i => (q \o r)[j].ev # ev
      PROVE  Value((q \o r)[i]) = v
  <2>1. i > Len(q)
    BY <1>3, <1>4, <1>5
  <2>2. QED
    BY <1>1, <1>5, <2>1
<1>6. QED
  BY <1>3, <1>5 DEF Ends

\* The last of the events that were added is the last.
LEMMA LastOf ==
  ASSUME NEW S, NEW q \in Seq(S), NEW r \in Seq(S), r # <<>>
  PROVE  (q \o r)[Len(q \o r)] = r[Len(r)] /\ q \o r # <<>>
  OBVIOUS

\* Reading leaves the last one.
LEMMA LastOfTail ==
  ASSUME NEW S, NEW q \in Seq(S), Tail(q) # <<>>, q # <<>>
  PROVE  Tail(q)[Len(Tail(q))] = q[Len(q)]
  OBVIOUS

\* What the compositor sends of an output, in full, its first part, and on a zxdg_output_v1.
LEMMA DescriptionsAre ==
  ASSUME NEW h \in [mode : Modes, logical : Logicals, rotated : BOOLEAN, scale : Scales]
  PROVE  LET d == Description(h)
             f == SubSeq(Description(h), 1, 3)
             x == XdgDescription(h)
         IN /\ d \in Seq(Event) /\ f \in Seq(Event) /\ x \in Seq(Event)
            /\ Len(d) = 4 /\ Len(f) = 3 /\ Len(x) = 2
            /\ f[1] = d[1] /\ f[2] = d[2] /\ f[3] = d[3]
            /\ d[1] = [ev |-> "geometry", rotated |-> h.rotated] /\ d[2] = [ev |-> "mode", size |-> h.mode]
            /\ d[3] = [ev |-> "scale", scale |-> h.scale] /\ d[4].ev = "done"
            /\ x[1] = [ev |-> "logical", size |-> h.logical] /\ x[2].ev \in {"done", "xdg_done"}
<1> DEFINE a == [ev |-> "geometry", rotated |-> h.rotated]
           b == [ev |-> "mode", size |-> h.mode]
           c == [ev |-> "scale", scale |-> h.scale]
           e == [ev |-> "done"]
           l == [ev |-> "logical", size |-> h.logical]
           z == [ev |-> IF xdgVersion < 3 THEN "xdg_done" ELSE "done"]
<1>1. a \in Event /\ b \in Event /\ c \in Event /\ e \in Event /\ l \in Event /\ z \in Event
  BY DEF Event
<1>2. e.ev = "done" /\ z.ev \in {"done", "xdg_done"}
  OBVIOUS
<1>3. Description(h) = <<a, b, c, e>> /\ XdgDescription(h) = <<l, z>>
  BY DEF Description, XdgDescription
<1> HIDE DEF a, b, c, e, l, z
<1>4. /\ <<a, b, c, e>> \in Seq(Event) /\ <<l, z>> \in Seq(Event)
      /\ SubSeq(<<a, b, c, e>>, 1, 3) \in Seq(Event) /\ Len(SubSeq(<<a, b, c, e>>, 1, 3)) = 3
      /\ SubSeq(<<a, b, c, e>>, 1, 3)[1] = <<a, b, c, e>>[1]
      /\ SubSeq(<<a, b, c, e>>, 1, 3)[2] = <<a, b, c, e>>[2]
      /\ SubSeq(<<a, b, c, e>>, 1, 3)[3] = <<a, b, c, e>>[3]
  BY <1>1
<1>5. QED
  BY <1>2, <1>3, <1>4 DEF a, b, c, l

\* The values of events.
LEMMA ValuesAre ==
  /\ \A v : Value([ev |-> "geometry", rotated |-> v]) = v /\ Value([ev |-> "mode", size |-> v]) = v
  /\ \A v : Value([ev |-> "scale", scale |-> v]) = v /\ Value([ev |-> "logical", size |-> v]) = v
  BY DEF Value

\* A description of an output, or its first part, says of it what it is.
LEMMA DescriptionEnds ==
  ASSUME NEW h \in [mode : Modes, logical : Logicals, rotated : BOOLEAN, scale : Scales],
         NEW q \in Seq(Event), NEW r, r = Description(h) \/ r = SubSeq(Description(h), 1, 3)
  PROVE  /\ r \in Seq(Event)
         /\ \A known : Ends(q \o r, "geometry", known, h.rotated)
         /\ \A known : Ends(q \o r, "mode", known, h.mode)
         /\ \A known : Ends(q \o r, "scale", known, h.scale)
         /\ \A i \in 1..Len(r) : r[i].ev # "logical"
<1>1. /\ r \in Seq(Event) /\ Len(r) \in {3, 4}
      /\ r[1] = [ev |-> "geometry", rotated |-> h.rotated] /\ r[2] = [ev |-> "mode", size |-> h.mode]
      /\ r[3] = [ev |-> "scale", scale |-> h.scale] /\ (Len(r) = 4 => r[4].ev = "done")
  <2> DEFINE d == Description(h)
             f == SubSeq(Description(h), 1, 3)
  <2>1. /\ d \in Seq(Event) /\ f \in Seq(Event) /\ Len(d) = 4 /\ Len(f) = 3
        /\ f[1] = d[1] /\ f[2] = d[2] /\ f[3] = d[3]
        /\ d[1] = [ev |-> "geometry", rotated |-> h.rotated] /\ d[2] = [ev |-> "mode", size |-> h.mode]
        /\ d[3] = [ev |-> "scale", scale |-> h.scale] /\ d[4].ev = "done"
    BY DescriptionsAre
  <2>2. r = d \/ r = f
    OBVIOUS
  <2> HIDE DEF d, f
  <2>3. CASE r = d
    BY <2>1, <2>3
  <2>4. CASE r = f
    <3>1. Len(r) # 4
      BY <2>1, <2>4, SMTT(30)
    <3>2. QED
      BY <2>1, <2>4, <3>1
  <2>5. QED
    BY <2>2, <2>3, <2>4
<1>2. r[1].ev = "geometry" /\ r[2].ev = "mode" /\ r[3].ev = "scale"
  BY <1>1
<1>3. /\ \A i \in 1..Len(r) : i = 1 \/ i = 2 \/ i = 3 \/ (i = 4 /\ Len(r) = 4)
      /\ 1 \in 1..Len(r) /\ 2 \in 1..Len(r) /\ 3 \in 1..Len(r)
  <2>1. \A n \in {3, 4} : /\ \A i \in 1..n : i = 1 \/ i = 2 \/ i = 3 \/ (i = 4 /\ n = 4)
                          /\ 1 \in 1..n /\ 2 \in 1..n /\ 3 \in 1..n
    OBVIOUS
  <2>2. Len(r) \in {3, 4}
    BY <1>1
  <2> QED
    BY <2>1, <2>2
<1>4. Value(r[1]) = h.rotated /\ Value(r[2]) = h.mode /\ Value(r[3]) = h.scale
  BY <1>1, ValuesAre
<1> HIDE DEF Value
<1>5. /\ \A i \in 1..Len(r) : r[i].ev = "geometry" => Value(r[i]) = h.rotated
      /\ \A i \in 1..Len(r) : r[i].ev = "mode" => Value(r[i]) = h.mode
      /\ \A i \in 1..Len(r) : r[i].ev = "scale" => Value(r[i]) = h.scale
      /\ \A i \in 1..Len(r) : r[i].ev # "logical"
  BY <1>1, <1>2, <1>3, <1>4
<1>6. /\ \E i \in 1..Len(r) : r[i].ev = "geometry"
      /\ \E i \in 1..Len(r) : r[i].ev = "mode"
      /\ \E i \in 1..Len(r) : r[i].ev = "scale"
  BY <1>2, <1>3
<1>7. QED
  BY <1>1, <1>5, <1>6, EndsWith

\* Events that were added are the last ones.
LEMMA Added ==
  ASSUME NEW S, NEW q \in Seq(S), NEW r \in Seq(S), NEW k \in 1..Len(r)
  PROVE  Len(q) + k \in 1..Len(q \o r) /\ (q \o r)[Len(q) + k] = r[k]
         /\ q \o r # <<>> /\ (q \o r)[Len(q \o r)] = r[Len(r)]
<1>1. r # <<>>
  OBVIOUS
<1>2. Len(q) + k \in 1..Len(q \o r) /\ (q \o r)[Len(q) + k] = r[k]
  OBVIOUS
<1>3. QED
  BY <1>1, <1>2, LastOf

\* So does what is sent on a zxdg_output_v1 of its logical size, and of nothing else.
LEMMA XdgEnds ==
  ASSUME NEW h \in [mode : Modes, logical : Logicals, rotated : BOOLEAN, scale : Scales],
         NEW q \in Seq(Event)
  PROVE  /\ XdgDescription(h) \in Seq(Event)
         /\ \A known : Ends(q \o XdgDescription(h), "logical", known, h.logical)
         /\ \A i \in 1..Len(XdgDescription(h)) : XdgDescription(h)[i].ev \notin {"geometry", "mode", "scale"}
         /\ \E i \in 1..Len(q \o XdgDescription(h)) : (q \o XdgDescription(h))[i].ev = "logical"
         /\ q \o XdgDescription(h) # <<>>
         /\ (q \o XdgDescription(h))[Len(q \o XdgDescription(h))].ev \in {"done", "xdg_done"}
<1> DEFINE r == XdgDescription(h)
<1>1. /\ r \in Seq(Event) /\ Len(r) = 2
      /\ r[1] = [ev |-> "logical", size |-> h.logical] /\ r[2].ev \in {"done", "xdg_done"}
  BY DescriptionsAre
<1> HIDE DEF r
<1>2. r[1].ev = "logical" /\ Value(r[1]) = h.logical
  BY <1>1, ValuesAre
<1>3. \A i \in 1..Len(r) : i = 1 \/ i = 2
  BY <1>1
<1> HIDE DEF Value
<1>4. /\ \A i \in 1..Len(r) : r[i].ev = "logical" => Value(r[i]) = h.logical
      /\ \E i \in 1..Len(r) : r[i].ev = "logical"
      /\ \A i \in 1..Len(r) : r[i].ev \notin {"geometry", "mode", "scale"}
  BY <1>1, <1>2, <1>3
<1>5. \A known : Ends(q \o r, "logical", known, h.logical)
  BY <1>1, <1>4, EndsWith
<1>6. /\ Len(q) + 1 \in 1..Len(q \o r) /\ (q \o r)[Len(q) + 1] = r[1]
      /\ q \o r # <<>> /\ (q \o r)[Len(q \o r)] = r[2]
  <2>1. r \in Seq(Event) /\ 1 \in 1..Len(r)
    BY <1>1
  <2>2. Len(q) + 1 \in 1..Len(q \o r) /\ (q \o r)[Len(q) + 1] = r[1]
        /\ q \o r # <<>> /\ (q \o r)[Len(q \o r)] = r[Len(r)]
    BY <2>1, Added
  <2>3. QED
    BY <1>1, <2>2
<1>7. QED
  BY <1>1, <1>2, <1>4, <1>5, <1>6 DEF r

-----------------------------------------------------------------------------
(* The steps. *)

\* The compositor describes the output and its changes.
LEMMA TellingKeeps ==
  ASSUME OutputInv,
         \/ BindOutput \/ GetXdgOutput
         \/ \E h \in [mode : Modes, logical : Logicals, rotated : BOOLEAN, scale : Scales] : OutputChanges(h)
  PROVE  OutputInv'
<1> DEFINE Outputs == [mode : Modes, logical : Logicals, rotated : BOOLEAN, scale : Scales]
<1>1. /\ queue \in Seq(Event) /\ xdg \in BOOLEAN /\ Parted(out) /\ host \in Outputs /\ EventsEnd
      /\ UNCHANGED <<out, kind, own, bridgeMode, sized>>
  BY DEF OutputInv, OutputTypes, BindOutput, GetXdgOutput, OutputChanges
<1>2. ASSUME queue' \in Seq(Event), queue' # <<>>, xdg' \in BOOLEAN, host' \in Outputs,
             Ends(queue', "geometry", out.rotated, host'.rotated), Ends(queue', "mode", out.mode, host'.mode),
             Ends(queue', "scale", out.scale, host'.scale),
             xdg' => Ends(queue', "logical", out.logical, host'.logical),
             queue'[Len(queue')].ev \in {"done", "xdg_done"},
             xdg' => \E i \in 1..Len(queue') : queue'[i].ev = "logical"
      PROVE  OutputInv'
  <2>1. OutputTypes'
    BY <1>1, <1>2 DEF OutputTypes, Parted
  <2>2. EventsEnd'
    BY <1>1, <1>2 DEF EventsEnd, Described
  <2>3. ModeTold' /\ SizeFollows'
    BY <1>1, <1>2 DEF OutputInv, ModeTold, SizeFollows
  <2>4. QED
    BY <2>1, <2>2, <2>3 DEF OutputInv
<1>3. CASE BindOutput
  <2>1. ~Described /\ queue' = Description(host) /\ UNCHANGED <<host, xdg>>
    BY <1>3 DEF BindOutput
  <2>2. queue = <<>> /\ ~xdg
    BY <1>1, <2>1 DEF Described, EventsEnd
  <2>3. /\ Description(host) \in Seq(Event) /\ Len(Description(host)) = 4 /\ Description(host)[4].ev = "done"
    BY <1>1, DescriptionsAre
  <2>4. queue' = queue \o Description(host)
    BY <2>1, <2>2, <2>3
  <2>5. /\ Ends(queue', "geometry", out.rotated, host.rotated) /\ Ends(queue', "mode", out.mode, host.mode)
        /\ Ends(queue', "scale", out.scale, host.scale)
    BY <1>1, <2>4, DescriptionEnds
  <2>6. queue' # <<>> /\ queue'[Len(queue')].ev = "done"
    BY <2>1, <2>3, SMTT(30)
  <2>7. QED
    BY <1>1, <1>2, <2>1, <2>2, <2>3, <2>5, <2>6
<1>4. CASE GetXdgOutput
  <2>1. Described /\ xdg' = TRUE /\ queue' = queue \o XdgDescription(host) /\ host' = host
    BY <1>4 DEF GetXdgOutput
  <2>2. /\ XdgDescription(host) \in Seq(Event)
        /\ Ends(queue', "logical", out.logical, host.logical)
        /\ \A i \in 1..Len(XdgDescription(host)) : XdgDescription(host)[i].ev \notin {"geometry", "mode", "scale"}
        /\ \E i \in 1..Len(queue') : queue'[i].ev = "logical"
        /\ queue' # <<>> /\ queue'[Len(queue')].ev \in {"done", "xdg_done"}
    BY <1>1, <2>1, XdgEnds, ZenonT(30)
  <2>3. /\ Ends(queue, "geometry", out.rotated, host.rotated) /\ Ends(queue, "mode", out.mode, host.mode)
        /\ Ends(queue, "scale", out.scale, host.scale)
    BY <1>1, <2>1 DEF EventsEnd
  <2>4. /\ Ends(queue', "geometry", out.rotated, host.rotated) /\ Ends(queue', "mode", out.mode, host.mode)
        /\ Ends(queue', "scale", out.scale, host.scale)
    BY <1>1, <2>1, <2>2, <2>3, EndsWithout
  <2>5. queue' \in Seq(Event)
    BY <1>1, <2>1, <2>2
  <2>6. QED
    BY <1>1, <1>2, <2>1, <2>2, <2>4, <2>5
<1>5. ASSUME NEW h \in Outputs, OutputChanges(h)
      PROVE  OutputInv'
  <2> DEFINE f == SubSeq(Description(h), 1, 3)
             x == IF xdg THEN XdgDescription(h) ELSE <<>>
             d == IF xdg /\ xdgVersion >= 3 THEN <<>> ELSE <<[ev |-> "done"]>>
  <2>1. /\ host' = h /\ xdg' = xdg
        /\ queue' = ((queue \o f) \o x) \o d
    BY <1>5 DEF OutputChanges
  <2>2. /\ f \in Seq(Event) /\ Ends(queue \o f, "geometry", out.rotated, h.rotated)
        /\ Ends(queue \o f, "mode", out.mode, h.mode) /\ Ends(queue \o f, "scale", out.scale, h.scale)
    BY <1>1, <1>5, DescriptionEnds
  <2>3. queue \o f \in Seq(Event)
    BY <1>1, <2>2
  <2> DEFINE q == queue \o f
  <2> HIDE DEF q, f
  <2>4. /\ q \in Seq(Event) /\ Ends(q, "geometry", out.rotated, h.rotated)
        /\ Ends(q, "mode", out.mode, h.mode) /\ Ends(q, "scale", out.scale, h.scale)
    BY <2>2, <2>3 DEF q
  <2>5. /\ XdgDescription(h) \in Seq(Event)
        /\ Ends(q \o XdgDescription(h), "logical", out.logical, h.logical)
        /\ \A i \in 1..Len(XdgDescription(h)) : XdgDescription(h)[i].ev \notin {"geometry", "mode", "scale"}
        /\ \E i \in 1..Len(q \o XdgDescription(h)) : (q \o XdgDescription(h))[i].ev = "logical"
        /\ q \o XdgDescription(h) # <<>>
        /\ (q \o XdgDescription(h))[Len(q \o XdgDescription(h))].ev \in {"done", "xdg_done"}
    BY <2>4, XdgEnds
  <2>6. /\ q \o XdgDescription(h) \in Seq(Event)
        /\ Ends(q \o XdgDescription(h), "geometry", out.rotated, h.rotated)
        /\ Ends(q \o XdgDescription(h), "mode", out.mode, h.mode)
        /\ Ends(q \o XdgDescription(h), "scale", out.scale, h.scale)
    BY <2>4, <2>5, EndsWithout
  <2>7. q \o <<>> = q
    BY <2>4
  <2> DEFINE p == q \o x
  <2>8. /\ p \in Seq(Event) /\ Ends(p, "geometry", out.rotated, h.rotated)
        /\ Ends(p, "mode", out.mode, h.mode) /\ Ends(p, "scale", out.scale, h.scale)
        /\ xdg => Ends(p, "logical", out.logical, h.logical) /\ \E i \in 1..Len(p) : p[i].ev = "logical"
        /\ xdg => p # <<>> /\ p[Len(p)].ev \in {"done", "xdg_done"}
    <3>1. CASE xdg
      <4>1. p = q \o XdgDescription(h)
        BY <3>1
      <4> HIDE DEF p
      <4>2. QED
        BY <2>5, <2>6, <4>1
    <3>2. CASE ~xdg
      <4>1. p = q
        BY <2>7, <3>2
      <4> HIDE DEF p
      <4>2. QED
        BY <2>4, <3>2, <4>1
    <3>3. QED
      BY <3>1, <3>2
  <2>9. queue' = p \o d
    BY <2>1 DEF q
  <2> HIDE DEF p
  <2>10. CASE xdg /\ xdgVersion >= 3
    <3>1. queue' = p
      BY <2>8, <2>9, <2>10
    <3>2. QED
      BY <1>1, <1>2, <1>5, <2>1, <2>8, <2>10, <3>1
  <2>11. CASE ~(xdg /\ xdgVersion >= 3)
    <3> DEFINE e == [ev |-> "done"]
    <3>1. e \in Event /\ e.ev = "done"
      BY DEF Event
    <3>2. queue' = p \o <<e>>
      BY <2>9, <2>11
    <3> HIDE DEF e
    <3>3. <<e>> \in Seq(Event) /\ Len(<<e>>) = 1 /\ <<e>>[1] = e /\ <<e>> # <<>>
      BY <3>1
    <3>4. \A i \in 1..Len(<<e>>) : <<e>>[i].ev = "done"
      BY <3>1, <3>3
    <3>5. /\ Ends(queue', "geometry", out.rotated, h.rotated) /\ Ends(queue', "mode", out.mode, h.mode)
          /\ Ends(queue', "scale", out.scale, h.scale)
          /\ xdg => Ends(queue', "logical", out.logical, h.logical)
      BY <2>8, <3>2, <3>3, <3>4, EndsWithout
    <3>6. queue' \in Seq(Event) /\ queue' # <<>> /\ queue'[Len(queue')].ev = "done"
      BY <2>8, <3>1, <3>2, <3>3, LastOf
    <3>7. xdg => \E i \in 1..Len(queue') : queue'[i].ev = "logical"
      <4>1. \A i \in 1..Len(p) : i \in 1..Len(queue') /\ queue'[i] = p[i]
        BY <2>8, <3>2, <3>3
      <4>2. QED
        BY <2>8, <4>1
    <3>8. QED
      BY <1>1, <1>2, <1>5, <2>1, <3>5, <3>6, <3>7
  <2>12. QED
    BY <2>10, <2>11
<1>6. QED
  BY <1>3, <1>4, <1>5

\* The bridge's zxdg_output_v1 comes before the proxy's own connection.
LEMMA ToldIs ==
  ASSUME NEW o, NEW g, o.logical # NoSize
  PROVE  ToldMode(o, g) = ScaleMode(kind, o.mode, o.logical, o.rotated, o.scale)
  BY DEF ToldMode

\* What is left of a sequence when its head was taken.
LEMMA TailIs ==
  ASSUME NEW S, NEW q \in Seq(S), q # <<>>
  PROVE  /\ Tail(q) \in Seq(S) /\ Len(q) \in Nat /\ Len(q) >= 1 /\ Head(q) = q[1]
         /\ (Tail(q) = <<>> => Len(q) = 1)
         /\ \A i \in 1..Len(q) : i = 1 \/ (i - 1 \in 1..Len(Tail(q)) /\ Tail(q)[i - 1] = q[i])
<1>1. /\ Tail(q) \in Seq(S) /\ Len(q) \in Nat /\ Len(q) >= 1 /\ Head(q) = q[1] /\ Len(Tail(q)) = Len(q) - 1
      /\ \A i \in 1..Len(Tail(q)) : Tail(q)[i] = q[i + 1]
  OBVIOUS
<1>2. Tail(q) = <<>> => Len(q) = 1
  <2>1. Tail(q) = <<>> => Len(Tail(q)) = 0
    BY Len(<<>>) = 0, Zenon
  <2>2. QED
    BY <1>1, <2>1
<1>3. ASSUME NEW i \in 1..Len(q), i # 1
      PROVE  i - 1 \in 1..Len(Tail(q)) /\ Tail(q)[i - 1] = q[i]
  <2>1. i - 1 \in 1..Len(Tail(q)) /\ (i - 1) + 1 = i
    BY <1>1, <1>3
  <2>2. QED
    BY <1>1, <2>1
<1>4. QED
  BY <1>1, <1>2, <1>3

\* An event is read, and what it says noted.
LEMMA ReadingKeeps ==
  ASSUME OutputInv, queue # <<>>, queue' = Tail(queue), OutputFixed, Parted(out'),
         out'.rotated = IF Head(queue).ev = "geometry" THEN Value(Head(queue)) ELSE out.rotated,
         out'.mode = IF Head(queue).ev = "mode" THEN Value(Head(queue)) ELSE out.mode,
         out'.scale = IF Head(queue).ev = "scale" THEN Value(Head(queue)) ELSE out.scale,
         out'.logical = IF Head(queue).ev = "logical" THEN Value(Head(queue)) ELSE out.logical
  PROVE  /\ OutputTypes' /\ EventsEnd'
         /\ Head(queue).ev \notin {"done", "xdg_done"} => queue' # <<>>
         /\ Head(queue).ev # "logical" /\ (\E i \in 1..Len(queue) : queue[i].ev = "logical")
              => \E i \in 1..Len(queue') : queue'[i].ev = "logical"
<1>1. /\ queue \in Seq(Event) /\ host \in [mode : Modes, logical : Logicals, rotated : BOOLEAN, scale : Scales]
      /\ xdg \in BOOLEAN /\ EventsEnd /\ Described /\ host' = host /\ xdg' = xdg
  BY DEF OutputInv, OutputTypes, OutputFixed, Described
<1> HIDE DEF Value
<1>2. /\ Ends(queue', "geometry", out'.rotated, host.rotated) /\ Ends(queue', "mode", out'.mode, host.mode)
      /\ Ends(queue', "scale", out'.scale, host.scale)
      /\ xdg => Ends(queue', "logical", out'.logical, host.logical)
  <2>1. /\ Ends(queue, "geometry", out.rotated, host.rotated) /\ Ends(queue, "mode", out.mode, host.mode)
        /\ Ends(queue, "scale", out.scale, host.scale)
        /\ xdg => Ends(queue, "logical", out.logical, host.logical)
    BY <1>1 DEF EventsEnd
  <2>2. /\ Ends(Tail(queue), "geometry", out'.rotated, host.rotated)
        /\ Ends(Tail(queue), "mode", out'.mode, host.mode)
        /\ Ends(Tail(queue), "scale", out'.scale, host.scale)
        /\ xdg => Ends(Tail(queue), "logical", out'.logical, host.logical)
    BY <1>1, <2>1, EndsTail
  <2>3. QED
    BY <2>2
<1>3. queue' \in Seq(Event) /\ Len(queue) \in Nat /\ Len(queue) >= 1 /\ Head(queue) = queue[1]
      /\ (queue' = <<>> => Len(queue) = 1)
      /\ \A i \in 1..Len(queue) : i = 1 \/ (i - 1 \in 1..Len(queue') /\ queue'[i - 1] = queue[i])
  BY <1>1, TailIs
<1>4. Described'
  <2>1. CASE queue' = <<>>
    <3>1. \A i \in 1..Len(<<>>) : <<>>[i].ev # "mode"
      OBVIOUS
    <3>2. \A i \in 1..Len(queue') : queue'[i].ev # "mode"
      BY <2>1, <3>1, Zenon
    <3>3. out'.mode = host.mode
      BY <1>2, <3>2 DEF Ends
    <3>4. QED
      BY <1>1, <3>3, OutputAssumption DEF Described
  <2>2. CASE queue' # <<>>
    BY <2>2 DEF Described
  <2>3. QED
    BY <2>1, <2>2
<1>5. queue' # <<>> => queue'[Len(queue')].ev \in {"done", "xdg_done"}
  <2>1. queue' # <<>> => queue'[Len(queue')] = queue[Len(queue)]
    BY <1>1, LastOfTail
  <2>2. QED
    BY <1>1, <2>1 DEF EventsEnd
<1>6. EventsEnd'
  BY <1>1, <1>2, <1>4, <1>5 DEF EventsEnd
<1>7. Head(queue).ev \notin {"done", "xdg_done"} => queue' # <<>>
  BY <1>1, <1>3 DEF EventsEnd
<1>8. Head(queue).ev # "logical" /\ (\E i \in 1..Len(queue) : queue[i].ev = "logical")
        => \E i \in 1..Len(queue') : queue'[i].ev = "logical"
  BY <1>3
<1>9. OutputTypes'
  BY <1>1, <1>3 DEF OutputTypes
<1>10. QED
  BY <1>6, <1>7, <1>8, <1>9

\* The proxy reads an event that is no `done`.
LEMMA EventKeeps ==
  ASSUME OutputInv, Geometry \/ Scale \/ Mode \/ LogicalSize
  PROVE  OutputInv'
<1>1. /\ Parted(out) /\ ModeTold /\ SizeFollows /\ queue # <<>> /\ queue' = Tail(queue) /\ OutputFixed
      /\ Head(queue).ev \in {"geometry", "scale", "mode", "logical"}
  BY DEF OutputInv, OutputTypes, Geometry, Scale, Mode, LogicalSize, Read
<1>2. /\ Parted(out') /\ out'.told = out.told
      /\ out'.rotated = IF Head(queue).ev = "geometry" THEN Value(Head(queue)) ELSE out.rotated
      /\ out'.mode = IF Head(queue).ev = "mode" THEN Value(Head(queue)) ELSE out.mode
      /\ out'.scale = IF Head(queue).ev = "scale" THEN Value(Head(queue)) ELSE out.scale
      /\ out'.logical = IF Head(queue).ev = "logical" THEN Value(Head(queue)) ELSE out.logical
  <2>1. CASE Geometry
    <3>1. Head(queue).ev = "geometry" /\ out' = [out EXCEPT !.rotated = Head(queue).rotated]
      BY <2>1 DEF Geometry, Read
    <3>2. Value(Head(queue)) = Head(queue).rotated
      BY <3>1 DEF Value
    <3>3. /\ Parted(out') /\ out'.rotated = Head(queue).rotated
          /\ out'.scale = out.scale /\ out'.mode = out.mode /\ out'.logical = out.logical /\ out'.told = out.told
      BY <1>1, <3>1 DEF Parted
    <3>4. QED
      BY <3>1, <3>2, <3>3
  <2>2. CASE Scale
    <3>1. Head(queue).ev = "scale" /\ out' = [out EXCEPT !.scale = Head(queue).scale]
      BY <2>2 DEF Scale, Read
    <3>2. Value(Head(queue)) = Head(queue).scale
      BY <3>1 DEF Value
    <3>3. /\ Parted(out') /\ out'.scale = Head(queue).scale
          /\ out'.rotated = out.rotated /\ out'.mode = out.mode /\ out'.logical = out.logical /\ out'.told = out.told
      BY <1>1, <3>1 DEF Parted
    <3>4. QED
      BY <3>1, <3>2, <3>3
  <2>3. CASE Mode
    <3>1. Head(queue).ev = "mode" /\ out' = [out EXCEPT !.mode = Head(queue).size]
      BY <2>3 DEF Mode, Read
    <3>2. Value(Head(queue)) = Head(queue).size
      BY <3>1 DEF Value
    <3>3. /\ Parted(out') /\ out'.mode = Head(queue).size
          /\ out'.rotated = out.rotated /\ out'.scale = out.scale /\ out'.logical = out.logical /\ out'.told = out.told
      BY <1>1, <3>1 DEF Parted
    <3>4. QED
      BY <3>1, <3>2, <3>3
  <2>4. CASE LogicalSize
    <3>1. Head(queue).ev = "logical" /\ out' = [out EXCEPT !.logical = Head(queue).size]
      BY <2>4 DEF LogicalSize, Read
    <3>2. Value(Head(queue)) = Head(queue).size
      BY <3>1 DEF Value
    <3>3. /\ Parted(out') /\ out'.logical = Head(queue).size
          /\ out'.rotated = out.rotated /\ out'.scale = out.scale /\ out'.mode = out.mode /\ out'.told = out.told
      BY <1>1, <3>1 DEF Parted
    <3>4. QED
      BY <3>1, <3>2, <3>3
  <2>5. QED
    BY <2>1, <2>2, <2>3, <2>4
<1>3. /\ OutputTypes' /\ EventsEnd' /\ queue' # <<>>
      /\ Head(queue).ev # "logical" /\ (\E i \in 1..Len(queue) : queue[i].ev = "logical")
           => \E i \in 1..Len(queue') : queue'[i].ev = "logical"
  BY <1>1, <1>2, ReadingKeeps
<1>4. kind' = kind /\ xdg' = xdg
  BY <1>1 DEF OutputFixed
<1>5. IF kind = "native" THEN bridgeMode' = out'.mode ELSE bridgeMode' = out'.told
  <2>1. CASE Mode /\ kind = "native"
    <3>1. bridgeMode' = Head(queue).size /\ out' = [out EXCEPT !.mode = Head(queue).size]
      BY <2>1 DEF Mode
    <3>2. out'.mode = Head(queue).size
      BY <1>1, <3>1 DEF Parted
    <3>3. QED
      BY <2>1, <3>1, <3>2
  <2>2. CASE kind # "native" \/ ~Mode
    <3>1. bridgeMode' = bridgeMode /\ (kind = "native" => Head(queue).ev # "mode")
      BY <2>2 DEF Geometry, Scale, Mode, LogicalSize, Read
    <3>2. QED
      BY <1>1, <1>2, <3>1 DEF ModeTold
  <2>3. QED
    BY <2>1, <2>2
<1>6. ModeTold'
  BY <1>3, <1>4, <1>5 DEF ModeTold
<1>7. SizeFollows'
  <2>1. CASE Head(queue).ev = "logical"
    <3>1. sized' = TRUE
      BY <2>1 DEF Geometry, Scale, Mode, LogicalSize, Read
    <3>2. QED
      BY <3>1 DEF SizeFollows
  <2>2. CASE Head(queue).ev # "logical"
    <3>1. kind # "native" => sized' = sized
      BY <2>2 DEF Geometry, Scale, Mode, LogicalSize, Read
    <3>2. QED
      BY <1>1, <1>3, <1>4, <2>2, <3>1 DEF SizeFollows
  <2>3. QED
    BY <2>1, <2>2
<1>8. QED
  BY <1>3, <1>6, <1>7 DEF OutputInv

\* A `done` tells the bridge the mode for the output as it was described.
LEMMA DoneKeeps ==
  ASSUME OutputInv, Done
  PROVE  OutputInv'
<1>1. /\ Parted(out) /\ ModeTold /\ SizeFollows /\ queue # <<>> /\ queue' = Tail(queue) /\ OutputFixed /\ TellMode
      /\ Head(queue).ev \in {"done", "xdg_done"}
  BY DEF OutputInv, OutputTypes, Done, Read
<1> DEFINE told == ToldMode(out, own)
           same == kind = "native" \/ out.mode = NoSize \/ out.told = told
<1>2. IF same THEN UNCHANGED <<out, bridgeMode, sized>>
      ELSE out' = [out EXCEPT !.told = told] /\ bridgeMode' = told /\ sized' = xdg
  BY <1>1 DEF TellMode
<1>3. kind' = kind /\ xdg' = xdg /\ own' = own
  BY <1>1 DEF OutputFixed
<1> HIDE DEF told
<1>4. /\ Parted(out') /\ out'.rotated = out.rotated /\ out'.mode = out.mode /\ out'.scale = out.scale
      /\ out'.logical = out.logical /\ (~same => out'.told = told)
  <2> HIDE DEF same
  <2>1. CASE same
    BY <1>1, <1>2, <2>1
  <2>2. CASE ~same
    <3>1. out' = [out EXCEPT !.told = told]
      BY <1>2, <2>2
    <3>2. QED
      BY <1>1, <2>2, <3>1 DEF Parted
  <2>3. QED
    BY <2>1, <2>2
<1>5. /\ OutputTypes' /\ EventsEnd'
      /\ (\E i \in 1..Len(queue) : queue[i].ev = "logical")
           => \E i \in 1..Len(queue') : queue'[i].ev = "logical"
  BY <1>1, <1>4, ReadingKeeps
<1>6. ModeTold'
  <2>1. IF kind = "native" THEN bridgeMode' = out'.mode ELSE bridgeMode' = out'.told
    BY <1>1, <1>2, <1>4 DEF ModeTold
  <2>2. ASSUME kind # "native", out.mode # NoSize, out.logical # NoSize
        PROVE  out'.told = ToldMode(out, own)'
    <3>1. out'.told = told
      BY <1>2, <1>4, <2>2
    <3>2. told = ScaleMode(kind, out.mode, out.logical, out.rotated, out.scale)
      BY <2>2, ToldIs DEF told
    <3>3. ToldMode(out, own)' = ScaleMode(kind', out'.mode, out'.logical, out'.rotated, out'.scale)
      BY <1>4, <2>2 DEF ToldMode
    <3>4. QED
      BY <1>3, <1>4, <3>1, <3>2, <3>3
  <2>3. QED
    BY <1>3, <1>4, <2>1, <2>2 DEF ModeTold
<1>7. SizeFollows'
  <2>1. CASE same
    BY <1>1, <1>2, <1>3, <1>5, <2>1 DEF SizeFollows
  <2>2. CASE ~same
    BY <1>2, <1>3, <2>2 DEF SizeFollows
  <2>3. QED
    BY <2>1, <2>2
<1>8. QED
  BY <1>5, <1>6, <1>7 DEF OutputInv

\* What the proxy's own connection says is not asked for once the bridge's zxdg_output_v1 has said it.
LEMMA OwnKeeps ==
  ASSUME OutputInv, UNCHANGED <<kind, xdgVersion, host, queue, changes, out, xdg, bridgeMode,
         sized>>
  PROVE  OutputInv'
<1>1. OutputTypes' /\ EventsEnd' /\ SizeFollows'
  BY DEF OutputInv, OutputTypes, EventsEnd, Described, SizeFollows
<1>2. out.logical # NoSize => ToldMode(out, own)' = ToldMode(out, own)
  BY DEF ToldMode
<1>3. ModeTold'
  BY <1>2 DEF OutputInv, ModeTold
<1>4. QED
  BY <1>1, <1>3 DEF OutputInv

\* Each step keeps the invariant.
LEMMA OutputsKeep ==
  ASSUME OutputInv, [OutputNext]_outputVars
  PROVE  OutputInv'
<1>1. CASE BindOutput \/ GetXdgOutput
  BY <1>1, TellingKeeps
<1>2. CASE SetOutput \/ UNCHANGED outputVars
  BY <1>2, OwnKeeps DEF SetOutput, outputVars
<1>3. ASSUME NEW m \in Modes, NEW l \in Logicals, NEW r \in BOOLEAN, NEW s \in Scales,
             OutputChanges([mode |-> m, logical |-> l, rotated |-> r, scale |-> s])
      PROVE  OutputInv'
  <2>1. [mode |-> m, logical |-> l, rotated |-> r, scale |-> s]
        \in [mode : Modes, logical : Logicals, rotated : BOOLEAN, scale : Scales]
    OBVIOUS
  <2>2. QED
    BY <1>3, <2>1, TellingKeeps
<1>4. CASE Geometry \/ Scale \/ Mode \/ LogicalSize
  BY <1>4, EventKeeps
<1>5. CASE Done
  BY <1>5, DoneKeeps
<1>6. QED
  BY <1>1, <1>2, <1>3, <1>4, <1>5 DEF OutputNext

\* Nothing is known of the output at first.
LEMMA OutputStarts ==
  ASSUME OutputInit
  PROVE  OutputInv
<1>1. /\ queue = <<>> /\ xdg = FALSE /\ bridgeMode = NoSize
      /\ out = [scale |-> 0, rotated |-> FALSE, logical |-> NoSize, mode |-> NoSize, told |-> NoSize]
      /\ host \in [mode : Modes, logical : Logicals, rotated : BOOLEAN, scale : Scales]
  BY DEF OutputInit
<1> HIDE DEF NoSize
<1>2. Parted(out) /\ out.mode = NoSize /\ out.told = NoSize
  BY <1>1 DEF Parted
<1>3. queue \in Seq(Event)
  BY <1>1
<1>4. OutputTypes
  BY <1>1, <1>2, <1>3 DEF OutputTypes
<1>5. EventsEnd /\ SizeFollows
  BY <1>1, <1>2 DEF EventsEnd, Described, SizeFollows
<1>6. ModeTold
  BY <1>1, <1>2 DEF ModeTold
<1>7. QED
  BY <1>4, <1>5, <1>6 DEF OutputInv

\* When everything was read the bridge's mode is the one for the output as it is.
LEMMA OutputFits == OutputInv => ScreenFits
<1> SUFFICES ASSUME OutputInv, queue = <<>>, xdg
             PROVE  /\ bridgeMode = ScaleMode(kind, host.mode, host.logical, host.rotated, host.scale)
                    /\ kind # "native" => sized
  BY DEF ScreenFits
<1>1. /\ EventsEnd /\ Described /\ ModeTold /\ SizeFollows
      /\ host \in [mode : Modes, logical : Logicals, rotated : BOOLEAN, scale : Scales]
  BY DEF OutputInv, OutputTypes, EventsEnd
<1>2. \A ev : \A i \in 1..Len(queue) : queue[i].ev # ev
  OBVIOUS
<1>3. out.rotated = host.rotated /\ out.mode = host.mode /\ out.scale = host.scale /\ out.logical = host.logical
  BY <1>1, <1>2 DEF EventsEnd, Ends
<1>4. out.mode # NoSize /\ out.logical # NoSize
  BY <1>1, <1>3, OutputAssumption
<1>5. CASE kind = "native"
  BY <1>1, <1>3, <1>5 DEF ModeTold, ScaleMode
<1>6. CASE kind # "native"
  <2>1. bridgeMode = ToldMode(out, own)
    BY <1>1, <1>4, <1>6 DEF ModeTold
  <2>2. bridgeMode = ScaleMode(kind, out.mode, out.logical, out.rotated, out.scale)
    BY <1>4, <2>1, ToldIs
  <2>3. sized
    BY <1>1, <1>2, <1>6 DEF SizeFollows
  <2>4. QED
    BY <1>3, <2>2, <2>3
<1>7. QED
  BY <1>5, <1>6

\* In whatever order the bridge's objects were made, the compositor described the output and the
\* proxy's own connection was read, the bridge ends with the mode for the output as it is and a
\* logical size after it (Proxy::tell_mode, scale::mode).
THEOREM ScreenFitsHolds == OutputSpec => []ScreenFits
<1>1. OutputInit => OutputInv
  BY OutputStarts
<1>2. OutputInv /\ [OutputNext]_outputVars => OutputInv'
  BY OutputsKeep
<1>3. OutputInv => ScreenFits
  BY OutputFits
<1>4. QED
  BY <1>1, <1>2, <1>3, PTL DEF OutputSpec

-----------------------------------------------------------------------------
(* The windows (Frames). *)

\* What the constants are: heights are whole numbers of the protocol's.
Geometries == [y : Int, h : Int]
FrameValues == [there : BOOLEAN, full : BOOLEAN, content : Int, geometry : Geometries, bridge : Geometries]

USE DEF FrameValues

FrameTypes ==
  /\ toplevel \in BOOLEAN /\ wasFull \in BOOLEAN /\ reused \in BOOLEAN /\ popup \in BOOLEAN
  /\ frame \in FrameValues
  /\ compGeo \in Geometries /\ asked \in Geometries
  /\ limits \in [Kinds -> Int] /\ compLimits \in [Kinds -> Int]
  /\ surface \in [attached : Buffers \cup {0}, pendingAttach : Buffers \cup {0, NoValue},
                  scale : {1, 2}, pendingScale : {1, 2, NoValue},
                  destination : Int, pendingDestination : Int]
  /\ buffer \in [Buffers -> Int] /\ shown \in Int
  /\ positioner \in [anchor : Sizes \cup {NoValue}, size : Sizes \cup {NoValue}]
  /\ compPositioner \in [anchor : Int, size : Int]
  /\ wanted \in [bridge : Int, comp : Int, bar : Int] /\ popupTold \in [bridge : Int, comp : Int, bar : Int]

\* A limit takes in the bar, or took it in when it was last sent.
LimitFits(k) ==
  IF ~frame.there \/ ~wasFull THEN compLimits[k] = Adjusted(limits[k], Offset(frame))
  ELSE compLimits[k] \in {Adjusted(limits[k], off) : off \in {0, Header}}

\* A limit that was not set is not the compositor's either, so that none need be sent for it.
LimitsOK ==
  /\ frame.full => wasFull
  /\ \A k \in Kinds : limits[k] = 0 => compLimits[k] = 0
  /\ toplevel => \A k \in Kinds : LimitFits(k)

\* The compositor has the geometry the frame set, and without one what was asked for; under a
\* bar that is drawn, what was asked for is what the bar is put around.
GeometryOK ==
  /\ ~frame.there => frame = NoFrame
  /\ frame.bridge # NoGeo => frame.bridge.y >= 0 /\ frame.bridge.h > 0
  /\ frame.content # NoValue => frame.content > 0
  /\ frame.content = NoValue => frame.geometry = NoGeo
  /\ frame.geometry = NoGeo => compGeo = NoGeo \/ compGeo.y >= 0
  /\ frame.geometry # NoGeo => compGeo = frame.geometry
  /\ frame.bridge # NoGeo => asked = frame.bridge
  /\ frame.bridge = NoGeo /\ frame.geometry # NoGeo => asked = Geo(0, frame.content)
  /\ frame.bridge = NoGeo /\ frame.geometry = NoGeo => asked = Dropped \/ compGeo = asked

\* The surface shows the buffer that is attached to it, while there is one.
ShownOK ==
  ~reused /\ surface.attached \in Buffers /\ buffer[surface.attached] # NoValue => shown = buffer[surface.attached]

\* The place of a popup was moved down by the bar as it was.
PlaceOK ==
  popup => /\ wanted.bar \in {0, Header} /\ wanted.bridge \in Nat
           /\ wanted.comp = IF wanted.bar # 0 THEN SatAdd(wanted.bridge, wanted.bar) ELSE wanted.bridge

FrameInv == FrameTypes /\ LimitsOK /\ GeometryOK /\ ShownOK /\ PlaceOK /\ PopupsFit

\* The values of a surface's state.
Surfaces == [attached : Buffers \cup {0}, pendingAttach : Buffers \cup {0, NoValue},
             scale : {1, 2}, pendingScale : {1, 2, NoValue},
             destination : Int, pendingDestination : Int]

\* Whole numbers of the bar and of the protocol.
LEMMA NumbersAre ==
  /\ Header \in Nat /\ IntMax \in Nat /\ MaxSide \in Nat /\ MaxSide > 0 /\ NoValue = 0 - 1
  /\ \A v \in Sizes : v \in Nat /\ v <= IntMax
  /\ 0 \notin Buffers /\ NoValue \notin Buffers /\ NoValue \notin Sizes
  /\ NoGeo = [y |-> 0 - 1, h |-> 0 - 1]
<1>1. Header \in Nat /\ IntMax \in Nat /\ MaxSide \in Nat /\ MaxSide > 0 /\ NoValue = 0 - 1
  BY FramesAssumption DEF NoValue
<1>2. \A v \in 0..IntMax : v \in Nat /\ v <= IntMax
  BY <1>1
<1>3. \A v \in Sizes : v \in Nat /\ v <= IntMax
  BY <1>2, FramesAssumption
<1>4. \A b \in Buffers : b \in Nat /\ b # 0
  BY FramesAssumption
<1>5. 0 \notin Buffers /\ NoValue \notin Buffers /\ NoValue \notin Sizes
  BY <1>1, <1>3, <1>4
<1>6. QED
  BY <1>1, <1>3, <1>5 DEF NoGeo

\* A sum that stays a number of the protocol's.
LEMMA SatAddIs ==
  ASSUME NEW a \in Int, NEW b \in Int
  PROVE  SatAdd(a, b) \in Int /\ (a + b <= IntMax => SatAdd(a, b) = a + b)
  BY NumbersAre DEF SatAdd

\* What is clamped is still there, and no higher than it was.
LEMMA ClampIs ==
  ASSUME NEW v \in Int
  PROVE  /\ ClampSize(v) \in Int /\ ClampSize(v) <= MaxSide /\ ClampSize(v) <= v
         /\ v > 0 => ClampSize(v) > 0
  BY NumbersAre DEF ClampSize

\* The bar's height, or none.
LEMMA OffsetIs ==
  ASSUME NEW f
  PROVE  Offset(f) \in Nat /\ Offset(f) \in {0, Header} /\ (~f.there => Offset(f) = 0)
  BY NumbersAre DEF Offset

\* A limit with the bar is a number, and one that is not set stays so.
LEMMA AdjustedIs ==
  ASSUME NEW v \in Int, NEW off \in Nat
  PROVE  Adjusted(v, off) \in Int /\ Adjusted(0, off) = 0
  BY SatAddIs DEF Adjusted

\* Half of a number is one.
LEMMA Halves == \A v \in Int : v \div 1 \in Int /\ v \div 2 \in Int
  OBVIOUS

\* A frame that was just made has none of its parts yet.
LEMMA NewFrameIs ==
  /\ NewFrame \in FrameValues
  /\ NewFrame.there /\ ~NewFrame.full
  /\ NewFrame.content = NoValue /\ NewFrame.geometry = NoGeo /\ NewFrame.bridge = NoGeo
<1>1. NoFrame = [there |-> FALSE, full |-> FALSE, content |-> NoValue, geometry |-> NoGeo, bridge |-> NoGeo]
  BY DEF NoFrame
<1>2. NoGeo \in Geometries /\ NoValue \in Int
  BY NumbersAre DEF Geometries
<1>3. NoFrame \in FrameValues
  BY <1>1, <1>2
<1>4. NoFrame.full = FALSE /\ NoFrame.content = NoValue /\ NoFrame.geometry = NoGeo /\ NoFrame.bridge = NoGeo
  BY <1>1
<1> HIDE DEF NoGeo, NoValue, NoFrame
<1>5. QED
  BY <1>3, <1>4 DEF NewFrame

\* A geometry that was dropped is one, and none the bridge asks for.
LEMMA DroppedIs == Dropped \in Geometries /\ Dropped # NoGeo
  BY NumbersAre DEF Dropped, Geo, Geometries

-----------------------------------------------------------------------------
(* The limits. *)

\* The limits are sent again for another bar.
LEMMA ResentLimits ==
  ASSUME limits \in [Kinds -> Int], compLimits \in [Kinds -> Int], NEW off \in Nat,
         ResendSizeLimits(off),
         \A k \in Kinds : limits[k] = 0 => compLimits[k] = 0
  PROVE  /\ compLimits' \in [Kinds -> Int]
         /\ \A k \in Kinds : limits[k] = 0 => compLimits'[k] = 0
         /\ \A k \in Kinds : compLimits'[k] = Adjusted(limits[k], off)
<1>1. compLimits' = [k \in Kinds |-> IF limits[k] # 0 THEN Adjusted(limits[k], off) ELSE compLimits[k]]
  BY DEF ResendSizeLimits
<1>2. \A k \in Kinds : limits[k] \in Int /\ compLimits[k] \in Int
  OBVIOUS
<1>3. \A k \in Kinds : Adjusted(limits[k], off) \in Int /\ Adjusted(0, off) = 0
  BY <1>2, AdjustedIs
<1>4. QED
  BY <1>1, <1>2, <1>3

\* The steps that make or remove the bar.
LEMMA AddsFrame ==
  ASSUME FrameInv, AddFrame, UNCHANGED <<toplevel, limits>>
  PROVE  /\ LimitsOK' /\ compLimits' \in [Kinds -> Int] /\ wasFull' \in BOOLEAN
         /\ frame' \in FrameValues
         /\ frame' = IF frame.there THEN frame ELSE NewFrame
<1>1. /\ LimitsOK /\ compLimits \in [Kinds -> Int] /\ limits \in [Kinds -> Int] /\ wasFull \in BOOLEAN
      /\ frame \in FrameValues
  BY DEF FrameInv, FrameTypes
<1>2. CASE frame.there
  BY <1>1, <1>2 DEF AddFrame, LimitsOK, LimitFits
<1>3. CASE ~frame.there
  <2>1. frame' = NewFrame /\ wasFull' = FALSE /\ ResendSizeLimits(Offset(NewFrame))
    BY <1>3 DEF AddFrame
  <2>2. ~NewFrame.full
    BY NewFrameIs
  <2>3. NewFrame \in FrameValues
    BY NewFrameIs
  <2>4. Offset(NewFrame) \in Nat
    BY OffsetIs
  <2>5. /\ compLimits' \in [Kinds -> Int] /\ \A k \in Kinds : limits[k] = 0 => compLimits'[k] = 0
        /\ \A k \in Kinds : compLimits'[k] = Adjusted(limits[k], Offset(NewFrame))
    BY <1>1, <2>1, <2>4, ResentLimits DEF LimitsOK, LimitFits
  <2>6. ~NewFrame.full
    BY <2>2
  <2>7. LimitsOK'
    BY <2>1, <2>5, <2>6 DEF LimitsOK, LimitFits
  <2>8. QED
    BY <1>3, <2>1, <2>3, <2>5, <2>7
<1>4. QED
  BY <1>2, <1>3

\* The bar goes.
LEMMA RemovesFrame ==
  ASSUME FrameInv, RemoveFrame, UNCHANGED <<toplevel, limits, wasFull>>
  PROVE  /\ LimitsOK' /\ GeometryOK' /\ compLimits' \in [Kinds -> Int] /\ compGeo' \in Geometries
         /\ frame' \in FrameValues /\ asked' \in Geometries
<1>1. /\ LimitsOK /\ compLimits \in [Kinds -> Int] /\ limits \in [Kinds -> Int]
      /\ compGeo \in Geometries /\ asked \in Geometries
      /\ frame \in FrameValues
      /\ GeometryOK
  BY DEF FrameInv, FrameTypes
<1>2. CASE ~frame.there
  BY <1>1, <1>2 DEF RemoveFrame, geoVars, LimitsOK, LimitFits, GeometryOK
<1>3. CASE frame.there
  <2>1. /\ frame' = NoFrame /\ ResendSizeLimits(0)
        /\ compGeo' = IF frame.geometry # NoGeo THEN RemovedGeo ELSE compGeo
        /\ asked' = IF frame.bridge # NoGeo /\ frame.geometry = NoGeo THEN Dropped ELSE asked
    BY <1>1, <1>3 DEF RemoveFrame, Drawn, GeometryOK
  <2>2. NoFrame = [there |-> FALSE, full |-> FALSE, content |-> NoValue, geometry |-> NoGeo, bridge |-> NoGeo]
    BY DEF NoFrame
  <2>3. NoFrame \in FrameValues
    BY <2>2, NumbersAre DEF Geometries
  <2>4. /\ compLimits' \in [Kinds -> Int] /\ \A k \in Kinds : limits[k] = 0 => compLimits'[k] = 0
        /\ \A k \in Kinds : compLimits'[k] = Adjusted(limits[k], 0)
    BY <1>1, <2>1, ResentLimits DEF LimitsOK, LimitFits
  <2>5. ~NoFrame.full /\ ~NoFrame.there /\ Offset(NoFrame) = 0
    BY <2>2, OffsetIs
  <2>6. LimitsOK'
    BY <2>1, <2>4, <2>5 DEF LimitsOK, LimitFits
  <2>7. RemovedGeo \in Geometries /\ RemovedGeo.y >= 0
    <3>1. Geo(0, frame.content) = [y |-> 0, h |-> frame.content] /\ frame.content \in Int
      BY <1>1 DEF Geo
    <3>2. QED
      BY <1>1, <3>1 DEF RemovedGeo, GeometryOK, Geometries
  <2>8. /\ compGeo' \in Geometries /\ (compGeo' = NoGeo \/ compGeo'.y >= 0)
        /\ asked' \in Geometries
    BY <1>1, <2>1, <2>7, DroppedIs DEF GeometryOK
  <2>9. GeometryOK'
    <3>1. NoFrame.bridge = NoGeo /\ NoFrame.geometry = NoGeo /\ NoFrame.content = NoValue
      BY <2>2
    <3>2. frame.geometry # NoGeo => asked = RemovedGeo
      BY <1>1 DEF GeometryOK, RemovedGeo
    <3>3. frame.geometry = NoGeo /\ frame.bridge = NoGeo => asked = Dropped \/ compGeo = asked
      BY <1>1 DEF GeometryOK
    <3>4. asked' = Dropped \/ compGeo' = asked'
      BY <2>1, <3>2, <3>3
    <3> HIDE DEF NoFrame, NoGeo
    <3>5. QED
      BY <2>1, <2>8, <3>1, <3>4 DEF GeometryOK
  <2>10. QED
    BY <2>1, <2>3, <2>4, <2>6, <2>8, <2>9
<1>4. QED
  BY <1>2, <1>3

\* What the steps that are about the window or its bar leave.
LEMMA OthersStay ==
  ASSUME FrameInv, UNCHANGED <<surfVars, popVars>>
  PROVE  /\ ShownOK' /\ PlaceOK' /\ PopupsFit' /\ reused' \in BOOLEAN /\ popup' \in BOOLEAN
         /\ surface' \in Surfaces /\ buffer' \in [Buffers -> Int] /\ shown' \in Int
         /\ positioner' \in [anchor : Sizes \cup {NoValue}, size : Sizes \cup {NoValue}]
         /\ compPositioner' \in [anchor : Int, size : Int]
         /\ wanted' \in [bridge : Int, comp : Int, bar : Int] /\ popupTold' \in [bridge : Int, comp : Int, bar : Int]
  BY DEF surfVars, popVars, FrameInv, FrameTypes, ShownOK, PlaceOK, PopupsFit, Surfaces

\* The bridge asks for a bar or for none.
LEMMA DecorationsKeep ==
  ASSUME FrameInv, (ManagerRequest \/ DecorationDestroy) \/ \E m \in {"client",
         "server"} : DecorationMode(m)
  PROVE  FrameInv'
<1>1. UNCHANGED <<surfVars, popVars, toplevel, limits>>
  BY DEF ManagerRequest, DecorationDestroy, DecorationMode
<1>2. toplevel \in BOOLEAN /\ wasFull \in BOOLEAN /\ limits \in [Kinds -> Int]
  BY DEF FrameInv, FrameTypes
<1>3. CASE AddFrame /\ UNCHANGED geoVars
  <2>1. GeometryOK'
    <3>1. /\ NewFrame.there /\ NewFrame.content = NoValue
          /\ NewFrame.geometry = NoGeo /\ NewFrame.bridge = NoGeo
      BY NewFrameIs
    <3>2. NoFrame.geometry = NoGeo
      BY DEF NoFrame
    <3>3. frame' = IF frame.there THEN frame ELSE NewFrame
      BY <1>1, <1>3, AddsFrame
    <3>4. QED
      BY <1>3, <3>1, <3>2, <3>3 DEF FrameInv, GeometryOK, geoVars, NoFrame
  <2>2. compGeo' \in Geometries /\ asked' \in Geometries
    BY <1>3 DEF FrameInv, FrameTypes, geoVars
  <2>3. QED
    BY <1>1, <1>2, <1>3, <2>1, <2>2, AddsFrame, OthersStay DEF FrameInv, FrameTypes, Surfaces
<1>4. CASE RemoveFrame /\ UNCHANGED wasFull
  BY <1>1, <1>2, <1>4, RemovesFrame, OthersStay DEF FrameInv, FrameTypes, Surfaces
<1>5. CASE UNCHANGED <<frame, compLimits, wasFull, geoVars>>
  BY <1>1, <1>5, OthersStay DEF FrameInv, FrameTypes, Surfaces, LimitsOK, LimitFits, GeometryOK, geoVars
<1>6. QED
  BY <1>3, <1>4, <1>5 DEF ManagerRequest, DecorationDestroy, DecorationMode

\* The window comes and goes, is sized by the bridge, or made fullscreen.
LEMMA WindowKeeps ==
  ASSUME FrameInv,
         \/ GetToplevel \/ ToplevelDestroy
         \/ \E k \in Kinds, v \in Sizes : SetSize(k, v)
         \/ \E y \in Tops, h \in Sizes \ {0} : SetWindowGeometry(y, h)
         \/ \E full \in BOOLEAN : Configure(full)
  PROVE  FrameInv'
<1>1. /\ frame \in FrameValues
      /\ limits \in [Kinds -> Int] /\ compLimits \in [Kinds -> Int]
      /\ compGeo \in Geometries /\ asked \in Geometries
      /\ toplevel \in BOOLEAN /\ wasFull \in BOOLEAN /\ LimitsOK /\ GeometryOK
  BY DEF FrameInv, FrameTypes
<1> DEFINE WindowTypes ==
      /\ toplevel' \in BOOLEAN /\ wasFull' \in BOOLEAN /\ compGeo' \in Geometries /\ asked' \in Geometries
      /\ frame' \in FrameValues
      /\ limits' \in [Kinds -> Int] /\ compLimits' \in [Kinds -> Int]
<1>2. ASSUME UNCHANGED <<surfVars, popVars>>, WindowTypes, LimitsOK', GeometryOK'
      PROVE  FrameInv'
  BY <1>2, OthersStay DEF FrameInv, FrameTypes, Surfaces
<1>3. CASE GetToplevel
  <2>1. limits' = [k \in Kinds |-> 0] /\ compLimits' = limits' /\ toplevel' = TRUE
        /\ UNCHANGED <<frame, wasFull, compGeo, asked, surfVars, popVars>>
    BY <1>3 DEF GetToplevel, geoVars
  <2>2. \A off \in Nat : Adjusted(0, off) = 0
    BY AdjustedIs
  <2>3. Offset(frame') \in Nat
    BY OffsetIs
  <2>4. LimitsOK'
    BY <1>1, <2>1, <2>2, <2>3 DEF LimitsOK, LimitFits
  <2>5. QED
    BY <1>1, <1>2, <2>1, <2>4 DEF GeometryOK
<1>4. CASE ToplevelDestroy
  <2>1. /\ toplevel' = FALSE /\ frame' = NoFrame /\ compGeo' = NoGeo /\ asked' = NoGeo
        /\ UNCHANGED <<limits, compLimits, wasFull, surfVars, popVars>>
    BY <1>4 DEF ToplevelDestroy
  <2>2. NoFrame = [there |-> FALSE, full |-> FALSE, content |-> NoValue, geometry |-> NoGeo, bridge |-> NoGeo]
    BY DEF NoFrame
  <2>3. /\ NoFrame \in FrameValues
        /\ NoGeo \in Geometries
    BY <2>2, NumbersAre DEF Geometries
  <2>4. LimitsOK' /\ GeometryOK'
    BY <1>1, <2>1, <2>2 DEF LimitsOK, LimitFits, GeometryOK
  <2>5. QED
    BY <1>1, <1>2, <2>1, <2>3, <2>4
<1>5. ASSUME NEW k \in Kinds, NEW v \in Sizes, SetSize(k, v)
      PROVE  FrameInv'
  <2>1. /\ limits' = [limits EXCEPT ![k] = v]
        /\ compLimits' = [compLimits EXCEPT ![k] = Adjusted(v, Offset(frame))]
        /\ UNCHANGED <<toplevel, frame, wasFull, compGeo, asked, surfVars, popVars>>
    BY <1>5 DEF SetSize, geoVars
  <2>2. v \in Int /\ Offset(frame) \in Nat
    BY NumbersAre, OffsetIs
  <2>3. Adjusted(v, Offset(frame)) \in Int /\ (v = 0 => Adjusted(v, Offset(frame)) = 0)
    BY <2>2, AdjustedIs
  <2>4. LimitsOK'
    <3>1. Offset(frame) \in {0, Header}
      BY OffsetIs
    <3>2. \A j \in Kinds : limits'[j] = 0 => compLimits'[j] = 0
      BY <1>1, <2>1, <2>3 DEF LimitsOK
    <3>3. ASSUME toplevel, NEW j \in Kinds
          PROVE  LimitFits(j)'
      <4>1. CASE j = k
        <5>1. limits'[j] = v /\ compLimits'[j] = Adjusted(v, Offset(frame))
          BY <1>1, <2>1, <4>1
        <5> HIDE DEF Offset, Adjusted
        <5>2. QED
          BY <2>1, <3>1, <5>1 DEF LimitFits
      <4>2. CASE j # k
        <5>1. limits'[j] = limits[j] /\ compLimits'[j] = compLimits[j]
          BY <1>1, <2>1, <4>2
        <5>2. QED
          BY <1>1, <2>1, <3>3, <5>1 DEF LimitsOK, LimitFits
      <4>3. QED
        BY <4>1, <4>2
    <3>4. QED
      BY <1>1, <2>1, <3>2, <3>3 DEF LimitsOK
  <2>5. QED
    BY <1>1, <1>2, <2>1, <2>2, <2>3, <2>4 DEF GeometryOK
<1>6. ASSUME NEW y \in Tops, NEW h \in Sizes \ {0}, SetWindowGeometry(y, h)
      PROVE  FrameInv'
  <2>1. /\ Geo(y, h) \in Geometries /\ Geo(y, h).y >= 0 /\ Geo(y, h).h > 0 /\ Geo(y, h) # NoGeo
    BY NumbersAre, FramesAssumption DEF Geo, Geometries
  <2>2. asked' = Geo(y, h) /\ UNCHANGED <<toplevel, limits, compLimits, wasFull, surfVars, popVars>>
    BY <1>6 DEF SetWindowGeometry
  <2>3. CASE frame.there
    <3>1. frame' = [frame EXCEPT !.bridge = Geo(y, h)] /\ compGeo' = compGeo
      BY <1>6, <2>3 DEF SetWindowGeometry
    <3>2. Offset(frame') = Offset(frame)
      BY <1>1, <3>1 DEF Offset
    <3>3. LimitsOK'
      BY <1>1, <2>2, <3>1, <3>2 DEF LimitsOK, LimitFits
    <3>4. GeometryOK'
      <4>1. /\ frame'.there /\ frame'.bridge = Geo(y, h)
            /\ frame'.content = frame.content /\ frame'.geometry = frame.geometry
        BY <1>1, <2>3, <3>1
      <4>2. asked' = frame'.bridge /\ frame'.bridge # NoGeo /\ frame'.bridge.y >= 0 /\ frame'.bridge.h > 0
        BY <2>1, <2>2, <4>1
      <4> HIDE DEF NoGeo, Geo, NoValue
      <4>3. QED
        BY <1>1, <3>1, <4>1, <4>2 DEF GeometryOK
    <3>5. QED
      BY <1>1, <1>2, <2>1, <2>2, <3>1, <3>3, <3>4
  <2>4. CASE ~frame.there
    <3>1. frame' = frame /\ compGeo' = Geo(y, h)
      BY <1>6, <2>4 DEF SetWindowGeometry
    <3>2. NoFrame.geometry = NoGeo /\ NoFrame.bridge = NoGeo /\ NoFrame.content = NoValue
      BY DEF NoFrame
    <3>3. LimitsOK' /\ GeometryOK'
      <4>1. LimitsOK'
        BY <1>1, <2>2, <3>1 DEF LimitsOK, LimitFits
      <4>2. frame = NoFrame /\ ~frame'.there
        BY <1>1, <2>4, <3>1 DEF GeometryOK
      <4> HIDE DEF NoGeo, Geo, NoValue, NoFrame
      <4>3. GeometryOK'
        BY <2>1, <2>2, <3>1, <3>2, <4>2 DEF GeometryOK
      <4>4. QED
        BY <4>1, <4>3
    <3>4. QED
      BY <1>1, <1>2, <2>1, <2>2, <3>1, <3>3
  <2>5. QED
    BY <2>3, <2>4
<1>7. ASSUME NEW full \in BOOLEAN, Configure(full)
      PROVE  FrameInv'
  <2>1. /\ frame.there /\ frame' = [frame EXCEPT !.full = full] /\ wasFull' = (wasFull \/ full)
        /\ frame.full # full
        /\ UNCHANGED <<toplevel, limits, compLimits, compGeo, asked, surfVars, popVars>>
    BY <1>7 DEF Configure, geoVars
  <2>2. wasFull'
    BY <1>1, <2>1 DEF LimitsOK, LimitFits
  <2>3. LimitsOK'
    <3>1. Offset(frame) \in {0, Header}
      BY OffsetIs
    <3>2. ASSUME toplevel, NEW k \in Kinds
          PROVE  compLimits[k] \in {Adjusted(limits[k], off) : off \in {0, Header}}
      <4>1. LimitFits(k)
        BY <1>1, <3>2 DEF LimitsOK
      <4> HIDE DEF Offset, Adjusted
      <4>2. QED
        BY <3>1, <4>1 DEF LimitFits
    <3>3. frame'.there
      BY <1>1, <2>1
    <3>4. QED
      BY <1>1, <2>1, <2>2, <3>2, <3>3 DEF LimitsOK, LimitFits
  <2>4. GeometryOK'
    BY <1>1, <2>1 DEF GeometryOK
  <2>5. QED
    BY <1>1, <1>2, <2>1, <2>3, <2>4
<1>8. QED
  BY <1>3, <1>4, <1>5, <1>6, <1>7

-----------------------------------------------------------------------------
(* The surface. *)

\* The state a commit gives the surface, of which nothing is pending.
LEMMA AppliedIs ==
  ASSUME surface \in Surfaces
  PROVE  /\ Applied \in Surfaces /\ Applied.pendingAttach = NoValue
         /\ Applied.attached = IF surface.pendingAttach # NoValue THEN surface.pendingAttach ELSE surface.attached
<1>1. NoSurface = [attached |-> 0, pendingAttach |-> NoValue, scale |-> 1, pendingScale |-> NoValue,
                   destination |-> 0, pendingDestination |-> NoValue]
  BY DEF NoSurface
<1>2. NoValue \in Int
  BY NumbersAre
<1>3. NoSurface \in Surfaces /\ NoSurface.pendingAttach = NoValue
  BY <1>1, <1>2 DEF Surfaces
<1> DEFINE Take(pending, old) == IF pending # NoValue THEN pending ELSE old
<1>4. /\ Take(surface.pendingAttach, surface.attached) \in Buffers \cup {0}
      /\ Take(surface.pendingScale, surface.scale) \in {1, 2}
      /\ Take(surface.pendingDestination, surface.destination) \in Int
  BY DEF Surfaces
<1>5. Applied = [NoSurface EXCEPT !.attached = Take(surface.pendingAttach, surface.attached),
                                  !.scale = Take(surface.pendingScale, surface.scale),
                                  !.destination = Take(surface.pendingDestination, surface.destination)]
  BY DEF Applied
<1>6. Take(surface.pendingAttach, surface.attached)
      = IF surface.pendingAttach # NoValue THEN surface.pendingAttach ELSE surface.attached
  OBVIOUS
<1> HIDE DEF Take, NoValue, NoSurface
<1>7. QED
  BY <1>3, <1>4, <1>5, <1>6 DEF Surfaces

\* The size of a surface is a number.
LEMMA SizeOfIs ==
  ASSUME NEW s \in Surfaces, buffer \in [Buffers -> Int]
  PROVE  SizeOf(s) \in Int
<1>1. s.scale \in {1, 2} /\ s.destination \in Int
  BY DEF Surfaces
<1>2. \A b \in Buffers : buffer[b] \div 1 \in Int /\ buffer[b] \div 2 \in Int
  BY Halves
<1>3. \A b \in Buffers : buffer[b] \div s.scale \in Int
  BY <1>1, <1>2
<1>4. QED
  BY <1>1, <1>3, NumbersAre DEF SizeOf

\* What a commit makes of a frame: nothing before there is any content, else the content and
\* a geometry around it or around what the bridge asked for.
LEMMA CommittedIs ==
  ASSUME NEW f \in FrameValues,
         NEW size \in Int
  PROVE  LET g == Committed(f, size)
             content == IF size > 0 THEN ClampSize(size) ELSE f.content
             base == IF f.bridge # NoGeo THEN f.bridge ELSE Geo(0, content)
         IN /\ g \in FrameValues
            /\ g.there = f.there /\ g.full = f.full /\ g.bridge = f.bridge /\ g.content = content
            /\ content = NoValue => g = f
            /\ content # NoValue => g.geometry = Geo(base.y - Offset(f), ClampSize(base.h) + Offset(f))
<1> DEFINE content == IF size > 0 THEN ClampSize(size) ELSE f.content
           base == IF f.bridge # NoGeo THEN f.bridge ELSE Geo(0, content)
           geometry == Geo(base.y - Offset(f), ClampSize(base.h) + Offset(f))
<1>1. content \in Int /\ (content = NoValue => f.content = NoValue)
  BY NumbersAre, ClampIs
<1>2. Geo(0, content) \in Geometries
  BY <1>1 DEF Geo, Geometries
<1>3. base \in Geometries /\ base.y \in Int /\ base.h \in Int
  BY <1>2 DEF Geometries
<1>4. Offset(f) \in Int
  BY OffsetIs
<1>5. geometry \in Geometries
  <2>1. base.y - Offset(f) \in Int /\ ClampSize(base.h) + Offset(f) \in Int
    BY <1>3, <1>4, ClampIs
  <2> HIDE DEF base
  <2>2. QED
    BY <2>1 DEF Geo, Geometries
<1>6. Committed(f, size) = IF content = NoValue THEN f
                           ELSE [f EXCEPT !.content = content, !.geometry = geometry]
  BY DEF Committed
<1> HIDE DEF base, geometry, content
<1>7. CASE content = NoValue
  <2>1. Committed(f, size) = f
    BY <1>6, <1>7
  <2>2. QED
    BY <1>1, <1>7, <2>1 DEF content
<1>8. CASE content # NoValue
  <2>1. Committed(f, size) = [f EXCEPT !.content = content, !.geometry = geometry]
    BY <1>6, <1>8
  <2> DEFINE g == [f EXCEPT !.content = content, !.geometry = geometry]
  <2>2. /\ g \in FrameValues
        /\ g.there = f.there /\ g.full = f.full /\ g.bridge = f.bridge
        /\ g.content = content /\ g.geometry = geometry
    BY <1>1, <1>5
  <2> HIDE DEF g
  <2>3. Committed(f, size) = g
    BY <2>1 DEF g
  <2>4. QED
    BY <1>8, <2>2, <2>3 DEF content, base, geometry
<1>9. QED
  BY <1>7, <1>8

\* A buffer or the surface's pending state changes.
LEMMA SurfaceKeeps ==
  ASSUME FrameInv,
         \/ \E b \in Buffers, h \in Sizes : CreateBuffer(b, h)
         \/ \E b \in Buffers : DestroyBuffer(b)
         \/ \E b \in Buffers \cup {0} : Attach(b)
         \/ \E s \in {1, 2} : SetBufferScale(s)
         \/ \E d \in Sizes : SetDestination(d)
  PROVE  FrameInv'
<1>1. surface \in Surfaces /\ buffer \in [Buffers -> Int] /\ reused \in BOOLEAN /\ ShownOK
  BY DEF FrameInv, FrameTypes, Surfaces
<1>2. UNCHANGED <<winVars, geoVars, shown, popVars>>
  BY DEF CreateBuffer, DestroyBuffer, Attach, SetBufferScale, SetDestination
<1>3. ASSUME surface' \in Surfaces, buffer' \in [Buffers -> Int], reused' \in BOOLEAN, ShownOK'
      PROVE  FrameInv'
  BY <1>2, <1>3 DEF winVars, geoVars, popVars, FrameInv, FrameTypes, LimitsOK, LimitFits, GeometryOK, PlaceOK,
     PopupsFit, Surfaces
<1>4. ASSUME NEW b \in Buffers, NEW h \in Sizes, CreateBuffer(b, h)
      PROVE  FrameInv'
  <2>1. /\ buffer' = [buffer EXCEPT ![b] = h] /\ surface' = surface
        /\ reused' = (reused \/ b \in {surface.attached, surface.pendingAttach})
    BY <1>4 DEF CreateBuffer
  <2>2. h \in Int
    BY NumbersAre
  <2>3. buffer' \in [Buffers -> Int] /\ reused' \in BOOLEAN
    BY <1>1, <2>1, <2>2
  <2>4. ShownOK'
    BY <1>1, <1>2, <2>1 DEF ShownOK
  <2>5. QED
    BY <1>1, <1>3, <2>1, <2>3, <2>4
<1>5. ASSUME NEW b \in Buffers, DestroyBuffer(b)
      PROVE  FrameInv'
  <2>1. buffer' = [buffer EXCEPT ![b] = NoValue] /\ UNCHANGED <<surface, reused>>
    BY <1>5 DEF DestroyBuffer
  <2>2. NoValue \in Int
    BY NumbersAre
  <2>3. buffer' \in [Buffers -> Int]
    BY <1>1, <2>1, <2>2
  <2>4. ShownOK'
    BY <1>1, <1>2, <2>1 DEF ShownOK
  <2>5. QED
    BY <1>1, <1>3, <2>1, <2>3, <2>4
<1>6. ASSUME NEW b \in Buffers \cup {0}, Attach(b)
      PROVE  FrameInv'
  <2>1. surface' = [surface EXCEPT !.pendingAttach = b] /\ UNCHANGED <<buffer, reused>>
    BY <1>6 DEF Attach
  <2>2. surface' \in Surfaces /\ surface'.attached = surface.attached
    BY <1>1, <2>1 DEF Surfaces
  <2>3. QED
    BY <1>1, <1>2, <1>3, <2>1, <2>2 DEF ShownOK
<1>7. ASSUME NEW s \in {1, 2}, SetBufferScale(s)
      PROVE  FrameInv'
  <2>1. surface' = [surface EXCEPT !.pendingScale = s] /\ UNCHANGED <<buffer, reused>>
    BY <1>7 DEF SetBufferScale
  <2>2. surface' \in Surfaces /\ surface'.attached = surface.attached
    BY <1>1, <2>1 DEF Surfaces
  <2>3. QED
    BY <1>1, <1>2, <1>3, <2>1, <2>2 DEF ShownOK
<1>8. ASSUME NEW d \in Sizes, SetDestination(d)
      PROVE  FrameInv'
  <2>1. surface' = [surface EXCEPT !.pendingDestination = d] /\ UNCHANGED <<buffer, reused>>
    BY <1>8 DEF SetDestination
  <2>2. d \in Int
    BY NumbersAre
  <2>3. surface' \in Surfaces /\ surface'.attached = surface.attached
    BY <1>1, <2>1, <2>2 DEF Surfaces
  <2>4. QED
    BY <1>1, <1>2, <1>3, <2>1, <2>3 DEF ShownOK
<1>9. QED
  BY <1>4, <1>5, <1>6, <1>7, <1>8

\* What a commit does, in the order of the code: the surface's state, then the frame's.
LEMMA CommitIs ==
  ASSUME FrameInv, Commit
  PROVE  /\ surface' = Applied
         /\ shown' = IF surface.pendingAttach = NoValue THEN shown
                     ELSE IF Applied.attached \in Buffers THEN buffer[Applied.attached] ELSE NoValue
         /\ frame' = IF frame.there THEN Committed(frame, SizeOf(Applied)) ELSE frame
         /\ compGeo' = IF frame'.geometry # frame.geometry THEN frame'.geometry ELSE compGeo
         /\ asked' = IF frame'.geometry # NoGeo /\ frame'.bridge = NoGeo THEN Geo(0, frame'.content)
                     ELSE asked
         /\ UNCHANGED <<toplevel, limits, compLimits, wasFull, buffer, reused, popVars>>
  BY DEF Commit

\* The surface shows what was committed.
LEMMA CommitShows ==
  ASSUME FrameInv, Commit
  PROVE  ShownOK' /\ shown' \in Int /\ surface' \in Surfaces
<1>1. surface \in Surfaces /\ buffer \in [Buffers -> Int] /\ shown \in Int /\ ShownOK
  BY DEF FrameInv, FrameTypes, Surfaces
<1>2. /\ Applied \in Surfaces
      /\ Applied.attached = IF surface.pendingAttach # NoValue THEN surface.pendingAttach ELSE surface.attached
  BY <1>1, AppliedIs
<1>3. /\ surface' = Applied /\ UNCHANGED <<buffer, reused>>
      /\ shown' = IF surface.pendingAttach = NoValue THEN shown
                  ELSE IF Applied.attached \in Buffers THEN buffer[Applied.attached] ELSE NoValue
  BY CommitIs
<1>4. NoValue \in Int
  BY NumbersAre
<1> HIDE DEF NoValue, Applied
<1>5. QED
  BY <1>1, <1>2, <1>3, <1>4 DEF ShownOK

\* A commit keeps what the compositor has in step with the frame.
LEMMA CommitKeeps ==
  ASSUME FrameInv, Commit
  PROVE  FrameInv'
<1>1. /\ frame \in FrameValues
      /\ compGeo \in Geometries /\ asked \in Geometries /\ LimitsOK /\ GeometryOK
      /\ surface \in Surfaces /\ buffer \in [Buffers -> Int]
  BY DEF FrameInv, FrameTypes, Surfaces
<1>2. SizeOf(Applied) \in Int
  BY <1>1, AppliedIs, SizeOfIs
<1>3. /\ frame' = IF frame.there THEN Committed(frame, SizeOf(Applied)) ELSE frame
      /\ compGeo' = IF frame'.geometry # frame.geometry THEN frame'.geometry ELSE compGeo
      /\ asked' = IF frame'.geometry # NoGeo /\ frame'.bridge = NoGeo THEN Geo(0, frame'.content)
                  ELSE asked
      /\ UNCHANGED <<toplevel, limits, compLimits, wasFull, buffer, reused, popVars>>
  BY CommitIs
<1>4. /\ frame' \in FrameValues
      /\ frame'.there = frame.there /\ frame'.full = frame.full /\ frame'.bridge = frame.bridge
      /\ ~frame.there => frame' = frame
      /\ frame'.content = NoValue => frame' = frame
      /\ frame.there /\ frame'.content # NoValue => frame'.geometry # NoGeo /\ frame'.content > 0
  <2>1. CASE ~frame.there
    BY <1>1, <1>3, <2>1
  <2>2. CASE frame.there
    <3>1. frame' = Committed(frame, SizeOf(Applied))
      BY <1>3, <2>2
    <3> DEFINE size == SizeOf(Applied)
    <3> HIDE DEF size
    <3>2. size \in Int /\ frame' = Committed(frame, size)
      BY <1>2, <3>1 DEF size
    <3> DEFINE content == IF size > 0 THEN ClampSize(size) ELSE frame.content
               base == IF frame.bridge # NoGeo THEN frame.bridge ELSE Geo(0, content)
    <3>3. /\ Committed(frame, size).content = content /\ (content = NoValue => Committed(frame, size) = frame)
          /\ content # NoValue => Committed(frame, size).geometry
                                  = Geo(base.y - Offset(frame), ClampSize(base.h) + Offset(frame))
      BY <1>1, <3>2, CommittedIs
    <3>6. content # NoValue => content > 0
      BY <1>1, <3>2, ClampIs DEF GeometryOK
    <3>7. ASSUME content # NoValue
          PROVE  Geo(base.y - Offset(frame), ClampSize(base.h) + Offset(frame)) # NoGeo
      <4>1. base.h \in Int /\ base.h > 0
        <5>1. frame.bridge # NoGeo => frame.bridge.h \in Int /\ frame.bridge.h > 0
          BY <1>1 DEF GeometryOK, Geometries
        <5>2. content \in Int /\ content > 0
          BY <1>1, <3>2, <3>6, <3>7, ClampIs
        <5>3. Geo(0, content).h = content
          BY DEF Geo
        <5> HIDE DEF content
        <5>4. QED
          BY <5>1, <5>2, <5>3
      <4> HIDE DEF base
      <4>2. ClampSize(base.h) \in Int /\ ClampSize(base.h) > 0 /\ Offset(frame) \in Nat
        BY <4>1, ClampIs, OffsetIs
      <4>3. ClampSize(base.h) + Offset(frame) > 0 - 1
        BY <4>2
      <4>4. Geo(base.y - Offset(frame), ClampSize(base.h) + Offset(frame)).h > 0 - 1
        BY <4>3 DEF Geo
      <4>5. NoGeo.h = 0 - 1
        BY NumbersAre
      <4>6. QED
        BY <4>4, <4>5
    <3>4. /\ frame' \in FrameValues
          /\ frame'.there = frame.there /\ frame'.full = frame.full /\ frame'.bridge = frame.bridge
      BY <1>1, <3>2, CommittedIs
    <3> HIDE DEF content, base
    <3>5. QED
      BY <2>2, <3>2, <3>3, <3>4, <3>6, <3>7
  <2>3. QED
    BY <2>1, <2>2
<1>5. compGeo' \in Geometries /\ asked' \in Geometries
  <2>1. frame'.content \in Int
    BY <1>4
  <2>2. Geo(0, frame'.content) \in Geometries
    BY <2>1 DEF Geo, Geometries
  <2>3. QED
    BY <1>1, <1>3, <1>4, <2>2
<1>6. Offset(frame') = Offset(frame)
  BY <1>4 DEF Offset
<1>7. LimitsOK'
  BY <1>1, <1>3, <1>4, <1>6 DEF LimitsOK, LimitFits
<1>8. GeometryOK'
  BY <1>1, <1>3, <1>4 DEF GeometryOK
<1>9. PlaceOK' /\ PopupsFit'
  BY <1>3 DEF FrameInv, popVars, PlaceOK, PopupsFit
<1>10. QED
  BY <1>3, <1>4, <1>5, <1>7, <1>8, <1>9, CommitShows DEF FrameInv, FrameTypes, popVars, Surfaces

-----------------------------------------------------------------------------
(* Popups. *)

\* What a popup's place needs of the positioner and of the bar.
LEMMA PlaceIs ==
  ASSUME FrameInv, positioner.anchor # NoValue
  PROVE  /\ positioner.anchor \in Nat /\ Restored = positioner /\ Offsetted.anchor \in Int
         /\ Offsetted.anchor = IF Offset(frame) # 0 THEN SatAdd(positioner.anchor, Offset(frame))
                               ELSE positioner.anchor
<1>1. /\ positioner \in [anchor : Sizes \cup {NoValue}, size : Sizes \cup {NoValue}]
      /\ compPositioner = positioner
  BY DEF FrameInv, FrameTypes, PopupsFit
<1>2. \A v \in Sizes : v \in Nat /\ SatAdd(v, 0) = v
  <2>1. \A v \in Sizes : v \in Nat /\ v + 0 = v /\ v <= IntMax
    BY NumbersAre
  <2>2. QED
    BY <2>1, SatAddIs
<1>3. positioner.anchor \in Sizes
  BY <1>1
<1>4. /\ Moved(0).anchor = positioner.anchor /\ Moved(0).size = positioner.size
      /\ Moved(0) = [anchor |-> Moved(0).anchor, size |-> Moved(0).size]
  BY <1>1, <1>2, <1>3 DEF Moved
<1>5. positioner = [anchor |-> positioner.anchor, size |-> positioner.size]
  BY <1>1
<1>6. Restored = positioner
  BY <1>1, <1>4, <1>5 DEF Restored
<1>7. Moved(Offset(frame)).anchor = SatAdd(positioner.anchor, Offset(frame))
  BY <1>3 DEF Moved
<1>8. Offsetted.anchor = IF Offset(frame) # 0 THEN SatAdd(positioner.anchor, Offset(frame))
                         ELSE positioner.anchor
  BY <1>1, <1>7 DEF Offsetted
<1>9. positioner.anchor \in Int /\ Offset(frame) \in Int
  BY <1>2, <1>3, OffsetIs
<1>10. Offsetted.anchor \in Int
  BY <1>8, <1>9, SatAddIs
<1>11. QED
  BY <1>2, <1>3, <1>6, <1>8, <1>10

\* The bridge sets a positioner, places a popup by it, is told where it is, and removes it.
LEMMA PopupKeeps ==
  ASSUME FrameInv,
         \/ \E a \in Sizes, h \in Sizes \cup {NoValue} : SetPositioner(a, h)
         \/ Place \/ PopupConfigure \/ PopupDestroy
  PROVE  FrameInv'
<1>1. /\ positioner \in [anchor : Sizes \cup {NoValue}, size : Sizes \cup {NoValue}]
      /\ compPositioner \in [anchor : Int, size : Int] /\ popup \in BOOLEAN
      /\ wanted \in [bridge : Int, comp : Int, bar : Int]
      /\ popupTold \in [bridge : Int, comp : Int, bar : Int]
      /\ PlaceOK /\ PopupsFit
  BY DEF FrameInv, FrameTypes
<1> DEFINE PopupTypes ==
      /\ positioner' \in [anchor : Sizes \cup {NoValue}, size : Sizes \cup {NoValue}]
      /\ compPositioner' \in [anchor : Int, size : Int] /\ popup' \in BOOLEAN
      /\ wanted' \in [bridge : Int, comp : Int, bar : Int]
      /\ popupTold' \in [bridge : Int, comp : Int, bar : Int]
<1>2. ASSUME UNCHANGED <<winVars, geoVars, surfVars>>, PopupTypes, PlaceOK', PopupsFit'
      PROVE  FrameInv'
  BY <1>2 DEF winVars, geoVars, surfVars, FrameInv, FrameTypes, LimitsOK, LimitFits, GeometryOK, ShownOK
<1>3. NoPlace \in [bridge : Int, comp : Int, bar : Int]
  BY NumbersAre DEF NoPlace
<1>4. ASSUME NEW a \in Sizes, NEW h \in Sizes \cup {NoValue}, SetPositioner(a, h)
      PROVE  FrameInv'
  <2>1. /\ positioner' = [anchor |-> a, size |-> h] /\ compPositioner' = positioner'
        /\ UNCHANGED <<winVars, geoVars, surfVars, popup, wanted, popupTold>>
    BY <1>4 DEF SetPositioner
  <2>2. a \in Int /\ h \in Int
    BY NumbersAre
  <2>3. PopupTypes
    BY <1>1, <2>1, <2>2
  <2>4. PlaceOK' /\ PopupsFit'
    BY <1>1, <2>1 DEF PlaceOK, PopupsFit
  <2>5. QED
    BY <1>2, <2>1, <2>3, <2>4
<1>5. CASE Place
  <2>1. /\ positioner.anchor # NoValue
        /\ popup' = TRUE
        /\ wanted' = [bridge |-> positioner.anchor, comp |-> Offsetted.anchor, bar |-> Offset(frame)]
        /\ compPositioner' = Restored /\ popupTold' = NoPlace
        /\ UNCHANGED <<winVars, geoVars, surfVars, positioner>>
    BY <1>5 DEF Place
  <2>2. /\ positioner.anchor \in Nat /\ Restored = positioner /\ Offsetted.anchor \in Int
        /\ Offsetted.anchor = IF Offset(frame) # 0 THEN SatAdd(positioner.anchor, Offset(frame))
                              ELSE positioner.anchor
    BY <2>1, PlaceIs
  <2>3. Offset(frame) \in {0, Header} /\ Offset(frame) \in Int
    BY OffsetIs
  <2>4. compPositioner' = compPositioner
    BY <1>1, <2>1, <2>2 DEF PopupsFit
  <2> HIDE DEF Offsetted, Offset, NoPlace, SatAdd
  <2>5. PopupTypes
    BY <1>1, <1>3, <2>1, <2>2, <2>3, <2>4
  <2>6. PlaceOK'
    BY <2>1, <2>2, <2>3 DEF PlaceOK
  <2>7. PopupsFit'
    BY <2>1, <2>2 DEF PopupsFit
  <2>8. QED
    BY <1>2, <2>1, <2>5, <2>6, <2>7
<1>6. CASE PopupConfigure
  <2>1. /\ popup
        /\ popupTold' = [bridge |-> wanted.comp - Offset(frame), comp |-> wanted.comp, bar |-> Offset(frame)]
        /\ UNCHANGED <<winVars, geoVars, surfVars, positioner, popup, compPositioner, wanted>>
    BY <1>6 DEF PopupConfigure
  <2>2. Offset(frame) \in Nat
    BY OffsetIs
  <2>3. wanted.comp - Offset(frame) \in Int /\ wanted.comp \in Int
    BY <1>1, <2>2
  <2>4. PopupTypes
    BY <1>1, <2>1, <2>2, <2>3
  <2>5. PlaceOK'
    BY <1>1, <2>1 DEF PlaceOK
  <2>6. ASSUME wanted.bar = Offset(frame), wanted.bridge + Header <= IntMax
        PROVE  wanted.comp - Offset(frame) = wanted.bridge
    <3>1. /\ wanted.bar \in {0, Header} /\ wanted.bridge \in Nat
          /\ wanted.comp = IF wanted.bar # 0 THEN SatAdd(wanted.bridge, wanted.bar) ELSE wanted.bridge
      BY <1>1, <2>1 DEF PlaceOK
    <3>2. Header \in Nat /\ wanted.bar \in Nat /\ wanted.bridge + wanted.bar <= IntMax
      BY <2>6, <3>1, NumbersAre
    <3>3. SatAdd(wanted.bridge, wanted.bar) = wanted.bridge + wanted.bar
      <4>1. wanted.bridge \in Int /\ wanted.bar \in Int
        BY <3>1, <3>2
      <4>2. QED
        BY <3>2, <4>1, SatAddIs, Zenon
    <3>4. QED
      BY <2>6, <3>1, <3>2, <3>3
  <2>7. PopupsFit'
    BY <1>1, <2>1, <2>6 DEF PopupsFit
  <2>8. QED
    BY <1>2, <2>1, <2>4, <2>5, <2>7
<1>7. CASE PopupDestroy
  <2>1. /\ popup' = FALSE /\ wanted' = NoPlace /\ popupTold' = NoPlace
        /\ UNCHANGED <<winVars, geoVars, surfVars, positioner, compPositioner>>
    BY <1>7 DEF PopupDestroy
  <2>2. QED
    BY <1>1, <1>2, <1>3, <2>1 DEF PlaceOK, PopupsFit
<1>8. QED
  BY <1>4, <1>5, <1>6, <1>7

-----------------------------------------------------------------------------
(* The theorems. *)

\* The first window has no bar, no limits and no popup.
LEMMA FrameStarts ==
  ASSUME FrameInit
  PROVE  FrameInv
<1>1. /\ NoGeo \in Geometries /\ NoValue \in Int
      /\ NoFrame = [there |-> FALSE, full |-> FALSE, content |-> NoValue, geometry |-> NoGeo, bridge |-> NoGeo]
  BY NumbersAre DEF Geometries, NoFrame
<1>2. /\ NoFrame \in FrameValues
      /\ NoFrame.full = FALSE /\ NoFrame.there = FALSE
      /\ NoFrame.geometry = NoGeo /\ NoFrame.bridge = NoGeo /\ NoFrame.content = NoValue
  BY <1>1
<1>3. NoSurface = [attached |-> 0, pendingAttach |-> NoValue, scale |-> 1, pendingScale |-> NoValue,
                   destination |-> 0, pendingDestination |-> NoValue]
  BY DEF NoSurface
<1>4. NoSurface \in Surfaces /\ NoSurface.attached \notin Buffers
  BY <1>1, <1>3, NumbersAre DEF Surfaces
<1>5. NoPlace \in [bridge : Int, comp : Int, bar : Int]
  BY <1>1 DEF NoPlace
<1>6. Adjusted(0, Offset(NoFrame)) = 0
  BY AdjustedIs, OffsetIs
<1> HIDE DEF NoFrame, NoSurface, NoPlace, NoGeo, NoValue
<1>7. FrameTypes
  <2>1. /\ toplevel \in BOOLEAN /\ wasFull \in BOOLEAN /\ reused \in BOOLEAN /\ popup \in BOOLEAN
        /\ compGeo \in Geometries /\ asked \in Geometries /\ shown \in Int /\ buffer \in [Buffers -> Int]
        /\ wanted \in [bridge : Int, comp : Int, bar : Int] /\ popupTold \in [bridge : Int, comp : Int, bar : Int]
    BY <1>1, <1>5 DEF FrameInit
  <2>2. limits \in [Kinds -> Int] /\ compLimits \in [Kinds -> Int]
    BY DEF FrameInit
  <2>3. surface \in Surfaces
    BY <1>4 DEF FrameInit
  <2>4. /\ positioner \in [anchor : Sizes \cup {NoValue}, size : Sizes \cup {NoValue}]
        /\ compPositioner \in [anchor : Int, size : Int]
    BY <1>1 DEF FrameInit
  <2>5. frame \in FrameValues
    BY <1>2 DEF FrameInit
  <2>6. QED
    BY <2>1, <2>2, <2>3, <2>4, <2>5 DEF FrameTypes, Surfaces
<1>8. LimitsOK
  BY <1>2, <1>6 DEF FrameInit, LimitsOK, LimitFits
<1>9. GeometryOK /\ ShownOK
  BY <1>2, <1>4 DEF FrameInit, GeometryOK, ShownOK
<1>10. PlaceOK /\ PopupsFit
  BY DEF FrameInit, PlaceOK, PopupsFit
<1>11. QED
  BY <1>7, <1>8, <1>9, <1>10 DEF FrameInv

\* Each step keeps the invariant.
LEMMA FramesKeep ==
  ASSUME FrameInv, [FrameNext]_frameVars
  PROVE  FrameInv'
<1>1. CASE FrameNext
  BY <1>1, DecorationsKeep, WindowKeeps, SurfaceKeeps, CommitKeeps, PopupKeeps DEF FrameNext
<1>2. CASE UNCHANGED frameVars
  BY <1>2 DEF frameVars, winVars, geoVars, surfVars, popVars, FrameInv, FrameTypes, LimitsOK, LimitFits, GeometryOK,
     ShownOK,
              PlaceOK, PopupsFit
<1>3. QED
  BY <1>1, <1>2

\* The invariant holds throughout.
LEMMA FrameInvHolds == FrameSpec => []FrameInv
<1>1. FrameInit => FrameInv
  BY FrameStarts
<1>2. FrameInv /\ [FrameNext]_frameVars => FrameInv'
  BY FramesKeep
<1>3. QED
  BY <1>1, <1>2, PTL DEF FrameSpec

\* Whatever the bridge asks for and the compositor answers, a window's limits, geometry and
\* popups take in the bar that is there, and none when there is none (decorations/proxy.rs).
THEOREM BarAccountedHolds == FrameSpec => []BarAccounted
<1>1. FrameInv => BarAccounted
  BY DEF FrameInv, LimitsOK, LimitFits, GeometryOK, BarAccounted, NoFrame
<1>2. QED
  BY <1>1, FrameInvHolds, PTL

\* A commit under a bar sets the geometry that takes it in, around the content the surface
\* really shows then (Proxy::commit_surface and Frame::commit).
THEOREM CommitFitsHolds == FrameSpec => CommitFits
<1> DEFINE TakesIn ==
      LET h == IF surface'.destination > 0 THEN surface'.destination ELSE shown' \div surface'.scale
          base == IF frame.bridge # NoGeo THEN frame.bridge ELSE Geo(0, frame'.content)
      IN /\ compGeo' = Geo(base.y - Offset(frame), ClampSize(base.h) + Offset(frame))
         /\ SizeOf(surface') # NoValue /\ shown' # NoValue /\ h > 0 => frame'.content = ClampSize(h)
<1>1. ASSUME FrameInv, Commit, frame.there, frame'.geometry # NoGeo, ~reused
      PROVE  TakesIn
  <2>1. /\ frame \in FrameValues
        /\ GeometryOK /\ surface \in Surfaces /\ buffer \in [Buffers -> Int]
    BY <1>1 DEF FrameInv, FrameTypes, Surfaces
  <2>2. /\ Applied \in Surfaces /\ surface' = Applied /\ buffer' = buffer /\ ~reused'
        /\ frame' = Committed(frame, SizeOf(Applied))
    BY <1>1, <2>1, AppliedIs, CommitIs
  <2> DEFINE size == SizeOf(Applied)
  <2> HIDE DEF size
  <2>3. size \in Int /\ frame' = Committed(frame, size)
    BY <2>1, <2>2, SizeOfIs DEF size
  <2> DEFINE content == IF size > 0 THEN ClampSize(size) ELSE frame.content
             base == IF frame.bridge # NoGeo THEN frame.bridge ELSE Geo(0, content)
  <2>4. /\ frame'.content = content
        /\ content = NoValue => frame' = frame
        /\ content # NoValue => frame'.geometry = Geo(base.y - Offset(frame), ClampSize(base.h) + Offset(frame))
    BY <2>1, <2>3, CommittedIs
  <2>5. content # NoValue
    BY <1>1, <2>1, <2>4 DEF GeometryOK
  <2>6. FrameInv'
    BY <1>1, CommitKeeps
  <2>7. compGeo' = frame'.geometry
    BY <1>1, <2>6 DEF FrameInv, GeometryOK
  <2>8. compGeo' = Geo(base.y - Offset(frame), ClampSize(base.h) + Offset(frame))
    BY <2>4, <2>5, <2>7
  <2>9. ShownOK'
    BY <2>6 DEF FrameInv
  <2> DEFINE h == IF Applied.destination > 0 THEN Applied.destination ELSE shown' \div Applied.scale
  <2>10. ASSUME size # NoValue, h > 0
         PROVE  size = h
    <3>1. CASE Applied.destination > 0
      BY <3>1 DEF size, SizeOf
    <3>2. CASE ~(Applied.destination > 0)
      <4>1. /\ Applied.attached \in Buffers /\ buffer[Applied.attached] # NoValue
            /\ size = buffer[Applied.attached] \div Applied.scale
        BY <2>10, <3>2 DEF size, SizeOf
      <4>2. shown' = buffer[Applied.attached]
        BY <2>2, <2>9, <4>1 DEF ShownOK
      <4>3. QED
        BY <3>2, <4>1, <4>2
    <3>3. QED
      BY <3>1, <3>2
  <2>11. size # NoValue /\ h > 0 => frame'.content = ClampSize(h)
    <3>1. SUFFICES ASSUME size # NoValue, h > 0
                   PROVE  frame'.content = ClampSize(h)
      OBVIOUS
    <3>2. size = h
      BY <2>10, <3>1
    <3>3. content = ClampSize(size)
      BY <3>1, <3>2
    <3>4. QED
      BY <2>4, <3>2, <3>3
  <2>12. QED
    BY <2>2, <2>4, <2>8, <2>11 DEF size
<1>2. FrameInv /\ [FrameNext]_frameVars
      => [Commit /\ frame.there /\ frame'.geometry # NoGeo /\ ~reused => TakesIn]_frameVars
  BY <1>1
<1>3. QED
  BY <1>2, FrameInvHolds, PTL DEF FrameSpec, CommitFits
=============================================================================
