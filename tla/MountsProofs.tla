---------------------------- MODULE MountsProofs ----------------------------
(***************************************************************************)
(* That live mounts stay where they were mounted, for any configs, paths,   *)
(* sockets, overlays and failures, and any number of live mounts.           *)
(***************************************************************************)
EXTENDS SandboxMounts, FiniteSetTheorems, WellFoundedInduction, TLAPS

-----------------------------------------------------------------------------
(* Numbers, and what is done step by step. *)

\* Of any numbers there is a least one.
LEMMA LeastOf ==
  ASSUME NEW some, some \subseteq Nat, some # {}
  PROVE  \E m \in some : \A n \in some : m <= n
<1> DEFINE Less == {ss \in Nat \X Nat : ss[1] < ss[2]}
<1>1. IsWellFoundedOn(Less, Nat)
  BY NatLessThanWellFounded DEF OpToRel
<1>2. PICK m \in some : \A n \in some : ~(<<n, m>> \in Less)
  <2> HIDE DEF Less
  <2>1. QED
    BY <1>1, WFMin
<1>3. ASSUME NEW n \in some
      PROVE  m <= n
  <2>1. <<n, m>> \in Nat \X Nat
    OBVIOUS
  <2>2. ~(n < m)
    BY <1>2, <2>1
  <2>3. QED
    BY <2>2
<1>4. QED
  BY <1>3

\* A set of numbers up to n that has 0 and, with each number, the next one has n.
LEMMA UpTo ==
  ASSUME NEW n \in Nat, NEW some, 0 \in some,
         \A i \in 1..n : i - 1 \in some => i \in some
  PROVE  \A i \in 0..n : i \in some
<1>1. SUFFICES ASSUME {i \in 0..n : i \notin some} # {}
               PROVE  FALSE
  OBVIOUS
<1>2. PICK m \in {i \in 0..n : i \notin some} : \A i \in {j \in 0..n : j \notin some} : m <= i
  <2>1. {i \in 0..n : i \notin some} \subseteq Nat
    OBVIOUS
  <2>2. QED
    BY <1>1, <2>1, LeastOf
<1>3. m \in 1..n /\ m - 1 \in 0..n /\ ~(m <= m - 1)
  BY <1>2
<1>4. m - 1 \in some
  BY <1>2, <1>3
<1>5. QED
  BY <1>2, <1>3, <1>4

\* The largest of a set of numbers up to n.
LEMMA MaxIs ==
  ASSUME NEW n \in Nat, NEW s \in SUBSET (1..n), s # {}
  PROVE  Max(s) \in s /\ \A i \in s : i <= Max(s)
<1>1. {n - i : i \in s} \subseteq Nat /\ {n - i : i \in s} # {}
  <2>1. \A i \in s : n - i \in Nat
    OBVIOUS
  <2>2. QED
    BY <2>1
<1>2. PICK m \in {n - i : i \in s} : \A j \in {n - i : i \in s} : m <= j
  BY <1>1, LeastOf
<1>3. PICK k \in s : m = n - k
  BY <1>2
<1>4. \A i \in s : i <= k
  <2>1. TAKE i \in s
  <2>2. m <= n - i
    BY <1>2
  <2>3. QED
    BY <1>3, <2>2
<1>5. QED
  BY <1>3, <1>4 DEF Max

\* The first numbers.
LEMMA FirstNumbers ==
  ASSUME NEW n \in Nat
  PROVE  /\ 1..0 = {} /\ 1..0 \in SUBSET (1..n)
         /\ \A i \in 1..n : /\ 1..i \in SUBSET (1..n) /\ 1..i # {} /\ Max(1..i) = i
                            /\ (1..i) \ {i} = 1..(i - 1)
<1>1. 1..0 = {} /\ 1..0 \in SUBSET (1..n)
  OBVIOUS
<1>2. ASSUME NEW i \in 1..n
      PROVE  1..i \in SUBSET (1..n) /\ 1..i # {} /\ Max(1..i) = i /\ (1..i) \ {i} = 1..(i - 1)
  <2>1. 1..i \in SUBSET (1..n) /\ i \in 1..i /\ (1..i) \ {i} = 1..(i - 1)
    OBVIOUS
  <2>2. Max(1..i) \in 1..i /\ i <= Max(1..i)
    BY <2>1, MaxIs
  <2>3. Max(1..i) = i
    BY <2>2
  <2>4. QED
    BY <2>1, <2>3
<1>3. QED
  BY <1>1, <1>2

\* A fold whose i-th step is step[i], over the indices in any set of them.
Folds(g, n, zero, step) ==
  \A s \in SUBSET (1..n) : g[s] = IF s = {} THEN zero ELSE step[Max(s)][g[s \ {Max(s)}]]

LEMMA FoldExists ==
  ASSUME NEW n \in Nat, NEW A, NEW zero \in A, NEW step \in [1..n -> [A -> A]]
  PROVE  \E g \in [SUBSET (1..n) -> A] : Folds(g, n, zero, step)
<1> DEFINE Has(k) == \E g \in [SUBSET (1..k) -> A] : Folds(g, k, zero, step)
<1> DEFINE Some == {k \in 0..n : Has(k)}
<1>1. 0 \in Some
  <2>1. [s \in SUBSET (1..0) |-> zero] \in [SUBSET (1..0) -> A]
    OBVIOUS
  <2>2. \A s \in SUBSET (1..0) : s = {}
    OBVIOUS
  <2>3. Folds([s \in SUBSET (1..0) |-> zero], 0, zero, step)
    BY <2>2 DEF Folds
  <2>4. QED
    BY <2>1, <2>3
<1>2. ASSUME NEW k \in 1..n, k - 1 \in Some
      PROVE  k \in Some
  <2>1. PICK g \in [SUBSET (1..(k - 1)) -> A] : Folds(g, k - 1, zero, step)
    BY <1>2
  <2> DEFINE f == [s \in SUBSET (1..k) |-> IF k \in s THEN step[k][g[s \ {k}]] ELSE g[s]]
  <2>2. \A s \in SUBSET (1..k) : s \ {k} \in SUBSET (1..(k - 1))
          /\ (k \notin s => s \in SUBSET (1..(k - 1)))
    OBVIOUS
  <2>3. f \in [SUBSET (1..k) -> A]
    BY <2>2
  <2>4. ASSUME NEW s \in SUBSET (1..k)
        PROVE  f[s] = IF s = {} THEN zero ELSE step[Max(s)][f[s \ {Max(s)}]]
    <3>1. CASE s = {}
      BY <2>1, <3>1 DEF Folds
    <3>2. CASE k \in s
      <4>1. Max(s) \in s /\ k <= Max(s)
        BY <3>2, MaxIs, k \in Nat
      <4>2. Max(s) = k
        <5>1. Max(s) \in 1..k
          BY <4>1
        <5>2. QED
          BY <4>1, <5>1
      <4>3. f[s \ {k}] = g[s \ {k}] /\ f[s] = step[k][g[s \ {k}]]
        BY <2>2, <3>2
      <4>4. QED
        BY <3>2, <4>2, <4>3
    <3>3. CASE s # {} /\ k \notin s
      <4>1. s \in SUBSET (1..(k - 1)) /\ Max(s) \in s
        BY <2>2, <3>3, MaxIs, k \in Nat
      <4>2. k \notin s \ {Max(s)} /\ s \ {Max(s)} \in SUBSET (1..k)
        BY <3>3
      <4>3. f[s] = g[s] /\ f[s \ {Max(s)}] = g[s \ {Max(s)}]
        BY <3>3, <4>2
      <4>4. QED
        BY <2>1, <3>3, <4>1, <4>3 DEF Folds
    <3>4. QED
      BY <3>1, <3>2, <3>3
  <2>5. QED
    <3>1. Folds(f, k, zero, step)
      BY <2>4 DEF Folds
    <3>2. Has(k)
      BY <2>3, <3>1
    <3>3. QED
      BY <3>2
<1>3. n \in Some
  <2>1. \A k \in 1..n : k - 1 \in Some => k \in Some
    BY <1>2
  <2> HIDE DEF Some
  <2>2. \A k \in 0..n : k \in Some
    BY <1>1, <2>1, UpTo
  <2>3. QED
    BY <2>2
<1>4. QED
  BY <1>3

\* The values it goes through.
FoldsIn(A, g, n, zero, step) ==
  /\ zero \in A /\ step \in [1..n -> [A -> A]]
  /\ g \in [SUBSET (1..n) -> A] /\ Folds(g, n, zero, step)
LEMMA FoldRuns ==
  ASSUME NEW n \in Nat, NEW A, NEW zero, NEW step, NEW g, FoldsIn(A, g, n, zero, step)
  PROVE  /\ g[1..0] = zero
         /\ \A i \in 1..n : g[1..(i - 1)] \in A /\ g[1..i] = step[i][g[1..(i - 1)]]
<1> USE DEF FoldsIn
<1>1. ASSUME NEW i \in 1..n
      PROVE  g[1..(i - 1)] \in A /\ g[1..i] = step[i][g[1..(i - 1)]]
  <2>1. 1..i \in SUBSET (1..n) /\ 1..i # {} /\ Max(1..i) = i /\ (1..i) \ {i} = 1..(i - 1)
    BY FirstNumbers
  <2>2. 1..(i - 1) \in SUBSET (1..n)
    BY <2>1
  <2>3. QED
    BY <2>1, <2>2 DEF Folds
<1>2. QED
  BY <1>1, FirstNumbers DEF Folds

-----------------------------------------------------------------------------
(* Paths. *)

\* Names in shares and in what is mounted live, in plans, and of exposed files.
Name  == STRING \union
         {"usr", "tmp", "X11", "rt", "wayland", "pipewire", "bus", "home", "cache", "psbox", "bin",
          "config", "resolv", "resolve", "Sandbox", "box", "doc"} \union
         {ToString(n) : n \in Nat}
Path  == Seq(Name)
Point == Path \ {<<>>}

\* What a prefix is.
LEMMA PrefixIs ==
  ASSUME NEW S, NEW p \in Seq(S), NEW q \in Seq(S)
  PROVE  /\ IsPrefix(p, q) <=> Len(p) <= Len(q) /\ p = SubSeq(q, 1, Len(p))
         /\ IsPrefix(p, q) <=> Len(p) <= Len(q) /\ \A i \in 1..Len(p) : p[i] = q[i]
<1>1. Len(p) \in Nat /\ Len(q) \in Nat /\ SubSeq(p, 1, Len(p)) = p
  OBVIOUS
<1>2. ASSUME Len(p) <= Len(q)
      PROVE  p = SubSeq(q, 1, Len(p)) <=> \A i \in 1..Len(p) : p[i] = q[i]
  <2>1. /\ SubSeq(q, 1, Len(p)) \in Seq(S) /\ Len(SubSeq(q, 1, Len(p))) = Len(p)
        /\ \A i \in 1..Len(p) : SubSeq(q, 1, Len(p))[i] = q[i]
    BY <1>1, <1>2
  <2>2. QED
    BY <1>1, <2>1
<1>3. QED
  BY <1>1, <1>2 DEF IsPrefix

\* A path is a prefix of itself, and a prefix of a prefix is one.
LEMMA PrefixOrder ==
  ASSUME NEW S, NEW p \in Seq(S), NEW q \in Seq(S), NEW r \in Seq(S)
  PROVE  /\ IsPrefix(p, p)
         /\ IsPrefix(p, q) /\ IsPrefix(q, r) => IsPrefix(p, r)
         /\ IsPrefix(p, r) /\ IsPrefix(q, r) /\ Len(p) <= Len(q) => IsPrefix(p, q)
<1>1. Len(p) \in Nat /\ Len(q) \in Nat /\ Len(r) \in Nat
  OBVIOUS
<1>2. IsPrefix(p, p)
  BY PrefixIs, <1>1
<1>3. ASSUME IsPrefix(p, q), IsPrefix(q, r)
      PROVE  IsPrefix(p, r)
  <2>1. Len(p) <= Len(q) /\ Len(q) <= Len(r)
    BY PrefixIs, <1>3
  <2>2. \A i \in 1..Len(p) : p[i] = q[i] /\ q[i] = r[i]
    <3>1. TAKE i \in 1..Len(p)
    <3>2. i \in 1..Len(q)
      BY <1>1, <2>1
    <3>3. QED
      BY PrefixIs, <1>3, <3>2
  <2>3. QED
    BY PrefixIs, <1>1, <2>1, <2>2
<1>4. ASSUME IsPrefix(p, r), IsPrefix(q, r), Len(p) <= Len(q)
      PROVE  IsPrefix(p, q)
  <2>1. \A i \in 1..Len(p) : p[i] = r[i] /\ q[i] = r[i]
    <3>1. TAKE i \in 1..Len(p)
    <3>2. i \in 1..Len(q)
      BY <1>1, <1>4
    <3>3. QED
      BY PrefixIs, <1>4, <3>2
  <2>2. QED
    BY PrefixIs, <1>4, <2>1
<1>5. QED
  BY <1>2, <1>3, <1>4

-----------------------------------------------------------------------------
(* Where a path leads. *)

\* A mount tree: finitely many mounts, each on one that is there, at a path on or below its.
Keys(D) ==
  /\ IsFiniteSet(D) /\ D \subseteq Seq(Point)
  /\ \A k \in D :
       /\ k # <<>>
       /\ \A i, j \in 1..Len(k) : i <= j => IsPrefix(k[i], k[j])
       /\ \A n \in 1..Len(k) : SubSeq(k, 1, n) \in D
TreeOK(t) == Keys(DOMAIN t) /\ t = [k \in DOMAIN t |-> t[k]]

\* At mount i of the chain k, and at the first n names of p, the walk might leave the chain
\* for another mount.
Fits(k, i, n) == (i > 0 => Len(k[i]) <= n) /\ (i < Len(k) => n < Len(k[i + 1]))
OnWay(k, p, i, n) == Append(SubSeq(k, 1, i), SubSeq(p, 1, n))

\* The first m names of p lead to k.
Reaches(D, p, m, k) ==
  /\ k \in Seq(Point) /\ (k \in D \/ k = <<>>)
  /\ \A i \in 1..Len(k) : Len(k[i]) <= m /\ k[i] = SubSeq(p, 1, Len(k[i]))
  /\ \A i \in 0..Len(k), n \in 1..m : Fits(k, i, n) => OnWay(k, p, i, n) \notin D

Stack(D, k, q) == {j \in D \union {k} : IsPrefix(k, j) /\ \A i \in Len(k) + 1 .. Len(j) : j[i] = q}

\* There is a last mount stacked at a path.
LEMMA LastStacked ==
  ASSUME NEW D, Keys(D), NEW k \in Seq(Point), NEW q \in Point
  PROVE  \E j \in Stack(D, k, q) : Append(j, q) \notin D
<1> DEFINE S == Stack(D, k, q)
<1> DEFINE Longer(j) == {x \in S : Len(x) > Len(j)}
<1> DEFINE Counts == {Cardinality(Longer(j)) : j \in S}
<1>1. IsFiniteSet(S) /\ S \subseteq Seq(Point)
  <2>1. IsFiniteSet(D \union {k}) /\ D \union {k} \subseteq Seq(Point)
    BY FS_AddElement DEF Keys
  <2>2. QED
    BY <2>1, FS_Subset DEF Stack
<1>2. \A j \in S : IsFiniteSet(Longer(j)) /\ Cardinality(Longer(j)) \in Nat
  <2>1. TAKE j \in S
  <2>2. Longer(j) \subseteq S
    OBVIOUS
  <2> HIDE DEF Longer, S
  <2>3. QED
    BY <1>1, <2>2, FS_Subset, FS_CardinalityType
<1>3. k \in S
  <2>1. \A i \in Len(k) + 1 .. Len(k) : FALSE
    OBVIOUS
  <2>2. QED
    BY <2>1, PrefixOrder DEF Stack
<1>4. PICK j \in S : \A x \in S : Cardinality(Longer(j)) <= Cardinality(Longer(x))
  <2>1. Counts \subseteq Nat /\ Counts # {}
    BY <1>2, <1>3
  <2>2. PICK m \in Counts : \A c \in Counts : m <= c
    BY <2>1, LeastOf
  <2>3. QED
    BY <2>2
<1>5. SUFFICES ASSUME Append(j, q) \in D
               PROVE  FALSE
  BY <1>4
<1> DEFINE x == Append(j, q)
<1>6. /\ j \in Seq(Point) /\ x \in Seq(Point) /\ Len(x) = Len(j) + 1 /\ Len(j) \in Nat
      /\ x[Len(j) + 1] = q /\ \A i \in 1..Len(j) : x[i] = j[i]
  BY <1>1
<1>7. x \in S
  <2>1. IsPrefix(k, j) /\ \A i \in Len(k) + 1 .. Len(j) : j[i] = q
    BY <1>4 DEF Stack
  <2>2. IsPrefix(j, x)
    <3>1. Len(j) <= Len(x)
      BY <1>6
    <3>2. QED
      BY <1>6, <3>1, PrefixIs
  <2>3. IsPrefix(k, x)
    BY <1>6, <2>1, <2>2, PrefixOrder
  <2>4. \A i \in Len(k) + 1 .. Len(x) : x[i] = q
    <3>1. TAKE i \in Len(k) + 1 .. Len(x)
    <3>2. CASE i = Len(j) + 1
      BY <1>6, <3>2
    <3>3. CASE i # Len(j) + 1
      <4>1. Len(k) \in Nat
        OBVIOUS
      <4>2. i \in Len(k) + 1 .. Len(j) /\ i \in 1..Len(j)
        BY <1>6, <3>3, <4>1
      <4>3. QED
        BY <1>6, <2>1, <4>2
    <3>4. QED
      BY <3>2, <3>3
  <2>5. QED
    BY <1>5, <2>3, <2>4 DEF Stack
<1>8. Longer(x) \subseteq Longer(j) /\ x \in Longer(j) /\ x \notin Longer(x)
  <2>1. \A y \in S : Len(y) \in Nat
    BY <1>1
  <2>2. QED
    BY <1>6, <1>7, <2>1
<1>9. Cardinality(Longer(x)) < Cardinality(Longer(j))
  <2>1. IsFiniteSet(Longer(j)) /\ Cardinality(Longer(j)) \in Nat /\ Cardinality(Longer(x)) \in Nat
    BY <1>2, <1>4, <1>7
  <2>2. Longer(x) # Longer(j)
    BY <1>8
  <2> HIDE DEF Longer
  <2>3. Cardinality(Longer(x)) <= Cardinality(Longer(j))
          /\ Cardinality(Longer(x)) # Cardinality(Longer(j))
    BY <1>8, <2>1, <2>2, FS_Subset
  <2>4. QED
    BY <2>1, <2>3
<1>10. Cardinality(Longer(j)) <= Cardinality(Longer(x))
  BY <1>4, <1>7
<1>11. QED
  <2>1. Cardinality(Longer(j)) \in Nat /\ Cardinality(Longer(x)) \in Nat
    BY <1>2, <1>4, <1>7
  <2> HIDE DEF Longer
  <2>2. QED
    BY <1>9, <1>10, <2>1

\* The start of a sequence.
LEMMA StartIs ==
  ASSUME NEW S, NEW k \in Seq(S), NEW i \in 0..Len(k)
  PROVE  /\ SubSeq(k, 1, i) \in Seq(S) /\ Len(SubSeq(k, 1, i)) = i
         /\ \A x \in 1..i : SubSeq(k, 1, i)[x] = k[x]
         /\ \A x \in 0..i : SubSeq(SubSeq(k, 1, i), 1, x) = SubSeq(k, 1, x)
<1>1. /\ SubSeq(k, 1, i) \in Seq(S) /\ Len(SubSeq(k, 1, i)) = i
      /\ \A x \in 1..i : SubSeq(k, 1, i)[x] = k[x]
  OBVIOUS
<1>2. \A x \in 0..i : SubSeq(SubSeq(k, 1, i), 1, x) = SubSeq(k, 1, x)
  <2>1. TAKE x \in 0..i
  <2>2. /\ SubSeq(SubSeq(k, 1, i), 1, x) \in Seq(S) /\ Len(SubSeq(SubSeq(k, 1, i), 1, x)) = x
        /\ SubSeq(k, 1, x) \in Seq(S) /\ Len(SubSeq(k, 1, x)) = x
    BY <1>1
  <2>3. \A y \in 1..x : SubSeq(SubSeq(k, 1, i), 1, x)[y] = k[y] /\ SubSeq(k, 1, x)[y] = k[y]
    BY <1>1
  <2>4. QED
    BY <2>2, <2>3
<1>3. QED
  BY <1>1, <1>2

\* The first names of a path are a path.
LEMMA FirstNames ==
  ASSUME NEW p \in Path, NEW n \in 1..Len(p)
  PROVE  SubSeq(p, 1, n) \in Point /\ Len(SubSeq(p, 1, n)) = n
<1>1. n \in 0..Len(p) /\ p \in Seq(Name)
  BY DEF Path
<1>2. SubSeq(p, 1, n) \in Seq(Name) /\ Len(SubSeq(p, 1, n)) = n
  BY <1>1, StartIs
<1>3. QED
  BY <1>2 DEF Path, Point

\* The walk of Top, one name further.
LEMMA WalkOn ==
  ASSUME NEW D, Keys(D), NEW p \in Path, NEW m \in 1..Len(p), NEW k, Reaches(D, p, m - 1, k),
         NEW j \in Stack(D, k, SubSeq(p, 1, m)), Append(j, SubSeq(p, 1, m)) \notin D
  PROVE  Reaches(D, p, m, j)
<1> DEFINE q == SubSeq(p, 1, m)
<1>1. q \in Point /\ Len(q) = m
  BY FirstNames
<1>2. /\ k \in Seq(Point) /\ (k \in D \/ k = <<>>) /\ Len(k) \in Nat
      /\ j \in Seq(Point) /\ (j \in D \/ j = <<>>) /\ Len(j) \in Nat
  BY DEF Reaches, Stack, Keys
<1>3. /\ Len(k) <= Len(j) /\ \A i \in 1..Len(k) : k[i] = j[i]
      /\ \A i \in Len(k) + 1 .. Len(j) : j[i] = q
  <2>1. IsPrefix(k, j) /\ \A i \in Len(k) + 1 .. Len(j) : j[i] = q
    BY DEF Stack
  <2>2. QED
    BY <1>2, <2>1, PrefixIs
<1>4. \A i \in 1..Len(j) : Len(j[i]) <= m /\ j[i] = SubSeq(p, 1, Len(j[i]))
  <2>1. TAKE i \in 1..Len(j)
  <2>2. CASE i \in 1..Len(k)
    <3>1. Len(k[i]) <= m - 1 /\ k[i] = SubSeq(p, 1, Len(k[i])) /\ Len(k[i]) \in Nat
      BY <1>2, <2>2 DEF Reaches, Point, Path
    <3>2. QED
      BY <1>3, <2>2, <3>1
  <2>3. CASE i \notin 1..Len(k)
    <3>1. i \in Len(k) + 1 .. Len(j)
      BY <1>2, <2>3
    <3>2. QED
      BY <1>1, <1>3, <3>1
  <2>4. QED
    BY <2>2, <2>3
<1>5. ASSUME NEW i \in 0..Len(j), NEW n \in 1..m, Fits(j, i, n)
      PROVE  OnWay(j, p, i, n) \notin D
  <2>1. /\ i > 0 => Len(j[i]) <= n
        /\ i < Len(j) => n < Len(j[i + 1])
    BY <1>5 DEF Fits
  <2>2. ASSUME i <= Len(k), n <= m - 1
        PROVE  OnWay(j, p, i, n) \notin D
    <3>1. i \in 0..Len(k) /\ n \in 1..(m - 1)
      BY <1>2, <2>2
    <3>2. Fits(k, i, n)
      <4>1. i > 0 => k[i] = j[i]
        BY <1>3, <3>1
      <4>2. i < Len(k) => k[i + 1] = j[i + 1] /\ i < Len(j)
        BY <1>2, <1>3, <3>1
      <4>3. QED
        BY <2>1, <4>1, <4>2 DEF Fits
    <3>3. SubSeq(k, 1, i) = SubSeq(j, 1, i)
      <4>1. \A y \in 1..i : SubSeq(k, 1, i)[y] = SubSeq(j, 1, i)[y]
        <5>1. TAKE y \in 1..i
        <5>2. y \in 1..Len(k)
          BY <1>2, <3>1
        <5>3. QED
          BY <1>2, <1>3, <3>1, <5>2, StartIs
      <4>2. /\ SubSeq(k, 1, i) \in Seq(Point) /\ SubSeq(j, 1, i) \in Seq(Point)
            /\ Len(SubSeq(k, 1, i)) = i /\ Len(SubSeq(j, 1, i)) = i
        BY <1>2, <3>1, StartIs
      <4>3. QED
        BY <4>1, <4>2
    <3>4. OnWay(k, p, i, n) \notin D
      BY <3>1, <3>2 DEF Reaches
    <3>5. QED
      BY <3>3, <3>4 DEF OnWay
  <2>3. CASE i < Len(k)
    <3>1. i + 1 \in 1..Len(k)
      BY <1>2, <2>3
    <3>2. Len(k[i + 1]) <= m - 1 /\ k[i + 1] = j[i + 1] /\ Len(k[i + 1]) \in Nat
      BY <1>2, <1>3, <3>1 DEF Reaches, Point, Path
    <3>3. n <= m - 1
      <4>1. n < Len(j[i + 1])
        BY <1>2, <1>3, <2>1, <2>3
      <4>2. QED
        BY <3>2, <4>1
    <3>4. QED
      BY <2>2, <2>3, <3>3, <1>2
  <2>4. CASE i = Len(k) /\ i < Len(j)
    <3>1. j[i + 1] = q
      BY <1>2, <1>3, <2>4
    <3>2. n <= m - 1
      BY <1>1, <2>1, <2>4, <3>1
    <3>3. QED
      BY <1>2, <2>2, <2>4, <3>2
  <2>5. CASE i > Len(k) /\ i < Len(j)
    <3>1. j[i] = q /\ j[i + 1] = q
      BY <1>2, <1>3, <2>5
    <3>2. m <= n /\ n < m
      BY <1>1, <1>2, <2>1, <2>5, <3>1
    <3>3. QED
      BY <3>2
  <2>6. CASE i = Len(j)
    <3>1. CASE n = m
      <4>1. SubSeq(j, 1, i) = j
        BY <1>2, <2>6
      <4>2. QED
        BY <3>1, <4>1 DEF OnWay
    <3>2. CASE n # m /\ i = Len(k)
      BY <1>2, <2>2, <3>2
    <3>3. CASE n # m /\ i # Len(k)
      <4>1. j[i] = q
        BY <1>2, <1>3, <2>6, <3>3
      <4>2. m <= n
        BY <1>1, <1>2, <1>3, <2>1, <2>6, <3>3, <4>1
      <4>3. QED
        BY <3>3, <4>2
    <3>4. QED
      BY <3>1, <3>2, <3>3
  <2>7. QED
    BY <1>2, <1>3, <2>3, <2>4, <2>5, <2>6
<1>6. QED
  BY <1>2, <1>4, <1>5 DEF Reaches

\* A path leads to one mount at most.
LEMMA OneReached ==
  ASSUME NEW D, Keys(D), NEW p \in Path, NEW k, NEW j,
         Reaches(D, p, Len(p), k), Reaches(D, p, Len(p), j)
  PROVE  k = j
<1> DEFINE Same(i) == i <= Len(k) /\ i <= Len(j) /\ SubSeq(k, 1, i) = SubSeq(j, 1, i)
<1>1. /\ k \in Seq(Point) /\ (k \in D \/ k = <<>>) /\ Len(k) \in Nat
      /\ j \in Seq(Point) /\ (j \in D \/ j = <<>>) /\ Len(j) \in Nat
  BY DEF Reaches
<1>2. \* Where one goes on, the other does so to the same mount.
      ASSUME NEW a, NEW b, Reaches(D, p, Len(p), a), Reaches(D, p, Len(p), b), NEW i \in 1..Len(a),
             i - 1 <= Len(b), SubSeq(a, 1, i - 1) = SubSeq(b, 1, i - 1),
             i <= Len(b) => Len(a[i]) <= Len(b[i])
      PROVE  i <= Len(b) /\ SubSeq(a, 1, i) = SubSeq(b, 1, i)
  <2>1. /\ a \in Seq(Point) /\ Len(a) \in Nat /\ a \in D
        /\ b \in Seq(Point) /\ Len(b) \in Nat
    BY <1>2 DEF Reaches
  <2>2. /\ a[i] \in Point /\ Len(a[i]) \in 1..Len(p) /\ a[i] = SubSeq(p, 1, Len(a[i]))
    <3>1. a[i] \in Point /\ Len(a[i]) <= Len(p) /\ a[i] = SubSeq(p, 1, Len(a[i]))
      BY <1>2, <2>1 DEF Reaches
    <3>2. Len(a[i]) \in Nat /\ Len(a[i]) # 0 /\ Len(p) \in Nat
      BY <3>1 DEF Point, Path
    <3>3. QED
      BY <3>1, <3>2
  <2>3. SubSeq(a, 1, i) = OnWay(b, p, i - 1, Len(a[i]))
    <3>1. SubSeq(a, 1, i) = Append(SubSeq(a, 1, i - 1), a[i])
      <4>1. i \in 0..Len(a) /\ i - 1 \in 0..Len(a)
        BY <2>1
      <4>2. /\ SubSeq(a, 1, i) \in Seq(Point) /\ Len(SubSeq(a, 1, i)) = i
            /\ \A x \in 1..i : SubSeq(a, 1, i)[x] = a[x]
            /\ SubSeq(a, 1, i - 1) \in Seq(Point) /\ Len(SubSeq(a, 1, i - 1)) = i - 1
            /\ \A x \in 1..(i - 1) : SubSeq(a, 1, i - 1)[x] = a[x]
        BY <2>1, <4>1, StartIs
      <4>3. QED
        BY <2>2, <4>2
    <3>2. QED
      BY <1>2, <2>2, <3>1 DEF OnWay
  <2>4. SubSeq(a, 1, i) \in D
    BY <2>1 DEF Keys
  <2>5. ~Fits(b, i - 1, Len(a[i]))
    <3>1. i - 1 \in 0..Len(b)
      BY <1>2, <2>1
    <3>2. QED
      BY <1>2, <2>2, <2>3, <2>4, <3>1 DEF Reaches
  <2>6. i - 1 > 0 => Len(b[i - 1]) <= Len(a[i])
    <3>1. ASSUME i - 1 > 0
          PROVE  Len(b[i - 1]) <= Len(a[i])
      <4>1. i - 1 \in 1..Len(a) /\ i - 1 \in 1..Len(b) /\ i - 1 <= i
        BY <1>2, <2>1, <3>1
      <4>2. a[i - 1] = b[i - 1]
        <5>1. i - 1 \in 0..Len(a) /\ i - 1 \in 0..Len(b) /\ i - 1 \in 1..(i - 1)
          BY <4>1
        <5>2. SubSeq(a, 1, i - 1)[i - 1] = a[i - 1]
          BY <2>1, <5>1, StartIs
        <5>3. SubSeq(b, 1, i - 1)[i - 1] = b[i - 1]
          BY <2>1, <5>1, StartIs
        <5>4. QED
          BY <1>2, <5>2, <5>3
      <4>3. IsPrefix(a[i - 1], a[i])
        BY <2>1, <4>1 DEF Keys
      <4>4. a[i - 1] \in Seq(Name) /\ a[i] \in Seq(Name)
        BY <2>1, <4>1 DEF Point, Path
      <4>5. QED
        BY <4>2, <4>3, <4>4, PrefixIs
    <3>2. QED
      BY <3>1
  <2>7. i - 1 < Len(b) /\ ~(Len(a[i]) < Len(b[i]))
    <3>1. (i - 1) + 1 = i
      BY <2>1
    <3>2. QED
      BY <2>5, <2>6, <3>1 DEF Fits
  <2>8. i <= Len(b) /\ i \in 1..Len(b)
    BY <2>1, <2>7
  <2>9. a[i] = b[i]
    <3>1. Len(b[i]) \in Nat /\ b[i] = SubSeq(p, 1, Len(b[i]))
      <4>1. b[i] \in Point /\ b[i] = SubSeq(p, 1, Len(b[i]))
        BY <1>2, <2>1, <2>8 DEF Reaches
      <4>2. Len(b[i]) \in Nat
        BY <4>1 DEF Point, Path
      <4>3. QED
        BY <4>1, <4>2
    <3>2. Len(a[i]) = Len(b[i])
      BY <1>2, <2>2, <2>7, <2>8, <3>1
    <3>3. QED
      BY <2>2, <3>1, <3>2
  <2>10. SubSeq(a, 1, i) = SubSeq(b, 1, i)
    <3>1. i \in 0..Len(a) /\ i \in 0..Len(b) /\ i - 1 \in 0..Len(a) /\ i - 1 \in 0..Len(b)
      BY <2>1, <2>8
    <3>2. /\ SubSeq(a, 1, i) \in Seq(Point) /\ Len(SubSeq(a, 1, i)) = i
          /\ \A x \in 1..i : SubSeq(a, 1, i)[x] = a[x]
          /\ \A x \in 1..(i - 1) : SubSeq(a, 1, i - 1)[x] = a[x]
      BY <2>1, <3>1, StartIs
    <3>3. /\ SubSeq(b, 1, i) \in Seq(Point) /\ Len(SubSeq(b, 1, i)) = i
          /\ \A x \in 1..i : SubSeq(b, 1, i)[x] = b[x]
          /\ \A x \in 1..(i - 1) : SubSeq(b, 1, i - 1)[x] = b[x]
      BY <2>1, <3>1, StartIs
    <3>4. \A x \in 1..i : a[x] = b[x]
      <4>1. TAKE x \in 1..i
      <4>2. CASE x = i
        BY <2>9, <4>2
      <4>3. CASE x # i
        <5>1. x \in 1..(i - 1)
          BY <4>3
        <5>2. QED
          BY <1>2, <3>2, <3>3, <5>1
      <4>4. QED
        BY <4>2, <4>3
    <3>5. QED
      BY <3>2, <3>3, <3>4
  <2>11. QED
    BY <2>8, <2>10
<1>3. ASSUME NEW i \in 1..Len(k), Same(i - 1)
      PROVE  Same(i)
  <2>1. CASE i <= Len(j) => Len(k[i]) <= Len(j[i])
    BY <1>1, <1>2, <1>3, <2>1
  <2>2. CASE i <= Len(j) /\ ~(Len(k[i]) <= Len(j[i]))
    <3>1. i \in 1..Len(j) /\ Len(j[i]) <= Len(k[i])
      <4>1. i \in 1..Len(j)
        BY <1>1, <2>2
      <4>2. Len(k[i]) \in Nat /\ Len(j[i]) \in Nat
        BY <1>1, <4>1 DEF Point, Path
      <4>3. QED
        BY <2>2, <4>1, <4>2
    <3>2. QED
      BY <1>1, <1>2, <1>3, <3>1
  <2>3. QED
    BY <2>1, <2>2
<1>4. Same(Len(k))
  <2>1. Same(0)
    BY <1>1
  <2> DEFINE Some == {i \in 0..Len(k) : Same(i)}
  <2>2. 0 \in Some /\ \A i \in 1..Len(k) : i - 1 \in Some => i \in Some
    <3>1. \A i \in 1..Len(k) : i - 1 \in Some => i \in Some
      BY <1>1, <1>3
    <3>2. QED
      BY <1>1, <2>1, <3>1
  <2>3. Len(k) \in Some
    <3> HIDE DEF Some
    <3>1. \A i \in 0..Len(k) : i \in Some
      BY <1>1, <2>2, UpTo
    <3>2. QED
      BY <1>1, <3>1
  <2>4. QED
    BY <2>3
<1>5. Len(j) = Len(k)
  <2>1. SUFFICES ASSUME Len(k) < Len(j)
                 PROVE  FALSE
    BY <1>1, <1>4
  <2>2. Len(k) + 1 \in 1..Len(j) /\ (Len(k) + 1) - 1 = Len(k)
    BY <1>1, <2>1
  <2>3. Len(k) + 1 <= Len(k)
    BY <1>1, <1>2, <1>4, <2>2
  <2>4. QED
    BY <1>1, <2>3
<1>6. QED
  BY <1>1, <1>4, <1>5

\* The walk of Top.
Last1(D, k, q) == CHOOSE j \in Stack(D, k, q) : Append(j, q) \notin D
IsWalk(w, D, p) == w = [n \in 0..Len(p) |->
      IF n = 0 THEN <<>> ELSE Last1(D, w[n - 1], SubSeq(p, 1, n))]

LEMMA WalkExists ==
  ASSUME NEW D, Keys(D), NEW p \in Path
  PROVE  \E w : IsWalk(w, D, p)
<1>1. PICK m \in Nat : m = Len(p)
  BY DEF Path
<1> DEFINE A == D \union {<<>>}
<1> DEFINE step == [i \in 1..m |-> [k \in A |-> Last1(D, k, SubSeq(p, 1, i))]]
<1>2. step \in [1..m -> [A -> A]]
  <2>1. ASSUME NEW i \in 1..m, NEW k \in A
        PROVE  Last1(D, k, SubSeq(p, 1, i)) \in A
    <3>1. k \in Seq(Point) /\ SubSeq(p, 1, i) \in Point
      <4>1. <<>> \in Seq(Point) /\ D \subseteq Seq(Point)
        BY DEF Keys
      <4>2. k \in Seq(Point)
        BY <4>1
      <4>3. QED
        BY <1>1, <4>2, FirstNames
    <3>2. Last1(D, k, SubSeq(p, 1, i)) \in Stack(D, k, SubSeq(p, 1, i))
      BY <3>1, LastStacked DEF Last1
    <3>3. QED
      BY <3>2 DEF Stack
  <2>2. QED
    BY <2>1
<1>3. <<>> \in A
  OBVIOUS
<1> HIDE DEF A, step
<1>4. PICK g : FoldsIn(A, g, m, <<>>, step)
  BY <1>2, <1>3, FoldExists DEF FoldsIn
<1>5. g[1..0] = <<>> /\ \A i \in 1..m : g[1..(i - 1)] \in A /\ g[1..i] = step[i][g[1..(i - 1)]]
  BY <1>4, FoldRuns
<1> DEFINE w == [n \in 0..m |-> g[1..n]]
<1>6. \A n \in 0..m : w[n] = IF n = 0 THEN <<>> ELSE Last1(D, w[n - 1], SubSeq(p, 1, n))
  <2>1. TAKE n \in 0..m
  <2>2. CASE n = 0
    BY <1>5, <2>2
  <2>3. CASE n # 0
    <3>1. n \in 1..m /\ n - 1 \in 0..m
      BY <2>3
    <3>2. g[1..(n - 1)] \in A /\ g[1..n] = step[n][g[1..(n - 1)]]
            /\ w[n - 1] = g[1..(n - 1)] /\ w[n] = g[1..n]
      BY <1>5, <3>1
    <3>3. step[n][g[1..(n - 1)]] = Last1(D, g[1..(n - 1)], SubSeq(p, 1, n))
      BY <3>1, <3>2 DEF step
    <3>4. QED
      BY <2>3, <3>2, <3>3
  <2>4. QED
    BY <2>2, <2>3
<1>7. IsWalk(w, D, p)
  <2>1. w = [n \in 0..m |-> w[n]]
    OBVIOUS
  <2> HIDE DEF w
  <2>2. QED
    BY <1>1, <1>6, <2>1 DEF IsWalk
<1>8. QED
  BY <1>7

\* Top follows the walk.
LEMMA TopReached ==
  ASSUME NEW t, Keys(DOMAIN t), NEW p \in Path
  PROVE  Reaches(DOMAIN t, p, Len(p), Top(t, p))
<1> DEFINE D == DOMAIN t
<1> DEFINE w == CHOOSE x : IsWalk(x, D, p)
<1>1. IsWalk(w, D, p)
  BY WalkExists
<1>2. Top(t, p) = w[Len(p)]
  BY DEF Top, IsWalk, Last1, Stack
<1> HIDE DEF w
<1>3. Len(p) \in Nat
  BY DEF Path
<1>4. w[0] = <<>> /\ \A n \in 1..Len(p) : w[n] = Last1(D, w[n - 1], SubSeq(p, 1, n))
  <2>1. \A n \in 0..Len(p) : w[n] = IF n = 0 THEN <<>> ELSE Last1(D, w[n - 1], SubSeq(p, 1, n))
    <3> DEFINE v == [n \in 0..Len(p) |->
          IF n = 0 THEN <<>> ELSE Last1(D, w[n - 1], SubSeq(p, 1, n))]
    <3>1. w = v
      BY <1>1 DEF IsWalk
    <3>2. \A n \in 0..Len(p) : v[n] = IF n = 0 THEN <<>> ELSE Last1(D, w[n - 1], SubSeq(p, 1, n))
      OBVIOUS
    <3> HIDE DEF v
    <3>3. QED
      BY <3>1, <3>2
  <2>2. 0 \in 0..Len(p) /\ \A n \in 1..Len(p) : n \in 0..Len(p) /\ n # 0
    BY <1>3
  <2>3. QED
    BY <2>1, <2>2
<1> DEFINE Some == {n \in 0..Len(p) : Reaches(D, p, n, w[n])}
<1>5. 0 \in Some
  <2>1. <<>> \in Seq(Point) /\ Len(<<>>) = 0 /\ 1..0 = {}
    OBVIOUS
  <2>2. Reaches(D, p, 0, <<>>)
    BY <2>1 DEF Reaches
  <2>3. QED
    BY <1>3, <1>4, <2>2
<1>6. ASSUME NEW n \in 1..Len(p), n - 1 \in Some
      PROVE  n \in Some
  <2>1. Reaches(D, p, n - 1, w[n - 1])
    BY <1>6
  <2>2. w[n - 1] \in Seq(Point) /\ SubSeq(p, 1, n) \in Point
    BY <2>1, FirstNames DEF Reaches
  <2>3. PICK j \in Stack(D, w[n - 1], SubSeq(p, 1, n)) : Append(j, SubSeq(p, 1, n)) \notin D
    BY <2>2, LastStacked
  <2>4. w[n] \in Stack(D, w[n - 1], SubSeq(p, 1, n)) /\ Append(w[n], SubSeq(p, 1, n)) \notin D
    BY <1>4, <2>3 DEF Last1
  <2>5. Reaches(D, p, n, w[n])
    BY <2>1, <2>4, WalkOn
  <2>6. QED
    BY <1>3, <2>5
<1>7. Len(p) \in Some
  <2>1. \A n \in 1..Len(p) : n - 1 \in Some => n \in Some
    BY <1>6
  <2> HIDE DEF Some
  <2>2. \A n \in 0..Len(p) : n \in Some
    BY <1>3, <1>5, <2>1, UpTo
  <2>3. QED
    BY <1>3, <2>2
<1>8. QED
  BY <1>2, <1>7

-----------------------------------------------------------------------------
(* Which mounts hide another, and what the operations do to a tree. *)

\* On the way to the path of j, the walk leaves j's chain for x.
Hides(x, j) ==
  \E i \in 0..Len(j), n \in 1..Len(Last(j)) : Fits(j, i, n) /\ x = OnWay(j, Last(j), i, n)

\* Where a mount is.
LEMMA LastIs ==
  ASSUME NEW j \in Seq(Point), j # <<>>
  PROVE  /\ Len(j) \in Nat /\ Len(j) >= 1 /\ Len(j) \in 1..Len(j) /\ Last(j) = j[Len(j)]
         /\ Last(j) \in Point /\ Last(j) \in Path /\ Last(j) \in Seq(Name) /\ Len(Last(j)) \in Nat
         /\ Len(Last(j)) >= 1
<1>1. Len(j) \in Nat /\ Len(j) >= 1
  OBVIOUS
<1>2. Last(j) = j[Len(j)] /\ j[Len(j)] \in Point
  BY <1>1 DEF Last
<1>3. Len(Last(j)) \in Nat /\ Len(Last(j)) >= 1
  BY <1>2 DEF Point, Path
<1>4. QED
  BY <1>1, <1>2, <1>3 DEF Point, Path

\* A mount that hides another is at a path to it.
LEMMA HidesIs ==
  ASSUME NEW j \in Seq(Point), j # <<>>, NEW x, Hides(x, j)
  PROVE  /\ x \in Seq(Point) /\ x # <<>> /\ IsPrefix(Last(x), Last(j))
         /\ x # j
<1> DEFINE p == Last(j)
<1>1. /\ Len(j) \in Nat /\ Len(j) >= 1 /\ p = j[Len(j)]
      /\ p \in Path /\ p \in Seq(Name) /\ Len(p) \in Nat
  BY LastIs
<1>2. PICK i \in 0..Len(j), n \in 1..Len(p) : Fits(j, i, n) /\ x = OnWay(j, p, i, n)
  BY DEF Hides
<1>3. SubSeq(j, 1, i) \in Seq(Point) /\ Len(SubSeq(j, 1, i)) = i
  BY StartIs
<1>4. SubSeq(p, 1, n) \in Point /\ Len(SubSeq(p, 1, n)) = n
  BY <1>1, FirstNames
<1>5. x \in Seq(Point) /\ Len(x) = i + 1 /\ x[i + 1] = SubSeq(p, 1, n)
  BY <1>2, <1>3, <1>4 DEF OnWay
<1>6. x # <<>> /\ Last(x) = SubSeq(p, 1, n)
  BY <1>5 DEF Last
<1>7. IsPrefix(Last(x), p)
  <2>1. Last(x) \in Seq(Name) /\ Len(Last(x)) = n /\ n <= Len(p)
    BY <1>1, <1>4, <1>6 DEF Point, Path
  <2>2. Last(x) = SubSeq(p, 1, Len(Last(x)))
    BY <1>6, <2>1
  <2>3. QED
    BY <1>1, <2>1, <2>2, PrefixIs
<1>8. ASSUME x = j
      PROVE  FALSE
  <2>1. Len(j) = i + 1 /\ i < Len(j) /\ j[i + 1] = p
    BY <1>1, <1>5, <1>8
  <2>2. n < Len(p)
    BY <1>2, <2>1 DEF Fits
  <2>3. n = Len(p)
    BY <1>4, <1>5, <1>8, <2>1
  <2>4. QED
    BY <2>2, <2>3
<1>9. QED
  BY <1>5, <1>6, <1>7, <1>8

\* A mount that none hides is the one its path shows.
LEMMA UnhiddenShows ==
  ASSUME NEW t, Keys(DOMAIN t), NEW j \in DOMAIN t, \A x \in DOMAIN t : ~Hides(x, j)
  PROVE  Top(t, Last(j)) = j
<1> DEFINE D == DOMAIN t
<1> DEFINE p == Last(j)
<1>1. j \in Seq(Point) /\ j # <<>>
  BY DEF Keys
<1>2. /\ Len(j) \in Nat /\ Len(j) \in 1..Len(j) /\ p = j[Len(j)]
      /\ p \in Path /\ p \in Seq(Name) /\ Len(p) \in Nat
  BY <1>1, LastIs
<1>3. \A i \in 1..Len(j) : Len(j[i]) <= Len(p) /\ j[i] = SubSeq(p, 1, Len(j[i]))
  <2>1. TAKE i \in 1..Len(j)
  <2>2. IsPrefix(j[i], p) /\ j[i] \in Seq(Name)
    <3>1. IsPrefix(j[i], j[Len(j)])
      BY <1>2 DEF Keys
    <3>2. QED
      BY <1>1, <1>2, <3>1 DEF Point, Path
  <2>3. QED
    BY <1>2, <2>2, PrefixIs
<1>4. \A i \in 0..Len(j), n \in 1..Len(p) : Fits(j, i, n) => OnWay(j, p, i, n) \notin D
  BY DEF Hides
<1>5. Reaches(D, p, Len(p), j)
  BY <1>1, <1>3, <1>4 DEF Reaches
<1>6. QED
  BY <1>2, <1>5, OneReached, TopReached

\* k is the mount that attaching at p makes, and u the tree.
Attaches(t, p, what, k, u) ==
  TreeOK(t) /\ p \in Point /\ k = Append(Top(t, p), p) /\ u = Attach(t, p, what)

\* The mount that is attached is shown, and no other is changed.
LEMMA AttachIs ==
  ASSUME NEW t, NEW p, NEW what, NEW k, NEW u, Attaches(t, p, what, k, u)
  PROVE  /\ DOMAIN u = DOMAIN t \union {k} /\ k \notin DOMAIN t
         /\ u[k] = what /\ \A j \in DOMAIN t : u[j] = t[j]
         /\ Last(k) = p /\ TreeOK(u) /\ \A x \in DOMAIN u : ~Hides(x, k)
<1> DEFINE D == DOMAIN t
<1> DEFINE T == Top(t, p)
<1> USE DEF Attaches
<1>1. p \in Path /\ p \in Seq(Name) /\ Len(p) \in Nat /\ Len(p) >= 1 /\ SubSeq(p, 1, Len(p)) = p
  BY DEF Point, Path
<1>2. Keys(D) /\ t = [j \in D |-> t[j]]
  BY DEF TreeOK
<1>3. Reaches(D, p, Len(p), T)
  BY <1>1, <1>2, TopReached
<1> HIDE DEF T
<1>4. /\ T \in Seq(Point) /\ (T \in D \/ T = <<>>) /\ Len(T) \in Nat
      /\ \A i \in 1..Len(T) : Len(T[i]) <= Len(p) /\ T[i] = SubSeq(p, 1, Len(T[i]))
      /\ \A i \in 0..Len(T), n \in 1..Len(p) : Fits(T, i, n) => OnWay(T, p, i, n) \notin D
  BY <1>3 DEF Reaches
<1>5. /\ k \in Seq(Point) /\ Len(k) = Len(T) + 1 /\ k[Len(T) + 1] = p /\ k # <<>>
      /\ \A i \in 1..Len(T) : k[i] = T[i]
  BY <1>4 DEF T
<1>6. Last(k) = p
  BY <1>4, <1>5 DEF Last
<1>7. \A i \in 0..Len(T) : SubSeq(k, 1, i) = SubSeq(T, 1, i)
  <2>1. TAKE i \in 0..Len(T)
  <2>2. i \in 0..Len(k)
    BY <1>4, <1>5
  <2>3. /\ SubSeq(k, 1, i) \in Seq(Point) /\ Len(SubSeq(k, 1, i)) = i
        /\ \A y \in 1..i : SubSeq(k, 1, i)[y] = k[y]
    BY <1>5, <2>2, StartIs
  <2>4. /\ SubSeq(T, 1, i) \in Seq(Point) /\ Len(SubSeq(T, 1, i)) = i
        /\ \A y \in 1..i : SubSeq(T, 1, i)[y] = T[y]
    BY <1>4, StartIs
  <2>5. \A y \in 1..i : y \in 1..Len(T)
    BY <1>4
  <2>6. QED
    BY <1>5, <2>3, <2>4, <2>5
<1>8. k \notin D
  <2>1. Len(T) \in 0..Len(T) /\ Len(p) \in 1..Len(p) /\ SubSeq(T, 1, Len(T)) = T
    BY <1>1, <1>4
  <2>2. Fits(T, Len(T), Len(p))
    <3>1. Len(T) > 0 => Len(T[Len(T)]) <= Len(p)
      BY <1>4
    <3>2. ~(Len(T) < Len(T))
      BY <1>4
    <3>3. QED
      BY <3>1, <3>2 DEF Fits
  <2>3. OnWay(T, p, Len(T), Len(p)) = k
    BY <1>1, <2>1 DEF OnWay, T
  <2>4. QED
    BY <1>4, <2>1, <2>2, <2>3
<1>9. /\ DOMAIN u = D \union {k} /\ u[k] = what /\ \A j \in D : u[j] = t[j]
      /\ u = [j \in DOMAIN u |-> u[j]]
  <2>1. u = [j \in D \union {k} |-> IF j = k THEN what ELSE t[j]]
    BY DEF Attach, T
  <2>2. QED
    BY <1>8, <2>1
<1>10. Keys(D \union {k})
  <2>1. IsFiniteSet(D \union {k}) /\ D \union {k} \subseteq Seq(Point)
    BY <1>2, <1>5, FS_AddElement DEF Keys
  <2>2. \A i, j \in 1..Len(k) : i <= j => IsPrefix(k[i], k[j])
    <3>1. TAKE i, j \in 1..Len(k)
    <3>2. HAVE i <= j
    <3>3. CASE j <= Len(T)
      <4>1. i \in 1..Len(T) /\ j \in 1..Len(T)
        BY <1>4, <1>5, <3>2, <3>3
      <4>2. T \in D
        BY <1>4, <4>1
      <4>3. IsPrefix(T[i], T[j])
        BY <1>2, <3>2, <4>1, <4>2 DEF Keys
      <4>4. QED
        BY <1>5, <4>1, <4>3
    <3>4. CASE ~(j <= Len(T))
      <4>1. j = Len(T) + 1 /\ k[j] = p
        BY <1>4, <1>5, <3>4
      <4>2. CASE i = j
        BY <1>1, <4>1, <4>2, PrefixOrder
      <4>3. CASE i # j
        <5>1. i \in 1..Len(T)
          BY <1>4, <1>5, <3>2, <4>1, <4>3
        <5>2. k[i] \in Seq(Name) /\ Len(k[i]) <= Len(p) /\ k[i] = SubSeq(p, 1, Len(k[i]))
          BY <1>4, <1>5, <5>1 DEF Point, Path
        <5>3. QED
          BY <1>1, <4>1, <5>2, PrefixIs
      <4>4. QED
        BY <4>2, <4>3
    <3>5. QED
      BY <3>3, <3>4
  <2>3. \A n \in 1..Len(k) : SubSeq(k, 1, n) \in D \union {k}
    <3>1. TAKE n \in 1..Len(k)
    <3>2. CASE n = Len(k)
      BY <1>5, <3>2
    <3>3. CASE n # Len(k)
      <4>1. n \in 1..Len(T) /\ n \in 0..Len(T)
        BY <1>4, <1>5, <3>3
      <4>2. T \in D
        BY <1>4, <4>1
      <4>3. SubSeq(T, 1, n) \in D
        BY <1>2, <4>1, <4>2 DEF Keys
      <4>4. QED
        BY <1>7, <4>1, <4>3
    <3>4. QED
      BY <3>2, <3>3
  <2>4. \A j \in D :
          /\ j # <<>>
          /\ \A i, y \in 1..Len(j) : i <= y => IsPrefix(j[i], j[y])
          /\ \A n \in 1..Len(j) : SubSeq(j, 1, n) \in D
    BY <1>2 DEF Keys
  <2>5. QED
    BY <1>5, <2>1, <2>2, <2>3, <2>4 DEF Keys
<1>11. ASSUME NEW x \in D \union {k}, Hides(x, k)
       PROVE  FALSE
  <2>1. PICK i \in 0..Len(k), n \in 1..Len(p) : Fits(k, i, n) /\ x = OnWay(k, p, i, n)
    BY <1>6, <1>11 DEF Hides
  <2>2. x # k
    BY <1>5, <1>11, HidesIs
  <2>3. CASE i <= Len(T)
    <3>1. i \in 0..Len(T)
      BY <1>4, <2>3
    <3>2. Fits(T, i, n)
      <4>1. i > 0 => i \in 1..Len(T) /\ T[i] = k[i]
        BY <1>4, <1>5, <3>1
      <4>2. i < Len(T) => i < Len(k) /\ T[i + 1] = k[i + 1]
        BY <1>4, <1>5, <3>1
      <4>3. QED
        BY <2>1, <4>1, <4>2 DEF Fits
    <3>3. OnWay(k, p, i, n) = OnWay(T, p, i, n)
      BY <1>7, <3>1 DEF OnWay
    <3>4. QED
      BY <1>4, <1>11, <2>1, <2>2, <3>1, <3>2, <3>3
  <2>4. CASE ~(i <= Len(T))
    <3>1. i = Len(k) /\ SubSeq(k, 1, i) = k
      BY <1>4, <1>5, <2>4
    <3>2. SubSeq(p, 1, n) \in Point
      BY <1>1, FirstNames
    <3>3. x = Append(k, SubSeq(p, 1, n))
      BY <2>1, <3>1 DEF OnWay
    <3>4. /\ x \in Seq(Point) /\ Len(x) = Len(k) + 1 /\ Len(k) \in Nat
          /\ \A y \in 1..Len(k) : x[y] = k[y]
      BY <1>5, <3>2, <3>3
    <3>5. SubSeq(x, 1, Len(k)) = k
      <4>1. Len(k) \in 0..Len(x)
        BY <3>4
      <4>2. /\ SubSeq(x, 1, Len(k)) \in Seq(Point) /\ Len(SubSeq(x, 1, Len(k))) = Len(k)
            /\ \A y \in 1..Len(k) : SubSeq(x, 1, Len(k))[y] = x[y]
        BY <3>4, <4>1, StartIs
      <4>3. QED
        BY <1>5, <3>4, <4>2
    <3>6. Len(k) \in 1..Len(x) /\ x \in D
      BY <1>4, <1>5, <1>11, <2>2, <3>4
    <3>7. k \in D
      BY <1>2, <3>5, <3>6 DEF Keys
    <3>8. QED
      BY <1>8, <3>7
  <2>5. QED
    BY <2>3, <2>4
<1>12. QED
  BY <1>6, <1>8, <1>9, <1>10, <1>11 DEF TreeOK

\* The mount that a mount point shows is one on it.
LEMMA PointIs ==
  ASSUME NEW t, Keys(DOMAIN t), NEW p \in Point, IsMountPoint(t, p), NEW k, k = Top(t, p)
  PROVE  k \in DOMAIN t /\ k \in Seq(Point) /\ k # <<>> /\ Last(k) = p
<1>1. Reaches(DOMAIN t, p, Len(p), Top(t, p))
  BY TopReached DEF Point
<1>2. Top(t, p) # <<>> /\ Last(Top(t, p)) = p
  BY DEF IsMountPoint
<1>3. QED
  BY <1>1, <1>2 DEF Reaches

\* u has the mounts of t but for those at and below the paths in P, and new ones only at P.
Untouched(t, u, P) ==
  /\ \A j \in DOMAIN t : (\A p \in P : ~IsPrefix(p, Last(j))) => j \in DOMAIN u /\ u[j] = t[j]
  /\ \A x \in DOMAIN u : x \notin DOMAIN t => Last(x) \in P

\* What is on a mount is at or below its path.
LEMMA SubtreeBelow ==
  ASSUME NEW D, Keys(D), NEW k \in Seq(Point), k # <<>>, NEW j \in D, IsPrefix(k, j)
  PROVE  IsPrefix(Last(k), Last(j))
<1>1. j \in Seq(Point) /\ j # <<>>
  BY DEF Keys
<1>2. /\ Len(k) \in Nat /\ Len(k) >= 1 /\ Last(k) = k[Len(k)]
      /\ Len(j) \in Nat /\ Len(j) >= 1 /\ Last(j) = j[Len(j)]
  BY <1>1, LastIs
<1>3. Len(k) <= Len(j) /\ \A i \in 1..Len(k) : k[i] = j[i]
  BY <1>1, PrefixIs
<1>4. Len(k) \in 1..Len(k) /\ Len(k) \in 1..Len(j) /\ Len(j) \in 1..Len(j)
  BY <1>2, <1>3
<1>5. IsPrefix(j[Len(k)], j[Len(j)])
  BY <1>3, <1>4 DEF Keys
<1>6. QED
  BY <1>2, <1>3, <1>4, <1>5

\* Less of a tree is one, when what is on a mount goes with it.
LEMMA LessIsTree ==
  ASSUME NEW D, Keys(D), NEW k
  PROVE  Keys({j \in D : ~IsPrefix(k, j)}) \/ k \notin Seq(Point)
<1> DEFINE E == {j \in D : ~IsPrefix(k, j)}
<1>1. SUFFICES ASSUME k \in Seq(Point)
               PROVE  Keys(E)
  OBVIOUS
<1>2. IsFiniteSet(E) /\ E \subseteq Seq(Point)
  BY FS_Subset DEF Keys
<1>3. ASSUME NEW j \in E
      PROVE  /\ j # <<>>
             /\ \A i, y \in 1..Len(j) : i <= y => IsPrefix(j[i], j[y])
             /\ \A n \in 1..Len(j) : SubSeq(j, 1, n) \in E
  <2>1. /\ j \in D /\ j # <<>> /\ j \in Seq(Point)
        /\ \A i, y \in 1..Len(j) : i <= y => IsPrefix(j[i], j[y])
        /\ \A n \in 1..Len(j) : SubSeq(j, 1, n) \in D
    BY DEF Keys
  <2>2. ASSUME NEW n \in 1..Len(j)
        PROVE  ~IsPrefix(k, SubSeq(j, 1, n))
    <3>1. n \in 0..Len(j) /\ n <= Len(j) /\ Len(j) \in Nat
      BY <2>1
    <3>2. SubSeq(j, 1, n) \in Seq(Point) /\ Len(SubSeq(j, 1, n)) = n
      BY <2>1, <3>1, StartIs
    <3>3. IsPrefix(SubSeq(j, 1, n), j)
      BY <2>1, <3>1, <3>2, PrefixIs
    <3>4. ~IsPrefix(k, j)
      OBVIOUS
    <3>5. QED
      BY <1>1, <2>1, <3>2, <3>3, <3>4, PrefixOrder
  <2>3. QED
    BY <2>1, <2>2
<1>4. QED
  <2> HIDE DEF E
  <2>1. QED
    BY <1>2, <1>3 DEF Keys

\* What Detach leaves.
LEMMA DetachIs ==
  ASSUME NEW t, TreeOK(t), NEW p \in Point, IsMountPoint(t, p), NEW u, u = Detach(t, p)
  PROVE  /\ DOMAIN u = DOMAIN t \ Subtree(t, Top(t, p)) /\ \A j \in DOMAIN u : u[j] = t[j]
         /\ TreeOK(u) /\ Untouched(t, u, {p})
<1> DEFINE k == Top(t, p)
<1>1. Keys(DOMAIN t)
  BY DEF TreeOK
<1>2. k \in DOMAIN t /\ k \in Seq(Point) /\ k # <<>> /\ Last(k) = p
  BY <1>1, PointIs
<1> HIDE DEF k
<1>3. u = [j \in DOMAIN t \ Subtree(t, k) |-> t[j]]
  BY DEF Detach, Without, k
<1>4. /\ DOMAIN u = DOMAIN t \ Subtree(t, k) /\ \A j \in DOMAIN u : u[j] = t[j]
      /\ u = [j \in DOMAIN u |-> u[j]]
  BY <1>3
<1>5. DOMAIN u = {j \in DOMAIN t : ~IsPrefix(k, j)}
  BY <1>4 DEF Subtree
<1>6. TreeOK(u)
  BY <1>1, <1>2, <1>4, <1>5, LessIsTree DEF TreeOK
<1>7. ASSUME NEW j \in DOMAIN t, ~IsPrefix(p, Last(j))
      PROVE  j \in DOMAIN u /\ u[j] = t[j]
  BY <1>1, <1>2, <1>4, <1>5, <1>7, SubtreeBelow
<1>8. QED
  BY <1>4, <1>6, <1>7 DEF Untouched, k

\* What Replace does.
LEMMA ReplaceIs ==
  ASSUME NEW t, TreeOK(t), NEW p \in Point, IsMountPoint(t, p), NEW what, NEW u, u = Replace(t,
         p, what)
  PROVE  TreeOK(u) /\ Untouched(t, u, {p})
<1> DEFINE k == Top(t, p)
<1> DEFINE v == Detach(t, p)
<1>1. Keys(DOMAIN t)
  BY DEF TreeOK
<1>2. k \in DOMAIN t /\ k \in Seq(Point) /\ k # <<>> /\ Last(k) = p
  BY <1>1, PointIs
<1>3. /\ DOMAIN v = DOMAIN t \ Subtree(t, k) /\ \A j \in DOMAIN v : v[j] = t[j]
      /\ TreeOK(v) /\ Untouched(t, v, {p})
  BY DetachIs
<1>4. u = [j \in DOMAIN v \union {k} |-> IF j = k THEN what ELSE t[j]]
  BY DEF Replace
<1> HIDE DEF k, v
<1>5. /\ DOMAIN u = DOMAIN v \union {k} /\ u = [j \in DOMAIN u |-> u[j]]
      /\ \A j \in DOMAIN u : j # k => u[j] = t[j]
  BY <1>4
<1>6. Keys(DOMAIN u)
  <2>1. IsFiniteSet(DOMAIN u) /\ DOMAIN u \subseteq Seq(Point)
    <3>1. IsFiniteSet(DOMAIN v) /\ DOMAIN v \subseteq Seq(Point)
      BY <1>3 DEF TreeOK, Keys
    <3>2. IsFiniteSet(DOMAIN v \union {k})
      BY <3>1, FS_AddElement
    <3>3. QED
      BY <1>2, <1>5, <3>1, <3>2
  <2>2. \A j \in DOMAIN v :
          /\ j # <<>>
          /\ \A i, y \in 1..Len(j) : i <= y => IsPrefix(j[i], j[y])
          /\ \A n \in 1..Len(j) : SubSeq(j, 1, n) \in DOMAIN v
    BY <1>3 DEF TreeOK, Keys
  <2>3. /\ k # <<>>
        /\ \A i, y \in 1..Len(k) : i <= y => IsPrefix(k[i], k[y])
        /\ \A n \in 1..Len(k) : SubSeq(k, 1, n) \in DOMAIN t
    BY <1>1, <1>2 DEF Keys
  <2>4. \A n \in 1..Len(k) : SubSeq(k, 1, n) \in DOMAIN v \union {k}
    <3>1. TAKE n \in 1..Len(k)
    <3>2. CASE n = Len(k)
      BY <1>2, <3>2
    <3>3. CASE n # Len(k)
      <4>1. n \in 0..Len(k) /\ n < Len(k) /\ Len(k) \in Nat
        BY <1>2, <3>3
      <4>2. SubSeq(k, 1, n) \in Seq(Point) /\ Len(SubSeq(k, 1, n)) = n
        BY <1>2, <4>1, StartIs
      <4>3. ~IsPrefix(k, SubSeq(k, 1, n))
        <5>1. ~(Len(k) <= n)
          BY <4>1
        <5>2. QED
          BY <1>2, <4>2, <5>1, PrefixIs
      <4>4. QED
        BY <1>3, <2>3, <4>3 DEF Subtree
    <3>4. QED
      BY <3>2, <3>3
  <2>5. QED
    BY <1>5, <2>1, <2>2, <2>3, <2>4 DEF Keys
<1>7. Untouched(t, u, {p})
  <2>1. ASSUME NEW j \in DOMAIN t, ~IsPrefix(p, Last(j))
        PROVE  j \in DOMAIN u /\ u[j] = t[j]
    <3>1. j \in DOMAIN v
      BY <1>3, <2>1 DEF Untouched
    <3>2. IsPrefix(p, p)
      BY PrefixOrder DEF Point, Path
    <3>3. j # k
      BY <1>2, <2>1, <3>2
    <3>4. QED
      BY <1>5, <3>1, <3>3
  <2>2. \A x \in DOMAIN u : x \in DOMAIN t
    BY <1>2, <1>3, <1>5
  <2>3. QED
    BY <2>1, <2>2 DEF Untouched
<1>8. QED
  BY <1>5, <1>6, <1>7 DEF TreeOK

\* One change after another.
LEMMA UntouchedOn ==
  ASSUME NEW t, NEW u, NEW v, NEW P, NEW Q, Untouched(t, u, P), Untouched(u, v, Q), Q \subseteq P
  PROVE  Untouched(t, v, P)
<1>1. ASSUME NEW j \in DOMAIN t, \A p \in P : ~IsPrefix(p, Last(j))
      PROVE  j \in DOMAIN v /\ v[j] = t[j]
  <2>1. j \in DOMAIN u /\ u[j] = t[j]
    BY <1>1 DEF Untouched
  <2>2. \A p \in Q : ~IsPrefix(p, Last(j))
    BY <1>1
  <2>3. QED
    BY <2>1, <2>2 DEF Untouched
<1>2. ASSUME NEW x \in DOMAIN v, x \notin DOMAIN t
      PROVE  Last(x) \in P
  BY <1>2 DEF Untouched
<1>3. QED
  BY <1>1, <1>2 DEF Untouched

LEMMA AttachUntouched ==
  ASSUME NEW t, TreeOK(t), NEW p \in Point, NEW what
  PROVE  TreeOK(Attach(t, p, what)) /\ Untouched(t, Attach(t, p, what), {p})
<1>1. PICK k, u : Attaches(t, p, what, k, u)
  BY DEF Attaches
<1>2. /\ DOMAIN u = DOMAIN t \union {k} /\ k \notin DOMAIN t
      /\ u[k] = what /\ \A j \in DOMAIN t : u[j] = t[j]
      /\ Last(k) = p /\ TreeOK(u) /\ \A x \in DOMAIN u : ~Hides(x, k)
  BY <1>1, AttachIs
<1>3. Untouched(t, u, {p})
  BY <1>2 DEF Untouched
<1>4. QED
  BY <1>1, <1>2, <1>3 DEF Attaches

-----------------------------------------------------------------------------
(* The elements of a sequence that are in a set. *)

Kept(T, acc, x) == IF x \in T THEN Append(acc, x) ELSE acc

LEMMA ThoseRuns ==
  ASSUME NEW S, NEW s \in Seq(S), NEW T
  PROVE  \E w : /\ w[0] = <<>> /\ Those(s, T) = w[Len(s)]
                /\ \A i \in 1..Len(s) : w[i] = Kept(T, w[i - 1], s[i])
<1>1. PICK n \in Nat : n = Len(s) /\ DOMAIN s = 1..n
  OBVIOUS
<1> DEFINE step == [i \in 1..n |-> [acc \in Seq(S) |-> Kept(T, acc, s[i])]]
<1>2. step \in [1..n -> [Seq(S) -> Seq(S)]]
  <2>1. \A i \in 1..n, acc \in Seq(S) : Kept(T, acc, s[i]) \in Seq(S)
    BY <1>1 DEF Kept
  <2>2. QED
    BY <2>1
<1>3. \A i \in 1..n, acc \in Seq(S) : step[i][acc] = Kept(T, acc, s[i])
  OBVIOUS
<1> HIDE DEF step
<1>4. PICK g \in [SUBSET (1..n) -> Seq(S)] : Folds(g, n, <<>>, step)
  <2>1. <<>> \in Seq(S)
    OBVIOUS
  <2>2. QED
    BY <1>2, <2>1, FoldExists
<1> DEFINE IsFold(h) == h = [x \in SUBSET DOMAIN s |->
                               IF x = {} THEN <<>> ELSE Kept(T, h[x \ {Max(x)}], s[Max(x)])]
<1>5. IsFold(g)
  <2>1. ASSUME NEW x \in SUBSET DOMAIN s
        PROVE  g[x] = IF x = {} THEN <<>> ELSE Kept(T, g[x \ {Max(x)}], s[Max(x)])
    <3>1. CASE x = {}
      BY <1>1, <1>4, <3>1 DEF Folds
    <3>2. CASE x # {}
      <4>1. Max(x) \in 1..n /\ g[x \ {Max(x)}] \in Seq(S)
        BY <1>1, <3>2, MaxIs
      <4>2. g[x] = step[Max(x)][g[x \ {Max(x)}]]
        BY <1>1, <1>4, <3>2 DEF Folds
      <4>3. QED
        BY <1>3, <3>2, <4>1, <4>2
    <3>3. QED
      BY <3>1, <3>2
  <2>2. QED
    BY <1>1, <2>1
<1> DEFINE f == CHOOSE h : IsFold(h)
<1>6. IsFold(f)
  BY <1>5
<1>7. Those(s, T) = f[DOMAIN s]
  BY DEF Those, FoldLeft, MapThenFoldSet, Kept
<1> HIDE DEF f
<1>8. \A x \in SUBSET (1..n) : f[x] = IF x = {} THEN <<>> ELSE Kept(T, f[x \ {Max(x)}], s[Max(x)])
  BY <1>1, <1>6
<1> HIDE DEF IsFold
<1> DEFINE w == [i \in 0..n |-> f[1..i]]
<1>9. w[0] = <<>> /\ w[n] = f[1..n]
  <2>1. 1..0 = {} /\ 1..0 \in SUBSET (1..n) /\ n \in 0..n /\ 0 \in 0..n
    BY FirstNumbers
  <2>2. w[0] = f[1..0] /\ w[n] = f[1..n]
    BY <2>1
  <2> HIDE DEF w
  <2>3. QED
    BY <1>8, <2>1, <2>2
<1>10. ASSUME NEW i \in 1..n
       PROVE  w[i] = Kept(T, w[i - 1], s[i])
  <2>1. 1..i \in SUBSET (1..n) /\ 1..i # {} /\ Max(1..i) = i /\ (1..i) \ {i} = 1..(i - 1)
    BY FirstNumbers
  <2>2. f[1..i] = Kept(T, f[1..(i - 1)], s[i])
    BY <1>8, <2>1
  <2>3. i \in 0..n /\ i - 1 \in 0..n
    OBVIOUS
  <2>4. QED
    BY <2>2, <2>3
<1>11. QED
  <2> HIDE DEF w
  <2>1. QED
    BY <1>1, <1>7, <1>9, <1>10

\* out are the elements of s that are in T, s[h[i]].
Chosen(s, T, out, h) ==
  /\ \A i \in 1..Len(out) : h[i] \in 1..Len(s) /\ out[i] = s[h[i]] /\ s[h[i]] \in T
  /\ \A i, j \in 1..Len(out) : i # j => h[i] # h[j]
  /\ \A x \in 1..Len(s) : s[x] \in T => \E i \in 1..Len(out) : x = h[i]

\* Which they are.
LEMMA ThoseIs ==
  ASSUME NEW S, NEW s \in Seq(S), NEW T
  PROVE  Those(s, T) \in Seq(S) /\ \E h : Chosen(s, T, Those(s, T), h)
<1>1. PICK w : /\ w[0] = <<>> /\ Those(s, T) = w[Len(s)]
               /\ \A i \in 1..Len(s) : w[i] = Kept(T, w[i - 1], s[i])
  BY ThoseRuns
<1> DEFINE Picks(m, out, h) ==
             /\ out \in Seq(S) /\ h = [i \in 1..Len(out) |-> h[i]]
             /\ \A i \in 1..Len(out) : h[i] \in 1..m /\ out[i] = s[h[i]] /\ s[h[i]] \in T
             /\ \A i, j \in 1..Len(out) : i # j => h[i] # h[j]
             /\ \A x \in 1..m : s[x] \in T => \E i \in 1..Len(out) : x = h[i]
<1> DEFINE Some == {m \in 0..Len(s) : \E h : Picks(m, w[m], h)}
<1>2. 0 \in Some
  <2>1. <<>> \in Seq(S) /\ Len(<<>>) = 0 /\ (\A i \in 1..0 : FALSE) /\ 0 \in 0..Len(s)
    OBVIOUS
  <2>2. PICK h : h = [i \in 1..0 |-> 0]
    OBVIOUS
  <2>3. h = [i \in 1..Len(<<>>) |-> h[i]]
    BY <2>1, <2>2
  <2>4. Picks(0, <<>>, h)
    BY <2>1, <2>3
  <2>5. Picks(0, w[0], h)
    BY <1>1, <2>4
  <2> HIDE DEF Picks
  <2>6. QED
    BY <2>1, <2>5
<1>3. ASSUME NEW m \in 1..Len(s), m - 1 \in Some
      PROVE  m \in Some
  <2>1. PICK out, h : out = w[m - 1] /\ Picks(m - 1, out, h)
    <3> HIDE DEF Picks
    <3>1. QED
      BY <1>3
  <2>2. out \in Seq(S) /\ Len(out) \in Nat
    BY <2>1
  <2>3. /\ out \in Seq(S) /\ Len(out) \in Nat /\ h = [i \in 1..Len(out) |-> h[i]]
        /\ \A i \in 1..Len(out) : h[i] \in 1..(m - 1) /\ out[i] = s[h[i]] /\ s[h[i]] \in T
        /\ \A i, j \in 1..Len(out) : i # j => h[i] # h[j]
        /\ \A x \in 1..(m - 1) : s[x] \in T => \E i \in 1..Len(out) : x = h[i]
    BY <2>1, <2>2
  <2>4. s[m] \in S /\ w[m] = Kept(T, out, s[m])
    BY <1>1, <2>1
  <2>5. CASE s[m] \in T
    <3>1. PICK v : v = Append(out, s[m])
      OBVIOUS
    <3>2. PICK n \in Nat : n = Len(out)
      BY <2>3
    <3>3. /\ v \in Seq(S) /\ Len(v) = n + 1 /\ v[n + 1] = s[m]
          /\ \A i \in 1..n : v[i] = out[i]
      BY <2>3, <2>4, <3>1, <3>2
    <3> DEFINE f == [i \in 1..(n + 1) |-> IF i = n + 1 THEN m ELSE h[i]]
    <3>4. \A i \in 1..n : f[i] = h[i] /\ h[i] \in 1..(m - 1) /\ h[i] # m /\ h[i] \in 1..m
      BY <2>3, <3>2
    <3>5. f[n + 1] = m /\ \A i \in 1..(n + 1) : i # n + 1 => i \in 1..n
      OBVIOUS
    <3>6. f = [i \in 1..(n + 1) |-> f[i]]
      OBVIOUS
    <3> HIDE DEF f
    <3>7. \A i \in 1..(n + 1) : f[i] \in 1..m /\ v[i] = s[f[i]] /\ s[f[i]] \in T
      <4>1. TAKE i \in 1..(n + 1)
      <4>2. CASE i = n + 1
        BY <2>5, <3>3, <3>5, <4>2
      <4>3. CASE i # n + 1
        BY <2>3, <3>2, <3>3, <3>4, <3>5, <4>3
      <4>4. QED
        BY <4>2, <4>3
    <3>8. \A i, j \in 1..(n + 1) : i # j => f[i] # f[j]
      <4>1. TAKE i, j \in 1..(n + 1)
      <4>2. CASE i = n + 1
        BY <3>4, <3>5, <4>2
      <4>3. CASE j = n + 1
        BY <3>4, <3>5, <4>3
      <4>4. CASE i # n + 1 /\ j # n + 1
        BY <2>3, <3>2, <3>4, <3>5, <4>4
      <4>5. QED
        BY <4>2, <4>3, <4>4
    <3>9. \A x \in 1..m : s[x] \in T => \E i \in 1..(n + 1) : x = f[i]
      <4>1. TAKE x \in 1..m
      <4>2. CASE x = m
        BY <3>5, <4>2, n + 1 \in 1..(n + 1)
      <4>3. CASE x # m
        <5>1. x \in 1..(m - 1)
          BY <4>3
        <5>2. \A i \in 1..n : i \in 1..(n + 1)
          OBVIOUS
        <5>3. s[x] \in T => \E i \in 1..n : x = h[i]
          BY <2>3, <3>2, <5>1
        <5>4. QED
          BY <3>4, <5>2, <5>3
      <4>4. QED
        BY <4>2, <4>3
    <3>10. Picks(m, v, f)
      BY <3>3, <3>6, <3>7, <3>8, <3>9
    <3>11. w[m] = v /\ m \in 0..Len(s)
      BY <2>4, <2>5, <3>1 DEF Kept
    <3> HIDE DEF Picks
    <3>12. QED
      BY <3>10, <3>11
  <2>6. CASE s[m] \notin T
    <3>1. Picks(m, out, h)
      <4>1. \A x \in 1..(m - 1) : x \in 1..m
        OBVIOUS
      <4>2. \A x \in 1..m : s[x] \in T => x \in 1..(m - 1)
        BY <2>6
      <4>3. QED
        BY <2>3, <4>1, <4>2
    <3>2. w[m] = out /\ m \in 0..Len(s)
      BY <2>4, <2>6 DEF Kept
    <3> HIDE DEF Picks
    <3>3. QED
      BY <3>1, <3>2
  <2>7. QED
    BY <2>5, <2>6
<1>4. Len(s) \in Some
  <2> HIDE DEF Some
  <2>1. Len(s) \in Nat /\ \A m \in 1..Len(s) : m - 1 \in Some => m \in Some
    BY <1>3
  <2>2. \A m \in 0..Len(s) : m \in Some
    BY <1>2, <2>1, UpTo
  <2>3. QED
    BY <2>1, <2>2
<1>5. PICK out, h : out = Those(s, T) /\ Picks(Len(s), out, h)
  <2> HIDE DEF Picks
  <2>1. QED
    BY <1>1, <1>4
<1>6. out \in Seq(S) /\ Chosen(s, T, out, h)
  BY <1>5 DEF Chosen
<1>7. QED
  BY <1>5, <1>6

-----------------------------------------------------------------------------
(* The folds of the actions, step by step. *)

\* One step of each: a plan's mounts, a refresh's live mounts, what a reload detaches,
\* attaches and mounts again.
Step(op, a, b, c, acc, x) ==
  CASE op = "made"    -> IF Present(x, a) THEN Attach(acc, x.at, Made(x, b)) ELSE acc
    [] op = "live"    -> Attach(acc, x.at, LiveMade(x))
    [] op = "detach"  -> DetachStep(a, acc, x)
    [] op = "place"   -> PlaceStep(a, acc, b[x], c[x])
    [] OTHER          -> Remount(a, acc, x)

\* w is what each step leaves.
Runs(op, a, b, c, zero, s, w) ==
  w[0] = zero /\ \A i \in 1..Len(s) : w[i] = Step(op, a, b, c, w[i - 1], s[i])

\* g is what the steps over a set of indices leave.
Leaves(op, a, b, c, zero, s, n, g) ==
  g = [x \in SUBSET (1..n) |->
         IF x = {} THEN zero ELSE Step(op, a, b, c, g[x \ {Max(x)}], s[Max(x)])]

LEMMA StepsExist ==
  ASSUME NEW n \in Nat, NEW op, NEW a, NEW b, NEW c, NEW zero, NEW s
  PROVE  \E g : Leaves(op, a, b, c, zero, s, n, g)
<1> DEFINE Is(k, g) == g = [x \in SUBSET (1..k) |->
                              IF x = {} THEN zero
                                    ELSE Step(op, a, b, c, g[x \ {Max(x)}], s[Max(x)])]
<1> DEFINE Some == {k \in 0..n : \E g : Is(k, g)}
<1>1. 0 \in Some
  <2>1. Is(0, [x \in SUBSET (1..0) |-> zero])
    <3>1. \A x \in SUBSET (1..0) : x = {}
      OBVIOUS
    <3>2. QED
      BY <3>1
  <2>2. QED
    BY <2>1
<1>2. ASSUME NEW k \in 1..n, k - 1 \in Some
      PROVE  k \in Some
  <2>1. PICK g : Is(k - 1, g)
    BY <1>2
  <2> DEFINE f == [x \in SUBSET (1..k) |->
                     IF k \in x THEN Step(op, a, b, c, g[x \ {k}], s[k]) ELSE g[x]]
  <2>2. ASSUME NEW x \in SUBSET (1..k)
        PROVE  f[x] = IF x = {} THEN zero ELSE Step(op, a, b, c, f[x \ {Max(x)}], s[Max(x)])
    <3>1. k \in Nat /\ 1..(k - 1) \subseteq 1..k /\ k \notin 1..(k - 1)
      OBVIOUS
    <3>2. CASE x = {}
      <4>1. g[x] = zero /\ x \in SUBSET (1..(k - 1))
        BY <2>1, <3>2
      <4>2. QED
        BY <3>2, <4>1
    <3>3. CASE k \in x
      <4>1. Max(x) = k
        <5>1. Max(x) \in x /\ \A i \in x : i <= Max(x)
          BY <3>1, <3>3, MaxIs
        <5>2. Max(x) \in 1..k /\ k <= Max(x)
          BY <3>3, <5>1
        <5>3. QED
          BY <5>2
      <4>2. x \ {k} \in SUBSET (1..k) /\ k \notin x \ {k}
        OBVIOUS
      <4>3. f[x \ {k}] = g[x \ {k}]
        BY <4>2
      <4>4. x # {} /\ f[x] = Step(op, a, b, c, g[x \ {k}], s[k])
        BY <3>3
      <4> HIDE DEF f
      <4>5. QED
        BY <4>1, <4>3, <4>4
    <3>4. CASE x # {} /\ k \notin x
      <4>1. Max(x) \in x
        BY <3>1, <3>4, MaxIs
      <4>2. x \in SUBSET (1..(k - 1)) /\ x \ {Max(x)} \in SUBSET (1..(k - 1))
        <5>1. ASSUME NEW i \in x
              PROVE  i \in 1..(k - 1)
          <6>1. i \in 1..k /\ i # k
            BY <3>4
          <6>2. QED
            BY <6>1
        <5>2. QED
          BY <5>1
      <4>3. f[x] = g[x] /\ f[x \ {Max(x)}] = g[x \ {Max(x)}]
        BY <3>1, <3>4, <4>2
      <4>4. g[x] = Step(op, a, b, c, g[x \ {Max(x)}], s[Max(x)])
        BY <2>1, <3>4, <4>2
      <4> HIDE DEF f
      <4>5. QED
        BY <3>4, <4>3, <4>4
    <3>5. QED
      BY <3>2, <3>3, <3>4
  <2>3. f = [x \in SUBSET (1..k) |-> f[x]]
    OBVIOUS
  <2>4. Is(k, f)
    <3> HIDE DEF f
    <3>1. QED
      BY <2>2, <2>3
  <2>5. QED
    <3> HIDE DEF f, Is
    <3>1. QED
      BY <2>4
<1>3. n \in Some
  <2>1. \A i \in 1..n : i - 1 \in Some => i \in Some
    BY <1>2
  <2> HIDE DEF Some
  <2>2. QED
    BY <1>1, <2>1, UpTo
<1>4. PICK g : Is(n, g)
  BY <1>3
<1>5. QED
  BY <1>4 DEF Leaves

\* A plan's mounts, attached.
LEMMA MadeRuns ==
  ASSUME NEW there, NEW g0, NEW zero, NEW S, NEW s \in Seq(S)
  PROVE  \E w : Runs("made", there, g0, 0, zero, s, w) /\ w[Len(s)] = AttachMade(zero, s, there, g0)
<1>1. PICK n \in Nat : n = Len(s) /\ DOMAIN s = 1..n
  OBVIOUS
<1> DEFINE IsFold(h) == h = [x \in SUBSET DOMAIN s |->
                               IF x = {} THEN zero
                               ELSE (IF Present(s[Max(x)], there)
                                     THEN Attach(h[x \ {Max(x)}], s[Max(x)].at, Made(s[Max(x)], g0))
                                     ELSE h[x \ {Max(x)}])]
<1> DEFINE f == CHOOSE h : IsFold(h)
<1>2. IsFold(f)
  <2>1. PICK g : Leaves("made", there, g0, 0, zero, s, n, g)
    BY StepsExist
  <2>2. \A acc, x : Step("made", there, g0, 0, acc, x)
          = (IF Present(x, there) THEN Attach(acc, x.at, Made(x, g0)) ELSE acc)
    BY DEF Step
  <2>3. IsFold(g)
    BY <1>1, <2>1, <2>2 DEF Leaves
  <2>4. QED
    BY <2>3
<1>3. AttachMade(zero, s, there, g0) = f[DOMAIN s]
  BY DEF AttachMade, FoldLeft, MapThenFoldSet
<1> HIDE DEF f
<1>4. \A x \in SUBSET (1..n) : f[x] = IF x = {} THEN zero
        ELSE Step("made", there, g0, 0, f[x \ {Max(x)}], s[Max(x)])
  BY <1>1, <1>2 DEF Step
<1> HIDE DEF IsFold
<1> DEFINE w == [i \in 0..n |-> f[1..i]]
<1>5. w[0] = zero
  <2>1. 1..0 = {} /\ 1..0 \in SUBSET (1..n) /\ 0 \in 0..n
    BY FirstNumbers
  <2>2. f[1..0] = zero
    BY <1>4, <2>1
  <2>3. QED
    BY <2>1, <2>2
<1>6. ASSUME NEW i \in 1..n
      PROVE  w[i] = Step("made", there, g0, 0, w[i - 1], s[i])
  <2>1. 1..i \in SUBSET (1..n) /\ 1..i # {} /\ Max(1..i) = i /\ (1..i) \ {i} = 1..(i - 1)
    BY FirstNumbers
  <2>2. f[1..i] = Step("made", there, g0, 0, f[1..(i - 1)], s[i])
    BY <1>4, <2>1
  <2>3. i \in 0..n /\ i - 1 \in 0..n
    OBVIOUS
  <2>4. QED
    BY <2>2, <2>3
<1>7. w[n] = f[DOMAIN s]
  BY <1>1
<1> HIDE DEF w
<1>8. QED
  BY <1>1, <1>3, <1>5, <1>6, <1>7 DEF Runs

\* A refresh's live mounts.
LEMMA LiveRuns ==
  ASSUME NEW zero, NEW S, NEW s \in Seq(S)
  PROVE  \E w : Runs("live", 0, 0, 0, zero, s, w) /\ w[Len(s)] = AttachLive(zero, s)
<1>1. PICK n \in Nat : n = Len(s) /\ DOMAIN s = 1..n
  OBVIOUS
<1> DEFINE IsFold(h) == h = [x \in SUBSET DOMAIN s |->
                               IF x = {} THEN zero
                               ELSE Attach(h[x \ {Max(x)}], s[Max(x)].at, LiveMade(s[Max(x)]))]
<1> DEFINE f == CHOOSE h : IsFold(h)
<1>2. IsFold(f)
  <2>1. PICK g : Leaves("live", 0, 0, 0, zero, s, n, g)
    BY StepsExist
  <2>2. \A acc, x : Step("live", 0, 0, 0, acc, x) = Attach(acc, x.at, LiveMade(x))
    BY DEF Step
  <2>3. IsFold(g)
    BY <1>1, <2>1, <2>2 DEF Leaves
  <2>4. QED
    BY <2>3
<1>3. AttachLive(zero, s) = f[DOMAIN s]
  BY DEF AttachLive, FoldLeft, MapThenFoldSet
<1> HIDE DEF f
<1>4. \A x \in SUBSET (1..n) : f[x] = IF x = {} THEN zero
        ELSE Step("live", 0, 0, 0, f[x \ {Max(x)}], s[Max(x)])
  BY <1>1, <1>2 DEF Step
<1> HIDE DEF IsFold
<1> DEFINE w == [i \in 0..n |-> f[1..i]]
<1>5. w[0] = zero
  <2>1. 1..0 = {} /\ 1..0 \in SUBSET (1..n) /\ 0 \in 0..n
    BY FirstNumbers
  <2>2. f[1..0] = zero
    BY <1>4, <2>1
  <2>3. QED
    BY <2>1, <2>2
<1>6. ASSUME NEW i \in 1..n
      PROVE  w[i] = Step("live", 0, 0, 0, w[i - 1], s[i])
  <2>1. 1..i \in SUBSET (1..n) /\ 1..i # {} /\ Max(1..i) = i /\ (1..i) \ {i} = 1..(i - 1)
    BY FirstNumbers
  <2>2. f[1..i] = Step("live", 0, 0, 0, f[1..(i - 1)], s[i])
    BY <1>4, <2>1
  <2>3. i \in 0..n /\ i - 1 \in 0..n
    OBVIOUS
  <2>4. QED
    BY <2>2, <2>3
<1>7. w[n] = f[DOMAIN s]
  BY <1>1
<1> HIDE DEF w
<1>8. QED
  BY <1>1, <1>3, <1>5, <1>6, <1>7 DEF Runs

\* What a reload detaches.
LEMMA DetachRuns ==
  ASSUME NEW bad, NEW zero, NEW S, NEW s \in Seq(S)
  PROVE  \E w : Runs("detach", bad, 0, 0, zero, s, w) /\ w[Len(s)] = DetachAll(bad, zero, s)
<1>1. PICK n \in Nat : n = Len(s) /\ DOMAIN s = 1..n
  OBVIOUS
<1> DEFINE IsFold(h) == h = [x \in SUBSET DOMAIN s |->
                               IF x = {} THEN zero ELSE DetachStep(bad, h[x \ {Max(x)}], s[Max(x)])]
<1> DEFINE f == CHOOSE h : IsFold(h)
<1>2. IsFold(f)
  <2>1. PICK g : Leaves("detach", bad, 0, 0, zero, s, n, g)
    BY StepsExist
  <2>2. \A acc, x : Step("detach", bad, 0, 0, acc, x) = DetachStep(bad, acc, x)
    BY DEF Step
  <2>3. IsFold(g)
    BY <1>1, <2>1, <2>2 DEF Leaves
  <2>4. QED
    BY <2>3
<1>3. DetachAll(bad, zero, s) = f[DOMAIN s]
  BY DEF DetachAll, FoldLeft, MapThenFoldSet
<1> HIDE DEF f
<1>4. \A x \in SUBSET (1..n) : f[x] = IF x = {} THEN zero
        ELSE Step("detach", bad, 0, 0, f[x \ {Max(x)}], s[Max(x)])
  BY <1>1, <1>2 DEF Step
<1> HIDE DEF IsFold
<1> DEFINE w == [i \in 0..n |-> f[1..i]]
<1>5. w[0] = zero
  <2>1. 1..0 = {} /\ 1..0 \in SUBSET (1..n) /\ 0 \in 0..n
    BY FirstNumbers
  <2>2. f[1..0] = zero
    BY <1>4, <2>1
  <2>3. QED
    BY <2>1, <2>2
<1>6. ASSUME NEW i \in 1..n
      PROVE  w[i] = Step("detach", bad, 0, 0, w[i - 1], s[i])
  <2>1. 1..i \in SUBSET (1..n) /\ 1..i # {} /\ Max(1..i) = i /\ (1..i) \ {i} = 1..(i - 1)
    BY FirstNumbers
  <2>2. f[1..i] = Step("detach", bad, 0, 0, f[1..(i - 1)], s[i])
    BY <1>4, <2>1
  <2>3. i \in 0..n /\ i - 1 \in 0..n
    OBVIOUS
  <2>4. QED
    BY <2>2, <2>3
<1>7. w[n] = f[DOMAIN s]
  BY <1>1
<1> HIDE DEF w
<1>8. QED
  BY <1>1, <1>3, <1>5, <1>6, <1>7 DEF Runs

\* What it attaches.
LEMMA PlaceRuns ==
  ASSUME NEW bad, NEW ms, NEW got, NEW zero, NEW S, NEW s \in Seq(S)
  PROVE  \E w : Runs("place", bad, ms, got, zero, s, w)
        /\ w[Len(s)] = PlaceAll(bad, zero, ms, got, s)
<1>1. PICK n \in Nat : n = Len(s) /\ DOMAIN s = 1..n
  OBVIOUS
<1> DEFINE IsFold(h) == h = [x \in SUBSET DOMAIN s |->
                               IF x = {} THEN zero
                               ELSE PlaceStep(bad, h[x \ {Max(x)}], ms[s[Max(x)]], got[s[Max(x)]])]
<1> DEFINE f == CHOOSE h : IsFold(h)
<1>2. IsFold(f)
  <2>1. PICK g : Leaves("place", bad, ms, got, zero, s, n, g)
    BY StepsExist
  <2>2. \A acc, x : Step("place", bad, ms, got, acc, x) = PlaceStep(bad, acc, ms[x], got[x])
    BY DEF Step
  <2>3. IsFold(g)
    BY <1>1, <2>1, <2>2 DEF Leaves
  <2>4. QED
    BY <2>3
<1>3. PlaceAll(bad, zero, ms, got, s) = f[DOMAIN s]
  BY DEF PlaceAll, FoldLeft, MapThenFoldSet
<1> HIDE DEF f
<1>4. \A x \in SUBSET (1..n) : f[x] = IF x = {} THEN zero
        ELSE Step("place", bad, ms, got, f[x \ {Max(x)}], s[Max(x)])
  BY <1>1, <1>2 DEF Step
<1> HIDE DEF IsFold
<1> DEFINE w == [i \in 0..n |-> f[1..i]]
<1>5. w[0] = zero
  <2>1. 1..0 = {} /\ 1..0 \in SUBSET (1..n) /\ 0 \in 0..n
    BY FirstNumbers
  <2>2. f[1..0] = zero
    BY <1>4, <2>1
  <2>3. QED
    BY <2>1, <2>2
<1>6. ASSUME NEW i \in 1..n
      PROVE  w[i] = Step("place", bad, ms, got, w[i - 1], s[i])
  <2>1. 1..i \in SUBSET (1..n) /\ 1..i # {} /\ Max(1..i) = i /\ (1..i) \ {i} = 1..(i - 1)
    BY FirstNumbers
  <2>2. f[1..i] = Step("place", bad, ms, got, f[1..(i - 1)], s[i])
    BY <1>4, <2>1
  <2>3. i \in 0..n /\ i - 1 \in 0..n
    OBVIOUS
  <2>4. QED
    BY <2>2, <2>3
<1>7. w[n] = f[DOMAIN s]
  BY <1>1
<1> HIDE DEF w
<1>8. QED
  BY <1>1, <1>3, <1>5, <1>6, <1>7 DEF Runs

\* What it mounts again.
LEMMA RemountRuns ==
  ASSUME NEW bad, NEW zero, NEW S, NEW s \in Seq(S)
  PROVE  \E w : Runs("remount", bad, 0, 0, zero, s, w) /\ w[Len(s)] = RemountAll(bad, zero, s)
<1>1. PICK n \in Nat : n = Len(s) /\ DOMAIN s = 1..n
  OBVIOUS
<1> DEFINE IsFold(h) == h = [x \in SUBSET DOMAIN s |->
                               IF x = {} THEN zero ELSE Remount(bad, h[x \ {Max(x)}], s[Max(x)])]
<1> DEFINE f == CHOOSE h : IsFold(h)
<1>2. IsFold(f)
  <2>1. PICK g : Leaves("remount", bad, 0, 0, zero, s, n, g)
    BY StepsExist
  <2>2. \A acc, x : Step("remount", bad, 0, 0, acc, x) = Remount(bad, acc, x)
    BY DEF Step
  <2>3. IsFold(g)
    BY <1>1, <2>1, <2>2 DEF Leaves
  <2>4. QED
    BY <2>3
<1>3. RemountAll(bad, zero, s) = f[DOMAIN s]
  BY DEF RemountAll, FoldLeft, MapThenFoldSet
<1> HIDE DEF f
<1>4. \A x \in SUBSET (1..n) : f[x] = IF x = {} THEN zero
        ELSE Step("remount", bad, 0, 0, f[x \ {Max(x)}], s[Max(x)])
  BY <1>1, <1>2 DEF Step
<1> HIDE DEF IsFold
<1> DEFINE w == [i \in 0..n |-> f[1..i]]
<1>5. w[0] = zero
  <2>1. 1..0 = {} /\ 1..0 \in SUBSET (1..n) /\ 0 \in 0..n
    BY FirstNumbers
  <2>2. f[1..0] = zero
    BY <1>4, <2>1
  <2>3. QED
    BY <2>1, <2>2
<1>6. ASSUME NEW i \in 1..n
      PROVE  w[i] = Step("remount", bad, 0, 0, w[i - 1], s[i])
  <2>1. 1..i \in SUBSET (1..n) /\ 1..i # {} /\ Max(1..i) = i /\ (1..i) \ {i} = 1..(i - 1)
    BY FirstNumbers
  <2>2. f[1..i] = Step("remount", bad, 0, 0, f[1..(i - 1)], s[i])
    BY <1>4, <2>1
  <2>3. i \in 0..n /\ i - 1 \in 0..n
    OBVIOUS
  <2>4. QED
    BY <2>2, <2>3
<1>7. w[n] = f[DOMAIN s]
  BY <1>1
<1> HIDE DEF w
<1>8. QED
  BY <1>1, <1>3, <1>5, <1>6, <1>7 DEF Runs

-----------------------------------------------------------------------------
(* Where the live mounts are. *)

\* h[i] is the mount of the i-th record, for the records I; only such mounts hide another.
Placed(t, recs, I, h) ==
  /\ \A i \in I : h[i] \in DOMAIN t /\ t[h[i]] = LiveMade(recs[i]) /\ Last(h[i]) = recs[i].at
  /\ \A i, j \in I : h[i] = h[j] => i = j
  /\ \A i \in I : \A x \in DOMAIN t : Hides(x, h[i]) => \E j \in I : x = h[j]

\* No change at the paths P is at or above a record's path.
Spared(recs, I, P) == \A i \in I : \A p \in P : ~IsPrefix(p, recs[i].at)

\* Records at and below what changed aside, the live mounts stay.
LEMMA PlacedStays ==
  ASSUME NEW t, TreeOK(t), NEW u, TreeOK(u), NEW P, P \subseteq Point, Untouched(t, u, P),
         NEW recs, NEW I, NEW h, Placed(t, recs, I, h), NEW J, J \subseteq I, Spared(recs, J, P),
         \A i \in I \ J : \E p \in P : IsPrefix(p, recs[i].at)
  PROVE  Placed(u, recs, J, h)
<1>1. ASSUME NEW i \in J
      PROVE  /\ h[i] \in DOMAIN t /\ h[i] \in Seq(Point) /\ h[i] # <<>> /\ Last(h[i]) = recs[i].at
             /\ Last(h[i]) \in Seq(Name) /\ t[h[i]] = LiveMade(recs[i])
  <2>1. h[i] \in DOMAIN t /\ t[h[i]] = LiveMade(recs[i]) /\ Last(h[i]) = recs[i].at
    BY DEF Placed
  <2>2. h[i] \in Seq(Point) /\ h[i] # <<>>
    BY <2>1 DEF TreeOK, Keys
  <2>3. QED
    BY <2>1, <2>2, LastIs
<1>2. ASSUME NEW i \in J
      PROVE  h[i] \in DOMAIN u /\ u[h[i]] = LiveMade(recs[i]) /\ Last(h[i]) = recs[i].at
  <2>1. \A p \in P : ~IsPrefix(p, Last(h[i]))
    BY <1>1 DEF Spared
  <2>2. QED
    BY <1>1, <2>1 DEF Untouched
<1>3. ASSUME NEW i \in J, NEW x \in DOMAIN u, Hides(x, h[i])
      PROVE  \E j \in J : x = h[j]
  <2>1. x \in Seq(Point) /\ x # <<>> /\ IsPrefix(Last(x), Last(h[i]))
    BY <1>1, <1>3, HidesIs
  <2>2. x \in DOMAIN t
    <3>1. SUFFICES ASSUME x \notin DOMAIN t
                   PROVE  FALSE
      OBVIOUS
    <3>2. Last(x) \in P
      BY <3>1 DEF Untouched
    <3>3. QED
      BY <1>1, <2>1, <3>2 DEF Spared
  <2>3. PICK j \in I : x = h[j]
    BY <1>3, <2>2 DEF Placed
  <2>4. j \in J
    <3>1. SUFFICES ASSUME j \notin J
                   PROVE  FALSE
      OBVIOUS
    <3>2. PICK p \in P : IsPrefix(p, recs[j].at)
      BY <3>1
    <3>3. Last(x) = recs[j].at
      BY <2>3 DEF Placed
    <3>4. p \in Seq(Name) /\ Last(x) \in Seq(Name)
      BY <2>1, LastIs DEF Point, Path
    <3>5. IsPrefix(p, Last(h[i]))
      BY <1>1, <2>1, <3>2, <3>3, <3>4, PrefixOrder
    <3>6. QED
      BY <1>1, <3>5 DEF Spared
  <2>5. QED
    BY <2>3, <2>4
<1>4. \A i, j \in J : h[i] = h[j] => i = j
  BY DEF Placed
<1>5. QED
  BY <1>2, <1>3, <1>4 DEF Placed

\* A record's mount and path.
Records(l, what, p) == what = LiveMade(l) /\ p = l.at

\* One more is attached, as record n.
LEMMA PlacedMore ==
  ASSUME NEW t, NEW p, NEW what, NEW k, NEW u, Attaches(t, p, what, k, u),
         NEW recs, NEW I, NEW h, Placed(t, recs, I, h), NEW n, n \notin I, NEW more,
         \A i \in I : more[i] = recs[i],
         Records(more[n], what, p)
  PROVE  \E g : Placed(u, more, I \union {n}, g)
<1>1. /\ DOMAIN u = DOMAIN t \union {k} /\ k \notin DOMAIN t
      /\ u[k] = what /\ \A j \in DOMAIN t : u[j] = t[j]
      /\ Last(k) = p /\ TreeOK(u) /\ \A x \in DOMAIN u : ~Hides(x, k)
  BY AttachIs
<1> DEFINE g == [i \in I \union {n} |-> IF i = n THEN k ELSE h[i]]
<1>2. g[n] = k /\ \A i \in I : g[i] = h[i]
  OBVIOUS
<1> HIDE DEF g
<1>3. \A i \in I : h[i] \in DOMAIN t /\ t[h[i]] = LiveMade(recs[i]) /\ Last(h[i]) = recs[i].at
  BY DEF Placed
<1>4. \A i \in I \union {n} :
        g[i] \in DOMAIN u /\ u[g[i]] = LiveMade(more[i]) /\ Last(g[i]) = more[i].at
  BY <1>1, <1>2, <1>3 DEF Records, LiveMade
<1>5. \A i, j \in I \union {n} : g[i] = g[j] => i = j
  <2>1. \A i, j \in I : h[i] = h[j] => i = j
    BY DEF Placed
  <2>2. QED
    BY <1>1, <1>2, <1>3, <2>1
<1>6. ASSUME NEW i \in I \union {n}, NEW x \in DOMAIN u, Hides(x, g[i])
      PROVE  \E j \in I \union {n} : x = g[j]
  <2>1. CASE x = k
    BY <1>2, <2>1
  <2>2. CASE x # k
    <3>1. x \in DOMAIN t /\ i \in I /\ Hides(x, h[i])
      BY <1>1, <1>2, <1>6, <2>2
    <3>2. PICK j \in I : x = h[j]
      BY <3>1 DEF Placed
    <3>3. QED
      BY <1>2, <3>2
  <2>3. QED
    BY <2>1, <2>2
<1>7. QED
  BY <1>4, <1>5, <1>6 DEF Placed

\* The records recs[i], i in I, are others[j], j in J.
Renumbers(recs, I, others, J, m) ==
  /\ \A i \in J : m[i] \in I /\ others[i] = recs[m[i]]
  /\ \A i, j \in J : m[i] = m[j] => i = j
  /\ \A i \in I : \E j \in J : i = m[j]

\* The same mounts, numbered differently.
LEMMA PlacedAs ==
  ASSUME NEW t, NEW recs, NEW I, NEW h, Placed(t, recs, I, h), NEW others, NEW J, NEW m,
         Renumbers(recs, I, others, J, m)
  PROVE  \E g : Placed(t, others, J, g)
<1> USE DEF Renumbers
<1> DEFINE g == [i \in J |-> h[m[i]]]
<1>1. \A i \in J : g[i] = h[m[i]]
  OBVIOUS
<1> HIDE DEF g
<1>2. \A i \in J : g[i] \in DOMAIN t /\ t[g[i]] = LiveMade(others[i]) /\ Last(g[i]) = others[i].at
  BY <1>1 DEF Placed
<1>3. \A i, j \in J : g[i] = g[j] => i = j
  BY <1>1 DEF Placed
<1>4. ASSUME NEW i \in J, NEW x \in DOMAIN t, Hides(x, g[i])
      PROVE  \E j \in J : x = g[j]
  <2>1. PICK a \in I : x = h[a]
    BY <1>1, <1>4 DEF Placed
  <2>2. QED
    BY <1>1, <2>1
<1>5. QED
  BY <1>2, <1>3, <1>4 DEF Placed

\* One is unmounted.
LEMMA PlacedLess ==
  ASSUME NEW t, NEW recs, NEW I, NEW h, Placed(t, recs, I, h), NEW n \in I, NEW u,
         DOMAIN u = DOMAIN t \ {h[n]}, \A x \in DOMAIN u : u[x] = t[x]
  PROVE  Placed(u, recs, I \ {n}, h)
<1>1. \A i \in I \ {n} : h[i] \in DOMAIN u /\ u[h[i]] = LiveMade(recs[i]) /\ Last(h[i]) = recs[i].at
  BY DEF Placed
<1>2. ASSUME NEW i \in I \ {n}, NEW x \in DOMAIN u, Hides(x, h[i])
      PROVE  \E j \in I \ {n} : x = h[j]
  <2>1. PICK j \in I : x = h[j]
    BY <1>2 DEF Placed
  <2>2. QED
    BY <2>1
<1>3. \A i, j \in I \ {n} : h[i] = h[j] => i = j
  BY DEF Placed
<1>4. QED
  BY <1>1, <1>2, <1>3 DEF Placed

\* What is placed is kept.
LEMMA PlacedKept ==
  ASSUME NEW t, TreeOK(t), NEW recs, NEW I, NEW h, Placed(t, recs, I, h), NEW i \in I
  PROVE  \/ \E j \in I \ {i} : IsPrefix(recs[j].at, recs[i].at)
         \/ /\ IsMountPoint(t, recs[i].at)
            /\ t[Top(t, recs[i].at)] = LiveMade(recs[i])
<1>1. /\ h[i] \in DOMAIN t /\ h[i] \in Seq(Point) /\ h[i] # <<>> /\ Last(h[i]) = recs[i].at
      /\ t[h[i]] = LiveMade(recs[i])
  BY DEF Placed, TreeOK, Keys
<1>2. CASE \E x \in DOMAIN t : Hides(x, h[i])
  <2>1. PICK x \in DOMAIN t : Hides(x, h[i])
    BY <1>2
  <2>2. PICK j \in I : x = h[j]
    BY <2>1 DEF Placed
  <2>3. IsPrefix(Last(x), Last(h[i])) /\ x # h[i]
    BY <1>1, <2>1, HidesIs
  <2>4. Last(h[j]) = recs[j].at
    BY DEF Placed
  <2>5. QED
    BY <1>1, <2>2, <2>3, <2>4
<1>3. CASE \A x \in DOMAIN t : ~Hides(x, h[i])
  <2>1. Top(t, Last(h[i])) = h[i]
    BY <1>1, <1>3, UnhiddenShows DEF TreeOK
  <2>2. QED
    BY <1>1, <2>1 DEF IsMountPoint
<1>4. QED
  BY <1>2, <1>3

-----------------------------------------------------------------------------
(* What is mounted, and where. *)

\* The mounts of plans, and the live ones.
MountSet == [kind : {"bind", "tmpfs", "file", "overlay"}, src : Path, at : Point,
             ro : BOOLEAN, optional : BOOLEAN]
LiveSet  == [host : HostPaths \union Files, at : Point, rw : BOOLEAN]
ShareSet == [source : Path, at : Path, mode : {"read-only", "read-write", "empty", "overlay"},
             optional : BOOLEAN, create : BOOLEAN]

\* The shares of configs, and where mounts are.
LEMMA SharesIn ==
  /\ LiveAt \subseteq Point
  /\ \A spec \in Specs : spec.shares \in Seq(ShareSet)
<1>1. Seq(STRING) \subseteq Path
  BY DEF Path, Name
<1>2. LiveAt \subseteq Point
  BY <1>1, MountsAssumption DEF Point
<1> DEFINE Given == [source : Seq(STRING), at : Seq(STRING),
                     mode : {"read-only", "read-write", "empty", "overlay"},
                     optional : BOOLEAN, create : BOOLEAN]
<1>3. Given \subseteq ShareSet
  BY <1>1 DEF ShareSet
<1>4. \A spec \in Specs : spec.shares \in Seq(Given)
  BY MountsAssumption
<1>5. QED
  <2> HIDE DEF Given
  <2>1. \A s \in Seq(Given) : s \in Seq(ShareSet)
    BY <1>3
  <2>2. QED
    BY <1>2, <1>4, <2>1

\* The sequences of a sequence, joined.
LEMMA JoinedIn ==
  ASSUME NEW S, NEW ss \in Seq(Seq(S))
  PROVE  FlattenSeq(ss) \in Seq(S)
<1>1. PICK n \in Nat : n = Len(ss) /\ DOMAIN ss = 1..n
  OBVIOUS
<1>0. n \in Nat
  BY <1>1
<1> DEFINE Is(k, f) == f = [i \in 1..k |-> IF i = 1 THEN ss[i] ELSE f[i - 1] \o ss[i]]
<1> DEFINE Some == {k \in 0..n : \E f : Is(k, f)}
<1>2. 0 \in Some
  <2>1. Is(0, <<>>)
    OBVIOUS
  <2>2. QED
    <3> HIDE DEF Is
    <3>1. QED
      BY <1>0, <2>1
<1>3. ASSUME NEW k \in 1..n, k - 1 \in Some
      PROVE  k \in Some
  <2>1. PICK f : Is(k - 1, f)
    BY <1>3
  <2> DEFINE g == [i \in 1..k |-> IF i = k
        THEN (IF k = 1 THEN ss[k] ELSE f[k - 1] \o ss[k]) ELSE f[i]]
  <2>2. ASSUME NEW i \in 1..k
        PROVE  g[i] = IF i = 1 THEN ss[i] ELSE g[i - 1] \o ss[i]
    <3>1. CASE i = k
      <4>1. k # 1 => g[k - 1] = f[k - 1]
        OBVIOUS
      <4>2. g[k] = IF k = 1 THEN ss[k] ELSE f[k - 1] \o ss[k]
        OBVIOUS
      <4> HIDE DEF g
      <4>3. QED
        BY <3>1, <4>1, <4>2
    <3>2. CASE i # k
      <4>1. i \in 1..(k - 1) /\ g[i] = f[i] /\ (i # 1 => g[i - 1] = f[i - 1])
        BY <3>2
      <4>2. f[i] = IF i = 1 THEN ss[i] ELSE f[i - 1] \o ss[i]
        BY <2>1, <4>1
      <4> HIDE DEF g
      <4>3. QED
        BY <4>1, <4>2
    <3>3. QED
      BY <3>1, <3>2
  <2>3. g = [i \in 1..k |-> g[i]]
    OBVIOUS
  <2> HIDE DEF g
  <2>4. Is(k, g)
    BY <2>2, <2>3
  <2>5. QED
    <3> HIDE DEF Is
    <3>1. QED
      BY <1>1, <2>4
<1>4. n \in Some
  <2>1. \A i \in 1..n : i - 1 \in Some => i \in Some
    BY <1>3
  <2> HIDE DEF Some
  <2>2. \A i \in 0..n : i \in Some
    BY <1>0, <1>2, <2>1, UpTo
  <2>3. QED
    BY <1>0, <2>2
<1> DEFINE IsJoin(f) == f = [i \in 1..Len(ss) |-> IF i = 1 THEN ss[i] ELSE f[i - 1] \o ss[i]]
<1> DEFINE f == CHOOSE h : IsJoin(h)
<1>5. IsJoin(f)
  <2>1. \E h : IsJoin(h)
    BY <1>1, <1>4
  <2>2. QED
    BY <2>1
<1>6. n # 0 => FlattenSeq(ss) = f[n]
  BY <1>1 DEF FlattenSeq
<1> HIDE DEF f
<1>7. \A i \in 1..n : f[i] = IF i = 1 THEN ss[i] ELSE f[i - 1] \o ss[i]
  BY <1>1, <1>5
<1> HIDE DEF IsJoin
<1> DEFINE Fine == {0} \union {i \in 1..n : f[i] \in Seq(S)}
<1>8. ASSUME NEW i \in 1..n, i - 1 \in Fine
      PROVE  i \in Fine
  <2>1. ss[i] \in Seq(S)
    BY <1>1
  <2>2. CASE i = 1
    BY <1>7, <2>1, <2>2
  <2>3. CASE i # 1
    <3>1. f[i - 1] \in Seq(S)
      BY <1>8, <2>3
    <3>2. f[i] = f[i - 1] \o ss[i]
      BY <1>7, <2>3
    <3>3. \A a, b \in Seq(S) : a \o b \in Seq(S)
      OBVIOUS
    <3>4. f[i] \in Seq(S)
      BY <2>1, <3>1, <3>2, <3>3
    <3>5. QED
      BY <3>4
  <2>4. QED
    BY <2>2, <2>3
<1>9. n # 0 => f[n] \in Seq(S)
  <2>1. 0 \in Fine /\ \A i \in 1..n : i - 1 \in Fine => i \in Fine
    BY <1>8
  <2>2. n \in Fine
    <3> HIDE DEF Fine
    <3>1. \A i \in 0..n : i \in Fine
      BY <1>0, <2>1, UpTo
    <3>2. QED
      BY <1>0, <3>1
  <2>3. QED
    BY <2>2
<1>10. n = 0 => FlattenSeq(ss) = <<>>
  BY <1>1 DEF FlattenSeq
<1>11. <<>> \in Seq(S)
  OBVIOUS
<1>12. QED
  BY <1>6, <1>9, <1>10, <1>11

\* The mounts of the shares.
LEMMA SharesTyped ==
  ASSUME NEW spec \in Specs
  PROVE  ShareMounts(spec) \in Seq(MountSet)
<1>1. spec.shares \in Seq(ShareSet) /\ MaxDepth \in Nat
  BY MountsAssumption, SharesIn
<1> DEFINE At(d) == Those(spec.shares, {s \in ToSet(spec.shares) : Planned(s) /\ Len(s.at) = d})
           Good == {s \in ShareSet : Planned(s)}
           all  == [d \in 1..MaxDepth |-> At(d)]
<1>2. ASSUME NEW d
      PROVE  At(d) \in Seq(Good)
  <2>1. PICK T : T = {s \in ToSet(spec.shares) : Planned(s) /\ Len(s.at) = d}
    OBVIOUS
  <2>2. At(d) = Those(spec.shares, T)
    BY <2>1
  <2>3. PICK c, h :
          c \in Seq(ShareSet) /\ c = Those(spec.shares, T) /\ Chosen(spec.shares, T, c, h)
    BY <1>1, ThoseIs
  <2>4. ASSUME NEW i \in 1..Len(c)
        PROVE  c[i] \in Good
    <3>1. c[i] \in T /\ c[i] \in ShareSet
      BY <2>3 DEF Chosen
    <3>2. QED
      BY <2>1, <3>1
  <2>5. c \in Seq(Good)
    <3> HIDE DEF Good
    <3>1. QED
      BY <2>3, <2>4
  <2>6. QED
    BY <2>2, <2>3, <2>5
<1>3. all \in Seq(Seq(Good))
  <2> HIDE DEF At, Good
  <2>1. QED
    BY <1>1, <1>2
<1> DEFINE flat == FlattenSeq(all)
<1>4. flat \in Seq(Good)
  <2> HIDE DEF all, Good
  <2>1. QED
    BY <1>3, JoinedIn
<1>5. \A s \in Good : ShareMount(s) \in MountSet
  BY DEF Point, Path, ShareSet, Planned, ShareMount, Tmpfs, Overlay, Bind, Mount, MountSet
<1>6. ShareMounts(spec) = [i \in DOMAIN flat |-> ShareMount(flat[i])]
  BY DEF ShareMounts
<1>7. QED
  <2> HIDE DEF flat, Good
  <2>1. \A i \in DOMAIN flat : flat[i] \in Good
    BY <1>4
  <2>2. QED
    BY <1>4, <1>5, <1>6, <2>1

\* Short sequences.
LEMMA Short ==
  ASSUME NEW S
  PROVE  /\ \A a \in S : <<a>> \in Seq(S) \ {<<>>}
         /\ \A a, b \in S : <<a, b>> \in Seq(S) \ {<<>>}
         /\ <<>> \in Seq(S)
<1>1. \A a : Len(<<a>>) = 1 /\ Len(<<>>) = 0
  OBVIOUS
<1>2. \A a, b : Len(<<a, b>>) = 2
  OBVIOUS
<1>3. \A a \in S : <<a>> \in Seq(S)
  OBVIOUS
<1>4. \A a, b \in S : <<a, b>> \in Seq(S)
  OBVIOUS
<1>5. <<>> \in Seq(S)
  OBVIOUS
<1>6. QED
  BY <1>1, <1>2, <1>3, <1>4, <1>5

\* Every mount of a plan.
LEMMA MountsTyped ==
  ASSUME NEW spec \in Specs
  PROVE  Mounts(spec) \in Seq(MountSet)
<1>1. /\ Usr \in Point /\ Tmp \in Point /\ X11Dir \in Point
      /\ Rt \in Point /\ Wayland \in Point
      /\ Pipewire \in Point /\ BusSocket \in Point
      /\ HomeDir \in Point /\ CacheDir \in Point
      /\ PsboxBin \in Point /\ Handler \in Point
      /\ Resolv \in Point /\ Resolve \in Point
      /\ HostHome \in Point /\ Exe \in Point /\ <<>> \in Path /\ Point \subseteq Path
  <2>1. /\ \A a \in Name : <<a>> \in Point
        /\ \A a, b \in Name : <<a, b>> \in Point
        /\ <<>> \in Path /\ Point \subseteq Path
    BY Short DEF Point, Path
  <2>2. Usr \in Point
    BY <2>1 DEF Usr, Name
  <2>3. Tmp \in Point
    BY <2>1 DEF Tmp, Name
  <2>4. X11Dir \in Point
    BY <2>1 DEF X11Dir, Name
  <2>5. Rt \in Point
    BY <2>1 DEF Rt, Name
  <2>6. Wayland \in Point
    BY <2>1 DEF Wayland, Name
  <2>7. Pipewire \in Point
    BY <2>1 DEF Pipewire, Name
  <2>8. BusSocket \in Point
    BY <2>1 DEF BusSocket, Name
  <2>9. HomeDir \in Point
    BY <2>1 DEF HomeDir, Name
  <2>10. CacheDir \in Point
    BY <2>1 DEF CacheDir, Name
  <2>11. PsboxBin \in Point
    BY <2>1 DEF PsboxBin, Name
  <2>12. Handler \in Point
    BY <2>1 DEF Handler, Name
  <2>13. Resolv \in Point
    BY <2>1 DEF Resolv, Name
  <2>14. Resolve \in Point
    BY <2>1 DEF Resolve, Name
  <2>15. HostHome \in Point
    BY <2>1 DEF HostHome, Name
  <2>16. Exe \in Point
    BY <2>1 DEF Exe, Name
  <2>17. QED
    BY <2>1, <2>2, <2>3, <2>4, <2>5, <2>6, <2>7, <2>8, <2>9, <2>10, <2>11, <2>12, <2>13, <2>14,
       <2>15, <2>16
<1>2. \A at \in Point : Tmpfs(at) \in MountSet /\ File(at) \in MountSet
  BY <1>1 DEF Tmpfs, File, Mount, MountSet
<1>3. \A src \in Path, at \in Point :
        /\ Bind(src, at, TRUE, TRUE) \in MountSet /\ Bind(src, at, TRUE, FALSE) \in MountSet
        /\ Bind(src, at, FALSE, FALSE) \in MountSet
  BY DEF Bind, Mount, MountSet
<1> HIDE DEF MountSet
<1>4. \A m1 \in MountSet : <<m1>> \in Seq(MountSet) /\ <<>> \in Seq(MountSet)
  OBVIOUS
<1>5. <<>> \in Seq(MountSet)
  OBVIOUS
<1>6. \A a, b \in Seq(MountSet) : a \o b \in Seq(MountSet)
  OBVIOUS
<1>7. \A c, a : a \in Seq(MountSet) => When(c, a) \in Seq(MountSet)
  BY <1>5 DEF When
<1>8. << Bind(Usr, Usr, TRUE, FALSE), Tmpfs(Tmp) >> \in Seq(MountSet)
  <2>1. \A a, b \in MountSet : <<a, b>> \in Seq(MountSet)
    OBVIOUS
  <2>2. QED
    BY <1>1, <1>2, <1>3, <2>1
<1>9. \A x : NetworkMount(x) \in Seq(MountSet)
  BY <1>1, <1>2, <1>3, <1>4, <1>5 DEF NetworkMount
<1>10. SocketMounts(spec) \in Seq(MountSet)
  BY <1>1, <1>3, <1>4, <1>6, <1>7 DEF SocketMounts
<1>11. HomeMounts(spec) \in Seq(MountSet)
  <2>1. /\ << Bind(HostHome, HomeDir, FALSE, FALSE) >> \in Seq(MountSet)
        /\ << Tmpfs(CacheDir) >> \in Seq(MountSet) /\ << Tmpfs(HomeDir) >> \in Seq(MountSet)
    BY <1>1, <1>2, <1>3, <1>4
  <2>2. QED
    BY <1>5, <1>6, <1>7, <2>1 DEF HomeMounts
<1>12. OwnMounts(spec) \in Seq(MountSet)
  BY <1>1, <1>2, <1>3, <1>4, <1>6, <1>7 DEF OwnMounts
<1>13. << Tmpfs(Rt) >> \in Seq(MountSet) /\ << Tmpfs(X11Dir) >> \in Seq(MountSet)
  BY <1>1, <1>2, <1>4
<1>14. ShareMounts(spec) \in Seq(MountSet)
  BY SharesTyped
<1>15. QED
  BY <1>6, <1>7, <1>8, <1>9, <1>10, <1>11, <1>12, <1>13, <1>14 DEF Mounts

\* Every plan's, and what a reload changes.
LEMMA PlansTyped ==
  ASSUME NEW p \in Plans
  PROVE  p.mounts \in Seq(MountSet)
BY MountsTyped DEF Plans, Build

LEMMA ChangesTyped ==
  ASSUME NEW c \in Changes
  PROVE  c.new \in Plans /\ c.change.detach \in Seq(MountSet) /\ c.change.attach \in Seq(MountSet)
<1>1. PICK o \in Plans, n \in Plans : c.new = n /\ c.change = Diff(o, n)
  BY DEF Changes
<1>2. o.mounts \in Seq(MountSet) /\ n.mounts \in Seq(MountSet)
  BY PlansTyped
<1>3. Reverse(o.mounts) \in Seq(MountSet)
  BY <1>2 DEF Reverse
<1>4. \A T : Those(Reverse(o.mounts), T) \in Seq(MountSet) /\ Those(n.mounts, T) \in Seq(MountSet)
  BY <1>2, <1>3, ThoseIs
<1>5. <<>> \in Seq(MountSet)
  OBVIOUS
<1>6. Diff(o, n).detach \in Seq(MountSet) /\ Diff(o, n).attach \in Seq(MountSet)
  BY <1>4, <1>5 DEF Diff
<1>7. QED
  BY <1>1, <1>6

-----------------------------------------------------------------------------
(* What the folds keep. *)

\* Nothing changed.
LEMMA UntouchedSelf ==
  ASSUME NEW t, NEW P
  PROVE  Untouched(t, t, P)
BY DEF Untouched

\* One more attached at one of the paths.
LEMMA AttachOn ==
  ASSUME NEW t, NEW u, TreeOK(u), NEW P, P \subseteq Point, Untouched(t, u, P), NEW p \in P,
         NEW what
  PROVE  TreeOK(Attach(u, p, what)) /\ Untouched(t, Attach(u, p, what), P)
<1>1. p \in Point /\ {p} \subseteq P
  OBVIOUS
<1>2. PICK v : v = Attach(u, p, what)
  OBVIOUS
<1>3. TreeOK(v) /\ Untouched(u, v, {p})
  BY <1>1, <1>2, AttachUntouched
<1>4. Untouched(t, v, P)
  BY <1>1, <1>3, UntouchedOn
<1>5. QED
  BY <1>2, <1>3, <1>4

\* A plan's mounts leave what is not at or below them.
LEMMA MadeKeeps ==
  ASSUME NEW t, TreeOK(t), NEW ms \in Seq(MountSet), NEW there, NEW g,
         NEW P, P \subseteq Point, \A i \in 1..Len(ms) : ms[i].at \in P
  PROVE  TreeOK(AttachMade(t, ms, there, g)) /\ Untouched(t, AttachMade(t, ms, there, g), P)
<1>1. PICK w : Runs("made", there, g, 0, t, ms, w) /\ w[Len(ms)] = AttachMade(t, ms, there, g)
  BY MadeRuns
<1>2. PICK n \in Nat : n = Len(ms)
  OBVIOUS
<1>3. n \in Nat
  BY <1>2
<1> DEFINE Some == {i \in 0..n : TreeOK(w[i]) /\ Untouched(t, w[i], P)}
<1>4. 0 \in Some
  BY <1>1, <1>3, UntouchedSelf DEF Runs
<1>5. ASSUME NEW i \in 1..n, i - 1 \in Some
      PROVE  i \in Some
  <2>1. w[i] = Step("made", there, g, 0, w[i - 1], ms[i])
    BY <1>1, <1>2 DEF Runs
  <2>2. TreeOK(w[i - 1]) /\ Untouched(t, w[i - 1], P)
    BY <1>5
  <2>3. ms[i].at \in P
    BY <1>2
  <2>4. \A what : /\ TreeOK(Attach(w[i - 1], ms[i].at, what))
                  /\ Untouched(t, Attach(w[i - 1], ms[i].at, what), P)
    BY <2>2, <2>3, AttachOn
  <2>5. \/ w[i] = w[i - 1]
        \/ w[i] = Attach(w[i - 1], ms[i].at, Made(ms[i], g))
    BY <2>1 DEF Step
  <2>6. QED
    BY <1>3, <2>2, <2>4, <2>5
<1>6. n \in Some
  <2>1. \A i \in 1..n : i - 1 \in Some => i \in Some
    BY <1>5
  <2> HIDE DEF Some
  <2>2. \A i \in 0..n : i \in Some
    BY <1>3, <1>4, <2>1, UpTo
  <2>3. QED
    BY <1>3, <2>2
<1>7. QED
  BY <1>1, <1>2, <1>6

\* What a step of a reload has: astray if it was, or a tree that differs from t at and below P.
AccOK(t, P, lost, acc) ==
  /\ acc = [tree |-> acc.tree, sockets |-> acc.sockets, failed |-> acc.failed, astray |-> acc.astray]
  /\ lost => acc.astray
  /\ ~lost => TreeOK(acc.tree) /\ Untouched(t, acc.tree, P)

LEMMA DetachOK ==
  ASSUME NEW t, NEW P, P \subseteq Point, NEW lost, NEW acc, AccOK(t, P, lost, acc),
         NEW bad, NEW m \in MountSet, m.at \in P
  PROVE  AccOK(t, P, lost, DetachStep(bad, acc, m))
<1>1. PICK next : next = DetachStep(bad, acc, m)
  OBVIOUS
<1>2. PICK there \in BOOLEAN : there <=> IsMountPoint(acc.tree, m.at)
  OBVIOUS
<1>3. CASE next = [acc EXCEPT !.failed = @ \union {m.at}]
  <2>1. /\ next.tree = acc.tree /\ next.astray = acc.astray
        /\ next = [tree |-> next.tree, sockets |-> next.sockets, failed |-> next.failed,
                   astray |-> next.astray]
    BY <1>3 DEF AccOK
  <2>2. QED
    BY <1>1, <2>1 DEF AccOK
<1>4. CASE next # [acc EXCEPT !.failed = @ \union {m.at}]
  <2>1. /\ next.tree = IF IsMountPoint(acc.tree, m.at) THEN Detach(acc.tree, m.at) ELSE acc.tree
        /\ acc.astray => next.astray
        /\ next = [tree |-> next.tree, sockets |-> next.sockets, failed |-> next.failed,
                   astray |-> next.astray]
    BY <1>1, <1>4 DEF DetachStep
  <2>2. ASSUME ~lost
        PROVE  TreeOK(next.tree) /\ Untouched(t, next.tree, P)
    <3>1. CASE IsMountPoint(acc.tree, m.at)
      <4>1. PICK u : u = next.tree
        OBVIOUS
      <4>8. PICK p \in P : p = m.at
        OBVIOUS
      <4>2. PICK v : v = acc.tree
        OBVIOUS
      <4>3. TreeOK(v) /\ IsMountPoint(v, p) /\ u = Detach(v, p)
        BY <2>1, <2>2, <3>1, <4>1, <4>2, <4>8 DEF AccOK
      <4>4. TreeOK(u) /\ Untouched(v, u, {p})
        BY <4>3, DetachIs
      <4>5. Untouched(t, v, P) /\ {p} \subseteq P
        BY <2>2, <4>1, <4>2, <4>8 DEF AccOK
      <4>6. Untouched(t, u, P)
        BY <4>4, <4>5, UntouchedOn
      <4>7. QED
        BY <4>1, <4>4, <4>6
    <3>2. CASE ~IsMountPoint(acc.tree, m.at)
      BY <2>1, <2>2, <3>2 DEF AccOK
    <3>3. QED
      BY <3>1, <3>2
  <2>3. QED
    BY <1>1, <2>1, <2>2 DEF AccOK
<1>5. QED
  BY <1>3, <1>4

LEMMA PlaceOK ==
  ASSUME NEW t, NEW P, P \subseteq Point, NEW lost, NEW acc, AccOK(t, P, lost, acc),
         NEW bad, NEW m \in MountSet, m.at \in P, NEW made
  PROVE  AccOK(t, P, lost, PlaceStep(bad, acc, m, made))
<1>1. PICK next : next = PlaceStep(bad, acc, m, made)
  OBVIOUS
<1>2. PICK u : u = acc.tree
  OBVIOUS
<1>8. PICK p \in P : p = m.at
  OBVIOUS
<1>3. ~lost => TreeOK(u) /\ Untouched(t, u, P)
  BY <1>2 DEF AccOK
<1>4. ~lost => TreeOK(Attach(u, p, made)) /\ Untouched(t, Attach(u, p, made), P)
  BY <1>3, AttachOn
<1>5. /\ next = [tree |-> next.tree, sockets |-> next.sockets, failed |-> next.failed,
                 astray |-> next.astray]
      /\ next.tree = acc.tree \/ next.tree = Attach(u, p, made)
      /\ next.astray = acc.astray
  BY <1>1, <1>2, <1>8 DEF PlaceStep, AccOK
<1>6. ~lost => TreeOK(next.tree) /\ Untouched(t, next.tree, P)
  BY <1>2, <1>3, <1>4, <1>5
<1>7. QED
  BY <1>1, <1>5, <1>6 DEF AccOK

\* What a reload detaches and attaches.
LEMMA DetachKeeps ==
  ASSUME NEW t, NEW P, P \subseteq Point, NEW lost, NEW zero, AccOK(t, P, lost, zero), NEW bad,
         NEW ms \in Seq(MountSet), \A i \in 1..Len(ms) : ms[i].at \in P
  PROVE  AccOK(t, P, lost, DetachAll(bad, zero, ms))
<1>1. PICK w : /\ Runs("detach", bad, 0, 0, zero, ms, w)
               /\ w[Len(ms)] = DetachAll(bad, zero, ms)
  BY DetachRuns
<1>2. PICK n \in Nat : n = Len(ms)
  OBVIOUS
<1>3. n \in Nat
  BY <1>2
<1> DEFINE Some == {i \in 0..n : AccOK(t, P, lost, w[i])}
<1>4. 0 \in Some
  BY <1>1, <1>3 DEF Runs
<1>5. ASSUME NEW i \in 1..n, i - 1 \in Some
      PROVE  i \in Some
  <2>1. w[i] = Step("detach", bad, 0, 0, w[i - 1], ms[i])
    BY <1>1, <1>2 DEF Runs
  <2>2. AccOK(t, P, lost, w[i - 1])
    BY <1>5
  <2>3. ms[i] \in MountSet /\ ms[i].at \in P
    BY <1>2
  <2>4. AccOK(t, P, lost, DetachStep(bad, w[i - 1], ms[i]))
    BY <2>2, <2>3, DetachOK
  <2>5. w[i] = DetachStep(bad, w[i - 1], ms[i])
    BY <2>1 DEF Step
  <2>6. QED
    BY <1>3, <2>4, <2>5
<1>6. n \in Some
  <2>1. \A i \in 1..n : i - 1 \in Some => i \in Some
    BY <1>5
  <2> HIDE DEF Some
  <2>2. \A i \in 0..n : i \in Some
    BY <1>3, <1>4, <2>1, UpTo
  <2>3. QED
    BY <1>3, <2>2
<1>7. QED
  BY <1>1, <1>2, <1>6

LEMMA PlaceKeeps ==
  ASSUME NEW t, NEW P, P \subseteq Point, NEW lost, NEW zero, AccOK(t, P, lost, zero), NEW bad,
         NEW ms \in Seq(MountSet), \A i \in 1..Len(ms) : ms[i].at \in P, NEW got,
         NEW s \in Seq(1..Len(ms))
  PROVE  AccOK(t, P, lost, PlaceAll(bad, zero, ms, got, s))
<1>1. PICK w : /\ Runs("place", bad, ms, got, zero, s, w)
               /\ w[Len(s)] = PlaceAll(bad, zero, ms, got, s)
  BY PlaceRuns
<1>2. PICK n \in Nat : n = Len(s)
  OBVIOUS
<1>3. n \in Nat
  BY <1>2
<1> DEFINE Some == {i \in 0..n : AccOK(t, P, lost, w[i])}
<1>4. 0 \in Some
  BY <1>1, <1>3 DEF Runs
<1>5. ASSUME NEW i \in 1..n, i - 1 \in Some
      PROVE  i \in Some
  <2>1. w[i] = Step("place", bad, ms, got, w[i - 1], s[i])
    BY <1>1, <1>2 DEF Runs
  <2>2. AccOK(t, P, lost, w[i - 1])
    BY <1>5
  <2>3. s[i] \in 1..Len(ms)
    BY <1>2
  <2>4. ms[s[i]] \in MountSet /\ ms[s[i]].at \in P
    BY <2>3
  <2>5. AccOK(t, P, lost, PlaceStep(bad, w[i - 1], ms[s[i]], got[s[i]]))
    BY <2>2, <2>4, PlaceOK
  <2>6. w[i] = PlaceStep(bad, w[i - 1], ms[s[i]], got[s[i]])
    BY <2>1 DEF Step
  <2>7. QED
    BY <1>3, <2>5, <2>6
<1>6. n \in Some
  <2>1. \A i \in 1..n : i - 1 \in Some => i \in Some
    BY <1>5
  <2> HIDE DEF Some
  <2>2. \A i \in 0..n : i \in Some
    BY <1>3, <1>4, <2>1, UpTo
  <2>3. QED
    BY <1>3, <2>2
<1>7. QED
  BY <1>1, <1>2, <1>6

-----------------------------------------------------------------------------
(* What the actions do to live mounts. *)

\* The records' mounts are where they were made.
Standing(t, recs) == TreeOK(t) /\ \E h : Placed(t, recs, DOMAIN recs, h)

\* One is mounted and recorded last.
LEMMA LiveAttached ==
  ASSUME NEW t, NEW recs \in Seq(LiveSet), Standing(t, recs), NEW l \in LiveSet
  PROVE  Standing(Attach(t, l.at, LiveMade(l)), Append(recs, l))
<1>1. PICK h : Placed(t, recs, DOMAIN recs, h)
  BY DEF Standing
<1>2. PICK p \in Point : p = l.at
  BY DEF LiveSet
<1>3. PICK what : what = LiveMade(l)
  OBVIOUS
<1>4. PICK k, u : Attaches(t, p, what, k, u)
  BY DEF Attaches, Standing
<1>5. TreeOK(u)
  BY <1>4, AttachIs
<1>6. PICK n \in Nat : n = Len(recs) + 1
  OBVIOUS
<1>7. PICK more : more = Append(recs, l)
  OBVIOUS
<1>8. /\ n \notin DOMAIN recs /\ \A i \in DOMAIN recs : more[i] = recs[i]
      /\ more[n] = l /\ DOMAIN more = (DOMAIN recs) \union {n}
  BY <1>6, <1>7
<1>9. Records(more[n], what, p)
  BY <1>2, <1>3, <1>8 DEF Records
<1>10. \E g : Placed(u, more, (DOMAIN recs) \union {n}, g)
  <2>1. PICK I : I = DOMAIN recs
    OBVIOUS
  <2>2. Placed(t, recs, I, h) /\ n \notin I /\ \A i \in I : more[i] = recs[i]
    BY <1>1, <1>8, <2>1
  <2>3. \E g : Placed(u, more, I \union {n}, g)
    BY <1>4, <1>9, <2>2, PlacedMore
  <2>4. QED
    BY <2>1, <2>3
<1>11. u = Attach(t, l.at, LiveMade(l))
  BY <1>2, <1>3, <1>4 DEF Attaches
<1>12. QED
  BY <1>5, <1>7, <1>8, <1>10, <1>11 DEF Standing

\* The lost ones are mounted again one after another.
LEMMA RemountKeeps ==
  ASSUME NEW t, NEW recs \in Seq(LiveSet), Standing(t, recs), NEW bad, NEW s \in Seq(LiveSet)
  PROVE  LET again == RemountAll(bad, [tree |-> t, live |-> recs], s)
         IN again.live \in Seq(LiveSet) /\ Standing(again.tree, again.live)
<1> DEFINE zero == [tree |-> t, live |-> recs]
<1>1. PICK w : Runs("remount", bad, 0, 0, zero, s, w) /\ w[Len(s)] = RemountAll(bad, zero, s)
  <2> HIDE DEF zero
  <2>1. QED
    BY RemountRuns
<1>2. PICK n \in Nat : n = Len(s)
  OBVIOUS
<1>3. n \in Nat
  BY <1>2
<1> DEFINE Fine(acc) == /\ acc = [tree |-> acc.tree, live |-> acc.live]
                        /\ acc.live \in Seq(LiveSet) /\ Standing(acc.tree, acc.live)
<1> DEFINE Some == {i \in 0..n : Fine(w[i])}
<1>4. 0 \in Some
  BY <1>1, <1>3 DEF Runs
<1>5. ASSUME NEW i \in 1..n, i - 1 \in Some
      PROVE  i \in Some
  <2>1. w[i] = Step("remount", bad, 0, 0, w[i - 1], s[i])
    BY <1>1, <1>2 DEF Runs
  <2>2. PICK acc : acc = w[i - 1] /\ Fine(acc)
    BY <1>5
  <2>3. PICK l \in LiveSet : l = s[i]
    BY <1>2
  <2>4. w[i] = Remount(bad, acc, l)
    BY <2>1, <2>2, <2>3 DEF Step
  <2>5. CASE w[i] = acc
    <3> HIDE DEF Fine
    <3>1. QED
      BY <1>3, <2>2, <2>5
  <2>6. CASE w[i] # acc
    <3>1. /\ w[i] = [tree |-> w[i].tree, live |-> w[i].live]
          /\ w[i].tree = Attach(acc.tree, l.at, LiveMade(l)) /\ w[i].live = Append(acc.live, l)
      BY <2>2, <2>4, <2>6 DEF Remount
    <3>2. Standing(Attach(acc.tree, l.at, LiveMade(l)), Append(acc.live, l))
      BY <2>2, LiveAttached
    <3>3. Append(acc.live, l) \in Seq(LiveSet)
      BY <2>2
    <3>4. w[i].live \in Seq(LiveSet) /\ Standing(w[i].tree, w[i].live)
      BY <3>1, <3>2, <3>3
    <3>5. Fine(w[i])
      BY <3>1, <3>4
    <3> HIDE DEF Fine
    <3>6. QED
      BY <1>3, <3>5
  <2>7. QED
    BY <2>5, <2>6
<1>6. n \in Some
  <2>1. \A i \in 1..n : i - 1 \in Some => i \in Some
    BY <1>5
  <2> HIDE DEF Some
  <2>2. \A i \in 0..n : i \in Some
    BY <1>3, <1>4, <2>1, UpTo
  <2>3. QED
    BY <1>3, <2>2
<1>7. QED
  BY <1>1, <1>2, <1>6

\* A reload leaves the records it keeps.
LEMMA KeptStand ==
  ASSUME NEW t, NEW recs \in Seq(LiveSet), Standing(t, recs), NEW u, TreeOK(u),
         NEW P, P \subseteq Point, Untouched(t, u, P),
         NEW T, \A i \in DOMAIN recs : recs[i] \in T <=> \A p \in P : ~IsPrefix(p, recs[i].at)
  PROVE  Those(recs, T) \in Seq(LiveSet) /\ Standing(u, Those(recs, T))
<1>1. PICK h : Placed(t, recs, DOMAIN recs, h)
  BY DEF Standing
<1>2. PICK I : I = DOMAIN recs /\ I = 1..Len(recs)
  OBVIOUS
<1>3. PICK J : J = {i \in I : recs[i] \in T}
  OBVIOUS
<1>4. Placed(u, recs, J, h)
  <2>1. J \subseteq I /\ Spared(recs, J, P) /\ \A i \in I \ J : \E p \in P : IsPrefix(p, recs[i].at)
    BY <1>2, <1>3 DEF Spared
  <2>2. Placed(t, recs, I, h) /\ TreeOK(t)
    BY <1>1, <1>2 DEF Standing
  <2>3. QED
    BY <2>1, <2>2, PlacedStays
<1>5. PICK c : c = Those(recs, T)
  OBVIOUS
<1>6. c \in Seq(LiveSet)
  BY <1>5, ThoseIs
<1>7. PICK m : Chosen(recs, T, c, m)
  BY <1>5, ThoseIs
<1>8. PICK K : K = DOMAIN c /\ K = 1..Len(c)
  BY <1>6
<1>9. Renumbers(recs, J, c, K, m)
  BY <1>2, <1>3, <1>7, <1>8 DEF Renumbers, Chosen
<1>10. \E g : Placed(u, c, K, g)
  BY <1>4, <1>9, PlacedAs
<1>11. QED
  BY <1>5, <1>6, <1>8, <1>10 DEF Standing

\* What leaves all records alone leaves them standing.
LEMMA AllStand ==
  ASSUME NEW t, NEW recs, Standing(t, recs), NEW u, TreeOK(u),
         NEW P, P \subseteq Point, Untouched(t, u, P), Spared(recs, DOMAIN recs, P)
  PROVE  Standing(u, recs)
<1>1. PICK h : Placed(t, recs, DOMAIN recs, h)
  BY DEF Standing
<1>2. PICK I : I = DOMAIN recs
  OBVIOUS
<1>3. /\ Placed(t, recs, I, h) /\ TreeOK(t) /\ I \subseteq I /\ Spared(recs, I, P)
      /\ \A i \in I \ I : \E p \in P : IsPrefix(p, recs[i].at)
  BY <1>1, <1>2 DEF Standing
<1>4. Placed(u, recs, I, h)
  BY <1>3, PlacedStays
<1>5. QED
  BY <1>2, <1>4 DEF Standing

\* The records s are recs[m[i]], none of them among J.
Others(recs, J, s, m) ==
  /\ \A i \in 1..Len(s) : m[i] \notin J /\ s[i] = recs[m[i]]
  /\ \A i, j \in 1..Len(s) : m[i] = m[j] => i = j

AndOthers(J, s, m) == J \union {m[i] : i \in 1..Len(s)}

\* A refresh attaches live mounts again.
LEMMA AgainPlaced ==
  ASSUME NEW t, TreeOK(t), NEW recs, NEW J, NEW h, Placed(t, recs, J, h),
         NEW s \in Seq(LiveSet), NEW m, Others(recs, J, s, m)
  PROVE  /\ TreeOK(AttachLive(t, s))
         /\ \E g : Placed(AttachLive(t, s), recs, AndOthers(J, s, m), g)
<1>1. PICK w : Runs("live", 0, 0, 0, t, s, w) /\ w[Len(s)] = AttachLive(t, s)
  BY LiveRuns
<1>2. PICK n \in Nat : n = Len(s)
  OBVIOUS
<1>3. n \in Nat
  BY <1>2
<1> DEFINE Done(i) == J \union {m[j] : j \in 1..i}
<1> DEFINE Some == {i \in 0..n : TreeOK(w[i]) /\ \E g : Placed(w[i], recs, Done(i), g)}
<1>4. 0 \in Some
  <2>1. w[0] = t
    BY <1>1 DEF Runs
  <2>2. Done(0) = J
    OBVIOUS
  <2> HIDE DEF Done
  <2>3. TreeOK(w[0]) /\ \E g : Placed(w[0], recs, Done(0), g)
    BY <2>1, <2>2
  <2>4. QED
    BY <1>3, <2>3
<1>5. ASSUME NEW i \in 1..n, i - 1 \in Some
      PROVE  i \in Some
  <2>1. w[i] = Step("live", 0, 0, 0, w[i - 1], s[i])
    BY <1>1, <1>2 DEF Runs
  <2>2. PICK a, g, I : a = w[i - 1] /\ TreeOK(a) /\ I = Done(i - 1) /\ Placed(a, recs, I, g)
    BY <1>5
  <2>3. PICK l \in LiveSet : l = s[i]
    BY <1>2
  <2>4. PICK p \in Point : p = l.at
    BY DEF LiveSet
  <2>5. PICK what : what = LiveMade(l)
    OBVIOUS
  <2>6. PICK k, u : Attaches(a, p, what, k, u)
    BY <2>2 DEF Attaches
  <2>7. PICK x : x = m[i]
    OBVIOUS
  <2>8. x \notin I
    <3>1. i \in 1..Len(s) /\ \A j \in 1..(i - 1) : j \in 1..Len(s) /\ i # j
      BY <1>2, <1>3
    <3>2. QED
      BY <2>2, <2>7, <3>1 DEF Others
  <2>9. Records(recs[x], what, p)
    <3>1. s[i] = recs[m[i]]
      BY <1>2 DEF Others
    <3>2. QED
      BY <2>3, <2>4, <2>5, <2>7, <3>1 DEF Records
  <2>10. \E f : Placed(u, recs, I \union {x}, f)
    <3>1. Placed(a, recs, I, g)
      BY <2>2
    <3>2. QED
      BY <2>6, <2>8, <2>9, <3>1, PlacedMore
  <2>11. TreeOK(u)
    BY <2>6, AttachIs
  <2>12. w[i] = u
    BY <2>1, <2>2, <2>3, <2>4, <2>5, <2>6 DEF Step, Attaches
  <2>13. Done(i) = I \union {x}
    <3>1. \A j : j \in 1..i <=> j \in 1..(i - 1) \/ j = i
      BY <1>3
    <3>2. QED
      BY <2>2, <2>7, <3>1
  <2>14. QED
    <3> HIDE DEF Done
    <3>1. TreeOK(w[i]) /\ \E f : Placed(w[i], recs, Done(i), f)
      BY <2>10, <2>11, <2>12, <2>13
    <3>2. i \in 0..n
      BY <1>3
    <3>3. QED
      BY <3>1, <3>2
<1>6. n \in Some
  <2>1. \A i \in 1..n : i - 1 \in Some => i \in Some
    BY <1>5
  <2> HIDE DEF Some
  <2>2. \A i \in 0..n : i \in Some
    BY <1>3, <1>4, <2>1, UpTo
  <2>3. QED
    BY <1>3, <2>2
<1>7. QED
  BY <1>1, <1>2, <1>6 DEF AndOthers

\* What RemoveAt leaves.
LEMMA RemovedIs ==
  ASSUME NEW S, NEW s \in Seq(S), NEW n \in 1..Len(s)
  PROVE  /\ RemoveAt(s, n) \in Seq(S) /\ Len(RemoveAt(s, n)) = Len(s) - 1
         /\ \A i \in 1..(Len(s) - 1) : RemoveAt(s, n)[i] = IF i < n THEN s[i] ELSE s[i + 1]
<1> DEFINE a == SubSeq(s, 1, n - 1)
           b == SubSeq(s, n + 1, Len(s))
<1>1. a \in Seq(S) /\ Len(a) = n - 1 /\ \A i \in 1..(n - 1) : a[i] = s[i]
  OBVIOUS
<1>2. b \in Seq(S) /\ Len(b) = Len(s) - n /\ \A i \in 1..(Len(s) - n) : b[i] = s[i + n]
  OBVIOUS
<1>3. RemoveAt(s, n) = a \o b
  BY DEF RemoveAt
<1> HIDE DEF a, b
<1>4. PICK c : c = a \o b
  OBVIOUS
<1>5. c \in Seq(S) /\ Len(c) = Len(s) - 1
  BY <1>1, <1>2, <1>4
<1>6. ASSUME NEW i \in 1..(Len(s) - 1)
      PROVE  c[i] = IF i < n THEN s[i] ELSE s[i + 1]
  <2>1. CASE i < n
    <3>1. i \in 1..(n - 1)
      BY <2>1
    <3>2. c[i] = a[i]
      BY <1>1, <1>2, <1>4, <3>1
    <3>3. QED
      BY <1>1, <2>1, <3>1, <3>2
  <2>2. CASE ~(i < n)
    <3>1. i - (n - 1) \in 1..(Len(s) - n) /\ i - (n - 1) + n = i + 1
      BY <2>2
    <3>2. c[i] = b[i - (n - 1)]
      BY <1>1, <1>2, <1>4, <2>2
    <3>3. b[i - (n - 1)] = s[i - (n - 1) + n]
      BY <1>2, <3>1
    <3>4. QED
      BY <2>2, <3>1, <3>2, <3>3
  <2>3. QED
    BY <2>1, <2>2
<1>7. QED
  BY <1>3, <1>4, <1>5, <1>6

\* What is seen at the path of the n-th record is its mount alone.
Alone(t, recs, n) ==
  LET at == recs[n].at IN
  /\ IsMountPoint(t, at) /\ Subtree(t, Top(t, at)) = {Top(t, at)}
        /\ t[Top(t, at)] = LiveMade(recs[n])
  /\ \A k \in DOMAIN t \ {Top(t, at)} : Last(k) # at \/ t[k] # t[Top(t, at)]

\* The mount of the n-th record is taken, and its record with it.
LEMMA OneLess ==
  ASSUME NEW t, NEW recs \in Seq(LiveSet), Standing(t, recs), NEW n \in DOMAIN recs,
         Alone(t, recs, n)
  PROVE  RemoveAt(recs, n) \in Seq(LiveSet) /\ Standing(Detach(t, recs[n].at), RemoveAt(recs, n))
<1>1. PICK h : Placed(t, recs, DOMAIN recs, h)
  BY DEF Standing
<1>2. PICK p \in Point : p = recs[n].at
  <2>1. recs[n] \in LiveSet
    OBVIOUS
  <2>2. QED
    BY <2>1 DEF LiveSet
<1>3. PICK k : k = Top(t, p)
  OBVIOUS
<1>4. k \in DOMAIN t /\ Last(k) = p
  BY <1>2, <1>3, PointIs DEF Standing, TreeOK, Alone
<1>5. h[n] = k
  BY <1>1, <1>2, <1>3, <1>4 DEF Placed, Alone
<1>6. PICK u : u = Detach(t, p)
  OBVIOUS
<1>7. TreeOK(u) /\ DOMAIN u = DOMAIN t \ {h[n]} /\ \A j \in DOMAIN u : u[j] = t[j]
  <2>1. TreeOK(t) /\ IsMountPoint(t, p)
    BY <1>2 DEF Standing, Alone
  <2>4. Subtree(t, Top(t, p)) = {h[n]}
    BY <1>2, <1>3, <1>5 DEF Alone
  <2>5. TreeOK(u)
    BY <1>6, <2>1, DetachIs
  <2>2. DOMAIN u = DOMAIN t \ Subtree(t, Top(t, p)) /\ \A j \in DOMAIN u : u[j] = t[j]
    BY <1>6 DEF Detach, Without
  <2>3. QED
    BY <2>2, <2>4, <2>5
<1>8. PICK I : I = DOMAIN recs /\ I = 1..Len(recs)
  OBVIOUS
<1>9. Placed(u, recs, I \ {n}, h)
  <2>1. Placed(t, recs, I, h) /\ n \in I
    BY <1>1, <1>8
  <2>2. QED
    BY <1>7, <2>1, PlacedLess
<1>10. PICK c : c = RemoveAt(recs, n)
  OBVIOUS
<1>11. PICK m : m = [i \in 1..(Len(recs) - 1) |-> IF i < n THEN i ELSE i + 1]
  OBVIOUS
<1>12. /\ c \in Seq(LiveSet) /\ Len(c) = Len(recs) - 1 /\ n \in 1..Len(recs)
       /\ \A i \in 1..(Len(recs) - 1) : c[i] = IF i < n THEN recs[i] ELSE recs[i + 1]
  <2>1. n \in 1..Len(recs)
    OBVIOUS
  <2>2. QED
    BY <1>10, <2>1, RemovedIs
<1>13. PICK K : K = DOMAIN c /\ K = 1..(Len(recs) - 1)
  BY <1>12
<1>14. Renumbers(recs, I \ {n}, c, K, m)
  <2>1. ASSUME NEW i \in K
        PROVE  m[i] \in I \ {n} /\ c[i] = recs[m[i]]
    BY <1>8, <1>11, <1>12, <1>13
  <2>2. ASSUME NEW i \in K, NEW j \in K, m[i] = m[j]
        PROVE  i = j
    BY <1>11, <1>12, <1>13, <2>2
  <2>3. ASSUME NEW i \in I \ {n}
        PROVE  \E j \in K : i = m[j]
    <3>1. CASE i < n
      <4>1. i \in K /\ m[i] = i
        BY <1>8, <1>11, <1>12, <1>13, <3>1
      <4>2. QED
        BY <4>1
    <3>2. CASE ~(i < n)
      <4>1. i - 1 \in K /\ ~(i - 1 < n) /\ i - 1 + 1 = i
        BY <1>8, <1>12, <1>13, <3>2
      <4>2. m[i - 1] = i
        BY <1>11, <1>13, <4>1
      <4>3. QED
        BY <4>1, <4>2
    <3>3. QED
      BY <3>1, <3>2
  <2>4. QED
    BY <2>1, <2>2, <2>3 DEF Renumbers
<1>15. \E g : Placed(u, c, K, g)
  <2>1. PICK H : H = I \ {n}
    OBVIOUS
  <2>2. Placed(u, recs, H, h) /\ Renumbers(recs, H, c, K, m)
    BY <1>9, <1>14, <2>1
  <2>3. QED
    BY <2>2, PlacedAs
<1>16. QED
  BY <1>2, <1>6, <1>7, <1>10, <1>12, <1>13, <1>15 DEF Standing

-----------------------------------------------------------------------------
(* The invariant, and what each action does to it. *)

MountsInv ==
  /\ plan \in Plans /\ docs \in Nat
  /\ chosen \in MountSet \union {Nothing}
  /\ applying # Nothing => /\ applying.new \in Plans
                           /\ applying.change.detach \in Seq(MountSet)
                           /\ applying.change.attach \in Seq(MountSet)
  /\ ~astray => live \in Seq(LiveSet) /\ Standing(tree, live)

\* At the start there are no live mounts.
LEMMA InitMounts == Init => MountsInv
<1> SUFFICES ASSUME Init
             PROVE  MountsInv
  OBVIOUS
<1>1. TreeOK(Bare)
  <2>1. IsFiniteSet({}) /\ DOMAIN Bare = {} /\ Bare = [k \in DOMAIN Bare |-> Bare[k]]
    BY FS_EmptySet DEF Bare
  <2>2. QED
    BY <2>1 DEF TreeOK, Keys
<1>2. TreeOK(tree)
  <2>1. tree = AttachMade(Bare, plan.mounts, up, gen) /\ plan.mounts \in Seq(MountSet)
    BY PlansTyped DEF Init, BuildRoot
  <2>2. PICK ms \in Seq(MountSet) : ms = plan.mounts
    BY <2>1
  <2>3. \A i \in 1..Len(ms) : ms[i].at \in Point
    <3>1. \A i \in 1..Len(ms) : ms[i] \in MountSet
      OBVIOUS
    <3>2. QED
      BY <3>1 DEF MountSet
  <2>4. TreeOK(AttachMade(Bare, ms, up, gen))
    BY <1>1, <2>3, MadeKeeps
  <2>5. QED
    BY <2>1, <2>2, <2>4
<1>3. live = <<>> /\ docs = 0 /\ chosen = Nothing /\ applying = Nothing /\ plan \in Plans
  BY DEF Init
<1>4. live \in Seq(LiveSet) /\ DOMAIN live = {}
  BY <1>3
<1>5. Standing(tree, live)
  BY <1>2, <1>4 DEF Standing, Placed
<1>6. QED
  BY <1>3, <1>4, <1>5 DEF MountsInv

\* One more live mount.
LEMMA MountKeeps ==
  ASSUME MountsInv, NEW host \in HostPaths, NEW at \in LiveAt, NEW rw \in BOOLEAN,
         MountRequest(host, at, rw)
  PROVE  MountsInv'
<1>1. PICK l : l = LiveRecord(host, at, rw)
  OBVIOUS
<1>2. l \in LiveSet
  BY <1>1, SharesIn DEF LiveRecord, LiveSet
<1>3. /\ tree' = Attach(tree, l.at, LiveMade(l)) /\ live' = Append(live, l)
      /\ UNCHANGED <<plan, docs, chosen, applying, astray>>
  BY <1>1 DEF MountRequest, LiveRecord, Record
<1>4. ASSUME ~astray'
      PROVE  live' \in Seq(LiveSet) /\ Standing(tree', live')
  <2>1. live \in Seq(LiveSet) /\ Standing(tree, live)
    BY <1>3, <1>4 DEF MountsInv
  <2>2. Standing(Attach(tree, l.at, LiveMade(l)), Append(live, l))
    BY <1>2, <2>1, LiveAttached
  <2>3. Append(live, l) \in Seq(LiveSet)
    BY <1>2, <2>1
  <2>4. QED
    BY <1>3, <2>2, <2>3
<1>5. QED
  BY <1>3, <1>4 DEF MountsInv

\* The first record at the path loses its mount, and nothing else does unless astray.
LEMMA UmountKeeps ==
  ASSUME MountsInv, NEW at, Umount(at)
  PROVE  MountsInv'
<1> DEFINE at_ == {i \in DOMAIN live : live[i].at = at}
           idx == CHOOSE i \in at_ : \A j \in at_ : i <= j
<1>1. /\ at_ # {} /\ IsMountPoint(tree, at)
      /\ tree' = Detach(tree, at) /\ live' = RemoveAt(live, idx)
      /\ ~astray' => /\ ~astray
                     /\ Subtree(tree, Top(tree, at)) = {Top(tree, at)}
                     /\ tree[Top(tree, at)] = LiveMade(live[idx])
                     /\ \A k \in DOMAIN tree \ {Top(tree, at)} :
                          Last(k) # at \/ tree[k] # tree[Top(tree, at)]
      /\ UNCHANGED <<plan, docs, chosen, applying>>
  BY DEF Umount
<1>2. ASSUME ~astray'
      PROVE  live' \in Seq(LiveSet) /\ Standing(tree', live')
  <2>1. live \in Seq(LiveSet) /\ Standing(tree, live)
    BY <1>1, <1>2 DEF MountsInv
  <2>2. \E i \in at_ : \A j \in at_ : i <= j
    <3>1. at_ \subseteq Nat
      BY <2>1
    <3> HIDE DEF at_
    <3>2. QED
      BY <1>1, <3>1, LeastOf
  <2>3. PICK n \in DOMAIN live : n = idx /\ live[n].at = at
    <3>1. idx \in at_
      BY <2>2
    <3> HIDE DEF idx
    <3>2. QED
      BY <3>1
  <2> HIDE DEF idx, at_
  <2>4. Alone(tree, live, n)
    BY <1>1, <1>2, <2>3 DEF Alone
  <2>5. RemoveAt(live, n) \in Seq(LiveSet) /\ Standing(Detach(tree, live[n].at), RemoveAt(live, n))
    BY <2>1, <2>4, OneLess
  <2>6. QED
    BY <1>1, <2>3, <2>5
<1> HIDE DEF idx, at_
<1>3. QED
  BY <1>1, <1>2 DEF MountsInv

\* A file of the file chooser's is mounted at a path of its own.
LEMMA ExposeKeeps ==
  ASSUME MountsInv, NEW file \in Files, Expose(file)
  PROVE  MountsInv'
<1>1. PICK l : l = LiveRecord(file, DocAt(docs + 1), TRUE)
  OBVIOUS
<1>2. docs \in Nat
  BY DEF MountsInv
<1>3. l \in LiveSet
  <2>1. DocAt(docs + 1) \in Point
    <3>1. PICK name : name = ToString(docs + 1)
      OBVIOUS
    <3>2. name \in Name /\ "rt" \in Name /\ "doc" \in Name
      BY <1>2, <3>1 DEF Name
    <3>3. <<"rt", "doc", name>> \in Seq(Name) /\ Len(<<"rt", "doc", name>>) = 3 /\ Len(<<>>) = 0
      BY <3>2
    <3>4. DocAt(docs + 1) = <<"rt", "doc", name>>
      BY <3>1 DEF DocAt
    <3>5. PICK x : x = <<"rt", "doc", name>>
      OBVIOUS
    <3>6. x # <<>> /\ x \in Path
      BY <3>3, <3>5 DEF Path
    <3>7. QED
      BY <3>4, <3>5, <3>6 DEF Point
  <2>2. QED
    BY <1>1, <2>1 DEF LiveRecord, LiveSet
<1>4. /\ \/ tree' = Attach(tree, l.at, LiveMade(l)) /\ live' = Append(live, l)
         \/ UNCHANGED <<tree, live>>
      /\ docs' = docs + 1 /\ UNCHANGED <<plan, chosen, applying, astray>>
  BY <1>1 DEF Expose, LiveRecord, Record
<1>5. ASSUME ~astray'
      PROVE  live' \in Seq(LiveSet) /\ Standing(tree', live')
  <2>1. live \in Seq(LiveSet) /\ Standing(tree, live)
    BY <1>4, <1>5 DEF MountsInv
  <2>2. Standing(Attach(tree, l.at, LiveMade(l)), Append(live, l))
    BY <1>3, <2>1, LiveAttached
  <2>3. Append(live, l) \in Seq(LiveSet)
    BY <1>3, <2>1
  <2>4. QED
    BY <1>4, <2>1, <2>2, <2>3
<1>6. QED
  BY <1>2, <1>4, <1>5 DEF MountsInv

\* The numbers of a sequence, and two sequences one after the other.
LEMMA InOrder ==
  ASSUME NEW s \in Seq(MountSet)
  PROVE  [i \in DOMAIN s |-> i] \in Seq(1..Len(s))
OBVIOUS

LEMMA BothIn ==
  ASSUME NEW a \in Seq(MountSet), NEW b \in Seq(MountSet)
  PROVE  /\ {m.at : m \in ToSet(a \o b)} \subseteq Point
         /\ \A i \in 1..Len(a) : a[i].at \in {m.at : m \in ToSet(a \o b)}
         /\ \A i \in 1..Len(b) : b[i].at \in {m.at : m \in ToSet(a \o b)}
<1>1. PICK all : all = a \o b
  OBVIOUS
<1>2. all \in Seq(MountSet) /\ Len(all) = Len(a) + Len(b) /\ Len(a) \in Nat /\ Len(b) \in Nat
  BY <1>1
<1>3. DOMAIN all = 1..(Len(a) + Len(b))
  BY <1>2
<1>4. PICK P : P = {m.at : m \in {all[i] : i \in DOMAIN all}}
  OBVIOUS
<1>5. \A i \in DOMAIN all : all[i] \in MountSet /\ all[i].at \in P
  BY <1>2, <1>4
<1>6. P \subseteq Point
  BY <1>4, <1>5 DEF MountSet
<1>7. ASSUME NEW i \in 1..Len(a)
      PROVE  a[i].at \in P
  <2>1. i \in DOMAIN all /\ all[i] = a[i]
    BY <1>1, <1>2, <1>3
  <2>2. QED
    BY <1>5, <2>1
<1>8. ASSUME NEW i \in 1..Len(b)
      PROVE  b[i].at \in P
  <2>1. i + Len(a) \in 1..(Len(a) + Len(b)) /\ ~(i + Len(a) <= Len(a)) /\ i + Len(a) - Len(a) = i
    BY <1>2
  <2>2. i + Len(a) \in DOMAIN all /\ all[i + Len(a)] = b[i]
    BY <1>1, <1>2, <1>3, <2>1
  <2>3. QED
    BY <1>5, <2>2
<1>9. P = {m.at : m \in ToSet(a \o b)}
  BY <1>1, <1>4 DEF ToSet
<1>10. QED
  BY <1>6, <1>7, <1>8, <1>9

\* A reload leaves live mounts alone that are not at or below what it changes, and mounts the
\* others again.
LEMMA CommitKeeps ==
  ASSUME MountsInv, ApplyCommit
  PROVE  MountsInv'
<1> DEFINE change == applying.change
           zero == [tree |-> tree, sockets |-> sockets, failed |-> {}, astray |-> astray]
           detached(bad) == DetachAll(bad, zero, change.detach)
           placed(bad) == PlaceAll(bad, detached(bad), change.attach, applying.got,
                                   [i \in DOMAIN change.attach |-> i])
           lost == Those(live, {l \in ToSet(live) : Lost(l, change)})
           kept == Those(live, {l \in ToSet(live) : ~Lost(l, change)})
           again(bad) == RemountAll(bad, [tree |-> placed(bad).tree, live |-> kept], lost)
<1>1. PICK bad : /\ tree' = again(bad).tree /\ live' = again(bad).live
                 /\ astray' = placed(bad).astray
  BY DEF ApplyCommit
<1>2. /\ applying # Nothing /\ plan' = applying.new /\ applying' = Nothing
      /\ UNCHANGED <<docs, chosen>>
  BY DEF ApplyCommit, Unlocked
<1>3. change.detach \in Seq(MountSet) /\ change.attach \in Seq(MountSet) /\ applying.new \in Plans
  BY <1>2 DEF MountsInv
<1>4. ASSUME ~astray'
      PROVE  live' \in Seq(LiveSet) /\ Standing(tree', live')
  <2>1. PICK P : P = {m.at : m \in ToSet(change.detach \o change.attach)}
    OBVIOUS
  <2>2. /\ \A i \in 1..Len(change.detach) : change.detach[i].at \in P
        /\ \A i \in 1..Len(change.attach) : change.attach[i].at \in P
        /\ P \subseteq Point
    <3>1. PICK ds \in Seq(MountSet) : ds = change.detach
      BY <1>3
    <3>2. PICK adds \in Seq(MountSet) : adds = change.attach
      BY <1>3
    <3>3. P = {m.at : m \in ToSet(ds \o adds)}
      BY <2>1, <3>1, <3>2
    <3>4. QED
      BY <3>1, <3>2, <3>3, BothIn
  <2>3. PICK u : u = placed(bad).tree
    OBVIOUS
  <2>4. ~astray /\ live \in Seq(LiveSet) /\ Standing(tree, live)
          /\ TreeOK(u) /\ Untouched(tree, u, P)
    <3>1. PICK a : a = zero
      OBVIOUS
    <3>2. AccOK(tree, P, astray, a)
      BY <3>1, UntouchedSelf DEF AccOK, MountsInv, Standing
    <3>3. PICK ds \in Seq(MountSet) : ds = change.detach
      BY <1>3
    <3>4. PICK adds \in Seq(MountSet) : adds = change.attach
      BY <1>3
    <3>5. PICK b : b = DetachAll(bad, a, ds)
      OBVIOUS
    <3>6. AccOK(tree, P, astray, b)
      <4>1. P \subseteq Point /\ \A i \in 1..Len(ds) : ds[i].at \in P
        BY <2>2, <3>3
      <4>2. AccOK(tree, P, astray, DetachAll(bad, a, ds))
        BY <3>2, <4>1, DetachKeeps
      <4>3. QED
        BY <3>5, <4>2
    <3>7. PICK got, order : got = applying.got /\ order = [i \in DOMAIN adds |-> i]
      OBVIOUS
    <3>8. order \in Seq(1..Len(adds))
      BY <3>7, InOrder
    <3>9. AccOK(tree, P, astray, PlaceAll(bad, b, adds, got, order))
      <4>1. P \subseteq Point /\ \A i \in 1..Len(adds) : adds[i].at \in P
        BY <2>2, <3>4
      <4>2. QED
        BY <3>6, <3>8, <4>1, PlaceKeeps
    <3>10. placed(bad) = PlaceAll(bad, b, adds, got, order)
      BY <3>1, <3>3, <3>4, <3>5, <3>7
    <3> HIDE DEF placed
    <3>11. ~astray
      BY <1>1, <1>4, <3>9, <3>10 DEF AccOK
    <3>12. TreeOK(u) /\ Untouched(tree, u, P)
      BY <2>3, <3>9, <3>10, <3>11 DEF AccOK
    <3>13. QED
      BY <3>11, <3>12 DEF MountsInv
  <2>5. PICK T : T = {l \in ToSet(live) : ~Lost(l, change)}
    OBVIOUS
  <2>6. \A i \in DOMAIN live : live[i] \in T <=> \A p \in P : ~IsPrefix(p, live[i].at)
    <3>1. \A i \in DOMAIN live : live[i] \in ToSet(live)
      BY DEF ToSet
    <3>2. \A l : Lost(l, change) <=> \E p \in P : IsPrefix(p, l.at)
      BY <2>1 DEF Lost
    <3> HIDE DEF change
    <3>3. QED
      BY <2>5, <3>1, <3>2
  <2>7. Those(live, T) \in Seq(LiveSet) /\ Standing(u, Those(live, T))
    BY <2>2, <2>4, <2>6, KeptStand
  <2>8. PICK c, s : c = kept /\ s = lost
    OBVIOUS
  <2>9. c \in Seq(LiveSet) /\ Standing(u, c) /\ s \in Seq(LiveSet)
    <3>1. s \in Seq(LiveSet)
      BY <2>4, <2>8, ThoseIs
    <3>2. QED
      BY <2>5, <2>7, <2>8, <3>1
  <2>10. PICK r : r = RemountAll(bad, [tree |-> u, live |-> c], s)
    OBVIOUS
  <2>11. r.live \in Seq(LiveSet) /\ Standing(r.tree, r.live)
    BY <2>9, <2>10, RemountKeeps
  <2>12. r = again(bad)
    BY <2>3, <2>8, <2>10
  <2> HIDE DEF again
  <2>13. QED
    BY <1>1, <2>11, <2>12
<1> HIDE DEF again, placed, change
<1>5. QED
  BY <1>2, <1>3, <1>4 DEF MountsInv

\* A socket that is attached or replaced is not at or above a live mount, unless astray.
LEMMA ReattachKeeps ==
  ASSUME MountsInv, ReattachSocket
  PROVE  MountsInv'
<1>1. PICK at : at = chosen.at
  OBVIOUS
<1>2. PICK made : made = Made(chosen, gen)
  OBVIOUS
<1>3. /\ chosen # Nothing /\ chosen' = Nothing /\ UNCHANGED <<plan, live, docs, applying>>
      /\ ~astray' => ~astray
      /\ \/ tree' = tree
         \/ /\ \/ IsMountPoint(tree, at) /\ tree' = Replace(tree, at, made)
               \/ tree' = Attach(tree, at, made)
            /\ ~astray' => \A l \in ToSet(live) : ~IsPrefix(at, l.at)
  BY <1>1, <1>2 DEF ReattachSocket
<1>4. chosen \in MountSet
  BY <1>3 DEF MountsInv
<1>5. at \in Point
  BY <1>1, <1>4 DEF MountSet
<1>6. ASSUME ~astray'
      PROVE  live' \in Seq(LiveSet) /\ Standing(tree', live')
  <2>1. live \in Seq(LiveSet) /\ Standing(tree, live) /\ TreeOK(tree)
    BY <1>3, <1>6 DEF MountsInv, Standing
  <2>2. CASE tree' = tree
    BY <1>3, <2>1, <2>2
  <2>3. CASE tree' # tree
    <3>1. \A l \in ToSet(live) : ~IsPrefix(at, l.at)
      BY <1>3, <1>6, <2>3
    <3>2. PICK recs \in Seq(LiveSet) : recs = live
      BY <2>1
    <3>3. Spared(recs, DOMAIN recs, {at})
      BY <3>1, <3>2 DEF Spared, ToSet
    <3>4. PICK t, u : t = tree /\ u = tree'
      OBVIOUS
    <3>5. TreeOK(u) /\ Untouched(t, u, {at})
      <4>1. CASE IsMountPoint(t, at) /\ u = Replace(t, at, made)
        <5>1. TreeOK(t)
          BY <2>1, <3>4
        <5>2. QED
          BY <1>5, <4>1, <5>1, ReplaceIs
      <4>2. CASE u = Attach(t, at, made)
        <5>1. TreeOK(t)
          BY <2>1, <3>4
        <5>2. QED
          BY <1>5, <4>2, <5>1, AttachUntouched
      <4>3. QED
        BY <1>3, <2>3, <3>4, <4>1, <4>2
    <3>6. Standing(t, recs) /\ {at} \subseteq Point
      BY <1>5, <2>1, <3>2, <3>4
    <3>7. Standing(u, recs)
      BY <3>3, <3>5, <3>6, AllStand
    <3>8. QED
      BY <1>3, <2>1, <3>2, <3>4, <3>7
  <2>4. QED
    BY <2>2, <2>3
<1>7. QED
  BY <1>3, <1>6 DEF MountsInv

\* The records that are in T are those below the path.
Beneaths(recs, T, at) ==
  \A i \in DOMAIN recs : recs[i] \in T <=> recs[i].at # at /\ IsPrefix(at, recs[i].at)

\* The live mounts beneath a refreshed overlay are attached to it again.
LEMMA OverlayKeeps ==
  ASSUME NEW t, NEW recs \in Seq(LiveSet), Standing(t, recs),
         NEW at \in Point, \A l \in ToSet(recs) : ~IsPrefix(l.at, at),
         NEW base, TreeOK(base), Untouched(t, base, {at}),
         NEW ms \in Seq(MountSet), \A i \in 1..Len(ms) : IsPrefix(at, ms[i].at), NEW there, NEW g,
         NEW T, Beneaths(recs, T, at)
  PROVE  Standing(AttachLive(AttachMade(base, ms, there, g), Those(recs, T)), recs)
<1>1. PICK Q : Q = {p \in Point : IsPrefix(at, p)}
  OBVIOUS
<1>2. Q \subseteq Point /\ {at} \subseteq Q /\ \A p \in Q : p \in Seq(Name) /\ IsPrefix(at, p)
  <2>1. at \in Seq(Name) /\ \A p \in Q : p \in Seq(Name)
    BY <1>1 DEF Point, Path
  <2>2. IsPrefix(at, at)
    BY <2>1, PrefixOrder
  <2>3. QED
    BY <1>1, <2>1, <2>2
<1>3. PICK u : u = AttachMade(base, ms, there, g)
  OBVIOUS
<1>4. TreeOK(u) /\ Untouched(t, u, Q)
  <2>1. \A i \in 1..Len(ms) : ms[i].at \in Q
    <3>1. \A i \in 1..Len(ms) : ms[i] \in MountSet
      OBVIOUS
    <3>2. QED
      BY <1>1, <3>1 DEF MountSet
  <2>2. TreeOK(u) /\ Untouched(base, u, Q)
    BY <1>2, <1>3, <2>1, MadeKeeps
  <2>3. Untouched(t, base, Q)
    BY <1>2 DEF Untouched
  <2>4. QED
    BY <2>2, <2>3, UntouchedOn
<1>5. PICK h : Placed(t, recs, DOMAIN recs, h)
  BY DEF Standing
<1>6. PICK I : I = DOMAIN recs /\ I = 1..Len(recs)
  OBVIOUS
<1>7. PICK J : J = {i \in I : ~IsPrefix(at, recs[i].at)}
  OBVIOUS
<1>8. \A i \in I : recs[i].at \in Point /\ recs[i].at \in Seq(Name) /\ recs[i] \in ToSet(recs)
  <2>1. \A i \in I : recs[i] \in LiveSet /\ recs[i] \in ToSet(recs)
    BY <1>6 DEF ToSet
  <2>2. QED
    BY <2>1 DEF LiveSet, Point, Path
<1>9. Placed(u, recs, J, h)
  <2>1. Spared(recs, J, Q)
    <3>1. ASSUME NEW i \in J, NEW p \in Q, IsPrefix(p, recs[i].at)
          PROVE  FALSE
      <4>1. at \in Seq(Name)
        BY DEF Point, Path
      <4>2. i \in I /\ recs[i].at \in Seq(Name)
        BY <1>7, <1>8
      <4>3. IsPrefix(at, recs[i].at)
        BY <1>2, <3>1, <4>1, <4>2, PrefixOrder
      <4>4. QED
        BY <1>7, <4>3
    <3>2. QED
      BY <3>1 DEF Spared
  <2>2. J \subseteq I /\ \A i \in I \ J : \E p \in Q : IsPrefix(p, recs[i].at)
    BY <1>2, <1>7
  <2>3. Placed(t, recs, I, h) /\ TreeOK(t)
    BY <1>5, <1>6 DEF Standing
  <2>4. QED
    BY <1>2, <1>4, <2>1, <2>2, <2>3, PlacedStays
<1>10. PICK s : s = Those(recs, T)
  OBVIOUS
<1>11. s \in Seq(LiveSet)
  BY <1>10, ThoseIs
<1>12. PICK m : Chosen(recs, T, s, m)
  BY <1>10, ThoseIs
<1>13. Others(recs, J, s, m)
  <2>1. ASSUME NEW i \in 1..Len(s)
        PROVE  m[i] \notin J /\ s[i] = recs[m[i]]
    <3>1. m[i] \in I /\ recs[m[i]] \in T /\ s[i] = recs[m[i]]
      BY <1>6, <1>12 DEF Chosen
    <3>2. IsPrefix(at, recs[m[i]].at)
      BY <1>6, <3>1 DEF Beneaths
    <3>3. QED
      BY <1>7, <3>1, <3>2
  <2>2. \A i, j \in 1..Len(s) : m[i] = m[j] => i = j
    BY <1>12 DEF Chosen
  <2>3. QED
    BY <2>1, <2>2 DEF Others
<1>14. AndOthers(J, s, m) = I
  <2>1. ASSUME NEW i \in I, i \notin J
        PROVE  i \in {m[j] : j \in 1..Len(s)}
    <3>1. IsPrefix(at, recs[i].at) /\ ~IsPrefix(recs[i].at, at)
      BY <1>7, <1>8, <2>1
    <3>2. recs[i].at # at
      BY <3>1
    <3>3. recs[i] \in T
      BY <1>6, <3>1, <3>2 DEF Beneaths
    <3>4. QED
      BY <1>6, <1>12, <3>3 DEF Chosen
  <2>2. \A i \in 1..Len(s) : m[i] \in I
    BY <1>6, <1>12 DEF Chosen
  <2>3. QED
    BY <1>7, <2>1, <2>2 DEF AndOthers
<1>15. /\ TreeOK(AttachLive(u, s))
       /\ \E f : Placed(AttachLive(u, s), recs, AndOthers(J, s, m), f)
  BY <1>4, <1>9, <1>11, <1>13, AgainPlaced
<1>16. QED
  BY <1>3, <1>6, <1>10, <1>14, <1>15 DEF Standing

\* The later mounts of a plan.
LEMMA LaterIn ==
  ASSUME NEW s \in Seq(MountSet), NEW i \in DOMAIN s
  PROVE  SubSeq(s, i + 1, Len(s)) \in Seq(MountSet)
OBVIOUS

\* What a refresh attaches is beneath the overlay.
LEMMA BeneathIs ==
  ASSUME NEW ms \in Seq(MountSet), NEW at, NEW T, \A m \in T : IsPrefix(at, m.at)
  PROVE  /\ Those(ms, T) \in Seq(MountSet)
         /\ \A i \in 1..Len(Those(ms, T)) : IsPrefix(at, Those(ms, T)[i].at)
<1>1. PICK s : s = Those(ms, T)
  OBVIOUS
<1>2. s \in Seq(MountSet)
  BY <1>1, ThoseIs
<1>3. PICK h : Chosen(ms, T, s, h)
  BY <1>1, ThoseIs
<1>4. \A i \in 1..Len(s) : s[i] \in T
  BY <1>3 DEF Chosen
<1>5. QED
  BY <1>1, <1>2, <1>4

LEMMA RefreshKeeps ==
  ASSUME MountsInv, NEW i \in DOMAIN plan.mounts, RefreshOverlay(i)
  PROVE  MountsInv'
<1> DEFINE m == plan.mounts[i]
           plans == Beneath(i)[1]
           lives == Beneath(i)[2]
           base == IF IsMountPoint(tree, m.at) THEN Replace(tree, m.at, Made(m, gen))
                                               ELSE Attach(tree, m.at, Made(m, gen))
           within == AttachMade(base, plans, up, gen)
<1>1. /\ ~Covered(i, live) /\ tree' = AttachLive(within, lives)
      /\ UNCHANGED <<plan, live, docs, chosen, applying, astray>>
  BY DEF RefreshOverlay
<1>2. plan.mounts \in Seq(MountSet) /\ m \in MountSet
  <2>1. plan.mounts \in Seq(MountSet)
    BY PlansTyped DEF MountsInv
  <2>2. QED
    BY <2>1
<1>3. PICK at \in Point : at = m.at
  BY <1>2 DEF MountSet
<1>4. ASSUME ~astray'
      PROVE  live' \in Seq(LiveSet) /\ Standing(tree', live')
  <2>1. live \in Seq(LiveSet) /\ Standing(tree, live) /\ TreeOK(tree)
    BY <1>1, <1>4 DEF MountsInv, Standing
  <2>2. PICK t, b, what : t = tree /\ b = base /\ what = Made(m, gen)
    OBVIOUS
  <2>3. TreeOK(b) /\ Untouched(t, b, {at})
    <3>1. TreeOK(t)
      BY <2>1, <2>2
    <3>2. CASE IsMountPoint(t, at)
      <4>1. b = Replace(t, at, what)
        BY <1>3, <2>2, <3>2
      <4>2. QED
        BY <3>1, <3>2, <4>1, ReplaceIs
    <3>3. CASE ~IsMountPoint(t, at)
      <4>1. b = Attach(t, at, what)
        BY <1>3, <2>2, <3>3
      <4>2. QED
        BY <3>1, <4>1, AttachUntouched
    <3>4. QED
      BY <3>2, <3>3
  <2>4. \A l \in ToSet(live) : ~IsPrefix(l.at, at)
    BY <1>1, <1>3 DEF Covered
  <2>5. PICK later \in Seq(MountSet) : later = SubSeq(plan.mounts, i + 1, Len(plan.mounts))
    BY <1>2, LaterIn
  <2>6. PICK U : U = {x \in ToSet(plan.mounts) : x.at # at /\ IsPrefix(at, x.at)}
    OBVIOUS
  <2>7. PICK ms : ms = Those(later, U)
    OBVIOUS
  <2>8. ms \in Seq(MountSet) /\ \A j \in 1..Len(ms) : IsPrefix(at, ms[j].at)
    BY <2>6, <2>7, BeneathIs
  <2>9. plans = ms
    BY <1>3, <2>5, <2>6, <2>7 DEF Beneath
  <2>10. PICK T : T = {l \in ToSet(live) : l.at # at /\ IsPrefix(at, l.at)}
    OBVIOUS
  <2>11. lives = Those(live, T)
    BY <1>3, <2>10 DEF Beneath
  <2>12. PICK recs \in Seq(LiveSet) : recs = live
    BY <2>1
  <2>13. Beneaths(recs, T, at)
    <3>1. \A j \in DOMAIN recs : recs[j] \in ToSet(recs)
      BY DEF ToSet
    <3>2. QED
      BY <2>10, <2>12, <3>1 DEF Beneaths
  <2>14. PICK there, g : there = up /\ g = gen
    OBVIOUS
  <2>15. Standing(AttachLive(AttachMade(b, ms, there, g), Those(recs, T)), recs)
    <3>1. Standing(t, recs) /\ \A l \in ToSet(recs) : ~IsPrefix(l.at, at)
      BY <2>1, <2>2, <2>4, <2>12
    <3>2. QED
      BY <2>3, <2>8, <2>13, <3>1, OverlayKeeps
  <2>16. tree' = AttachLive(AttachMade(b, ms, there, g), Those(recs, T))
    BY <1>1, <2>2, <2>9, <2>11, <2>12, <2>14
  <2> HIDE DEF within, base, plans, lives, m
  <2>17. QED
    BY <1>1, <2>1, <2>12, <2>15, <2>16
<1>5. QED
  BY <1>1, <1>4 DEF MountsInv

\* The other actions leave the mounts alone.
LEMMA MountsSame ==
  ASSUME MountsInv, UNCHANGED <<plan, tree, live, docs, astray>>,
         chosen' \in MountSet \union {Nothing},
         \/ UNCHANGED applying
         \/ \E c \in Changes : applying'.new = c.new /\ applying'.change = c.change
  PROVE  MountsInv'
<1>1. applying' # Nothing => /\ applying'.new \in Plans
                             /\ applying'.change.detach \in Seq(MountSet)
                             /\ applying'.change.attach \in Seq(MountSet)
  BY ChangesTyped DEF MountsInv
<1>2. QED
  BY <1>1 DEF MountsInv

LEMMA ReadKeeps ==
  ASSUME MountsInv, ReadEvent
  PROVE  MountsInv'
<1>1. UNCHANGED <<plan, tree, live, docs, applying, astray>>
  BY DEF ReadEvent
<1> DEFINE found == {m \in ToSet(plan.mounts) : ForwardedSocket(m) /\ m.src = Head(events)}
<1>2. chosen' = IF found = {} THEN Nothing ELSE CHOOSE m \in found : TRUE
  BY DEF ReadEvent
<1>3. found \subseteq MountSet
  <2>1. plan.mounts \in Seq(MountSet)
    BY PlansTyped DEF MountsInv
  <2>2. ToSet(plan.mounts) \subseteq MountSet
    BY <2>1 DEF ToSet
  <2>3. QED
    BY <2>2
<1> HIDE DEF found
<1>4. chosen' \in MountSet \union {Nothing}
  BY <1>2, <1>3
<1>5. QED
  BY <1>1, <1>4, MountsSame

LEMMA OthersKeep ==
  ASSUME MountsInv,
         \/ \E c \in Changes : ApplyRestart(c.new, c.change) \/ ApplyPrepare(c.new, c.change)
         \/ \E s \in Sockets : ServerStops(s) \/ ServerStarts(s)
         \/ \E d \in Lowers : TaskWrites(d)
         \/ UNCHANGED vars
  PROVE  MountsInv'
<1>1. UNCHANGED <<plan, tree, live, docs, astray, chosen>>
  BY DEF ApplyRestart, ApplyPrepare, ServerStops, ServerStarts, TaskWrites, vars
<1>2. UNCHANGED applying \/ \E c \in Changes : applying'.new = c.new /\ applying'.change = c.change
  BY DEF ApplyRestart, ApplyPrepare, ServerStops, ServerStarts, TaskWrites, vars
<1>3. chosen' \in MountSet \union {Nothing}
  BY <1>1 DEF MountsInv
<1>4. QED
  BY <1>1, <1>2, <1>3, MountsSame

LEMMA NextMounts ==
  ASSUME MountsInv, [Next]_vars
  PROVE  MountsInv'
<1>1. CASE \E h \in Hosts, a \in LiveAt, rw \in BOOLEAN : MountRequest(h, a, rw)
  <2>1. PICK h \in Hosts, a \in LiveAt, rw \in BOOLEAN : MountRequest(h, a, rw)
    BY <1>1
  <2>2. h \in HostPaths
    BY <2>1 DEF MountRequest
  <2>3. QED
    BY <2>1, <2>2, MountKeeps
<1>2. CASE \E a \in LiveAt \union {DocAt(n) : n \in 1 .. MaxDocs} : Umount(a)
  BY <1>2, UmountKeeps
<1>3. CASE \E f \in Files : Expose(f)
  BY <1>3, ExposeKeeps
<1>4. CASE ApplyCommit
  BY <1>4, CommitKeeps
<1>5. CASE ReadEvent
  BY <1>5, ReadKeeps
<1>6. CASE ReattachSocket
  BY <1>6, ReattachKeeps
<1>7. CASE \E i \in DOMAIN plan.mounts : RefreshOverlay(i)
  BY <1>7, RefreshKeeps
<1>8. CASE \/ \E c \in Changes : ApplyRestart(c.new, c.change) \/ ApplyPrepare(c.new, c.change)
           \/ \E s \in Sockets : ServerStops(s) \/ ServerStarts(s)
           \/ \E d \in Lowers : TaskWrites(d)
           \/ UNCHANGED vars
  BY <1>8, OthersKeep
<1>9. QED
  BY <1>1, <1>2, <1>3, <1>4, <1>5, <1>6, <1>7, <1>8 DEF Next

-----------------------------------------------------------------------------
(* Live mounts are kept. *)

\* A recorded live mount is what its path shows, unless another live mount is over it or a
\* mount went astray, whatever reloads, refreshes, sockets, unmounts and failures do meanwhile
\* (apply, refresh_overlay, umount, reattach_socket).
THEOREM LiveKeptHolds == Spec => []LiveKept
<1>1. MountsInv => LiveKept
  <2>1. SUFFICES ASSUME MountsInv, ~astray, NEW i \in DOMAIN live
                 PROVE  \/ \E j \in DOMAIN live \ {i} : IsPrefix(live[j].at, live[i].at)
                        \/ /\ IsMountPoint(tree, live[i].at)
                           /\ tree[Top(tree, live[i].at)] = LiveMade(live[i])
    BY DEF LiveKept
  <2>2. PICK h : Placed(tree, live, DOMAIN live, h)
    BY <2>1 DEF MountsInv, Standing
  <2>3. PICK t, recs, I : t = tree /\ recs = live /\ I = DOMAIN live
    OBVIOUS
  <2>4. TreeOK(t) /\ Placed(t, recs, I, h) /\ i \in I
    BY <2>1, <2>2, <2>3 DEF MountsInv, Standing
  <2>5. \/ \E j \in I \ {i} : IsPrefix(recs[j].at, recs[i].at)
        \/ IsMountPoint(t, recs[i].at) /\ t[Top(t, recs[i].at)] = LiveMade(recs[i])
    BY <2>4, PlacedKept
  <2>6. QED
    BY <2>3, <2>5
<1>2. QED
  BY <1>1, InitMounts, NextMounts, PTL DEF Spec

=============================================================================
