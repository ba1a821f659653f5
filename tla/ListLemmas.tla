----------------------------- MODULE ListLemmas -----------------------------
(***************************************************************************)
(* Facts that the proofs about lists share: least elements of sets of      *)
(* numbers, induction with the set of the numbers a fact holds for, loops  *)
(* over a list, and readings of a list that go on at a later place.        *)
(***************************************************************************)
EXTENDS Integers, Sequences, FiniteSetTheorems, SequenceTheorems, WellFoundedInduction, TLAPS

LEMMA LeastExists ==
  ASSUME NEW S \in SUBSET Nat, S # {}
  PROVE  \E x \in S : \A y \in S : x <= y
<1> DEFINE R == StrictSubsetOrdering(Nat)
           T == { 0 .. x : x \in S }
<1>1. IsWellFoundedOn(R, FiniteSubsetsOf(Nat))
  BY FS_StrictSubsetOrderingWellFounded
<1>2. T \subseteq FiniteSubsetsOf(Nat) /\ T # {}
  <2>1. \A x \in S : 0 .. x \in SUBSET Nat /\ IsFiniteSet(0 .. x)
    BY FS_Interval
  <2>2. \A x \in S : 0 .. x \in FiniteSubsetsOf(Nat)
    BY <2>1 DEF FiniteSubsetsOf
  <2> QED
    BY <2>2
<1>3. \E t \in T : \A u \in T : ~(<< u, t >> \in R)
  <2> HIDE DEF R, T
  <2> QED
    BY <1>1, <1>2, WFMin
<1>4. PICK x \in S : \A y \in S : ~(<< 0 .. y, 0 .. x >> \in R)
  BY <1>3
<1>5. ASSUME NEW y \in S, y < x PROVE FALSE
  <2>1. 0 .. y \subseteq 0 .. x /\ x \in 0 .. x /\ x \notin 0 .. y
    BY <1>5
  <2>2. 0 .. y # 0 .. x /\ 0 .. y \in SUBSET Nat /\ 0 .. x \in SUBSET Nat
    BY <2>1
  <2>3. << 0 .. y, 0 .. x >> \in (SUBSET Nat) \X (SUBSET Nat)
    BY <2>2
  <2>4. << 0 .. y, 0 .. x >> \in R
    BY <2>1, <2>2, <2>3, Zenon DEF StrictSubsetOrdering
  <2> QED
    BY <1>4, <2>4
<1> QED
  BY <1>5

-----------------------------------------------------------------------------
(* Induction.  P is the set of the numbers for which the fact is known.      *)

\* each number follows from all that are below it
LEMMA FromAllBelow ==
  ASSUME NEW n \in Nat, NEW P,
         \A m \in 0 .. n : (\A k \in 0 .. m - 1 : k \in P) => m \in P
  PROVE  \A m \in 0 .. n : m \in P
<1> SUFFICES ASSUME NEW m \in 0 .. n, m \notin P PROVE FALSE
  OBVIOUS
<1> DEFINE Bad == { k \in 0 .. n : k \notin P }
<1>1. Bad \in SUBSET Nat /\ Bad # {}
  OBVIOUS
<1>2. PICK k \in Bad : \A l \in Bad : k <= l
  <2> HIDE DEF Bad
  <2> QED
    BY <1>1, LeastExists
<1>3. \A l \in 0 .. k - 1 : l \in P
  BY <1>2
<1> QED
  BY <1>2, <1>3

\* each number follows from the one before it
LEMMA FromOneBefore ==
  ASSUME NEW n \in Nat, NEW P, 0 \in P,
         \A m \in 1 .. n : m - 1 \in P => m \in P
  PROVE  \A m \in 0 .. n : m \in P
<1>1. ASSUME NEW m \in 0 .. n, \A k \in 0 .. m - 1 : k \in P
      PROVE  m \in P
  <2>1. CASE m = 0
    BY <2>1
  <2>2. CASE m # 0
    <3>1. m \in 1 .. n /\ m - 1 \in 0 .. m - 1
      BY <2>2
    <3> QED
      BY <1>1, <3>1
  <2> QED
    BY <2>1, <2>2
<1> QED
  BY <1>1, FromAllBelow

\* each number follows from all that are above it
LEMMA FromAllAbove ==
  ASSUME NEW n \in Nat, NEW P,
         \A m \in 1 .. n : (\A k \in m + 1 .. n : k \in P) => m \in P
  PROVE  \A m \in 1 .. n : m \in P
<1> DEFINE Q == { j \in 0 .. n : j = n \/ n - j \in P }
<1>1. ASSUME NEW j \in 0 .. n, \A k \in 0 .. j - 1 : k \in Q PROVE j \in Q
  <2>1. CASE j = n
    BY <2>1
  <2>2. CASE j # n
    <3>1. n - j \in 1 .. n
      BY <2>2
    <3>2. ASSUME NEW k \in (n - j) + 1 .. n PROVE k \in P
      <4>1. n - k \in 0 .. j - 1 /\ n - k # n /\ n - (n - k) = k
        OBVIOUS
      <4> QED
        BY <1>1, <4>1
    <3> QED
      BY <3>1, <3>2
  <2> QED
    BY <2>1, <2>2
<1>2. \A j \in 0 .. n : j \in Q
  <2> HIDE DEF Q
  <2> QED
    BY <1>1, FromAllBelow
<1>3. ASSUME NEW m \in 1 .. n PROVE m \in P
  <2>1. n - m \in 0 .. n /\ n - m # n /\ n - (n - m) = m
    OBVIOUS
  <2> QED
    BY <1>2, <2>1
<1> QED
  BY <1>3

-----------------------------------------------------------------------------
(* Loops                                                                     *)

\* a loop of n rounds over T: its m-th round takes x to g[m][x]
Rounds(g, n, T) == g \in [ 1 .. n -> [ T -> T ] ]

\* f has what the loop that begins with b has after each round
Runs(f, n, T, b, g) ==
  /\ f \in [ 0 .. n -> T ]
  /\ f[0] = b
  /\ \A m \in 1 .. n : f[m] = g[m][f[m - 1]]

\* A loop has a result after each round.
LEMMA LoopExists ==
  ASSUME NEW n \in Nat, NEW T, NEW b \in T, NEW g, Rounds(g, n, T)
  PROVE  \E f : Runs(f, n, T, b, g)
<1> DEFINE To(m) == \E f : Runs(f, m, T, b, g)
           P == { m \in 0 .. n : To(m) }
<1>1. 0 \in P
  <2>1. [ k \in 0 .. 0 |-> b ] \in [ 0 .. 0 -> T ] /\ [ k \in 0 .. 0 |-> b ][0] = b
    OBVIOUS
  <2>2. 1 .. 0 = {}
    OBVIOUS
  <2>3. To(0)
    BY <2>1, <2>2 DEF Runs
  <2> HIDE DEF To
  <2> QED
    BY <2>3
<1>2. ASSUME NEW m \in 1 .. n, m - 1 \in P PROVE m \in P
  <2>1. PICK f : Runs(f, m - 1, T, b, g)
    BY <1>2
  <2>2. f \in [ 0 .. m - 1 -> T ] /\ f[0] = b /\ \A k \in 1 .. m - 1 : f[k] = g[k][f[k - 1]]
    BY <2>1 DEF Runs
  <2> DEFINE h == [ k \in 0 .. m |-> IF k = m THEN g[m][f[m - 1]] ELSE f[k] ]
  <2>3. f[m - 1] \in T /\ g[m][f[m - 1]] \in T
    BY <2>2 DEF Rounds
  <2>4. h \in [ 0 .. m -> T ]
    BY <2>2, <2>3
  <2>5. h[0] = b
    BY <2>2
  <2>6. ASSUME NEW k \in 1 .. m PROVE h[k] = g[k][h[k - 1]]
    <3>1. CASE k = m
      <4>1. m - 1 \in 0 .. m /\ m - 1 # m
        OBVIOUS
      <4>2. h[m] = g[m][f[m - 1]] /\ h[m - 1] = f[m - 1]
        BY <4>1
      <4> QED
        BY <3>1, <4>2
    <3>2. CASE k # m
      <4>1. k \in 1 .. m - 1 /\ k - 1 \in 0 .. m /\ k - 1 # m /\ k \in 0 .. m
        BY <3>2
      <4>2. h[k] = f[k] /\ h[k - 1] = f[k - 1]
        BY <3>2, <4>1
      <4> QED
        BY <2>2, <4>1, <4>2
    <3> QED
      BY <3>1, <3>2
  <2> HIDE DEF h
  <2>7. To(m)
    BY <2>4, <2>5, <2>6 DEF Runs
  <2> HIDE DEF To
  <2> QED
    BY <2>7
<1> HIDE DEF P
<1>3. \A m \in 0 .. n : m \in P
  BY <1>1, <1>2, FromOneBefore
<1> QED
  BY <1>3 DEF P

-----------------------------------------------------------------------------
(* Readings: from each place of a list of n, on to a later one               *)

\* jump[i] is where the reading goes on after place i
Jumps(jump, n) == jump \in [ 1 .. n -> 2 .. n + 1 ] /\ \A i \in 1 .. n : i < jump[i]

\* f has what the reading gives from each place on: b behind the last one, and at
\* place i what g[i] makes of what follows
Reads(f, n, T, b, jump, g) ==
  /\ f \in [ 1 .. n + 1 -> T ]
  /\ f[n + 1] = b
  /\ \A i \in 1 .. n : f[i] = g[i][f[jump[i]]]

\* A reading has a result.
LEMMA ReadingExists ==
  ASSUME NEW n \in Nat, NEW T, NEW b \in T, NEW jump, Jumps(jump, n), NEW g, Rounds(g, n, T)
  PROVE  \E f : Reads(f, n, T, b, jump, g)
<1> DEFINE From(f, k) == /\ f \in [ k .. n + 1 -> T ] /\ f[n + 1] = b
                         /\ \A i \in k .. n : f[i] = g[i][f[jump[i]]]
           P == { m \in 0 .. n : \E f : From(f, n + 1 - m) }
<1>0. \A i \in 1 .. n : jump[i] \in i + 1 .. n + 1 /\ g[i] \in [ T -> T ]
  BY DEF Jumps, Rounds
<1>1. 0 \in P
  <2>1. From([ k \in n + 1 .. n + 1 |-> b ], n + 1 - 0)
    OBVIOUS
  <2> HIDE DEF From
  <2> QED
    BY <2>1
<1>2. ASSUME NEW m \in 1 .. n, m - 1 \in P PROVE m \in P
  <2> DEFINE k == n + 1 - m
  <2>0. k \in 1 .. n /\ n + 1 - (m - 1) = k + 1
    OBVIOUS
  <2>1. PICK f : From(f, k + 1)
    <3> HIDE DEF From, k
    <3> QED
      BY <1>2, <2>0
  <2> HIDE DEF k
  <2>2. f \in [ k + 1 .. n + 1 -> T ] /\ f[n + 1] = b /\ \A i \in k + 1 .. n : f[i] = g[i][f[jump[i]]]
    BY <2>1
  <2> DEFINE h == [ i \in k .. n + 1 |-> IF i = k THEN g[k][f[jump[k]]] ELSE f[i] ]
  <2>3. jump[k] \in k + 1 .. n + 1 /\ g[k] \in [ T -> T ]
    BY <1>0, <2>0
  <2>4. g[k][f[jump[k]]] \in T
    BY <2>2, <2>3
  <2>5. h \in [ k .. n + 1 -> T ]
    BY <2>0, <2>2, <2>4
  <2>6. h[n + 1] = b
    BY <2>0, <2>2
  <2>7. ASSUME NEW i \in k .. n PROVE h[i] = g[i][h[jump[i]]]
    <3>1. i \in 1 .. n /\ i \in k .. n + 1
      BY <2>0
    <3>2. jump[i] \in i + 1 .. n + 1
      BY <1>0, <3>1
    <3>3. jump[i] \in k .. n + 1 /\ jump[i] # k
      BY <2>0, <3>2
    <3>4. h[jump[i]] = f[jump[i]]
      BY <3>3
    <3>5. CASE i = k
      BY <3>1, <3>4, <3>5
    <3>6. CASE i # k
      <4>1. i \in k + 1 .. n
        BY <2>0, <3>6
      <4>2. h[i] = f[i] /\ f[i] = g[i][f[jump[i]]]
        BY <2>2, <3>1, <3>6, <4>1
      <4> QED
        BY <3>4, <4>2
    <3> QED
      BY <3>5, <3>6
  <2> HIDE DEF h
  <2>8. From(h, k)
    BY <2>5, <2>6, <2>7
  <2> HIDE DEF From
  <2> QED
    BY <2>8 DEF k
<1>3. \A m \in 0 .. n : m \in P
  <2> HIDE DEF P
  <2> QED
    BY <1>1, <1>2, FromOneBefore
<1>4. PICK f : From(f, 1)
  <2>1. n \in P /\ n + 1 - n = 1
    BY <1>3
  <2> HIDE DEF From
  <2> QED
    BY <2>1
<1> QED
  BY <1>4 DEF Reads

\* Two functions that agree behind the last place, and at a place when they agree where
\* the reading goes on, agree.
LEMMA SameReading ==
  ASSUME NEW n \in Nat, NEW jump, Jumps(jump, n), NEW e, NEW f, e[n + 1] = f[n + 1],
         \A i \in 1 .. n : e[jump[i]] = f[jump[i]] => e[i] = f[i]
  PROVE  \A i \in 1 .. n + 1 : e[i] = f[i]
<1> DEFINE P == { i \in 1 .. n + 1 : e[i] = f[i] }
<1>1. ASSUME NEW i \in 1 .. n + 1, \A k \in i + 1 .. n + 1 : k \in P PROVE i \in P
  <2>1. CASE i = n + 1
    BY <2>1
  <2>2. CASE i # n + 1
    <3>1. i \in 1 .. n /\ jump[i] \in i + 1 .. n + 1
      BY <2>2 DEF Jumps
    <3>2. e[jump[i]] = f[jump[i]]
      BY <1>1, <3>1
    <3> QED
      BY <3>1, <3>2
  <2> QED
    BY <2>1, <2>2
<1>2. \A i \in 1 .. n + 1 : i \in P
  <2>1. n + 1 \in Nat
    OBVIOUS
  <2> HIDE DEF P
  <2> QED
    BY <1>1, <2>1, FromAllAbove
<1> QED
  BY <1>2

\* A reading has only one result.
LEMMA ReadingUnique ==
  ASSUME NEW n \in Nat, NEW T, NEW b, NEW jump, Jumps(jump, n), NEW g,
         NEW e, NEW f, Reads(e, n, T, b, jump, g), Reads(f, n, T, b, jump, g)
  PROVE  \A i \in 1 .. n + 1 : e[i] = f[i]
<1>1. e[n + 1] = f[n + 1] /\ \A i \in 1 .. n : e[jump[i]] = f[jump[i]] => e[i] = f[i]
  BY DEF Reads
<1> QED
  BY <1>1, SameReading

\* Behind its first a places the one reading goes as the other.
GoesAs(jump, g, a, n, next, h) ==
  \A i \in 1 .. n : jump[a + i] = a + next[i] /\ g[a + i] = h[i]

\* A reading of the last places alone gives what the whole one gives there.
LEMMA ReadingSuffix ==
  ASSUME NEW n \in Nat, NEW a \in Nat, NEW T, NEW b, NEW jump, NEW g, NEW next, Jumps(next, n), NEW h,
         GoesAs(jump, g, a, n, next, h),
         NEW e, Reads(e, a + n, T, b, jump, g), NEW f, Reads(f, n, T, b, next, h)
  PROVE  \A i \in 1 .. n + 1 : e[a + i] = f[i]
<1> DEFINE d == [ i \in 1 .. n + 1 |-> e[a + i] ]
<1>1. /\ e \in [ 1 .. a + n + 1 -> T ] /\ e[a + n + 1] = b
      /\ \A i \in 1 .. a + n : e[i] = g[i][e[jump[i]]]
  BY DEF Reads
<1>2. d \in [ 1 .. n + 1 -> T ]
  <2>1. \A i \in 1 .. n + 1 : a + i \in 1 .. a + n + 1
    OBVIOUS
  <2> QED
    BY <1>1, <2>1
<1>3. d[n + 1] = b
  <2>1. a + (n + 1) = a + n + 1
    OBVIOUS
  <2> QED
    BY <1>1, <2>1
<1>4. ASSUME NEW i \in 1 .. n PROVE d[i] = h[i][d[next[i]]]
  <2>1. a + i \in 1 .. a + n /\ next[i] \in 1 .. n + 1 /\ i \in 1 .. n + 1
    BY DEF Jumps
  <2>2. e[a + i] = g[a + i][e[jump[a + i]]]
    BY <1>1, <2>1
  <2>3. e[a + i] = h[i][e[a + next[i]]]
    BY <2>2 DEF GoesAs
  <2> QED
    BY <2>1, <2>3
<1> HIDE DEF d
<1>5. Reads(d, n, T, b, next, h)
  BY <1>2, <1>3, <1>4 DEF Reads
<1>6. \A i \in 1 .. n + 1 : d[i] = f[i]
  BY <1>5, ReadingUnique
<1> QED
  BY <1>6 DEF d
=============================================================================
