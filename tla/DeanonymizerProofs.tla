------------------------- MODULE DeanonymizerProofs -------------------------
(***************************************************************************)
(* Proofs about Deanonymizer: putting the placeholders back one at a time, *)
(* the longest first, is one pass over the text of the request.            *)
(*                                                                         *)
(* The invariant says it for the placeholders done so far: the text is what*)
(* a pass that restores only these makes of the request.  Its step is the  *)
(* lemma StepPass: searching what such a pass left finds the next          *)
(* placeholder exactly where it stood in the request and was not part of a *)
(* longer one.                                                             *)
(***************************************************************************)
EXTENDS Deanonymizer, ListLemmas

-----------------------------------------------------------------------------
(* The readings of replacing and counting                                    *)

\* A placeholder occurs where its characters stand one after another.
LEMMA OccursFacts ==
  ASSUME NEW S, NEW k \in Seq(S), k # << >>, NEW s \in Seq(S), NEW i \in 1 .. Len(s)
  PROVE  OccursAt(k, s, i) <=> /\ i + Len(k) <= Len(s) + 1
                               /\ \A q \in 1 .. Len(k) : s[i + q - 1] = k[q]
<1> DEFINE n == i + Len(k) - 1
           t == SubSeq(s, i, n)
<1>1. Len(k) \in Nat /\ Len(k) # 0 /\ Len(s) \in Nat
  BY EmptySeq, LenProperties
<1>2. n \in Int /\ (n <= Len(s) <=> i + Len(k) <= Len(s) + 1)
  BY <1>1
<1>3. OccursAt(k, s, i) <=> n <= Len(s) /\ t = k
  BY DEF OccursAt
<1>4. CASE n <= Len(s)
  <2>1. \A q \in i .. n : s[q] \in S
    <3>1. \A q \in i .. n : q \in 1 .. Len(s)
      BY <1>1, <1>4
    <3> QED
      BY <3>1, ElementOfSeq
  <2>2. t \in Seq(S) /\ Len(t) = Len(k) /\ \A q \in 1 .. Len(k) : t[q] = s[i + q - 1]
    <3>1. /\ t \in Seq(S) /\ Len(t) = (IF i <= n THEN n - i + 1 ELSE 0)
          /\ \A q \in 1 .. n - i + 1 : t[q] = s[i + q - 1]
      <4> HIDE DEF n
      <4> QED
        BY <1>2, <2>1, SubSeqProperties
    <3>2. n - i + 1 = Len(k) /\ i <= n
      BY <1>1
    <3> HIDE DEF n, t
    <3> QED
      BY <3>1, <3>2
  <2> HIDE DEF t, n
  <2>3. (\A q \in 1 .. Len(k) : t[q] = k[q]) => t = k
    BY <2>2, SeqEqual
  <2> QED
    BY <1>2, <1>3, <1>4, <2>2, <2>3
<1>5. CASE ~(n <= Len(s))
  BY <1>2, <1>3, <1>5
<1> QED
  BY <1>4, <1>5

\* where the search for k goes on after place i of s, what it leaves of that place,
\* and what it adds to the count
NextPlace(k, s) == [ i \in 1 .. Len(s) |-> IF OccursAt(k, s, i) THEN i + Len(k) ELSE i + 1 ]
PutBack(k, s, v) ==
  [ i \in 1 .. Len(s) |->
      [ x \in Seq(Symbols) |-> IF OccursAt(k, s, i) THEN v \o x ELSE << s[i] >> \o x ] ]
Tally(k, s) ==
  [ i \in 1 .. Len(s) |-> [ x \in Nat |-> IF OccursAt(k, s, i) THEN 1 + x ELSE x ] ]

\* A search goes on to a later place, and its rounds are of the right types.
LEMMA SearchFacts ==
  ASSUME NEW k \in Seq(Symbols), k # << >>, NEW s \in Seq(Symbols), NEW v \in Seq(Symbols)
  PROVE  /\ Len(s) \in Nat /\ Jumps(NextPlace(k, s), Len(s))
         /\ Rounds(PutBack(k, s, v), Len(s), Seq(Symbols)) /\ Rounds(Tally(k, s), Len(s), Nat)
<1>1. Len(k) \in Nat /\ Len(k) # 0 /\ Len(s) \in Nat
  BY EmptySeq, LenProperties
<1>2. Jumps(NextPlace(k, s), Len(s))
  <2>1. ASSUME NEW i \in 1 .. Len(s)
        PROVE  NextPlace(k, s)[i] \in 2 .. Len(s) + 1 /\ i < NextPlace(k, s)[i]
    <3>1. CASE OccursAt(k, s, i)
      <4>1. i + Len(k) <= Len(s) + 1
        BY <3>1, OccursFacts
      <4>2. NextPlace(k, s)[i] = i + Len(k)
        BY <3>1 DEF NextPlace
      <4> QED
        BY <1>1, <4>1, <4>2
    <3>2. CASE ~OccursAt(k, s, i)
      <4>1. NextPlace(k, s)[i] = i + 1
        BY <3>2 DEF NextPlace
      <4> QED
        BY <1>1, <4>1
    <3> QED
      BY <3>1, <3>2
  <2>2. NextPlace(k, s) = [ i \in 1 .. Len(s) |-> NextPlace(k, s)[i] ]
    BY DEF NextPlace
  <2> QED
    BY <2>1, <2>2 DEF Jumps
<1>3. Rounds(PutBack(k, s, v), Len(s), Seq(Symbols))
  <2>1. ASSUME NEW i \in 1 .. Len(s), NEW x \in Seq(Symbols)
        PROVE  v \o x \in Seq(Symbols) /\ << s[i] >> \o x \in Seq(Symbols)
    <3>1. s[i] \in Symbols
      BY ElementOfSeq
    <3>2. << s[i] >> \in Seq(Symbols)
      BY <3>1
    <3> QED
      BY <3>2, ConcatProperties
  <2> QED
    BY <2>1 DEF Rounds, PutBack
<1>4. Rounds(Tally(k, s), Len(s), Nat)
  BY DEF Rounds, Tally
<1> QED
  BY <1>1, <1>2, <1>3, <1>4

\* f has what replacing k by v in s gives from each place on
Replaces(f, k, s, v) == Reads(f, Len(s), Seq(Symbols), << >>, NextPlace(k, s), PutBack(k, s, v))
\* f has how often k is counted in s from each place on
Counts(f, k, s)      == Reads(f, Len(s), Nat, 0, NextPlace(k, s), Tally(k, s))

\* Replace is such a reading: what its recursion defines is a function that exists.
LEMMA ReplaceLoop ==
  ASSUME NEW k \in Seq(Symbols), k # << >>, NEW s \in Seq(Symbols), NEW v \in Seq(Symbols)
  PROVE  \E f : Replaces(f, k, s, v) /\ Replace(s, k, v) = f[1]
<1> DEFINE n == Len(s)
           T == Seq(Symbols)
           Eq(f) == f = [ i \in 1 .. Len(s) + 1 |->
                            IF i > Len(s) THEN << >>
                            ELSE IF OccursAt(k, s, i) THEN v \o f[i + Len(k)]
                            ELSE << s[i] >> \o f[i + 1] ]
<1>1. /\ n \in Nat /\ Jumps(NextPlace(k, s), n) /\ Rounds(PutBack(k, s, v), n, T)
      /\ << >> \in T
  BY SearchFacts, EmptySeq
<1>2. PICK f : Replaces(f, k, s, v)
  <2> HIDE DEF n, T
  <2>1. \E f : Reads(f, n, T, << >>, NextPlace(k, s), PutBack(k, s, v))
    BY <1>1, ReadingExists
  <2> QED
    BY <2>1 DEF Replaces, n, T
<1>3. /\ f \in [ 1 .. n + 1 -> T ] /\ f[n + 1] = << >>
      /\ \A i \in 1 .. n : f[i] = PutBack(k, s, v)[i][f[NextPlace(k, s)[i]]]
  BY <1>2 DEF Replaces, Reads
<1>4. \A i \in 1 .. n : f[i] = IF OccursAt(k, s, i) THEN v \o f[i + Len(k)] ELSE << s[i] >> \o f[i + 1]
  <2> TAKE i \in 1 .. n
  <2>1. NextPlace(k, s)[i] \in 1 .. n + 1
    BY <1>1 DEF Jumps
  <2>2. f[NextPlace(k, s)[i]] \in T
    BY <1>3, <2>1
  <2>3. NextPlace(k, s)[i] = IF OccursAt(k, s, i) THEN i + Len(k) ELSE i + 1
    BY DEF NextPlace
  <2>4. \A x \in T : PutBack(k, s, v)[i][x] = IF OccursAt(k, s, i) THEN v \o x ELSE << s[i] >> \o x
    BY DEF PutBack
  <2> QED
    BY <1>3, <2>2, <2>3, <2>4
<1>5. Eq(f)
  <2>1. \A i \in 1 .. n + 1 : i > n => i = n + 1
    BY <1>1
  <2>2. \A i \in 1 .. n + 1 : ~(i > n) => i \in 1 .. n
    BY <1>1
  <2>3. \A i \in 1 .. n + 1 :
          f[i] = IF i > n THEN << >>
                 ELSE IF OccursAt(k, s, i) THEN v \o f[i + Len(k)] ELSE << s[i] >> \o f[i + 1]
    BY <1>3, <1>4, <2>1, <2>2
  <2> QED
    BY <1>3, <2>3
<1>6. PICK g : Eq(g) /\ Replace(s, k, v) = g[1]
  <2>1. Replace(s, k, v) = (CHOOSE g : Eq(g))[1]
    BY DEF Replace
  <2> HIDE DEF Eq
  <2> QED
    BY <1>5, <2>1
<1>7. \A i \in 1 .. n + 1 : g[i] = IF i > n THEN << >>
         ELSE IF OccursAt(k, s, i) THEN v \o g[i + Len(k)] ELSE << s[i] >> \o g[i + 1]
  BY <1>6
<1>8. g[1] = f[1]
  <2>1. g[n + 1] = f[n + 1]
    <3>1. n + 1 \in 1 .. n + 1 /\ n + 1 > n
      BY <1>1
    <3> HIDE DEF n
    <3> QED
      BY <1>3, <1>7, <3>1
  <2>2. ASSUME NEW i \in 1 .. n, g[NextPlace(k, s)[i]] = f[NextPlace(k, s)[i]] PROVE g[i] = f[i]
    <3>1. NextPlace(k, s)[i] = IF OccursAt(k, s, i) THEN i + Len(k) ELSE i + 1
      BY DEF NextPlace
    <3>2. i \in 1 .. n + 1 /\ ~(i > n)
      BY <1>1
    <3> QED
      BY <1>4, <1>7, <2>2, <3>1, <3>2
  <2> HIDE DEF n
  <2>3. \A i \in 1 .. n + 1 : g[i] = f[i]
    BY <1>1, <2>1, <2>2, SameReading
  <2> QED
    BY <1>1, <2>3
<1> QED
  BY <1>2, <1>6, <1>8

\* Count is such a reading.
LEMMA CountLoop ==
  ASSUME NEW k \in Seq(Symbols), k # << >>, NEW s \in Seq(Symbols)
  PROVE  \E f : Counts(f, k, s) /\ Count(s, k) = f[1]
<1> DEFINE n == Len(s)
           T == Nat
           Eq(f) == f = [ i \in 1 .. Len(s) + 1 |->
                            IF i > Len(s) THEN 0
                            ELSE IF OccursAt(k, s, i) THEN 1 + f[i + Len(k)]
                            ELSE f[i + 1] ]
<1>1. /\ n \in Nat /\ Jumps(NextPlace(k, s), n) /\ Rounds(Tally(k, s), n, T)
      /\ 0 \in T
  <2>1. << >> \in Seq(Symbols)
    BY EmptySeq
  <2> QED
    BY <2>1, SearchFacts
<1>2. PICK f : Counts(f, k, s)
  <2> HIDE DEF n, T
  <2>1. \E f : Reads(f, n, T, 0, NextPlace(k, s), Tally(k, s))
    BY <1>1, ReadingExists
  <2> QED
    BY <2>1 DEF Counts, n, T
<1>3. /\ f \in [ 1 .. n + 1 -> T ] /\ f[n + 1] = 0
      /\ \A i \in 1 .. n : f[i] = Tally(k, s)[i][f[NextPlace(k, s)[i]]]
  BY <1>2 DEF Counts, Reads
<1>4. \A i \in 1 .. n : f[i] = IF OccursAt(k, s, i) THEN 1 + f[i + Len(k)] ELSE f[i + 1]
  <2> TAKE i \in 1 .. n
  <2>1. NextPlace(k, s)[i] \in 1 .. n + 1
    BY <1>1 DEF Jumps
  <2>2. f[NextPlace(k, s)[i]] \in T
    BY <1>3, <2>1
  <2>3. NextPlace(k, s)[i] = IF OccursAt(k, s, i) THEN i + Len(k) ELSE i + 1
    BY DEF NextPlace
  <2>4. \A x \in T : Tally(k, s)[i][x] = IF OccursAt(k, s, i) THEN 1 + x ELSE x
    BY DEF Tally
  <2> QED
    BY <1>3, <2>2, <2>3, <2>4
<1>5. Eq(f)
  <2>1. \A i \in 1 .. n + 1 : i > n => i = n + 1
    BY <1>1
  <2>2. \A i \in 1 .. n + 1 : ~(i > n) => i \in 1 .. n
    BY <1>1
  <2>3. \A i \in 1 .. n + 1 :
          f[i] = IF i > n THEN 0
                 ELSE IF OccursAt(k, s, i) THEN 1 + f[i + Len(k)] ELSE f[i + 1]
    BY <1>3, <1>4, <2>1, <2>2
  <2> QED
    BY <1>3, <2>3
<1>6. PICK g : Eq(g) /\ Count(s, k) = g[1]
  <2>1. Count(s, k) = (CHOOSE g : Eq(g))[1]
    BY DEF Count
  <2> HIDE DEF Eq
  <2> QED
    BY <1>5, <2>1
<1>7. \A i \in 1 .. n + 1 : g[i] = IF i > n THEN 0
         ELSE IF OccursAt(k, s, i) THEN 1 + g[i + Len(k)] ELSE g[i + 1]
  BY <1>6
<1>8. g[1] = f[1]
  <2>1. g[n + 1] = f[n + 1]
    <3>1. n + 1 \in 1 .. n + 1 /\ n + 1 > n
      BY <1>1
    <3> HIDE DEF n
    <3> QED
      BY <1>3, <1>7, <3>1
  <2>2. ASSUME NEW i \in 1 .. n, g[NextPlace(k, s)[i]] = f[NextPlace(k, s)[i]] PROVE g[i] = f[i]
    <3>1. NextPlace(k, s)[i] = IF OccursAt(k, s, i) THEN i + Len(k) ELSE i + 1
      BY DEF NextPlace
    <3>2. i \in 1 .. n + 1 /\ ~(i > n)
      BY <1>1
    <3> QED
      BY <1>4, <1>7, <2>2, <3>1, <3>2
  <2> HIDE DEF n
  <2>3. \A i \in 1 .. n + 1 : g[i] = f[i]
    BY <1>1, <2>1, <2>2, SameReading
  <2> QED
    BY <1>1, <2>3
<1> QED
  BY <1>2, <1>6, <1>8

-----------------------------------------------------------------------------
(* One pass over the text of the request                                     *)

\* the types that everything below rests on
InputOK ==
  /\ given \in Seq(Symbols)
  /\ DOMAIN mappings \subseteq Keys /\ mappings \in [ DOMAIN mappings -> Values ]

\* At place i stands a placeholder of which the longest is in D.
Taken(D, i) == KeysAt(given, i) # {} /\ LongestAt(given, i) \in D

PassPlace(D) == [ i \in 1 .. Len(given) |-> IF Taken(D, i) THEN i + Len(LongestAt(given, i)) ELSE i + 1 ]
PassBack(D) ==
  [ i \in 1 .. Len(given) |->
      [ x \in Seq(Symbols) |->
          IF Taken(D, i) THEN mappings[LongestAt(given, i)] \o x ELSE << given[i] >> \o x ] ]
PassTally(D) ==
  [ i \in 1 .. Len(given) |-> [ x \in Nat |-> IF Taken(D, i) THEN 1 + x ELSE x ] ]

\* f has what a pass that restores the placeholders of D gives from each place on
Passes(f, D)   == Reads(f, Len(given), Seq(Symbols), << >>, PassPlace(D), PassBack(D))
\* f has how many placeholders such a pass restores from each place on
Restores(f, D) == Reads(f, Len(given), Nat, 0, PassPlace(D), PassTally(D))

\* A placeholder of the mapping is a text that is not empty.
LEMMA KeyFacts ==
  ASSUME InputOK, NEW k \in DOMAIN mappings
  PROVE  /\ k \in Seq(Symbols) /\ k # << >> /\ Len(k) \in Nat \ {0} /\ DOMAIN k = 1 .. Len(k)
         /\ mappings[k] \in Seq(Symbols)
<1>1. k \in Seq(Symbols) /\ k # << >> /\ mappings[k] \in Seq(Symbols)
  BY SymbolAssumption, KeyAssumption DEF InputOK
<1> QED
  BY <1>1, EmptySeq, LenProperties

\* Where placeholders stand, one of them is the longest.
LEMMA LongestFacts ==
  ASSUME InputOK, NEW i \in 1 .. Len(given), KeysAt(given, i) # {}
  PROVE  LET k == LongestAt(given, i) IN
         k \in KeysAt(given, i) /\ \A l \in KeysAt(given, i) : Len(l) <= Len(k)
<1> DEFINE K == KeysAt(given, i)
           N == Len(given) + 1
           L == { N - Len(k) : k \in K }
<1>1. Len(given) \in Nat /\ K \subseteq DOMAIN mappings
  BY LenProperties DEF InputOK, KeysAt
<1>2. \A k \in K : Len(k) \in Nat /\ N - Len(k) \in Nat
  <2> TAKE k \in K
  <2>1. k \in Seq(Symbols) /\ k # << >> /\ Len(k) \in Nat /\ OccursAt(k, given, i)
    BY KeyFacts DEF KeysAt
  <2>2. i + Len(k) <= Len(given) + 1
    BY <2>1, OccursFacts DEF InputOK
  <2> QED
    BY <1>1, <2>1, <2>2
<1> HIDE DEF K, N
<1>3. L \in SUBSET Nat /\ L # {}
  BY <1>2 DEF K
<1>4. PICK x \in L : \A y \in L : x <= y
  <2> HIDE DEF L
  <2> QED
    BY <1>3, LeastExists
<1>5. PICK k \in K : x = N - Len(k)
  BY <1>4
<1>6. \A l \in K : Len(l) <= Len(k)
  <2> TAKE l \in K
  <2>1. N - Len(k) <= N - Len(l)
    BY <1>4, <1>5
  <2>2. N \in Nat
    BY <1>1 DEF N
  <2> QED
    BY <1>2, <2>1, <2>2
<1>7. LongestAt(given, i) = CHOOSE c \in K : \A l \in K : Len(l) <= Len(c)
  BY DEF LongestAt, K
<1>8. LongestAt(given, i) \in K /\ \A l \in K : Len(l) <= Len(LongestAt(given, i))
  BY <1>6, <1>7
<1> QED
  BY <1>8 DEF K

\* A pass goes on to a later place, and its rounds are of the right types.
LEMMA PassFacts ==
  ASSUME InputOK, NEW D
  PROVE  /\ Len(given) \in Nat /\ Jumps(PassPlace(D), Len(given))
         /\ Rounds(PassBack(D), Len(given), Seq(Symbols)) /\ Rounds(PassTally(D), Len(given), Nat)
<1>1. Len(given) \in Nat /\ given \in Seq(Symbols)
  BY LenProperties DEF InputOK
<1>2. ASSUME NEW i \in 1 .. Len(given), Taken(D, i)
      PROVE  /\ LongestAt(given, i) \in DOMAIN mappings /\ OccursAt(LongestAt(given, i), given, i)
  BY <1>2, LongestFacts DEF Taken, KeysAt
<1>3. Jumps(PassPlace(D), Len(given))
  <2>1. ASSUME NEW i \in 1 .. Len(given)
        PROVE  PassPlace(D)[i] \in 2 .. Len(given) + 1 /\ i < PassPlace(D)[i]
    <3>1. CASE Taken(D, i)
      <4> DEFINE k == LongestAt(given, i)
      <4>1. k \in Seq(Symbols) /\ k # << >> /\ Len(k) \in Nat \ {0} /\ OccursAt(k, given, i)
        BY <1>2, <3>1, KeyFacts
      <4> HIDE DEF k
      <4>2. i + Len(k) <= Len(given) + 1
        BY <1>1, <4>1, OccursFacts
      <4>3. PassPlace(D)[i] = i + Len(k)
        BY <3>1 DEF PassPlace, k
      <4> QED
        BY <1>1, <4>1, <4>2, <4>3
    <3>2. CASE ~Taken(D, i)
      <4>1. PassPlace(D)[i] = i + 1
        BY <3>2 DEF PassPlace
      <4> QED
        BY <1>1, <4>1
    <3> QED
      BY <3>1, <3>2
  <2>2. PassPlace(D) = [ i \in 1 .. Len(given) |-> PassPlace(D)[i] ]
    BY DEF PassPlace
  <2> QED
    BY <2>1, <2>2 DEF Jumps
<1>4. Rounds(PassBack(D), Len(given), Seq(Symbols))
  <2>1. ASSUME NEW i \in 1 .. Len(given), NEW x \in Seq(Symbols)
        PROVE  (IF Taken(D, i) THEN mappings[LongestAt(given, i)] \o x ELSE << given[i] >> \o x) \in Seq(Symbols)
    <3>1. << given[i] >> \o x \in Seq(Symbols)
      <4>1. given[i] \in Symbols
        BY <1>1, ElementOfSeq
      <4>2. << given[i] >> \in Seq(Symbols)
        BY <4>1
      <4> QED
        BY <4>2, ConcatProperties
    <3>2. Taken(D, i) => mappings[LongestAt(given, i)] \o x \in Seq(Symbols)
      <4>1. Taken(D, i) => mappings[LongestAt(given, i)] \in Seq(Symbols)
        BY <1>2, KeyFacts
      <4> QED
        BY <4>1, ConcatProperties
    <3> QED
      BY <3>1, <3>2
  <2> QED
    BY <2>1 DEF Rounds, PassBack
<1>5. Rounds(PassTally(D), Len(given), Nat)
  BY DEF Rounds, PassTally
<1> QED
  BY <1>1, <1>3, <1>4, <1>5

\* Such passes exist.
LEMMA PassExists ==
  ASSUME InputOK, NEW D
  PROVE  (\E f : Passes(f, D)) /\ (\E f : Restores(f, D))
<1> DEFINE n == Len(given)
           T == Seq(Symbols)
<1>1. /\ n \in Nat /\ Jumps(PassPlace(D), n) /\ Rounds(PassBack(D), n, T)
      /\ Rounds(PassTally(D), n, Nat) /\ << >> \in T /\ 0 \in Nat
  BY PassFacts, EmptySeq
<1> HIDE DEF n, T
<1>2. \E f : Reads(f, n, T, << >>, PassPlace(D), PassBack(D))
  BY <1>1, ReadingExists
<1>3. \E f : Reads(f, n, Nat, 0, PassPlace(D), PassTally(D))
  BY <1>1, ReadingExists
<1> QED
  BY <1>2, <1>3 DEF Passes, Restores, n, T

\* The texts, place by place.
LEMMA PassSteps ==
  ASSUME InputOK, NEW D, NEW f, Passes(f, D)
  PROVE  /\ f \in [ 1 .. Len(given) + 1 -> Seq(Symbols) ] /\ f[Len(given) + 1] = << >>
         /\ \A i \in 1 .. Len(given) :
              f[i] = IF Taken(D, i) THEN mappings[LongestAt(given, i)] \o f[i + Len(LongestAt(given, i))]
                     ELSE << given[i] >> \o f[i + 1]
<1>1. /\ f \in [ 1 .. Len(given) + 1 -> Seq(Symbols) ] /\ f[Len(given) + 1] = << >>
      /\ \A i \in 1 .. Len(given) : f[i] = PassBack(D)[i][f[PassPlace(D)[i]]]
  BY DEF Passes, Reads
<1>2. Len(given) \in Nat /\ Jumps(PassPlace(D), Len(given))
  BY PassFacts
<1>3. ASSUME NEW i \in 1 .. Len(given)
      PROVE  f[i] = IF Taken(D, i) THEN mappings[LongestAt(given, i)] \o f[i + Len(LongestAt(given, i))]
                    ELSE << given[i] >> \o f[i + 1]
  <2>1. PassPlace(D)[i] \in 1 .. Len(given) + 1
    BY <1>2 DEF Jumps
  <2>2. f[PassPlace(D)[i]] \in Seq(Symbols)
    BY <1>1, <2>1
  <2>3. PassPlace(D)[i] = IF Taken(D, i) THEN i + Len(LongestAt(given, i)) ELSE i + 1
    BY DEF PassPlace
  <2>4. \A x \in Seq(Symbols) :
          PassBack(D)[i][x] = IF Taken(D, i) THEN mappings[LongestAt(given, i)] \o x ELSE << given[i] >> \o x
    BY DEF PassBack
  <2> QED
    BY <1>1, <2>2, <2>3, <2>4
<1> QED
  BY <1>1, <1>3

\* The counts, place by place.
LEMMA RestoreSteps ==
  ASSUME InputOK, NEW D, NEW f, Restores(f, D)
  PROVE  /\ f \in [ 1 .. Len(given) + 1 -> Nat ] /\ f[Len(given) + 1] = 0
         /\ \A i \in 1 .. Len(given) :
              f[i] = IF Taken(D, i) THEN 1 + f[i + Len(LongestAt(given, i))] ELSE f[i + 1]
<1>1. /\ f \in [ 1 .. Len(given) + 1 -> Nat ] /\ f[Len(given) + 1] = 0
      /\ \A i \in 1 .. Len(given) : f[i] = PassTally(D)[i][f[PassPlace(D)[i]]]
  BY DEF Restores, Reads
<1>2. Len(given) \in Nat /\ Jumps(PassPlace(D), Len(given))
  BY PassFacts
<1>3. ASSUME NEW i \in 1 .. Len(given)
      PROVE  f[i] = IF Taken(D, i) THEN 1 + f[i + Len(LongestAt(given, i))] ELSE f[i + 1]
  <2>1. PassPlace(D)[i] \in 1 .. Len(given) + 1
    BY <1>2 DEF Jumps
  <2>2. f[PassPlace(D)[i]] \in Nat
    BY <1>1, <2>1
  <2>3. PassPlace(D)[i] = IF Taken(D, i) THEN i + Len(LongestAt(given, i)) ELSE i + 1
    BY DEF PassPlace
  <2>4. \A x \in Nat : PassTally(D)[i][x] = IF Taken(D, i) THEN 1 + x ELSE x
    BY DEF PassTally
  <2> QED
    BY <1>1, <2>2, <2>3, <2>4
<1> QED
  BY <1>1, <1>3

\* The reference is the pass that restores every placeholder.
LEMMA ReferencePass ==
  ASSUME InputOK, NEW f, Passes(f, DOMAIN mappings)
  PROVE  Restored(given) = f[1]
<1> DEFINE n == Len(given)
           D == DOMAIN mappings
           Eq(g) == g = [ i \in 1 .. Len(given) + 1 |->
                            IF i > Len(given) THEN << >>
                            ELSE IF KeysAt(given, i) = {} THEN << given[i] >> \o g[i + 1]
                            ELSE mappings[LongestAt(given, i)] \o g[i + Len(LongestAt(given, i))] ]
<1>1. n \in Nat /\ Jumps(PassPlace(D), n)
  BY PassFacts
<1>2. \A i \in 1 .. n : Taken(D, i) <=> KeysAt(given, i) # {}
  BY LongestFacts DEF Taken, KeysAt
<1>3. /\ f \in [ 1 .. n + 1 -> Seq(Symbols) ] /\ f[n + 1] = << >>
      /\ \A i \in 1 .. n :
           f[i] = IF Taken(D, i) THEN mappings[LongestAt(given, i)] \o f[i + Len(LongestAt(given, i))]
                  ELSE << given[i] >> \o f[i + 1]
  <2> HIDE DEF D
  <2> QED
    BY PassSteps DEF D
<1>4. \A i \in 1 .. n :
        f[i] = IF KeysAt(given, i) = {} THEN << given[i] >> \o f[i + 1]
               ELSE mappings[LongestAt(given, i)] \o f[i + Len(LongestAt(given, i))]
  BY <1>2, <1>3
<1>5. Eq(f)
  <2>1. \A i \in 1 .. n + 1 : i > n => i = n + 1
    BY <1>1
  <2>2. \A i \in 1 .. n + 1 : ~(i > n) => i \in 1 .. n
    BY <1>1
  <2>3. \A i \in 1 .. n + 1 :
          f[i] = IF i > n THEN << >>
                 ELSE IF KeysAt(given, i) = {} THEN << given[i] >> \o f[i + 1]
                 ELSE mappings[LongestAt(given, i)] \o f[i + Len(LongestAt(given, i))]
    BY <1>3, <1>4, <2>1, <2>2
  <2> QED
    BY <1>3, <2>3
<1>6. PICK g : Eq(g) /\ Restored(given) = g[1]
  <2>1. Restored(given) = (CHOOSE g : Eq(g))[1]
    BY DEF Restored
  <2> HIDE DEF Eq
  <2> QED
    BY <1>5, <2>1
<1>7. \A i \in 1 .. n + 1 : g[i] = IF i > n THEN << >>
         ELSE IF KeysAt(given, i) = {} THEN << given[i] >> \o g[i + 1]
         ELSE mappings[LongestAt(given, i)] \o g[i + Len(LongestAt(given, i))]
  BY <1>6
<1>8. g[1] = f[1]
  <2>1. g[n + 1] = f[n + 1]
    <3>1. n + 1 \in 1 .. n + 1 /\ n + 1 > n
      BY <1>1
    <3> HIDE DEF n
    <3> QED
      BY <1>3, <1>7, <3>1
  <2>2. ASSUME NEW i \in 1 .. n, g[PassPlace(D)[i]] = f[PassPlace(D)[i]] PROVE g[i] = f[i]
    <3>1. PassPlace(D)[i] = IF KeysAt(given, i) = {} THEN i + 1 ELSE i + Len(LongestAt(given, i))
      BY <1>2 DEF PassPlace
    <3>2. i \in 1 .. n + 1 /\ ~(i > n)
      BY <1>1
    <3> QED
      BY <1>4, <1>7, <2>2, <3>1, <3>2
  <2> HIDE DEF n, D
  <2>3. \A i \in 1 .. n + 1 : g[i] = f[i]
    BY <1>1, <2>1, <2>2, SameReading
  <2> QED
    BY <1>1, <2>3
<1> QED
  BY <1>6, <1>8

\* What the reference counts is what that pass restores.
LEMMA ReferenceCount ==
  ASSUME InputOK, NEW f, Restores(f, DOMAIN mappings)
  PROVE  Placeholders(given) = f[1]
<1> DEFINE n == Len(given)
           D == DOMAIN mappings
           Eq(g) == g = [ i \in 1 .. Len(given) + 1 |->
                            IF i > Len(given) THEN 0
                            ELSE IF KeysAt(given, i) = {} THEN g[i + 1]
                            ELSE 1 + g[i + Len(LongestAt(given, i))] ]
<1>1. n \in Nat /\ Jumps(PassPlace(D), n)
  BY PassFacts
<1>2. \A i \in 1 .. n : Taken(D, i) <=> KeysAt(given, i) # {}
  BY LongestFacts DEF Taken, KeysAt
<1>3. /\ f \in [ 1 .. n + 1 -> Nat ] /\ f[n + 1] = 0
      /\ \A i \in 1 .. n :
           f[i] = IF Taken(D, i) THEN 1 + f[i + Len(LongestAt(given, i))] ELSE f[i + 1]
  <2> HIDE DEF D
  <2> QED
    BY RestoreSteps DEF D
<1>4. \A i \in 1 .. n :
        f[i] = IF KeysAt(given, i) = {} THEN f[i + 1] ELSE 1 + f[i + Len(LongestAt(given, i))]
  BY <1>2, <1>3
<1>5. Eq(f)
  <2>1. \A i \in 1 .. n + 1 : i > n => i = n + 1
    BY <1>1
  <2>2. \A i \in 1 .. n + 1 : ~(i > n) => i \in 1 .. n
    BY <1>1
  <2>3. \A i \in 1 .. n + 1 :
          f[i] = IF i > n THEN 0
                 ELSE IF KeysAt(given, i) = {} THEN f[i + 1]
                 ELSE 1 + f[i + Len(LongestAt(given, i))]
    BY <1>3, <1>4, <2>1, <2>2
  <2> QED
    BY <1>3, <2>3
<1>6. PICK g : Eq(g) /\ Placeholders(given) = g[1]
  <2>1. Placeholders(given) = (CHOOSE g : Eq(g))[1]
    BY DEF Placeholders
  <2> HIDE DEF Eq
  <2> QED
    BY <1>5, <2>1
<1>7. \A i \in 1 .. n + 1 : g[i] = IF i > n THEN 0
         ELSE IF KeysAt(given, i) = {} THEN g[i + 1] ELSE 1 + g[i + Len(LongestAt(given, i))]
  BY <1>6
<1>8. g[1] = f[1]
  <2>1. g[n + 1] = f[n + 1]
    <3>1. n + 1 \in 1 .. n + 1 /\ n + 1 > n
      BY <1>1
    <3> HIDE DEF n
    <3> QED
      BY <1>3, <1>7, <3>1
  <2>2. ASSUME NEW i \in 1 .. n, g[PassPlace(D)[i]] = f[PassPlace(D)[i]] PROVE g[i] = f[i]
    <3>1. PassPlace(D)[i] = IF KeysAt(given, i) = {} THEN i + 1 ELSE i + Len(LongestAt(given, i))
      BY <1>2 DEF PassPlace
    <3>2. i \in 1 .. n + 1 /\ ~(i > n)
      BY <1>1
    <3> QED
      BY <1>4, <1>7, <2>2, <3>1, <3>2
  <2> HIDE DEF n, D
  <2>3. \A i \in 1 .. n + 1 : g[i] = f[i]
    BY <1>1, <2>1, <2>2, SameReading
  <2> QED
    BY <1>1, <2>3
<1> QED
  BY <1>6, <1>8

\* Restoring nothing changes nothing.
LEMMA EmptyPass ==
  ASSUME InputOK
  PROVE  /\ \E f : Passes(f, {}) /\ given = f[1]
         /\ \E f : Restores(f, {}) /\ 0 = f[1]
<1> DEFINE n == Len(given)
<1>1. n \in Nat /\ given \in Seq(Symbols)
  BY LenProperties DEF InputOK
<1>2. PICK f : Passes(f, {})
  BY PassExists
<1>3. PICK m : Restores(m, {})
  BY PassExists
<1>4. \A i \in 1 .. n : ~Taken({}, i)
  BY DEF Taken
<1>5. /\ f \in [ 1 .. n + 1 -> Seq(Symbols) ] /\ f[n + 1] = << >>
      /\ \A i \in 1 .. n : f[i] = << given[i] >> \o f[i + 1]
  BY <1>2, <1>4, PassSteps
<1>6. m[n + 1] = 0 /\ \A i \in 1 .. n : m[i] = m[i + 1]
  BY <1>3, <1>4, RestoreSteps
<1> DEFINE P == { i \in 1 .. n + 1 : f[i] = SubSeq(given, i, n) /\ m[i] = 0 }
<1>7. ASSUME NEW i \in 1 .. n + 1, \A j \in i + 1 .. n + 1 : j \in P PROVE i \in P
  <2>1. CASE i = n + 1
    <3>1. SubSeq(given, n + 1, n) = << >>
      BY <1>1, SubSeqEmpty
    <3> QED
      BY <1>5, <1>6, <2>1, <3>1
  <2>2. CASE i # n + 1
    <3>1. i \in 1 .. n /\ i + 1 \in i + 1 .. n + 1 /\ n \in i .. n
      BY <1>1, <2>2
    <3>2. f[i + 1] = SubSeq(given, i + 1, n) /\ m[i + 1] = 0
      BY <1>7, <3>1
    <3>3. SubSeq(given, i, n) = << given[i] >> \o SubSeq(given, i + 1, n)
      BY <1>1, <3>1, SubSeqRecursiveFirst
    <3>4. f[i] = SubSeq(given, i, n)
      BY <1>5, <3>1, <3>2, <3>3
    <3> QED
      BY <1>6, <3>1, <3>2, <3>4
  <2> QED
    BY <2>1, <2>2
<1>8. \A i \in 1 .. n + 1 : i \in P
  <2>1. n + 1 \in Nat
    BY <1>1
  <2> HIDE DEF P, n
  <2> QED
    BY <1>7, <2>1, FromAllAbove
<1>9. f[1] = SubSeq(given, 1, n) /\ m[1] = 0
  BY <1>1, <1>8
<1>10. SubSeq(given, 1, n) = given
  BY <1>1, SubSeqFull
<1> QED
  BY <1>2, <1>3, <1>9, <1>10

-----------------------------------------------------------------------------
(* Replacing and counting in a text of two parts                             *)

\* What occurs in the second part occurs in the whole as far behind the first.
LEMMA OccursBehind ==
  ASSUME NEW k \in Seq(Symbols), k # << >>, NEW u \in Seq(Symbols), NEW t \in Seq(Symbols),
         NEW i \in 1 .. Len(t)
  PROVE  /\ (u \o t)[Len(u) + i] = t[i]
         /\ OccursAt(k, u \o t, Len(u) + i) <=> OccursAt(k, t, i)
<1> DEFINE a == Len(u)
           s == u \o t
           m == Len(k)
<1>1. a \in Nat /\ Len(t) \in Nat /\ m \in Nat
  BY LenProperties
<1>2. /\ s \in Seq(Symbols) /\ Len(s) = a + Len(t)
      /\ \A j \in 1 .. Len(t) : s[a + j] = t[j]
  <2>1. /\ s \in Seq(Symbols) /\ Len(s) = Len(u) + Len(t)
        /\ \A j \in 1 .. Len(u) + Len(t) : s[j] = IF j <= Len(u) THEN u[j] ELSE t[j - Len(u)]
    BY ConcatProperties
  <2>2. ASSUME NEW j \in 1 .. Len(t) PROVE s[a + j] = t[j]
    <3>1. a + j \in 1 .. Len(u) + Len(t) /\ ~(a + j <= Len(u)) /\ a + j - Len(u) = j
      BY <1>1
    <3> HIDE DEF s
    <3> QED
      BY <2>1, <3>1
  <2> QED
    BY <2>1, <2>2
<1> HIDE DEF s, a, m
<1>3. a + i \in 1 .. Len(s)
  BY <1>1, <1>2
<1>4. OccursAt(k, s, a + i) <=> /\ a + i + m <= Len(s) + 1
                                /\ \A q \in 1 .. m : s[a + i + q - 1] = k[q]
  BY <1>2, <1>3, OccursFacts DEF m
<1>5. OccursAt(k, t, i) <=> /\ i + m <= Len(t) + 1
                            /\ \A q \in 1 .. m : t[i + q - 1] = k[q]
  BY OccursFacts DEF m
<1>6. i + m <= Len(t) + 1 <=> a + i + m <= Len(s) + 1
  BY <1>1, <1>2
<1>7. ASSUME i + m <= Len(t) + 1, NEW q \in 1 .. m
      PROVE  s[a + i + q - 1] = t[i + q - 1]
  <2>1. i + q - 1 \in 1 .. Len(t) /\ a + i + q - 1 = a + (i + q - 1)
    BY <1>1, <1>7
  <2> QED
    BY <1>2, <2>1
<1>8. s[a + i] = t[i] /\ (OccursAt(k, s, a + i) <=> OccursAt(k, t, i))
  BY <1>2, <1>4, <1>5, <1>6, <1>7
<1> QED
  BY <1>8 DEF s, a

\* A search that has come to the second part goes on as a search of that part.
LEMMA SearchBehind ==
  ASSUME NEW k \in Seq(Symbols), k # << >>, NEW u \in Seq(Symbols), NEW t \in Seq(Symbols),
         NEW v \in Seq(Symbols)
  PROVE  /\ \A e : Replaces(e, k, u \o t, v) => e[Len(u) + 1] = Replace(t, k, v)
         /\ \A e : Counts(e, k, u \o t) => e[Len(u) + 1] = Count(t, k)
<1> DEFINE a == Len(u)
           n == Len(t)
           s == u \o t
           J == NextPlace(k, s)
           N == NextPlace(k, t)
<1>1. a \in Nat /\ n \in Nat /\ s \in Seq(Symbols) /\ Len(s) = a + n
  BY LenProperties, ConcatProperties
<1>2. Jumps(N, n)
  BY SearchFacts
<1>3. ASSUME NEW i \in 1 .. n
      PROVE  /\ J[a + i] = a + N[i]
             /\ PutBack(k, s, v)[a + i] = PutBack(k, t, v)[i]
             /\ Tally(k, s)[a + i] = Tally(k, t)[i]
  <2>1. s[a + i] = t[i] /\ (OccursAt(k, s, a + i) <=> OccursAt(k, t, i))
    BY OccursBehind
  <2>2. a + i \in 1 .. Len(s) /\ Len(k) \in Nat
    BY <1>1, LenProperties
  <2> HIDE DEF s, a
  <2>3. J[a + i] = (IF OccursAt(k, t, i) THEN a + i + Len(k) ELSE a + i + 1)
    BY <2>1, <2>2 DEF NextPlace
  <2>4. N[i] = (IF OccursAt(k, t, i) THEN i + Len(k) ELSE i + 1)
    BY DEF NextPlace
  <2>5. J[a + i] = a + N[i]
    <3> HIDE DEF J, N
    <3> QED
      BY <1>1, <2>2, <2>3, <2>4
  <2>6. PutBack(k, s, v)[a + i] = PutBack(k, t, v)[i]
    BY <2>1, <2>2 DEF PutBack
  <2>7. Tally(k, s)[a + i] = Tally(k, t)[i]
    BY <2>1, <2>2 DEF Tally
  <2> QED
    BY <2>5, <2>6, <2>7
<1>4. GoesAs(J, PutBack(k, s, v), a, n, N, PutBack(k, t, v)) /\ GoesAs(J, Tally(k, s), a, n, N, Tally(k, t))
  <2> HIDE DEF J, N, a, n, s
  <2> QED
    BY <1>3 DEF GoesAs
<1>5. 1 \in 1 .. n + 1
  BY <1>1
<1>6. ASSUME NEW e, Replaces(e, k, s, v) PROVE e[a + 1] = Replace(t, k, v)
  <2>1. PICK f : Replaces(f, k, t, v) /\ Replace(t, k, v) = f[1]
    BY ReplaceLoop
  <2>2. Reads(e, a + n, Seq(Symbols), << >>, J, PutBack(k, s, v))
    BY <1>1, <1>6 DEF Replaces
  <2>3. Reads(f, n, Seq(Symbols), << >>, N, PutBack(k, t, v))
    BY <2>1 DEF Replaces
  <2> HIDE DEF a, n, s, J, N
  <2>4. \A i \in 1 .. n + 1 : e[a + i] = f[i]
    BY <1>1, <1>2, <1>4, <2>2, <2>3, ReadingSuffix
  <2> QED
    BY <1>5, <2>1, <2>4
<1>7. ASSUME NEW e, Counts(e, k, s) PROVE e[a + 1] = Count(t, k)
  <2>1. PICK f : Counts(f, k, t) /\ Count(t, k) = f[1]
    BY CountLoop
  <2>2. Reads(e, a + n, Nat, 0, J, Tally(k, s))
    BY <1>1, <1>7 DEF Counts
  <2>3. Reads(f, n, Nat, 0, N, Tally(k, t))
    BY <2>1 DEF Counts
  <2> HIDE DEF a, n, s, J, N
  <2>4. \A i \in 1 .. n + 1 : e[a + i] = f[i]
    BY <1>1, <1>2, <1>4, <2>2, <2>3, ReadingSuffix
  <2> QED
    BY <1>5, <2>1, <2>4
<1> QED
  BY <1>6, <1>7

\* The first step of a search: in an empty text, at a placeholder, at any other place.
LEMMA SearchSteps ==
  ASSUME NEW k \in Seq(Symbols), k # << >>, NEW t \in Seq(Symbols), NEW v \in Seq(Symbols)
  PROVE  /\ Replace(<< >>, k, v) = << >> /\ Count(<< >>, k) = 0
         /\ Replace(k \o t, k, v) = v \o Replace(t, k, v) /\ Count(k \o t, k) = 1 + Count(t, k)
         /\ \A c \in Symbols : ~OccursAt(k, << c >> \o t, 1) =>
              /\ Replace(<< c >> \o t, k, v) = << c >> \o Replace(t, k, v)
              /\ Count(<< c >> \o t, k) = Count(t, k)
         /\ Replace(t, k, v) \in Seq(Symbols) /\ Count(t, k) \in Nat
<1>0. Len(k) \in Nat /\ Len(k) # 0 /\ Len(t) \in Nat /\ << >> \in Seq(Symbols) /\ Len(<< >>) = 0
  BY EmptySeq, LenProperties
<1>1. Replace(<< >>, k, v) = << >> /\ Count(<< >>, k) = 0
  <2>1. PICK e : Replaces(e, k, << >>, v) /\ Replace(<< >>, k, v) = e[1]
    BY <1>0, ReplaceLoop
  <2>2. PICK m : Counts(m, k, << >>) /\ Count(<< >>, k) = m[1]
    BY <1>0, CountLoop
  <2>3. e[0 + 1] = << >> /\ m[0 + 1] = 0
    BY <1>0, <2>1, <2>2 DEF Replaces, Counts, Reads
  <2> QED
    BY <2>1, <2>2, <2>3
\* at the first place of a text
<1>2. ASSUME NEW s \in Seq(Symbols), Len(s) # 0
      PROVE  /\ \E e : /\ Replaces(e, k, s, v) /\ Replace(s, k, v) = e[1]
                       /\ e[1] = IF OccursAt(k, s, 1) THEN v \o e[Len(k) + 1] ELSE << s[1] >> \o e[2]
             /\ \E e : /\ Counts(e, k, s) /\ Count(s, k) = e[1]
                       /\ e[1] = IF OccursAt(k, s, 1) THEN 1 + e[Len(k) + 1] ELSE e[2]
  <2>0. 1 \in 1 .. Len(s) /\ Len(s) \in Nat /\ Jumps(NextPlace(k, s), Len(s))
    BY <1>2, LenProperties, SearchFacts
  <2>1. PICK e : Replaces(e, k, s, v) /\ Replace(s, k, v) = e[1]
    BY ReplaceLoop
  <2>2. PICK m : Counts(m, k, s) /\ Count(s, k) = m[1]
    BY CountLoop
  <2>3. e[1] = PutBack(k, s, v)[1][e[NextPlace(k, s)[1]]] /\ e \in [ 1 .. Len(s) + 1 -> Seq(Symbols) ]
    BY <2>0, <2>1 DEF Replaces, Reads
  <2>4. m[1] = Tally(k, s)[1][m[NextPlace(k, s)[1]]] /\ m \in [ 1 .. Len(s) + 1 -> Nat ]
    BY <2>0, <2>2 DEF Counts, Reads
  <2>5. NextPlace(k, s)[1] = IF OccursAt(k, s, 1) THEN Len(k) + 1 ELSE 2
    BY <1>0, <2>0 DEF NextPlace
  <2>6. NextPlace(k, s)[1] \in 1 .. Len(s) + 1
    BY <2>0 DEF Jumps
  <2>7. \A x \in Seq(Symbols) : PutBack(k, s, v)[1][x] = IF OccursAt(k, s, 1) THEN v \o x ELSE << s[1] >> \o x
    BY <2>0 DEF PutBack
  <2>8. \A x \in Nat : Tally(k, s)[1][x] = IF OccursAt(k, s, 1) THEN 1 + x ELSE x
    BY <2>0 DEF Tally
  <2>9. e[1] = IF OccursAt(k, s, 1) THEN v \o e[Len(k) + 1] ELSE << s[1] >> \o e[2]
    BY <2>3, <2>5, <2>6, <2>7
  <2>10. m[1] = IF OccursAt(k, s, 1) THEN 1 + m[Len(k) + 1] ELSE m[2]
    BY <2>4, <2>5, <2>6, <2>8
  <2> QED
    BY <2>1, <2>2, <2>9, <2>10
<1>3. Replace(k \o t, k, v) = v \o Replace(t, k, v) /\ Count(k \o t, k) = 1 + Count(t, k)
  <2>1. /\ k \o t \in Seq(Symbols) /\ Len(k \o t) = Len(k) + Len(t)
        /\ \A j \in 1 .. Len(k) + Len(t) : (k \o t)[j] = IF j <= Len(k) THEN k[j] ELSE t[j - Len(k)]
    BY ConcatProperties
  <2>2. Len(k \o t) # 0 /\ 1 \in 1 .. Len(k \o t)
    BY <1>0, <2>1
  <2>3. OccursAt(k, k \o t, 1)
    <3>1. 1 + Len(k) <= Len(k \o t) + 1
      BY <1>0, <2>1
    <3>2. ASSUME NEW q \in 1 .. Len(k) PROVE (k \o t)[1 + q - 1] = k[q]
      <4>1. 1 + q - 1 = q /\ q \in 1 .. Len(k) + Len(t) /\ q <= Len(k)
        BY <1>0
      <4> QED
        BY <2>1, <4>1
    <3> QED
      BY <2>1, <2>2, <3>1, <3>2, OccursFacts
  <2>4. \A e : Replaces(e, k, k \o t, v) => e[Len(k) + 1] = Replace(t, k, v)
    BY SearchBehind
  <2>5. \A e : Counts(e, k, k \o t) => e[Len(k) + 1] = Count(t, k)
    BY SearchBehind
  <2> DEFINE s == k \o t
  <2>6. s \in Seq(Symbols) /\ Len(s) # 0 /\ OccursAt(k, s, 1)
    BY <2>1, <2>2, <2>3
  <2> HIDE DEF s
  <2>7. PICK e : Replaces(e, k, s, v) /\ Replace(s, k, v) = e[1] /\ e[1] = v \o e[Len(k) + 1]
    BY <1>2, <2>6
  <2>8. PICK m : Counts(m, k, s) /\ Count(s, k) = m[1] /\ m[1] = 1 + m[Len(k) + 1]
    BY <1>2, <2>6
  <2>9. e[Len(k) + 1] = Replace(t, k, v) /\ m[Len(k) + 1] = Count(t, k)
    BY <2>4, <2>5, <2>7, <2>8 DEF s
  <2>10. Replace(s, k, v) = v \o Replace(t, k, v) /\ Count(s, k) = 1 + Count(t, k)
    BY <2>7, <2>8, <2>9
  <2> QED
    BY <2>10 DEF s
<1>4. ASSUME NEW c \in Symbols, ~OccursAt(k, << c >> \o t, 1)
      PROVE  /\ Replace(<< c >> \o t, k, v) = << c >> \o Replace(t, k, v)
             /\ Count(<< c >> \o t, k) = Count(t, k)
  <2> DEFINE u == << c >>
             s == << c >> \o t
  <2>1. u \in Seq(Symbols) /\ Len(u) = 1 /\ u[1] = c
    OBVIOUS
  <2>2. s \in Seq(Symbols) /\ Len(s) = 1 + Len(t) /\ s[1] = c
    <3> HIDE DEF u
    <3>1. /\ u \o t \in Seq(Symbols) /\ Len(u \o t) = Len(u) + Len(t)
          /\ \A j \in 1 .. Len(u) + Len(t) : (u \o t)[j] = IF j <= Len(u) THEN u[j] ELSE t[j - Len(u)]
      BY <2>1, ConcatProperties
    <3>2. 1 \in 1 .. Len(u) + Len(t) /\ 1 <= Len(u)
      BY <1>0, <2>1
    <3>3. u \o t \in Seq(Symbols) /\ Len(u \o t) = 1 + Len(t) /\ (u \o t)[1] = c
      BY <2>1, <3>1, <3>2
    <3> QED
      BY <3>3 DEF u
  <2>3. /\ \A e : Replaces(e, k, s, v) => e[Len(u) + 1] = Replace(t, k, v)
        /\ \A e : Counts(e, k, s) => e[Len(u) + 1] = Count(t, k)
    <3>1. u \in Seq(Symbols)
      BY <2>1
    <3> HIDE DEF u, s
    <3>2. /\ \A e : Replaces(e, k, u \o t, v) => e[Len(u) + 1] = Replace(t, k, v)
          /\ \A e : Counts(e, k, u \o t) => e[Len(u) + 1] = Count(t, k)
      BY <3>1, SearchBehind
    <3> QED
      BY <3>2 DEF u, s
  <2>4. ~OccursAt(k, s, 1) /\ Len(s) # 0
    BY <1>0, <1>4, <2>2
  <2> HIDE DEF s
  <2>5. PICK e : Replaces(e, k, s, v) /\ Replace(s, k, v) = e[1] /\ e[1] = << s[1] >> \o e[2]
    BY <1>2, <2>2, <2>4
  <2>6. PICK m : Counts(m, k, s) /\ Count(s, k) = m[1] /\ m[1] = m[2]
    BY <1>2, <2>2, <2>4
  <2>7. e[2] = Replace(t, k, v) /\ m[2] = Count(t, k)
    <3>1. Len(u) + 1 = 2
      BY <2>1
    <3> HIDE DEF u
    <3> QED
      BY <2>3, <2>5, <2>6, <3>1
  <2>8. Replace(s, k, v) = << c >> \o Replace(t, k, v) /\ Count(s, k) = Count(t, k)
    BY <2>2, <2>5, <2>6, <2>7
  <2> QED
    BY <2>8 DEF s
<1>5. Replace(t, k, v) \in Seq(Symbols) /\ Count(t, k) \in Nat
  <2>1. PICK e : Replaces(e, k, t, v) /\ Replace(t, k, v) = e[1]
    BY ReplaceLoop
  <2>2. PICK m : Counts(m, k, t) /\ Count(t, k) = m[1]
    BY CountLoop
  <2>3. 1 \in 1 .. Len(t) + 1
    BY <1>0
  <2>4. e[1] \in Seq(Symbols) /\ m[1] \in Nat
    BY <2>1, <2>2, <2>3 DEF Replaces, Counts, Reads
  <2> QED
    BY <2>1, <2>2, <2>4
<1> QED
  BY <1>1, <1>3, <1>4, <1>5

\* A piece of q characters.
LEMMA PieceFacts ==
  ASSUME NEW s \in Seq(Symbols), NEW i \in 1 .. Len(s) + 1, NEW q \in Nat, i + q <= Len(s) + 1
  PROVE  LET p == SubSeq(s, i, i + q - 1) IN
         p \in Seq(Symbols) /\ Len(p) = q /\ \A j \in 1 .. q : p[j] = s[i + j - 1]
<1> DEFINE n == i + q - 1
           p == SubSeq(s, i, n)
<1>1. Len(s) \in Nat
  BY LenProperties
<1>2. \A j \in i .. n : s[j] \in Symbols
  <2>1. \A j \in i .. n : j \in 1 .. Len(s)
    BY <1>1
  <2> QED
    BY <2>1, ElementOfSeq
<1>3. i \in Int /\ n \in Int
  BY <1>1
<1>4. /\ p \in Seq(Symbols) /\ Len(p) = (IF i <= n THEN n - i + 1 ELSE 0)
      /\ \A j \in 1 .. n - i + 1 : p[j] = s[i + j - 1]
  <2> HIDE DEF n
  <2> QED
    BY <1>2, <1>3, SubSeqProperties
<1>5. n - i + 1 = q /\ (i <= n <=> q # 0)
  BY <1>3
<1> HIDE DEF n, p
<1>6. p \in Seq(Symbols) /\ Len(p) = q /\ \A j \in 1 .. q : p[j] = s[i + j - 1]
  BY <1>4, <1>5
<1> QED
  BY <1>6 DEF n, p

\* Where two pieces meet.
LEMMA JointFacts ==
  ASSUME NEW a \in Seq(Symbols), NEW b \in Seq(Symbols)
  PROVE  /\ Len(a \o b) = Len(a) + Len(b) /\ Len(b) \in Nat
         /\ Len(a) # 0 => (a \o b)[1] = a[1]
         /\ Len(b) # 0 => (a \o b)[Len(a) + 1] = b[1]
<1>1. /\ Len(a \o b) = Len(a) + Len(b) /\ Len(a) \in Nat /\ Len(b) \in Nat
      /\ \A h \in 1 .. Len(a) + Len(b) : (a \o b)[h] = IF h <= Len(a) THEN a[h] ELSE b[h - Len(a)]
  BY ConcatProperties, LenProperties
<1>2. Len(a) # 0 => 1 \in 1 .. Len(a) + Len(b) /\ 1 <= Len(a)
  BY <1>1
<1>3. Len(b) # 0 => /\ Len(a) + 1 \in 1 .. Len(a) + Len(b)
                    /\ ~(Len(a) + 1 <= Len(a)) /\ Len(a) + 1 - Len(a) = 1
  BY <1>1
<1> QED
  BY <1>1, <1>2, <1>3

\* One character before a text.
LEMMA FirstFacts ==
  ASSUME NEW c \in Symbols, NEW t \in Seq(Symbols)
  PROVE  /\ << c >> \o t \in Seq(Symbols) /\ Len(<< c >> \o t) = 1 + Len(t) /\ (<< c >> \o t)[1] = c
         /\ \A r \in Seq(Symbols) : (<< c >> \o t) \o r = << c >> \o (t \o r)
<1> DEFINE a == << c >>
<1>1. a \in Seq(Symbols) /\ Len(a) = 1 /\ a[1] = c
  OBVIOUS
<1> HIDE DEF a
<1>2. /\ a \o t \in Seq(Symbols) /\ Len(a \o t) = Len(a) + Len(t) /\ Len(t) \in Nat
      /\ \A j \in 1 .. Len(a) + Len(t) : (a \o t)[j] = IF j <= Len(a) THEN a[j] ELSE t[j - Len(a)]
  BY <1>1, ConcatProperties, LenProperties
<1>3. 1 \in 1 .. Len(a) + Len(t) /\ 1 <= Len(a)
  BY <1>1, <1>2
<1>4. a \o t \in Seq(Symbols) /\ Len(a \o t) = 1 + Len(t) /\ (a \o t)[1] = c
  BY <1>1, <1>2, <1>3
<1>5. ASSUME NEW r \in Seq(Symbols) PROVE (a \o t) \o r = a \o (t \o r)
  BY <1>1, ConcatAssociative
<1> QED
  BY <1>4, <1>5 DEF a

\* A search goes over the first character of a text where the placeholder does not occur.
LEMMA SearchMisses ==
  ASSUME NEW k \in Seq(Symbols), k # << >>, NEW t \in Seq(Symbols), NEW v \in Seq(Symbols),
         NEW c \in Symbols, ~OccursAt(k, Cons(c, t), 1)
  PROVE  Replace(Cons(c, t), k, v) = Cons(c, Replace(t, k, v)) /\ Count(Cons(c, t), k) = Count(t, k)
BY SearchSteps DEF Cons

\* A search passes over a character that the placeholder does not begin with.
LEMMA SearchPasses ==
  ASSUME NEW k \in Seq(Symbols), k # << >>, NEW t \in Seq(Symbols), NEW v \in Seq(Symbols),
         NEW c \in Symbols, c # k[1]
  PROVE  Replace(Cons(c, t), k, v) = Cons(c, Replace(t, k, v)) /\ Count(Cons(c, t), k) = Count(t, k)
<1> DEFINE s == << c >> \o t
<1>1. s \in Seq(Symbols) /\ Len(s) = 1 + Len(t) /\ s[1] = c /\ Len(t) \in Nat
  BY FirstFacts, LenProperties
<1>2. Len(k) \in Nat /\ Len(k) # 0
  BY EmptySeq, LenProperties
<1>3. ~OccursAt(k, s, 1)
  <2> HIDE DEF s
  <2>1. 1 \in 1 .. Len(s) /\ 1 \in 1 .. Len(k) /\ 1 + 1 - 1 = 1
    BY <1>1, <1>2
  <2> QED
    BY <1>1, <2>1, OccursFacts
<1> QED
  BY <1>3, SearchSteps DEF Cons

\* u holds no character that k begins with
Skips(k, u) == \A i \in 1 .. Len(u) : u[i] # k[1]

\* replacing and counting k in u \o t leaves u as it is
Skipped(k, v, u, t) == Replace(u \o t, k, v) = u \o Replace(t, k, v) /\ Count(u \o t, k) = Count(t, k)

\* A search passes over what holds no character that the placeholder begins with.
LEMMA SearchSkips ==
  ASSUME NEW k \in Seq(Symbols), k # << >>, NEW u \in Seq(Symbols), NEW t \in Seq(Symbols),
         NEW v \in Seq(Symbols), Skips(k, u)
  PROVE  Skipped(k, v, u, t)
<1> DEFINE n == Len(u)
           rest(i) == SubSeq(u, i, n)
           P == { i \in 1 .. n + 1 : /\ Replace(rest(i) \o t, k, v) = rest(i) \o Replace(t, k, v)
                                     /\ Count(rest(i) \o t, k) = Count(t, k) }
<1>0. PICK r \in Seq(Symbols) : r = Replace(t, k, v)
  BY SearchSteps
<1>1. n \in Nat
  BY LenProperties
<1>2. \A i \in 1 .. n + 1 : rest(i) \in Seq(Symbols)
  <2> TAKE i \in 1 .. n + 1
  <2>1. \A j \in i .. n : u[j] \in Symbols
    <3>1. \A j \in i .. n : j \in 1 .. Len(u)
      BY <1>1
    <3> QED
      BY <3>1, ElementOfSeq
  <2>2. i \in Int /\ n \in Int
    BY <1>1
  <2> HIDE DEF n
  <2> QED
    BY <2>1, <2>2, SubSeqProperties
<1>3. ASSUME NEW i \in 1 .. n + 1, \A j \in i + 1 .. n + 1 : j \in P PROVE i \in P
  <2>1. CASE i = n + 1
    <3>1. rest(i) = << >>
      BY <1>1, <2>1, SubSeqEmpty
    <3>2. << >> \o t = t /\ << >> \o r = r
      BY ConcatEmptySeq
    <3> QED
      BY <1>0, <3>1, <3>2
  <2>2. CASE i # n + 1
    <3>1. i \in 1 .. n /\ i + 1 \in i + 1 .. n + 1 /\ n \in i .. n /\ i + 1 \in 1 .. n + 1
      BY <1>1, <2>2
    <3>2. PICK c \in Symbols : c = u[i] /\ c # k[1]
      BY <3>1, ElementOfSeq DEF Skips
    <3>3. PICK w \in Seq(Symbols) : w = rest(i + 1)
      BY <1>2, <3>1
    <3>4. rest(i) = << c >> \o w
      BY <3>1, <3>2, <3>3, SubSeqRecursiveFirst
    <3>5. Replace(w \o t, k, v) = w \o r /\ Count(w \o t, k) = Count(t, k)
      BY <1>0, <1>3, <3>1, <3>3
    <3> HIDE DEF rest, n, P
    <3>6. PICK z \in Seq(Symbols) : z = w \o t
      BY ConcatProperties
    <3>7. (<< c >> \o w) \o t = << c >> \o z /\ (<< c >> \o w) \o r = << c >> \o (w \o r)
      BY <3>6, FirstFacts
    <3>8. Replace(Cons(c, z), k, v) = Cons(c, Replace(z, k, v)) /\ Count(Cons(c, z), k) = Count(z, k)
      BY <3>2, SearchPasses
    <3>9. Replace(rest(i) \o t, k, v) = rest(i) \o r /\ Count(rest(i) \o t, k) = Count(t, k)
      BY <3>4, <3>5, <3>6, <3>7, <3>8 DEF Cons
    <3> QED
      BY <1>0, <3>1, <3>9 DEF P
  <2> QED
    BY <2>1, <2>2
<1>4. \A i \in 1 .. n + 1 : i \in P
  <2>1. n + 1 \in Nat
    BY <1>1
  <2> HIDE DEF P, n
  <2> QED
    BY <1>3, <2>1, FromAllAbove
<1>5. 1 \in P /\ rest(1) = u
  <2>1. 1 \in 1 .. n + 1
    BY <1>1
  <2>2. rest(1) = u
    BY SubSeqFull
  <2> HIDE DEF P, n, rest
  <2> QED
    BY <1>4, <2>1, <2>2
<1>6. Replace(u \o t, k, v) = u \o Replace(t, k, v) /\ Count(u \o t, k) = Count(t, k)
  <2> HIDE DEF rest, n
  <2> QED
    BY <1>5
<1> QED
  BY <1>6 DEF Skipped

-----------------------------------------------------------------------------
(* What the properties assume of a mapping and a text                        *)

InScope == FreshOriginals \/ Bracketed

\* A placeholder has an opening bracket first and nowhere else, an original has none.
LEMMA ScopeFacts ==
  ASSUME InputOK, InScope, NEW k \in DOMAIN mappings
  PROVE  /\ \A i \in 1 .. Len(k) : k[i] = Open <=> i = 1
         /\ \A i \in 1 .. Len(mappings[k]) : mappings[k][i] # Open
<1>1. /\ k \in Seq(Symbols) /\ k # << >> /\ Len(k) \in Nat \ {0} /\ DOMAIN k = 1 .. Len(k)
      /\ mappings[k] \in Seq(Symbols)
  BY KeyFacts
<1>2. DOMAIN mappings[k] = 1 .. Len(mappings[k])
  BY <1>1, LenProperties
<1>3. \A i \in 1 .. Len(k) : k[i] = Open <=> i = 1
  <2>1. CASE FreshOriginals
    BY <1>1, <2>1 DEF FreshOriginals
  <2>2. CASE Bracketed
    BY <1>1, <2>2 DEF Bracketed
  <2> QED
    BY <2>1, <2>2 DEF InScope
<1>4. Range(mappings[k]) \cap {Open} = {}
  <2>1. CASE FreshOriginals
    <3>1. Range(mappings[k]) \cap UNION { Range(l) : l \in DOMAIN mappings } = {}
      BY <2>1 DEF FreshOriginals
    <3>2. Open \in Range(k)
      <4>1. 1 \in DOMAIN k /\ k[1] = Open
        BY <1>1, <1>3
      <4> QED
        BY <4>1 DEF Range
    <3> QED
      BY <3>1, <3>2
  <2>2. CASE Bracketed
    BY <2>2 DEF Bracketed
  <2> QED
    BY <2>1, <2>2 DEF InScope
<1>5. \A i \in 1 .. Len(mappings[k]) : mappings[k][i] # Open
  BY <1>2, <1>4 DEF Range
<1> QED
  BY <1>3, <1>5

\* Between two placeholders that stand in the text neither reaches into the other: what
\* the pass made of the later one is not what the earlier one goes on with.
LEMMA NoOverlap ==
  ASSUME InputOK, InScope, NEW k \in DOMAIN mappings, NEW l \in DOMAIN mappings,
         NEW i \in 1 .. Len(given), NEW q \in 1 .. Len(k) - 1, i + q \in 1 .. Len(given),
         \A j \in 1 .. q : given[i + j - 1] = k[j],
         OccursAt(l, given, i + q)
  PROVE  Len(mappings[l]) # 0 /\ mappings[l][1] # k[q + 1]
<1>1. /\ k \in Seq(Symbols) /\ Len(k) \in Nat /\ DOMAIN k = 1 .. Len(k)
      /\ l \in Seq(Symbols) /\ l # << >> /\ Len(l) \in Nat \ {0}
      /\ mappings[l] \in Seq(Symbols)
  BY KeyFacts
<1>2. q \in 1 .. Len(k) /\ q + 1 \in 1 .. Len(k) /\ 1 \in 1 .. Len(k) /\ 1 \in 1 .. q /\ Len(given) \in Nat
  BY <1>1, LenProperties DEF InputOK
<1>3. CASE FreshOriginals
  <2>1. mappings[l] # << >> /\ Range(mappings[l]) \cap UNION { Range(m) : m \in DOMAIN mappings } = {}
    BY <1>3 DEF FreshOriginals
  <2>2. Len(mappings[l]) \in Nat \ {0} /\ DOMAIN mappings[l] = 1 .. Len(mappings[l])
    BY <1>1, <2>1, EmptySeq, LenProperties
  <2>3. mappings[l][1] \in Range(mappings[l]) /\ k[q + 1] \in Range(k)
    BY <1>1, <1>2, <2>2 DEF Range
  <2> QED
    BY <2>1, <2>2, <2>3
<1>4. CASE Bracketed
  <2>1. given[i] = Open
    <3>1. given[i + 1 - 1] = k[1] /\ i + 1 - 1 = i
      BY <1>2
    <3> QED
      BY <1>2, <3>1, ScopeFacts
  <2>2. given[i + q] = Open
    <3>1. 1 \in 1 .. Len(l) /\ i + q + 1 - 1 = i + q
      BY <1>1, <1>2
    <3>2. given[i + q + 1 - 1] = l[1]
      <4> DEFINE at == i + q
      <4>1. at \in 1 .. Len(given) /\ OccursAt(l, given, at) /\ given \in Seq(Symbols)
        BY DEF InputOK
      <4> HIDE DEF at
      <4>2. given[at + 1 - 1] = l[1]
        BY <1>1, <3>1, <4>1, OccursFacts
      <4> QED
        BY <4>2 DEF at
    <3> QED
      BY <3>1, <3>2, ScopeFacts
  <2>3. PICK c \in i .. i + q : given[c] = Close
    <3>1. DOMAIN given = 1 .. Len(given) /\ i < i + q
      BY <1>2, LenProperties DEF InputOK
    <3>2. \A a, b \in DOMAIN given :
            a < b /\ given[a] = Open /\ given[b] = Open => \E c \in a .. b : given[c] = Close
      BY <1>4 DEF Bracketed
    <3>3. PICK b \in DOMAIN given : b = i + q
      BY <3>1
    <3>4. \E c \in i .. b : given[c] = Close
      BY <2>1, <2>2, <3>1, <3>2, <3>3
    <3> QED
      BY <3>3, <3>4
  <2>4. c # i + q
    BY <2>2, <2>3, SymbolAssumption
  <2>5. c - i + 1 \in 1 .. q /\ i + (c - i + 1) - 1 = c
    BY <1>2, <2>3, <2>4
  <2>6. k[c - i + 1] = Close
    BY <2>3, <2>5
  <2>7. c - i + 1 \in 1 .. Len(k) /\ c - i + 1 # Len(k)
    BY <1>1, <1>2, <2>5
  <2>8. FALSE
    BY <1>1, <1>4, <2>6, <2>7 DEF Bracketed
  <2> QED
    BY <2>8
<1> QED
  BY <1>3, <1>4 DEF InScope

-----------------------------------------------------------------------------
(* One more placeholder is put back                                          *)

\* The placeholders of D are done, and k is a longest one of the others.
Follows(k, D) ==
  /\ D \subseteq DOMAIN mappings /\ k \in DOMAIN mappings \ D
  /\ \A l \in D : Len(k) <= Len(l)
  /\ \A l \in DOMAIN mappings \ D : Len(l) <= Len(k)

\* Where no placeholder of D is taken, k is the longest that stands there, or does not.
LEMMA FollowsFacts ==
  ASSUME InputOK, NEW D, NEW k, Follows(k, D), NEW i \in 1 .. Len(given), ~Taken(D, i)
  PROVE  /\ OccursAt(k, given, i) => Taken(D \cup {k}, i) /\ LongestAt(given, i) = k
         /\ Taken(D \cup {k}, i) => OccursAt(k, given, i)
<1>1. ASSUME OccursAt(k, given, i) PROVE Taken(D \cup {k}, i) /\ LongestAt(given, i) = k
  <2> DEFINE l == LongestAt(given, i)
  <2>1. k \in DOMAIN mappings /\ k \in KeysAt(given, i)
    BY <1>1 DEF Follows, KeysAt
  <2>2. l \in KeysAt(given, i) /\ Len(k) <= Len(l)
    BY <2>1, LongestFacts
  <2>3. l \in DOMAIN mappings \ D /\ OccursAt(l, given, i)
    BY <2>1, <2>2 DEF Taken, KeysAt
  <2> HIDE DEF l
  <2>4. Len(l) <= Len(k)
    BY <2>3 DEF Follows
  <2>5. Len(l) \in Nat /\ Len(k) \in Nat
    BY <2>1, <2>3, KeyFacts
  <2>6. Len(l) = Len(k)
    BY <2>2, <2>4, <2>5
  <2>7. l = k
    BY <1>1, <2>3, <2>6 DEF OccursAt
  <2>8. KeysAt(given, i) # {} /\ LongestAt(given, i) = k
    BY <2>1, <2>7 DEF l
  <2> QED
    BY <2>8 DEF Taken
<1>2. ASSUME Taken(D \cup {k}, i) PROVE OccursAt(k, given, i)
  <2>1. KeysAt(given, i) # {} /\ LongestAt(given, i) = k
    BY <1>2 DEF Taken
  <2>2. k \in KeysAt(given, i)
    BY <2>1, LongestFacts
  <2> QED
    BY <2>2 DEF KeysAt
<1> QED
  BY <1>1, <1>2

\* from place i on, no placeholder of D is taken in q places
Untaken(D, i, q) == \A j \in i .. i + q - 1 : ~Taken(D, j)
\* f leaves them as they are
Leaves(f, i, q)  == f[i] = SubSeq(given, i, i + q - 1) \o f[i + q]

\* Where nothing is taken the pass leaves the text as it is.
LEMMA PassLeaves ==
  ASSUME InputOK, NEW D, NEW f, Passes(f, D), NEW m, Restores(m, D), NEW i \in 1 .. Len(given) + 1,
         NEW q \in Nat, i + q <= Len(given) + 1, Untaken(D, i, q)
  PROVE  Leaves(f, i, q) /\ m[i] = m[i + q]
<1> DEFINE n == Len(given)
           left(r) == SubSeq(given, i, i + r - 1)
           P == { r \in 0 .. q : f[i] = left(r) \o f[i + r] /\ m[i] = m[i + r] }
<1>1. n \in Nat /\ given \in Seq(Symbols)
  BY LenProperties DEF InputOK
<1>2. f \in [ 1 .. n + 1 -> Seq(Symbols) ] /\ m \in [ 1 .. n + 1 -> Nat ]
  BY PassSteps, RestoreSteps
<1>3. 0 \in P
  <2>1. left(0) = << >>
    BY <1>1, SubSeqEmpty
  <2>2. f[i] \in Seq(Symbols) /\ i + 0 = i
    BY <1>2
  <2>3. << >> \o f[i] = f[i]
    BY <2>2, ConcatEmptySeq
  <2> HIDE DEF left
  <2> QED
    BY <2>1, <2>2, <2>3
<1>4. ASSUME NEW r \in 1 .. q, r - 1 \in P PROVE r \in P
  <2> DEFINE j == i + (r - 1)
  <2>1. j \in 1 .. n /\ j + 1 = i + r /\ j \in i .. i + q - 1 /\ j + 1 \in 1 .. n + 1 /\ i \in 1 .. n /\ j \in i .. n
    BY <1>1
  <2>2. ~Taken(D, j)
    <3> HIDE DEF j
    <3> QED
      BY <2>1 DEF Untaken
  <2>3. f[j] = << given[j] >> \o f[j + 1] /\ m[j] = m[j + 1]
    <3> HIDE DEF j
    <3> QED
      BY <2>1, <2>2, PassSteps, RestoreSteps
  <2>4. left(r) = left(r - 1) \o << given[j] >>
    <3>1. SubSeq(given, i, j) = SubSeq(given, i, j - 1) \o << given[j] >>
      <4> HIDE DEF j
      <4> QED
        BY <1>1, <2>1, SubSeqRecursiveSecond
    <3>2. i + r - 1 = j /\ i + (r - 1) - 1 = j - 1
      BY <1>1
    <3> QED
      BY <3>1, <3>2
  <2>5. PICK c \in Seq(Symbols) : c = << given[j] >>
    <3> HIDE DEF j
    <3>1. PICK e \in Symbols : e = given[j]
      BY <1>1, <2>1, ElementOfSeq
    <3>2. << e >> \in Seq(Symbols)
      OBVIOUS
    <3> QED
      BY <3>1, <3>2
  <2>6. PICK a \in Seq(Symbols) : a = left(r - 1)
    <3>1. r - 1 \in Nat /\ i + (r - 1) <= Len(given) + 1
      BY <1>1
    <3> QED
      BY <1>1, <3>1, PieceFacts
  <2>7. PICK b \in Seq(Symbols) : b = f[j + 1]
    BY <1>2, <2>1
  <2>8. f[i] = a \o (c \o b) /\ m[i] = m[j + 1]
    <3>1. f[i] = left(r - 1) \o f[j] /\ m[i] = m[j]
      BY <1>4
    <3> HIDE DEF left, j
    <3> QED
      BY <2>3, <2>5, <2>6, <2>7, <3>1
  <2>9. (a \o c) \o b = a \o (c \o b)
    BY ONLY a \in Seq(Symbols), b \in Seq(Symbols), c \in Seq(Symbols), ConcatAssociative
  <2>10. f[i] = left(r) \o f[i + r] /\ m[i] = m[i + r]
    <3> HIDE DEF left, j
    <3> QED
      BY <2>1, <2>4, <2>5, <2>6, <2>7, <2>8, <2>9
  <2> HIDE DEF left
  <2> QED
    BY <2>10
<1>5. \A r \in 0 .. q : r \in P
  <2> HIDE DEF P
  <2> QED
    BY <1>3, <1>4, FromOneBefore
<1>6. f[i] = left(q) \o f[i + q] /\ m[i] = m[i + q]
  <2>0. q \in 0 .. q
    OBVIOUS
  <2>1. q \in P
    <3> HIDE DEF P
    <3> QED
      BY <1>5, <2>0
  <2> HIDE DEF left
  <2> QED
    BY <2>1
<1> QED
  BY <1>6 DEF Leaves

\* What the pass left of a place begins with k only if k stands there in the text.
LEMMA PassShows ==
  ASSUME InputOK, InScope, NEW D, D \subseteq DOMAIN mappings, NEW f, Passes(f, D),
         NEW k \in DOMAIN mappings, NEW i \in 1 .. Len(given), ~Taken(D, i), OccursAt(k, f[i], 1)
  PROVE  OccursAt(k, given, i)
<1> DEFINE n == Len(given)
           Same(q) == /\ i + q <= n + 1
                      /\ \A j \in i .. i + q - 1 : ~Taken(D, j)
                      /\ \A j \in 1 .. q : given[i + j - 1] = k[j]
           P == { q \in 0 .. Len(k) : Same(q) }
<1>1. n \in Nat /\ given \in Seq(Symbols)
  BY LenProperties DEF InputOK
<1>2. k \in Seq(Symbols) /\ k # << >> /\ Len(k) \in Nat \ {0} /\ DOMAIN k = 1 .. Len(k)
  BY KeyFacts
<1>3. /\ f \in [ 1 .. n + 1 -> Seq(Symbols) ] /\ f[n + 1] = << >>
      /\ \A j \in 1 .. n : f[j] = IF Taken(D, j) THEN mappings[LongestAt(given, j)] \o f[j + Len(LongestAt(given, j))]
                                  ELSE << given[j] >> \o f[j + 1]
  BY PassSteps
<1>4. Len(f[i]) \in Nat /\ Len(k) <= Len(f[i]) /\ \A q \in 1 .. Len(k) : f[i][q] = k[q]
  <2>1. f[i] \in Seq(Symbols) /\ Len(f[i]) \in Nat
    BY <1>1, <1>3, LenProperties
  <2>2. Len(f[i]) # 0
    <3>1. 1 + Len(k) - 1 <= Len(f[i])
      BY DEF OccursAt
    <3> QED
      BY <1>2, <2>1, <3>1
  <2>3. 1 \in 1 .. Len(f[i])
    BY <2>1, <2>2
  <2>4. 1 + Len(k) <= Len(f[i]) + 1 /\ \A q \in 1 .. Len(k) : f[i][1 + q - 1] = k[q]
    BY <1>2, <2>1, <2>3, OccursFacts
  <2>5. \A q \in 1 .. Len(k) : 1 + q - 1 = q
    OBVIOUS
  <2> QED
    BY <1>2, <2>1, <2>4, <2>5
<1>5. 0 \in P
  BY <1>1, <1>2
<1>6. ASSUME NEW q \in 1 .. Len(k), q - 1 \in P PROVE q \in P
  <2> DEFINE r == q - 1
             j == i + r
  <2>1. /\ r \in Nat /\ r \in 0 .. Len(k) - 1 /\ j <= n + 1 /\ \A h \in i .. j - 1 : ~Taken(D, h)
        /\ \A h \in 1 .. r : given[i + h - 1] = k[h]
    BY <1>2, <1>6
  <2>2. f[i] = SubSeq(given, i, j - 1) \o f[j]
    <3>1. PICK m : Restores(m, D)
      BY PassExists
    <3>2. i \in 1 .. n + 1
      BY <1>1
    <3>3. i + r <= Len(given) + 1 /\ Untaken(D, i, r)
      BY <1>1, <2>1 DEF Untaken
    <3>4. i + r = j /\ i + r - 1 = j - 1
      OBVIOUS
    <3> HIDE DEF r, j
    <3>5. Leaves(f, i, r)
      BY <2>1, <3>1, <3>2, <3>3, PassLeaves
    <3>6. f[i] = SubSeq(given, i, i + r - 1) \o f[i + r]
      BY <3>5 DEF Leaves
    <3> QED
      BY <3>4, <3>6
  <2>3. j \in 1 .. n + 1
    BY <1>1, <2>1
  <2>4. PICK a \in Seq(Symbols) : a = SubSeq(given, i, j - 1) /\ Len(a) = r
    <3>1. i \in 1 .. Len(given) + 1 /\ i + r <= Len(given) + 1
      BY <1>1, <2>1
    <3> HIDE DEF r
    <3>2. SubSeq(given, i, i + r - 1) \in Seq(Symbols) /\ Len(SubSeq(given, i, i + r - 1)) = r
      BY <1>1, <2>1, <3>1, PieceFacts
    <3>3. SubSeq(given, i, j - 1) \in Seq(Symbols) /\ Len(SubSeq(given, i, j - 1)) = r
      BY <3>2
    <3> HIDE DEF j
    <3> QED
      BY <3>3
  <2>5. PICK b \in Seq(Symbols) : b = f[j]
    BY <1>3, <2>3
  <2>6. Len(b) \in Nat /\ Len(b) # 0 /\ b[1] = k[r + 1]
    <3> HIDE DEF r, j
    <3>1. /\ Len(a \o b) = Len(a) + Len(b) /\ Len(b) \in Nat
          /\ Len(b) # 0 => (a \o b)[Len(a) + 1] = b[1]
      BY JointFacts
    <3>2. f[i] = a \o b
      BY <2>2, <2>4, <2>5
    <3>3. r + 1 \in 1 .. Len(k) /\ r + 1 <= Len(f[i])
      BY <1>2, <1>4, <2>1
    <3>4. Len(b) # 0
      BY <2>1, <2>4, <3>1, <3>2, <3>3
    <3>5. (a \o b)[r + 1] = b[1]
      BY <2>4, <3>1, <3>4
    <3>6. f[i][r + 1] = k[r + 1]
      BY <1>4, <3>3
    <3> QED
      BY <3>1, <3>2, <3>4, <3>5, <3>6
  <2>7. j \in 1 .. n
    <3>1. j # n + 1
      BY <1>3, <2>5, <2>6, EmptySeq
    <3> QED
      BY <1>1, <2>3, <3>1
  <2>8. ~Taken(D, j)
    <3>1. SUFFICES ASSUME Taken(D, j) PROVE FALSE
      OBVIOUS
    <3> DEFINE l == LongestAt(given, j)
    <3> HIDE DEF j
    <3>2. l \in KeysAt(given, j)
      BY <2>7, <3>1, LongestFacts DEF Taken
    <3>3. l \in DOMAIN mappings /\ OccursAt(l, given, j)
      BY <3>2 DEF KeysAt
    <3>4. j # i
      BY <3>1
    <3>5. r \in 1 .. Len(k) - 1 /\ i + r \in 1 .. Len(given) /\ i + r = j
      BY <2>1, <2>7, <3>4 DEF j
    <3> HIDE DEF r, l
    <3>6. OccursAt(l, given, i + r)
      BY <3>3, <3>5
    <3>7. Len(mappings[l]) # 0 /\ mappings[l][1] # k[r + 1]
      BY <2>1, <3>3, <3>5, <3>6, NoOverlap
    <3>8. b = mappings[l] \o f[j + Len(l)]
      BY <1>3, <2>5, <2>7, <3>1 DEF l
    <3>9. f[j + Len(l)] \in Seq(Symbols)
      <4>1. j + Len(l) <= n + 1 /\ Len(l) \in Nat
        BY <1>1, <2>7, <3>3, KeyFacts, OccursFacts
      <4>2. j + Len(l) \in 1 .. n + 1
        BY <1>1, <2>7, <4>1
      <4> QED
        BY <1>3, <4>2
    <3>10. b[1] = mappings[l][1]
      <4>1. PICK c \in Seq(Symbols) : c = mappings[l]
        BY <3>3, KeyFacts
      <4>2. PICK d \in Seq(Symbols) : d = f[j + Len(l)]
        BY <3>9
      <4>3. (c \o d)[1] = c[1]
        BY <3>7, <4>1, JointFacts
      <4> QED
        BY <3>8, <4>1, <4>2, <4>3
    <3> QED
      BY <2>6, <3>7, <3>10
  <2>9. given[j] = k[r + 1]
    <3> HIDE DEF r, j
    <3>1. b = << given[j] >> \o f[j + 1]
      BY <1>3, <2>5, <2>7, <2>8
    <3>2. given[j] \in Symbols /\ f[j + 1] \in Seq(Symbols)
      <4>1. j + 1 \in 1 .. n + 1
        BY <1>1, <2>7
      <4> QED
        BY <1>1, <1>3, <2>7, <4>1, ElementOfSeq
    <3>3. PICK c \in Symbols : c = given[j]
      BY <3>2
    <3>4. PICK d \in Seq(Symbols) : d = f[j + 1]
      BY <3>2
    <3>5. (<< c >> \o d)[1] = c
      BY FirstFacts
    <3> QED
      BY <2>6, <3>1, <3>3, <3>4, <3>5
  <2>10. Same(q)
    <3>1. i + q <= n + 1 /\ i + q - 1 = j /\ r + 1 = q
      BY <1>1, <2>7
    <3>2. ASSUME NEW h \in i .. i + q - 1 PROVE ~Taken(D, h)
      <4>1. h = j \/ h \in i .. j - 1
        BY <1>1, <3>1
      <4> HIDE DEF j
      <4> QED
        BY <2>1, <2>8, <4>1
    <3>3. ASSUME NEW h \in 1 .. q PROVE given[i + h - 1] = k[h]
      <4>1. h = q \/ h \in 1 .. r
        OBVIOUS
      <4>2. CASE h = q
        BY <2>9, <3>1, <4>2
      <4>3. CASE h \in 1 .. r
        BY <2>1, <4>3
      <4> QED
        BY <4>1, <4>2, <4>3
    <3> QED
      BY <3>1, <3>2, <3>3
  <2> HIDE DEF Same
  <2> QED
    BY <2>10
<1>7. \A q \in 0 .. Len(k) : q \in P
  <2> HIDE DEF P
  <2> QED
    BY <1>2, <1>5, <1>6, FromOneBefore
<1>8. Same(Len(k))
  <2> HIDE DEF Same
  <2> QED
    BY <1>2, <1>7
<1> QED
  BY <1>1, <1>2, <1>8, OccursFacts

\* A placeholder that is taken stands behind an opening bracket, and no other is inside it.
LEMMA TakenFacts ==
  ASSUME InputOK, InScope, NEW D, NEW i \in 1 .. Len(given), Taken(D, i)
  PROVE  LET l == LongestAt(given, i) IN
         /\ l \in DOMAIN mappings /\ l \in D /\ OccursAt(l, given, i) /\ i + Len(l) \in i + 1 .. Len(given) + 1
         /\ given[i] = Open
<1> DEFINE l == LongestAt(given, i)
<1>1. l \in KeysAt(given, i) /\ l \in D
  BY LongestFacts DEF Taken
<1>2. l \in DOMAIN mappings /\ OccursAt(l, given, i)
  BY <1>1 DEF KeysAt
<1> HIDE DEF l
<1>3. l \in Seq(Symbols) /\ l # << >> /\ Len(l) \in Nat \ {0} /\ given \in Seq(Symbols) /\ Len(given) \in Nat
  BY <1>2, KeyFacts, LenProperties DEF InputOK
<1>4. i + Len(l) <= Len(given) + 1 /\ \A q \in 1 .. Len(l) : given[i + q - 1] = l[q]
  BY <1>2, <1>3, OccursFacts
<1>5. 1 \in 1 .. Len(l) /\ i + 1 - 1 = i
  BY <1>3
<1>6. given[i] = Open
  BY <1>2, <1>4, <1>5, ScopeFacts
<1>7. i + Len(l) \in i + 1 .. Len(given) + 1
  BY <1>3, <1>4
<1>8. l \in DOMAIN mappings /\ l \in D /\ OccursAt(l, given, i) /\ i + Len(l) \in i + 1 .. Len(given) + 1
      /\ given[i] = Open
  BY <1>1, <1>2, <1>6, <1>7
<1> QED
  BY <1>8 DEF l

\* Where k stands, nothing is taken before its end.
LEMMA UntakenInside ==
  ASSUME InputOK, InScope, NEW D, NEW k \in DOMAIN mappings, NEW i \in 1 .. Len(given),
         ~Taken(D, i), OccursAt(k, given, i)
  PROVE  Untaken(D, i, Len(k)) /\ i + Len(k) \in i + 1 .. Len(given) + 1
<1>1. k \in Seq(Symbols) /\ k # << >> /\ Len(k) \in Nat \ {0} /\ given \in Seq(Symbols) /\ Len(given) \in Nat
  BY KeyFacts, LenProperties DEF InputOK
<1>2. i + Len(k) <= Len(given) + 1 /\ \A q \in 1 .. Len(k) : given[i + q - 1] = k[q]
  BY <1>1, OccursFacts
<1>3. ASSUME NEW h \in i .. i + Len(k) - 1, Taken(D, h) PROVE FALSE
  <2>1. h \in 1 .. Len(given) /\ h # i
    BY <1>1, <1>2, <1>3
  <2>2. h - i + 1 \in 1 .. Len(k) /\ h - i + 1 # 1 /\ i + (h - i + 1) - 1 = h
    BY <1>1, <2>1
  <2>3. given[h] = k[h - i + 1]
    BY <1>2, <2>2
  <2>4. given[h] = Open
    BY <1>3, <2>1, TakenFacts
  <2>5. k[h - i + 1] # Open
    <3> DEFINE q == h - i + 1
    <3>1. q \in 1 .. Len(k) /\ q # 1
      BY <2>2
    <3> HIDE DEF q
    <3>2. k[q] # Open
      BY <3>1, ScopeFacts
    <3> QED
      BY <3>2 DEF q
  <2> QED
    BY <2>3, <2>4, <2>5
<1>4. i + Len(k) \in i + 1 .. Len(given) + 1
  BY <1>1, <1>2
<1> QED
  BY <1>3, <1>4 DEF Untaken

\* Putting k back in what the pass for D gave is the pass for D and k.
LEMMA StepPass ==
  ASSUME InputOK, InScope, NEW D, NEW k, Follows(k, D),
         NEW f, Passes(f, D), NEW g, Passes(g, D \cup {k}),
         NEW m, Restores(m, D), NEW o, Restores(o, D \cup {k})
  PROVE  \A i \in 1 .. Len(given) + 1 :
           Replace(f[i], k, mappings[k]) = g[i] /\ m[i] + Count(f[i], k) = o[i]
<1> DEFINE n == Len(given)
           E == D \cup {k}
           Goal(i) == Replace(f[i], k, mappings[k]) = g[i] /\ m[i] + Count(f[i], k) = o[i]
           P == { i \in 1 .. n + 1 : Goal(i) }
<1>1. n \in Nat /\ given \in Seq(Symbols)
  BY LenProperties DEF InputOK
<1>2. k \in DOMAIN mappings /\ D \subseteq DOMAIN mappings
  BY DEF Follows
<1>3. k \in Seq(Symbols) /\ k # << >> /\ Len(k) \in Nat \ {0}
  BY <1>2, KeyFacts
<1>4. PICK v \in Seq(Symbols) : v = mappings[k]
  BY <1>2, KeyFacts
<1>5. /\ f \in [ 1 .. n + 1 -> Seq(Symbols) ] /\ f[n + 1] = << >>
      /\ \A i \in 1 .. n : f[i] = IF Taken(D, i) THEN mappings[LongestAt(given, i)] \o f[i + Len(LongestAt(given, i))]
                                  ELSE << given[i] >> \o f[i + 1]
  BY PassSteps
<1>6. /\ g \in [ 1 .. n + 1 -> Seq(Symbols) ] /\ g[n + 1] = << >>
      /\ \A i \in 1 .. n : g[i] = IF Taken(E, i) THEN mappings[LongestAt(given, i)] \o g[i + Len(LongestAt(given, i))]
                                  ELSE << given[i] >> \o g[i + 1]
  BY PassSteps
<1>7. /\ m \in [ 1 .. n + 1 -> Nat ] /\ m[n + 1] = 0
      /\ \A i \in 1 .. n : m[i] = IF Taken(D, i) THEN 1 + m[i + Len(LongestAt(given, i))] ELSE m[i + 1]
  BY RestoreSteps
<1>8. /\ o \in [ 1 .. n + 1 -> Nat ] /\ o[n + 1] = 0
      /\ \A i \in 1 .. n : o[i] = IF Taken(E, i) THEN 1 + o[i + Len(LongestAt(given, i))] ELSE o[i + 1]
  BY RestoreSteps
<1> HIDE DEF E
<1>9. ASSUME NEW i \in 1 .. n + 1, \A j \in i + 1 .. n + 1 : j \in P PROVE i \in P
  <2>1. CASE i = n + 1
    <3>1. Replace(<< >>, k, v) = << >> /\ Count(<< >>, k) = 0
      BY <1>3, <1>4, EmptySeq, SearchSteps
    <3>2. Goal(n + 1)
      <4> HIDE DEF n
      <4> QED
        BY <1>4, <1>5, <1>6, <1>7, <1>8, <3>1
    <3> HIDE DEF Goal
    <3> QED
      BY <2>1, <3>2
  <2>2. CASE i # n + 1 /\ Taken(D, i)
    <3> DEFINE l == LongestAt(given, i)
    <3>1. i \in 1 .. n
      BY <1>1, <2>2
    <3>2. PICK j : j = i + Len(l)
      OBVIOUS
    <3>3. l \in DOMAIN mappings /\ l \in D /\ j \in i + 1 .. n + 1
      BY <2>2, <3>1, <3>2, TakenFacts
    <3>4. Taken(E, i)
      BY <2>2 DEF Taken, E
    <3>5. j \in 1 .. n + 1 /\ j \in P
      BY <1>1, <1>9, <3>3
    <3>6. PICK u \in Seq(Symbols) : u = mappings[l]
      BY <3>3, KeyFacts
    <3> HIDE DEF l
    <3>7. Skips(k, u)
      <4>1. 1 \in 1 .. Len(k)
        BY <1>3
      <4>2. k[1] = Open
        BY <1>2, <4>1, ScopeFacts
      <4>3. \A h \in 1 .. Len(u) : u[h] # Open
        BY <3>3, <3>6, ScopeFacts
      <4> QED
        BY <4>2, <4>3 DEF Skips
    <3>8. PICK t \in Seq(Symbols) : t = f[j]
      BY <1>5, <3>5
    <3>9. Replace(u \o t, k, v) = u \o Replace(t, k, v) /\ Count(u \o t, k) = Count(t, k)
      <4>1. Skipped(k, v, u, t)
        BY <1>3, <3>7, SearchSkips
      <4> QED
        BY <4>1 DEF Skipped
    <3>10. f[i] = u \o t /\ g[i] = u \o g[j] /\ m[i] = 1 + m[j] /\ o[i] = 1 + o[j]
      <4>1. f[i] = u \o t
        BY <1>5, <2>2, <3>1, <3>2, <3>6, <3>8 DEF l
      <4>2. g[i] = u \o g[j]
        BY <1>6, <3>1, <3>2, <3>4, <3>6 DEF l
      <4>3. m[i] = 1 + m[j]
        BY <1>7, <2>2, <3>1, <3>2 DEF l
      <4>4. o[i] = 1 + o[j]
        BY <1>8, <3>1, <3>2, <3>4 DEF l
      <4> QED
        BY <4>1, <4>2, <4>3, <4>4
    <3>11. Replace(t, k, v) = g[j] /\ m[j] + Count(t, k) = o[j]
      BY <1>4, <3>5, <3>8
    <3>12. Count(t, k) \in Nat /\ m[j] \in Nat /\ o[j] \in Nat
      BY <1>3, <1>4, <1>7, <1>8, <3>5, SearchSteps
    <3>13. Replace(f[i], k, mappings[k]) = g[i]
      BY <1>4, <3>9, <3>10, <3>11
    <3>14. m[i] + Count(f[i], k) = o[i]
      <4>1. Count(f[i], k) = Count(t, k)
        BY <3>9, <3>10
      <4> QED
        BY <3>10, <3>11, <3>12, <4>1
    <3> QED
      BY <3>13, <3>14
  <2>3. CASE i # n + 1 /\ ~Taken(D, i) /\ OccursAt(k, given, i)
    <3>1. i \in 1 .. n
      BY <1>1, <2>3
    <3>2. PICK j : j = i + Len(k)
      OBVIOUS
    <3>3. Untaken(D, i, Len(k)) /\ j \in i + 1 .. n + 1
      BY <1>2, <2>3, <3>1, <3>2, UntakenInside
    <3>4. Taken(E, i) /\ LongestAt(given, i) = k
      BY <2>3, <3>1, FollowsFacts DEF E
    <3>5. j \in 1 .. n + 1 /\ j \in P
      BY <1>1, <1>9, <3>3
    <3>6. PICK t \in Seq(Symbols) : t = f[j]
      BY <1>5, <3>5
    <3>7. f[i] = k \o t /\ m[i] = m[j]
      <4>1. i \in 1 .. Len(given) + 1 /\ Len(k) \in Nat /\ i + Len(k) <= Len(given) + 1
        BY <1>1, <1>3, <3>2, <3>5
      <4>2. Leaves(f, i, Len(k)) /\ m[i] = m[i + Len(k)]
        BY <3>3, <4>1, PassLeaves
      <4>3. f[i] = SubSeq(given, i, i + Len(k) - 1) \o f[i + Len(k)]
        BY <4>2 DEF Leaves
      <4>4. SubSeq(given, i, i + Len(k) - 1) = k
        BY <2>3 DEF OccursAt
      <4> QED
        BY <3>2, <3>6, <4>2, <4>3, <4>4
    <3>8. Replace(k \o t, k, v) = v \o Replace(t, k, v) /\ Count(k \o t, k) = 1 + Count(t, k)
      BY <1>3, <1>4, SearchSteps
    <3>9. g[i] = v \o g[j] /\ o[i] = 1 + o[j]
      BY <1>4, <1>6, <1>8, <3>1, <3>2, <3>4
    <3>10. Replace(t, k, v) = g[j] /\ m[j] + Count(t, k) = o[j]
      BY <1>4, <3>5, <3>6
    <3>11. Count(t, k) \in Nat /\ m[j] \in Nat /\ o[j] \in Nat
      BY <1>3, <1>4, <1>7, <1>8, <3>5, SearchSteps
    <3>12. Replace(f[i], k, mappings[k]) = g[i]
      BY <1>4, <3>7, <3>8, <3>9, <3>10
    <3>13. m[i] + Count(f[i], k) = o[i]
      <4>1. PICK c \in Nat : c = Count(t, k)
        BY <3>11
      <4>2. Count(f[i], k) = 1 + c
        BY <3>7, <3>8, <4>1
      <4>3. PICK x \in Nat : x = m[j]
        BY <3>11
      <4>4. PICK y \in Nat : y = o[j]
        BY <3>11
      <4>5. x + c = y
        BY <3>10, <4>1, <4>3, <4>4
      <4>6. x + (1 + c) = 1 + y
        BY <4>5
      <4> QED
        BY <3>7, <3>9, <4>2, <4>3, <4>4, <4>6
    <3> QED
      BY <3>12, <3>13
  <2>4. CASE i # n + 1 /\ ~Taken(D, i) /\ ~OccursAt(k, given, i)
    <3>1. i \in 1 .. n /\ i + 1 \in i + 1 .. n + 1 /\ i + 1 \in 1 .. n + 1
      BY <1>1, <2>4
    <3>2. i + 1 \in P
      BY <1>9, <3>1
    <3>3. ~Taken(E, i)
      BY <2>4, <3>1, FollowsFacts DEF E
    <3>4. PICK c \in Symbols : c = given[i]
      BY <1>1, <3>1, ElementOfSeq
    <3>5. PICK t \in Seq(Symbols) : t = f[i + 1]
      BY <1>5, <3>1
    <3>6. f[i] = Cons(c, t) /\ g[i] = Cons(c, g[i + 1]) /\ m[i] = m[i + 1] /\ o[i] = o[i + 1]
      BY <1>5, <1>6, <1>7, <1>8, <2>4, <3>1, <3>3, <3>4, <3>5 DEF Cons
    <3>7. ~OccursAt(k, Cons(c, t), 1)
      <4>1. ~OccursAt(k, f[i], 1)
        BY <1>2, <2>4, <3>1, PassShows
      <4> QED
        BY <3>6, <4>1
    <3>8. Replace(Cons(c, t), k, v) = Cons(c, Replace(t, k, v)) /\ Count(Cons(c, t), k) = Count(t, k)
      BY <1>3, <3>7, SearchMisses
    <3>9. Replace(t, k, v) = g[i + 1] /\ m[i + 1] + Count(t, k) = o[i + 1]
      BY <1>4, <3>2, <3>5
    <3>10. Replace(f[i], k, mappings[k]) = g[i] /\ m[i] + Count(f[i], k) = o[i]
      BY <1>4, <3>6, <3>8, <3>9
    <3> QED
      BY <3>10
  <2> QED
    BY <2>1, <2>2, <2>3, <2>4
<1>10. \A i \in 1 .. n + 1 : i \in P
  <2>1. n + 1 \in Nat
    BY <1>1
  <2> HIDE DEF P, n
  <2> QED
    BY <1>9, <2>1, FromAllAbove
<1> QED
  BY <1>10

-----------------------------------------------------------------------------
(* The inductive invariant                                                   *)

\* the placeholders still to be put back, and those that are done
Left == { todo[i] : i \in 1 .. Len(todo) }
Done == IF pc = "called" THEN {} ELSE DOMAIN mappings \ Left

TypesOK ==
  /\ InputOK /\ IsFiniteSet(DOMAIN mappings)
  /\ text \in Seq(Symbols) /\ replacements \in Nat
  /\ pc \in { "called", "replacing", "returned" }

\* What is left comes in order, none of it twice, and none of it is longer than what is done.
OrderOK ==
  pc # "called" =>
    /\ todo \in Seq(DOMAIN mappings)
    /\ \A i, j \in 1 .. Len(todo) : i < j => todo[i] # todo[j] /\ Len(todo[j]) <= Len(todo[i])
    /\ \A k \in Done : \A l \in Left : Len(l) <= Len(k)
    /\ pc = "returned" => Len(todo) = 0

\* The text is what the pass that restores the placeholders done so far makes of the
\* text of the request, and the counter has how many it restores.
PassOK ==
  InScope => /\ \E f : Passes(f, Done) /\ text = f[1]
             /\ \E m : Restores(m, Done) /\ replacements = m[1]

DeanonymizerInv == TypesOK /\ OrderOK /\ PassOK

\* All of this is about the request, which no step changes.
LEMMA SameRequest ==
  ASSUME given' = given, mappings' = mappings
  PROVE  /\ InputOK' <=> InputOK
         /\ InScope' <=> InScope
         /\ \A f, D : Passes(f, D)' <=> Passes(f, D)
         /\ \A f, D : Restores(f, D)' <=> Restores(f, D)
<1>1. InputOK' <=> InputOK
  BY DEF InputOK
<1>2. InScope' <=> InScope
  BY DEF InScope, FreshOriginals, Bracketed
<1>3. ASSUME NEW f, NEW D PROVE Passes(f, D)' <=> Passes(f, D)
  BY DEF Passes, Reads, PassPlace, PassBack, Taken, KeysAt, LongestAt
<1>4. ASSUME NEW f, NEW D PROVE Restores(f, D)' <=> Restores(f, D)
  BY DEF Restores, Reads, PassPlace, PassTally, Taken, KeysAt, LongestAt
<1> QED
  BY <1>1, <1>2, <1>3, <1>4

\* Nothing is done yet.
LEMMA InitInv == Init => DeanonymizerInv
<1> SUFFICES ASSUME Init PROVE DeanonymizerInv
  OBVIOUS
<1>1. given \in Seq(Symbols)
  <2>1. PICK n \in 0 .. MaxText : given \in [ 1 .. n -> Symbols ]
    BY DEF Init, BoundedSeq, SeqOf
  <2>2. n \in Nat
    BY BoundAssumption
  <2> QED
    BY <2>1, <2>2, SeqDef
<1>2. PICK K \in SUBSET Keys : IsFiniteSet(K) /\ mappings \in [ K -> Values ]
  BY DEF Init
<1>3. InputOK /\ IsFiniteSet(DOMAIN mappings)
  <2>1. DOMAIN mappings = K
    BY <1>2
  <2> QED
    BY <1>1, <1>2, <2>1 DEF InputOK
<1>4. TypesOK
  BY <1>1, <1>3 DEF Init, TypesOK
<1>5. OrderOK
  BY DEF Init, OrderOK
<1>6. PassOK
  <2>1. Done = {} /\ text = given /\ replacements = 0
    BY DEF Init, Done
  <2>2. /\ \E f : Passes(f, {}) /\ given = f[1]
        /\ \E f : Restores(f, {}) /\ 0 = f[1]
    BY <1>3, EmptyPass
  <2> QED
    BY <2>1, <2>2 DEF PassOK
<1> QED
  BY <1>4, <1>5, <1>6 DEF DeanonymizerInv

\* A list of all the elements of a set, none of them twice, has them all.
LEMMA AllListed ==
  ASSUME NEW S, IsFiniteSet(S), NEW l \in SetToSeqs(S)
  PROVE  /\ l \in Seq(S) /\ { l[i] : i \in 1 .. Len(l) } = S
         /\ \A i, j \in 1 .. Len(l) : i # j => l[i] # l[j]
<1> DEFINE n == Cardinality(S)
           I == 1 .. n
<1>1. n \in Nat
  BY FS_CardinalityType
<1>2. l \in [ I -> S ] /\ \A i, j \in I : i # j => l[i] # l[j]
  BY DEF SetToSeqs
<1>3. l \in Seq(S) /\ Len(l) = n
  BY <1>1, <1>2, SeqDef, LenProperties
<1>4. Cardinality(I) = n
  BY <1>1, FS_Interval
<1>5. l \in Injection(I, S)
  <2> HIDE DEF I
  <2> QED
    BY <1>2 DEF Injection, IsInjective
<1>6. l \in Surjection(I, S)
  <2> HIDE DEF I
  <2> QED
    BY <1>4, <1>5, FS_Injection
<1>7. \A s \in S : \E i \in I : l[i] = s
  <2> HIDE DEF I
  <2> QED
    BY <1>6 DEF Surjection
<1> QED
  BY <1>2, <1>3, <1>7

\* sorted(): all placeholders are left, the longest first.
LEMMA SortInv ==
  ASSUME DeanonymizerInv, Sort
  PROVE  DeanonymizerInv'
<1>1. /\ pc = "called" /\ pc' = "replacing" /\ todo' \in LongestFirst(mappings)
      /\ given' = given /\ mappings' = mappings /\ text' = text /\ replacements' = replacements
  BY DEF Sort
<1>2. TypesOK
  BY DEF DeanonymizerInv
<1>3. todo' \in SetToSeqs(DOMAIN mappings) /\ \A i, j \in DOMAIN todo' : i < j => Len(todo'[i]) >= Len(todo'[j])
  BY <1>1 DEF LongestFirst
<1>4. /\ todo' \in Seq(DOMAIN mappings) /\ { todo'[i] : i \in 1 .. Len(todo') } = DOMAIN mappings
      /\ \A i, j \in 1 .. Len(todo') : i # j => todo'[i] # todo'[j]
  BY <1>2, <1>3, AllListed DEF TypesOK
<1>5. DOMAIN todo' = 1 .. Len(todo') /\ Len(todo') \in Nat
  BY <1>4, LenProperties
<1>6. TypesOK'
  BY <1>1, <1>2, SameRequest DEF TypesOK
<1>7. Left' = DOMAIN mappings
  BY <1>4 DEF Left
<1>8. Done' = {} /\ Done = {}
  BY <1>1, <1>7 DEF Done
<1>9. OrderOK'
  <2>1. ASSUME NEW i \in 1 .. Len(todo'), NEW j \in 1 .. Len(todo'), i < j
        PROVE  todo'[i] # todo'[j] /\ Len(todo'[j]) <= Len(todo'[i])
    <3>1. Len(todo'[i]) >= Len(todo'[j]) /\ i # j
      BY <1>3, <1>5, <2>1
    <3>2. Len(todo'[i]) \in Nat /\ Len(todo'[j]) \in Nat
      BY <1>2, <1>4, <2>1, ElementOfSeq, KeyFacts DEF TypesOK
    <3> QED
      BY <1>4, <3>1, <3>2
  <2> QED
    BY <1>1, <1>4, <1>8, <2>1 DEF OrderOK
<1>10. PassOK'
  <2>1. PassOK
    BY DEF DeanonymizerInv
  <2> QED
    BY <1>1, <1>8, <2>1, SameRequest DEF PassOK
<1> QED
  BY <1>6, <1>9, <1>10 DEF DeanonymizerInv

\* The body of the loop does one more placeholder, a longest of those left.
LEMMA ReplaceNextInv ==
  ASSUME DeanonymizerInv, ReplaceNext
  PROVE  DeanonymizerInv'
<1> DEFINE k == Head(todo)
<1>1. /\ pc = "replacing" /\ pc' = "replacing" /\ todo # << >> /\ todo' = Tail(todo)
      /\ given' = given /\ mappings' = mappings
      /\ text' = Replace(text, k, mappings[k]) /\ replacements' = replacements + Count(text, k)
  BY DEF ReplaceNext
<1>2. TypesOK /\ OrderOK /\ PassOK /\ InputOK
  BY DEF DeanonymizerInv, TypesOK
<1>3. todo \in Seq(DOMAIN mappings) /\ todo # << >>
  BY <1>1, <1>2 DEF OrderOK
<1>4. /\ todo' \in Seq(DOMAIN mappings) /\ Len(todo) \in Nat \ {0} /\ Len(todo') = Len(todo) - 1
      /\ \A i \in 1 .. Len(todo') : todo'[i] = todo[i + 1]
      /\ k = todo[1] /\ k \in DOMAIN mappings
  BY <1>1, <1>3, HeadTailProperties, EmptySeq, LenProperties
<1>5. k \in Seq(Symbols) /\ k # << >> /\ mappings[k] \in Seq(Symbols) /\ text \in Seq(Symbols)
  BY <1>2, <1>4, KeyFacts DEF TypesOK
<1>6. Left = Left' \cup {k} /\ k \notin Left'
  <2>1. \A l : l \in Left <=> \E i \in 1 .. Len(todo) : l = todo[i]
    BY DEF Left
  <2>2. \A l : l \in Left' <=> \E i \in 1 .. Len(todo) - 1 : l = todo[i + 1]
    BY <1>4 DEF Left
  <2>3. \A i \in 1 .. Len(todo) : i = 1 \/ (i - 1 \in 1 .. Len(todo) - 1 /\ (i - 1) + 1 = i)
    BY <1>4
  <2>4. \A i \in 1 .. Len(todo) - 1 : i + 1 \in 1 .. Len(todo) /\ 1 < i + 1
    BY <1>4
  <2>5. 1 \in 1 .. Len(todo)
    BY <1>4
  <2>6. Left = Left' \cup {k}
    <3>1. ASSUME NEW l, l \in Left PROVE l \in Left' \cup {k}
      <4>1. PICK i \in 1 .. Len(todo) : l = todo[i]
        BY <2>1, <3>1
      <4> QED
        BY <1>4, <2>2, <2>3, <4>1
    <3>2. ASSUME NEW l, l \in Left' \cup {k} PROVE l \in Left
      BY <1>4, <2>1, <2>2, <2>4, <2>5, <3>2
    <3> QED
      BY <3>1, <3>2
  <2>7. k \notin Left'
    BY <1>1, <1>2, <1>4, <2>2, <2>4, <2>5 DEF OrderOK
  <2> QED
    BY <2>6, <2>7
<1>7. PICK D : D = Done
  OBVIOUS
<1>8. Done' = D \cup {k} /\ D = DOMAIN mappings \ Left
  BY <1>1, <1>4, <1>6, <1>7 DEF Done
<1>9. \A l \in Left : l \in DOMAIN mappings /\ Len(l) <= Len(k)
  <2> TAKE l \in Left
  <2>1. PICK i \in 1 .. Len(todo) : l = todo[i]
    BY DEF Left
  <2>2. l \in DOMAIN mappings
    BY <1>3, <2>1, ElementOfSeq
  <2>3. Len(l) \in Nat
    BY <1>2, <2>2, KeyFacts
  <2>4. 1 \in 1 .. Len(todo) /\ (i = 1 \/ 1 < i)
    BY <1>4
  <2>5. Len(l) <= Len(k)
    BY <1>1, <1>2, <1>4, <2>1, <2>3, <2>4 DEF OrderOK
  <2> QED
    BY <2>2, <2>5
<1>10. Follows(k, D)
  <2>1. \A l \in D : Len(k) <= Len(l)
    BY <1>1, <1>2, <1>6, <1>7 DEF OrderOK
  <2> QED
    BY <1>4, <1>6, <1>8, <1>9, <2>1 DEF Follows
<1>11. TypesOK'
  <2>1. text' \in Seq(Symbols) /\ Count(text, k) \in Nat
    BY <1>1, <1>5, SearchSteps
  <2> QED
    BY <1>1, <1>2, <2>1, SameRequest DEF TypesOK
<1>12. OrderOK'
  <2>1. ASSUME NEW i \in 1 .. Len(todo'), NEW j \in 1 .. Len(todo'), i < j
        PROVE  todo'[i] # todo'[j] /\ Len(todo'[j]) <= Len(todo'[i])
    <3>1. i + 1 \in 1 .. Len(todo) /\ j + 1 \in 1 .. Len(todo) /\ i + 1 < j + 1
      BY <1>4, <2>1
    <3> QED
      BY <1>1, <1>2, <1>4, <3>1 DEF OrderOK
  <2>2. ASSUME NEW c \in Done', NEW l \in Left' PROVE Len(l) <= Len(c)
    <3>1. l \in Left
      BY <1>6
    <3>2. CASE c = k
      BY <1>9, <3>1, <3>2
    <3>3. CASE c # k
      <4>1. c \in Done
        BY <1>7, <1>8, <3>3
      <4> QED
        BY <1>1, <1>2, <3>1, <4>1 DEF OrderOK
    <3> QED
      BY <3>2, <3>3
  <2> QED
    BY <1>1, <1>4, <2>1, <2>2 DEF OrderOK
<1>13. PassOK'
  <2> SUFFICES ASSUME InScope'
               PROVE  /\ (\E f : Passes(f, Done) /\ text = f[1])'
                      /\ (\E m : Restores(m, Done) /\ replacements = m[1])'
    BY DEF PassOK
  <2>1. InScope
    BY <1>1, SameRequest
  <2>2. PICK f : Passes(f, D) /\ text = f[1]
    BY <1>2, <1>7, <2>1 DEF PassOK
  <2>3. PICK m : Restores(m, D) /\ replacements = m[1]
    BY <1>2, <1>7, <2>1 DEF PassOK
  <2>4. PICK g : Passes(g, D \cup {k})
    BY <1>2, PassExists
  <2>5. PICK o : Restores(o, D \cup {k})
    BY <1>2, PassExists
  <2>6. 1 \in 1 .. Len(given) + 1
    BY <1>2, LenProperties DEF InputOK
  <2> HIDE DEF k
  <2>7. \A i \in 1 .. Len(given) + 1 : Replace(f[i], k, mappings[k]) = g[i] /\ m[i] + Count(f[i], k) = o[i]
    BY <1>2, <1>10, <2>1, <2>2, <2>3, <2>4, <2>5, StepPass
  <2>8. text' = g[1] /\ replacements' = o[1]
    <3>1. Replace(f[1], k, mappings[k]) = g[1] /\ m[1] + Count(f[1], k) = o[1]
      BY <2>6, <2>7
    <3> QED
      BY <1>1, <2>2, <2>3, <3>1 DEF k
  <2>9. PICK E : E = D \cup {k}
    OBVIOUS
  <2>10. Passes(g, E)' /\ Restores(o, E)'
    BY <1>1, <2>4, <2>5, <2>9, SameRequest
  <2>11. Done' = E
    BY <1>8, <2>9 DEF k
  <2> QED
    BY <2>8, <2>10, <2>11
<1> QED
  BY <1>11, <1>12, <1>13 DEF DeanonymizerInv

\* The end of the loop.
LEMMA ReturnInv ==
  ASSUME DeanonymizerInv, Return
  PROVE  DeanonymizerInv'
<1>1. /\ pc = "replacing" /\ pc' = "returned" /\ todo = << >> /\ todo' = todo
      /\ given' = given /\ mappings' = mappings /\ text' = text /\ replacements' = replacements
  BY DEF Return
<1>2. Left' = Left /\ Done' = Done
  BY <1>1 DEF Left, Done
<1>3. TypesOK'
  BY <1>1, SameRequest DEF DeanonymizerInv, TypesOK
<1>4. OrderOK'
  BY <1>1, <1>2, EmptySeq DEF DeanonymizerInv, OrderOK
<1>5. PassOK'
  BY <1>1, <1>2, SameRequest DEF DeanonymizerInv, PassOK
<1> QED
  BY <1>3, <1>4, <1>5 DEF DeanonymizerInv

\* No step.
LEMMA StutterInv ==
  ASSUME DeanonymizerInv, UNCHANGED vars
  PROVE  DeanonymizerInv'
<1>1. /\ pc' = pc /\ todo' = todo /\ given' = given /\ mappings' = mappings
      /\ text' = text /\ replacements' = replacements
  BY DEF vars
<1>2. Left' = Left /\ Done' = Done
  BY <1>1 DEF Left, Done
<1>3. TypesOK'
  BY <1>1, SameRequest DEF DeanonymizerInv, TypesOK
<1>4. OrderOK'
  BY <1>1, <1>2 DEF DeanonymizerInv, OrderOK
<1>5. PassOK'
  BY <1>1, <1>2, SameRequest DEF DeanonymizerInv, PassOK
<1> QED
  BY <1>3, <1>4, <1>5 DEF DeanonymizerInv

\* The invariant holds in every state.
LEMMA AlwaysInv == Spec => []DeanonymizerInv
<1>1. DeanonymizerInv /\ [Next]_vars => DeanonymizerInv'
  BY SortInv, ReplaceNextInv, ReturnInv, StutterInv DEF Next, Returned
<1> QED
  BY <1>1, InitInv, PTL DEF Spec

-----------------------------------------------------------------------------
(* The theorems                                                              *)

\* When all are done, the pass is the reference.
LEMMA AllDone ==
  ASSUME DeanonymizerInv, pc = "returned", InScope
  PROVE  text = Restored(given) /\ replacements = Placeholders(given)
<1>1. Left = {} /\ Done = DOMAIN mappings
  <2>1. Len(todo) = 0
    BY DEF DeanonymizerInv, OrderOK
  <2>2. 1 .. 0 = {}
    OBVIOUS
  <2> QED
    BY <2>1, <2>2 DEF Left, Done
<1>2. PICK f : Passes(f, DOMAIN mappings) /\ text = f[1]
  BY <1>1 DEF DeanonymizerInv, PassOK
<1>3. PICK m : Restores(m, DOMAIN mappings) /\ replacements = m[1]
  BY <1>1 DEF DeanonymizerInv, PassOK
<1>4. InputOK
  BY DEF DeanonymizerInv, TypesOK
<1> QED
  BY <1>2, <1>3, <1>4, ReferencePass, ReferenceCount

\* apply_mappings, which puts one placeholder after the other back in the text that the
\* ones before it left, gives what one pass over the text of the request gives: no
\* original is searched, and no placeholder is cut by a shorter one.
THEOREM RestoredOnce == Spec => []RestoredInOnePass
<1>1. DeanonymizerInv => RestoredInOnePass
  BY AllDone DEF RestoredInOnePass, InScope
<1> QED
  BY <1>1, AlwaysInv, PTL

\* replacements_made, summed up over texts that change in between, is the number of
\* placeholders that stood in the text of the request.
THEOREM CountIsRight == Spec => []ReplacementsCounted
<1>1. DeanonymizerInv => ReplacementsCounted
  BY AllDone DEF ReplacementsCounted, InScope
<1> QED
  BY <1>1, AlwaysInv, PTL
=============================================================================
