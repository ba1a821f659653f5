-------------------------- MODULE AnonymizerProofs --------------------------
(***************************************************************************)
(* Proofs about Anonymizer, for any text, result list, types and scores.   *)
(*                                                                         *)
(* Each of the three loops has an invariant of its own that ties what it   *)
(* has built to what it has yet to visit:                                  *)
(*   ResolveInv  the decided entities rank before the undecided ones       *)
(*   NumberInv   the tables are those of the numbered entities, which      *)
(*               stand to the left of the others                           *)
(*   SpliceInv   the output is still the text up to the end of every span  *)
(*               that is yet to be replaced                                *)
(*   RankedOut   each dropped entity loses to a kept one, ties included    *)
(*   OutputInv   the output is the contract's, for the replaced entities   *)
(* The last sections show that the loops implement AnonymizerContract and  *)
(* that the contract leaves them no choice.                                *)
(***************************************************************************)
EXTENDS Anonymizer, ListLemmas

\* The analyzer's results are entities of the text.
LEMMA EntityFacts ==
  ASSUME TablesOK, NEW i \in DOMAIN results
  PROVE  /\ i \in Nat
         /\ Type(i) \in Types /\ results[i].score \in Int
         /\ Start(i) \in Nat /\ End(i) \in Nat /\ Span(i) \in Nat
         /\ Start(i) < End(i) /\ End(i) <= Len(text)
         /\ text \in Seq(Symbols) /\ Len(text) \in Nat
         /\ Original(i) \in Seq(Symbols)
<1>1. text \in Seq(Symbols) /\ Len(text) \in Nat
  BY TextAssumption, LenProperties DEF TablesOK
<1>2. PICK n \in 0 .. MaxResults : results \in [ 1 .. n -> Entity(text) ]
  BY DEF TablesOK
<1>3. results[i] \in Entity(text) /\ i \in Nat
  BY <1>2, ResultAssumption
<1>4. /\ Type(i) \in Types /\ results[i].score \in Int
      /\ Start(i) \in 0 .. Len(text) /\ End(i) \in 0 .. Len(text)
      /\ Start(i) < End(i)
  BY <1>3, ScoreAssumption DEF Entity, Type, Start, End
<1>5. Original(i) \in Seq(Symbols)
  <2>1. \A p \in Start(i) + 1 .. End(i) : text[p] \in Symbols
    BY <1>1, <1>4, ElementOfSeq
  <2>2. QED
    BY <1>1, <1>4, <2>1, SubSeqProperties DEF Original
<1>6. QED
  BY <1>1, <1>3, <1>4, <1>5 DEF Span

\* The code's comparison says exactly that two spans share a position.
LEMMA OverlapIsIntersection ==
  ASSUME TablesOK, NEW i \in DOMAIN results, NEW j \in DOMAIN results
  PROVE  Overlaps(i, j) <=> Covers(i) \cap Covers(j) # {}
<1>1. ASSUME Overlaps(i, j), Start(i) <= Start(j)
      PROVE  Start(j) \in Covers(i) \cap Covers(j)
  BY <1>1, EntityFacts DEF Overlaps, Covers
<1>2. ASSUME Overlaps(i, j), Start(j) <= Start(i)
      PROVE  Start(i) \in Covers(i) \cap Covers(j)
  BY <1>2, EntityFacts DEF Overlaps, Covers
<1>3. ASSUME NEW p \in Covers(i) \cap Covers(j)
      PROVE  Overlaps(i, j)
  BY <1>3, EntityFacts DEF Overlaps, Covers
<1>4. Start(i) <= Start(j) \/ Start(j) <= Start(i)
  BY EntityFacts
<1>5. QED
  BY <1>1, <1>2, <1>3, <1>4

\* The table update: a function with one more key.
LEMMA PutFacts ==
  ASSUME NEW f, NEW k, NEW v
  PROVE  /\ DOMAIN Put(f, k, v) = DOMAIN f \cup {k}
         /\ Put(f, k, v)[k] = v
         /\ \A x \in DOMAIN f \ {k} : Put(f, k, v)[x] = f[x]
BY DEF Put

\* and its values stay in their set.
LEMMA PutType ==
  ASSUME NEW S, NEW f, f \in [ DOMAIN f -> S ], NEW k, NEW v \in S
  PROVE  Put(f, k, v) \in [ DOMAIN Put(f, k, v) -> S ]
BY DEF Put

-----------------------------------------------------------------------------
\* Every variable but the output keeps its type, whatever the loops do.
LEMMA TableSafety == Spec => []TablesOK
<1>1. Init => TablesOK
  BY DEF Init, TablesOK
<1>2. TablesOK /\ [Next]_vars => TablesOK'
  <2> SUFFICES ASSUME TablesOK, [Next]_vars PROVE TablesOK'
    OBVIOUS
  <2>0. CASE UNCHANGED vars
    BY <2>0 DEF vars, TablesOK, Entity
  <2>1. CASE ReturnUnchanged
    BY <2>1 DEF ReturnUnchanged, TablesOK
  <2>2. CASE StartResolving
    BY <2>2 DEF StartResolving, TablesOK
  <2>3. ASSUME NEW i \in DOMAIN results, KeepEntity(i) \/ DropEntity(i)
        PROVE  TablesOK'
    BY <2>3 DEF KeepEntity, DropEntity, BestRanked, TablesOK
  <2>4. CASE StartNumbering
    BY <2>4 DEF StartNumbering, TablesOK
  <2>5. ASSUME NEW i \in DOMAIN results, ReusePlaceholder(i)
        PROVE  TablesOK'
    <3>1. seen[Key(i)] \in Placeholder
      BY <2>5 DEF ReusePlaceholder, TablesOK
    <3>2. placeholderOf' \in [ DOMAIN placeholderOf' -> Placeholder ]
      BY <2>5, <3>1, PutType DEF ReusePlaceholder, TablesOK
    <3>3. DOMAIN placeholderOf' \subseteq accepted
      <4>1. placeholderOf' = Put(placeholderOf, i, seen[Key(i)]) /\ i \in accepted
        BY <2>5 DEF ReusePlaceholder, Leftmost, TablesOK
      <4>2. DOMAIN placeholderOf' = DOMAIN placeholderOf \cup {i}
        BY <4>1, PutFacts
      <4>3. QED
        BY <4>1, <4>2 DEF TablesOK
    <3>4. QED
      BY <2>5, <3>2, <3>3 DEF ReusePlaceholder, TablesOK
  <2>6. ASSUME NEW i \in DOMAIN results, NewPlaceholder(i)
        PROVE  TablesOK'
    <3> DEFINE n == counters[Type(i)] + 1
               p == [ type |-> Type(i), n |-> n ]
    <3>1. p \in Placeholder /\ n \in Nat
      BY EntityFacts DEF TablesOK, Placeholder
    <3>2. counters' \in [ Types -> Nat ]
      BY <2>6, <3>1 DEF NewPlaceholder, TablesOK
    <3>3. seen' \in [ DOMAIN seen' -> Placeholder ]
      BY <2>6, <3>1, PutType DEF NewPlaceholder, TablesOK
    <3>4. mappings' \in [ DOMAIN mappings' -> Seq(Symbols) ]
      BY <2>6, EntityFacts, PutType DEF NewPlaceholder, TablesOK
    <3>5. placeholderOf' \in [ DOMAIN placeholderOf' -> Placeholder ]
      BY <2>6, <3>1, PutType DEF NewPlaceholder, TablesOK
    <3>6. DOMAIN placeholderOf' \subseteq accepted /\ DOMAIN mappings' \subseteq Placeholder
      <4>1. /\ placeholderOf' = Put(placeholderOf, i, p) /\ i \in accepted
            /\ mappings' = Put(mappings, p, Original(i))
        BY <2>6 DEF NewPlaceholder, Leftmost, TablesOK
      <4> HIDE DEF p
      <4>2. DOMAIN placeholderOf' = DOMAIN placeholderOf \cup {i}
        BY <4>1, PutFacts
      <4>3. DOMAIN mappings' = DOMAIN mappings \cup {p}
        BY <4>1, PutFacts
      <4>4. QED
        BY <3>1, <4>1, <4>2, <4>3 DEF TablesOK
    <3>7. QED
      BY <2>6, <3>2, <3>3, <3>4, <3>5, <3>6 DEF NewPlaceholder, TablesOK
  <2>7. CASE StartReplacing
    BY <2>7 DEF StartReplacing, TablesOK
  <2>8. ASSUME NEW i \in DOMAIN results, ReplaceEntity(i)
        PROVE  TablesOK'
    BY <2>8 DEF ReplaceEntity, Rightmost, TablesOK
  <2>9. CASE Return
    BY <2>9, EntityFacts DEF Return, TablesOK
  <2>10. QED
    BY <2>0, <2>1, <2>2, <2>3, <2>4, <2>5, <2>6, <2>7, <2>8, <2>9
    DEF Next, Returned
<1>3. QED
  BY <1>1, <1>2, PTL DEF Spec

-----------------------------------------------------------------------------
(* resolve_overlaps                                                         *)

ResolveInv ==
  /\ AcceptedDisjoint
  /\ DroppedForCause
  /\ pc = "start" => accepted = {}
  /\ pc = "resolve" =>
       /\ accepted \cap todo = {}
       /\ \A i \in DOMAIN results \ todo, j \in todo : RanksBefore(i, j)

\* The code's order, ties left aside
LEMMA Ranking ==
  ASSUME TablesOK, NEW i \in DOMAIN results, NEW j \in DOMAIN results, RanksBefore(i, j)
  PROVE  NoWorse(i, j)
BY EntityFacts DEF RanksBefore, NoWorse

\* The decided entities all rank before the undecided ones: the next one is
\* compared with everything that could beat it.
LEMMA ResolutionSafety == Spec => []ResolveInv
<1>1. Init => ResolveInv
  BY DEF Init, ResolveInv, AcceptedDisjoint, DroppedForCause, Decided
<1>2. TablesOK /\ ResolveInv /\ [Next]_vars => ResolveInv'
  <2> SUFFICES ASSUME TablesOK, ResolveInv, [Next]_vars PROVE ResolveInv'
    OBVIOUS
  <2>0. CASE UNCHANGED << results, pc, todo, accepted >>
    BY <2>0 DEF ResolveInv, AcceptedDisjoint, DroppedForCause, Decided, NoWorse, RanksBefore,
       Covers, Span, Start, End
  <2>1. CASE StartResolving
    BY <2>1 DEF StartResolving, ResolveInv, AcceptedDisjoint, DroppedForCause, Decided
  <2>2. ASSUME NEW i \in DOMAIN results, KeepEntity(i)
        PROVE  ResolveInv'
    <3>1. /\ UNCHANGED << results, pc >> /\ pc = "resolve"
          /\ accepted' = accepted \cup {i} /\ todo' = todo \ {i} /\ i \in todo
          /\ \A k \in accepted : ~ Overlaps(i, k)
          /\ \A j \in todo \ {i} : RanksBefore(i, j)
      BY <2>2 DEF KeepEntity, BestRanked
    <3>2. \A k \in accepted : Covers(i) \cap Covers(k) = {}
      BY <3>1, OverlapIsIntersection DEF TablesOK
    <3>3. AcceptedDisjoint'
      BY <3>1, <3>2 DEF ResolveInv, AcceptedDisjoint, Covers, Start, End
    <3>4. DroppedForCause'
      BY <3>1 DEF ResolveInv, DroppedForCause, Decided, NoWorse, Covers, Span, Start, End
    <3>5. (accepted \cap todo = {})'
      BY <3>1 DEF ResolveInv
    <3>6. ASSUME NEW k \in DOMAIN results \ todo', NEW j \in todo'
          PROVE  RanksBefore(k, j)'
      <4>1. RanksBefore(k, j)
        BY <3>1, <3>6 DEF ResolveInv
      <4>2. QED
        BY <3>1, <4>1 DEF RanksBefore, Span, Start, End
    <3>7. QED
      BY <3>1, <3>3, <3>4, <3>5, <3>6 DEF ResolveInv
  <2>3. ASSUME NEW i \in DOMAIN results, DropEntity(i)
        PROVE  ResolveInv'
    <3>1. /\ UNCHANGED << results, pc, accepted >> /\ pc = "resolve"
          /\ todo' = todo \ {i} /\ i \in todo
          /\ \A j \in todo \ {i} : RanksBefore(i, j)
      BY <2>3 DEF DropEntity, BestRanked
    <3>2. PICK k \in accepted : Overlaps(i, k)
      BY <2>3 DEF DropEntity
    <3>3. RanksBefore(k, i) /\ k \in DOMAIN results
      BY <3>1, <3>2 DEF ResolveInv, TablesOK
    <3>4. NoWorse(k, i) /\ Covers(i) \cap Covers(k) # {}
      BY <3>2, <3>3, Ranking, OverlapIsIntersection
    <3>5. DroppedForCause'
      BY <3>1, <3>2, <3>4 DEF ResolveInv, DroppedForCause, Decided, NoWorse, Covers, Span, Start, End
    <3>6. QED
      BY <3>1, <3>5 DEF ResolveInv, AcceptedDisjoint, RanksBefore, Covers, Span, Start, End
  <2>4. CASE /\ UNCHANGED << results, accepted >>
             /\ Decided' = DOMAIN results
             /\ pc' \notin { "start", "resolve" }
             /\ pc = "start" => DOMAIN results = {}
             /\ pc = "resolve" => todo = {}
    <3>1. Decided' = Decided
      <4>1. Decided = DOMAIN results
        BY <2>4 DEF Decided
      <4>2. QED
        BY <2>4, <4>1
    <3>2. QED
      BY <2>4, <3>1 DEF ResolveInv, AcceptedDisjoint, DroppedForCause, NoWorse, Covers, Span, Start, End
  <2>5. results = << >> => DOMAIN results = {}
    OBVIOUS
  <2>6. QED
    BY <2>0, <2>1, <2>2, <2>3, <2>4, <2>5
    DEF Next, vars, Returned, ReturnUnchanged, StartNumbering, ReusePlaceholder, NewPlaceholder,
        StartReplacing, ReplaceEntity, Return, Decided
<1>3. QED
  BY <1>1, <1>2, TableSafety, PTL DEF Spec

\* No two kept entities ever overlap.
THEOREM Disjointness == Spec => []AcceptedDisjoint
<1>1. ResolveInv => AcceptedDisjoint
  BY DEF ResolveInv
<1>2. QED
  BY <1>1, ResolutionSafety, PTL

\* Whatever is dropped loses to a kept entity that overlaps it and ranks no lower.
THEOREM DropJustified == Spec => []DroppedForCause
<1>1. ResolveInv => DroppedForCause
  BY DEF ResolveInv
<1>2. QED
  BY <1>1, ResolutionSafety, PTL

-----------------------------------------------------------------------------
(* generate_placeholders                                                    *)

\* The entities that have their placeholder
Numbered ==
  IF pc \in { "start", "resolve" } THEN {}
  ELSE IF pc = "number" THEN accepted \ todo ELSE accepted

\* The table `seen` leads to `mappings` and back, so it is one to one.
SeenSound ==
  \A k \in DOMAIN seen :
    /\ k \in Types \X Seq(Symbols)
    /\ seen[k].type = k[1]
    /\ seen[k].n <= counters[k[1]]
    /\ seen[k] \in DOMAIN mappings
    /\ mappings[seen[k]] = k[2]

NumberInv ==
  /\ DOMAIN placeholderOf = Numbered
  /\ SeenSound
  /\ \A i \in DOMAIN placeholderOf : Key(i) \in DOMAIN seen /\ placeholderOf[i] = seen[Key(i)]
  /\ \A q \in DOMAIN mappings : \E i \in DOMAIN placeholderOf : placeholderOf[i] = q
  /\ \A t \in Types : \A m \in 1 .. counters[t] :
       \E i \in DOMAIN placeholderOf : placeholderOf[i] = [ type |-> t, n |-> m ]
  /\ NumberedLeftToRight
  /\ pc = "number" => \A i \in accepted \ todo, j \in todo : Start(i) < Start(j)

\* The next entity of the loop stands to the left of all that remain.
LEMMA LeftmostIsStrict ==
  ASSUME TablesOK, AcceptedDisjoint, todo \subseteq accepted,
         NEW i \in DOMAIN results, Leftmost(i), NEW j \in todo \ {i}
  PROVE  Start(i) < Start(j)
<1>1. i \in accepted /\ j \in accepted /\ j \in DOMAIN results /\ i # j
  BY DEF Leftmost, TablesOK
<1>2. Start(i) \in Covers(i) /\ Start(j) \in Covers(j)
  BY <1>1, EntityFacts DEF Covers
<1>3. Start(i) # Start(j)
  BY <1>1, <1>2 DEF AcceptedDisjoint
<1>4. Start(i) <= Start(j)
  BY DEF Leftmost
<1>5. QED
  BY <1>1, <1>3, <1>4, EntityFacts

\* A known pair takes the placeholder it has: the tables do not change.
LEMMA ReuseStep ==
  ASSUME TablesOK, AcceptedDisjoint, NumberInv, NEW i \in DOMAIN results, ReusePlaceholder(i)
  PROVE  NumberInv'
<1>1. /\ UNCHANGED << text, results, pc, accepted, seen, counters, mappings >>
      /\ pc = "number" /\ i \in todo /\ todo \subseteq accepted /\ Leftmost(i)
      /\ todo' = todo \ {i} /\ Key(i) \in DOMAIN seen
      /\ placeholderOf' = Put(placeholderOf, i, seen[Key(i)])
  BY DEF ReusePlaceholder, Leftmost, TablesOK
<1>2. /\ DOMAIN placeholderOf' = DOMAIN placeholderOf \cup {i}
      /\ placeholderOf'[i] = seen[Key(i)]
      /\ \A j \in DOMAIN placeholderOf \ {i} : placeholderOf'[j] = placeholderOf[j]
  <2>1. DOMAIN placeholderOf' = DOMAIN placeholderOf \cup {i}
    BY <1>1, PutFacts
  <2>2. placeholderOf'[i] = seen[Key(i)]
    BY <1>1 DEF Put
  <2>3. \A j \in DOMAIN placeholderOf \ {i} : placeholderOf'[j] = placeholderOf[j]
    BY <1>1 DEF Put
  <2>4. QED
    BY <2>1, <2>2, <2>3
<1>3. DOMAIN placeholderOf = accepted \ todo /\ i \notin DOMAIN placeholderOf
  BY <1>1 DEF NumberInv, Numbered
<1>4. (DOMAIN placeholderOf = Numbered)'
  BY <1>1, <1>2, <1>3 DEF Numbered
<1>5. \A j \in DOMAIN results : Key(j)' = Key(j) /\ Type(j)' = Type(j) /\ Start(j)' = Start(j)
  BY <1>1 DEF Key, Type, Original, Start, End
<1>6. DOMAIN placeholderOf \subseteq DOMAIN results
  BY <1>3 DEF TablesOK
<1>7. SeenSound'
  BY <1>1 DEF NumberInv, SeenSound
<1>8. (\A j \in DOMAIN placeholderOf : Key(j) \in DOMAIN seen /\ placeholderOf[j] = seen[Key(j)])'
  BY <1>1, <1>2, <1>5, <1>6 DEF NumberInv
<1>9. (\A q \in DOMAIN mappings : \E j \in DOMAIN placeholderOf : placeholderOf[j] = q)'
  BY <1>1, <1>2, <1>3 DEF NumberInv
<1>10. (\A t \in Types : \A m \in 1 .. counters[t] :
          \E j \in DOMAIN placeholderOf : placeholderOf[j] = [ type |-> t, n |-> m ])'
  BY <1>1, <1>2, <1>3 DEF NumberInv
<1>11. \A j \in DOMAIN placeholderOf : Start(j) < Start(i)
  BY <1>1, <1>3 DEF NumberInv
<1>12. NumberedLeftToRight'
  <2> SUFFICES ASSUME NEW j \in DOMAIN placeholderOf', NEW m \in 1 .. placeholderOf'[j].n - 1
               PROVE  \E k \in DOMAIN placeholderOf' :
                        /\ placeholderOf'[k] = [ type |-> Type(j), n |-> m ]
                        /\ Start(k) < Start(j)
    BY <1>2, <1>5, <1>6 DEF NumberedLeftToRight
  <2>1. CASE j # i
    <3>1. PICK k \in DOMAIN placeholderOf :
            placeholderOf[k] = [ type |-> Type(j), n |-> m ] /\ Start(k) < Start(j)
      BY <1>2, <2>1 DEF NumberInv, NumberedLeftToRight
    <3>2. QED
      BY <1>2, <1>3, <3>1
  <2>2. CASE j = i
    <3>1. seen[Key(i)].n <= counters[Type(i)] /\ Type(i) \in Types
      BY <1>1, EntityFacts DEF NumberInv, SeenSound, Key
    <3>2. m \in 1 .. counters[Type(i)]
      BY <1>1, <1>2, <2>2, <3>1 DEF TablesOK, Placeholder
    <3>3. PICK k \in DOMAIN placeholderOf : placeholderOf[k] = [ type |-> Type(i), n |-> m ]
      BY <3>1, <3>2 DEF NumberInv
    <3>4. QED
      BY <1>2, <1>3, <1>11, <2>2, <3>3
  <2>3. QED
    BY <2>1, <2>2
<1>13. (\A k \in accepted \ todo, j \in todo : Start(k) < Start(j))'
  <2>1. \A j \in todo' : Start(i) < Start(j)
    BY <1>1, LeftmostIsStrict
  <2>2. \A k \in accepted \ todo, j \in todo : Start(k) < Start(j)
    BY <1>1 DEF NumberInv
  <2>3. QED
    BY <1>1, <1>5, <2>1, <2>2 DEF TablesOK
<1>14. QED
  BY <1>1, <1>4, <1>7, <1>8, <1>9, <1>10, <1>12, <1>13 DEF NumberInv

\* A new pair takes the next number of its type, which no entity has yet.
LEMMA NewStep ==
  ASSUME TablesOK, AcceptedDisjoint, NumberInv, NEW i \in DOMAIN results, NewPlaceholder(i)
  PROVE  NumberInv'
<1> DEFINE n == counters[Type(i)] + 1
           p == [ type |-> Type(i), n |-> n ]
<1>1. /\ UNCHANGED << text, results, pc, accepted >>
      /\ pc = "number" /\ i \in todo /\ todo \subseteq accepted /\ Leftmost(i)
      /\ todo' = todo \ {i} /\ Key(i) \notin DOMAIN seen
      /\ placeholderOf' = Put(placeholderOf, i, p)
      /\ seen' = Put(seen, Key(i), p)
      /\ mappings' = Put(mappings, p, Original(i))
  BY DEF NewPlaceholder, Leftmost, TablesOK
<1>2. /\ Type(i) \in Types /\ n \in Nat \ {0} /\ Original(i) \in Seq(Symbols)
      /\ counters' = [ counters EXCEPT ![Type(i)] = n ]
      /\ p.type = Type(i) /\ p.n = n
      /\ Key(i) = << Type(i), Original(i) >>
  <2>1. Type(i) \in Types /\ Original(i) \in Seq(Symbols)
    BY EntityFacts
  <2>2. n \in Nat \ {0}
    BY <2>1 DEF TablesOK
  <2>3. counters' = [ counters EXCEPT ![Type(i)] = n ]
    BY DEF NewPlaceholder
  <2>4. QED
    BY <2>1, <2>2, <2>3 DEF Key
<1>3. \A t \in Types : counters[t] \in Nat /\ counters'[t] = IF t = Type(i) THEN n ELSE counters[t]
  BY <1>2 DEF TablesOK
<1>4. p \in Placeholder
  BY <1>2 DEF Placeholder
<1>5. \A k \in DOMAIN seen : seen[k] # p
  BY <1>2, <1>3 DEF NumberInv, SeenSound
<1> HIDE DEF p
<1>6. /\ DOMAIN placeholderOf' = DOMAIN placeholderOf \cup {i} /\ placeholderOf'[i] = p
      /\ \A j \in DOMAIN placeholderOf \ {i} : placeholderOf'[j] = placeholderOf[j]
  <2>1. DOMAIN placeholderOf' = DOMAIN placeholderOf \cup {i}
    BY <1>1, PutFacts
  <2>2. placeholderOf'[i] = p
    BY <1>1 DEF Put
  <2>3. \A x \in DOMAIN placeholderOf \ {i} : placeholderOf'[x] = placeholderOf[x]
    BY <1>1 DEF Put
  <2>4. QED
    BY <2>1, <2>2, <2>3
<1>7. /\ DOMAIN seen' = DOMAIN seen \cup {Key(i)} /\ seen'[Key(i)] = p
      /\ \A k \in DOMAIN seen : seen'[k] = seen[k]
  BY <1>1, PutFacts
<1>8. /\ DOMAIN mappings' = DOMAIN mappings \cup {p} /\ mappings'[p] = Original(i)
      /\ \A q \in DOMAIN mappings \ {p} : mappings'[q] = mappings[q]
  <2>1. DOMAIN mappings' = DOMAIN mappings \cup {p}
    BY <1>1, PutFacts
  <2>2. mappings'[p] = Original(i)
    BY <1>1 DEF Put
  <2>3. \A x \in DOMAIN mappings \ {p} : mappings'[x] = mappings[x]
    BY <1>1 DEF Put
  <2>4. QED
    BY <2>1, <2>2, <2>3
<1>9. DOMAIN placeholderOf = accepted \ todo /\ i \notin DOMAIN placeholderOf
  BY <1>1 DEF NumberInv, Numbered
<1>10. (DOMAIN placeholderOf = Numbered)'
  BY <1>1, <1>6, <1>9 DEF Numbered
<1>11. \A j \in DOMAIN results : Key(j)' = Key(j) /\ Type(j)' = Type(j) /\ Start(j)' = Start(j)
  BY <1>1 DEF Key, Type, Original, Start, End
<1>12. DOMAIN placeholderOf \subseteq DOMAIN results
  BY <1>9 DEF TablesOK
<1>13. SeenSound'
  <2> SUFFICES ASSUME NEW k \in DOMAIN seen'
               PROVE  /\ k \in Types \X Seq(Symbols)
                      /\ seen'[k].type = k[1]
                      /\ seen'[k].n <= counters'[k[1]]
                      /\ seen'[k] \in DOMAIN mappings'
                      /\ mappings'[seen'[k]] = k[2]
    BY DEF SeenSound
  <2>1. CASE k = Key(i)
    BY <1>2, <1>3, <1>7, <1>8, <2>1
  <2>2. CASE k \in DOMAIN seen
    <3>1. /\ k \in Types \X Seq(Symbols) /\ seen[k].type = k[1] /\ seen[k].n <= counters[k[1]]
          /\ seen[k] \in DOMAIN mappings /\ mappings[seen[k]] = k[2] /\ seen[k].n \in Nat
      BY <2>2 DEF NumberInv, SeenSound, TablesOK, Placeholder
    <3>2. seen'[k] = seen[k] /\ mappings'[seen[k]] = mappings[seen[k]]
      BY <1>5, <1>7, <1>8, <2>2, <3>1
    <3>3. counters[k[1]] <= counters'[k[1]] /\ counters[k[1]] \in Nat /\ counters'[k[1]] \in Nat
      BY <1>2, <1>3, <3>1
    <3>4. QED
      BY <1>8, <3>1, <3>2, <3>3
  <2>3. QED
    BY <1>7, <2>1, <2>2
<1>14. (\A j \in DOMAIN placeholderOf : Key(j) \in DOMAIN seen /\ placeholderOf[j] = seen[Key(j)])'
  BY <1>6, <1>7, <1>11, <1>12, <1>9 DEF NumberInv
<1>15. (\A q \in DOMAIN mappings : \E j \in DOMAIN placeholderOf : placeholderOf[j] = q)'
  BY <1>6, <1>8, <1>9 DEF NumberInv
<1>16. (\A t \in Types : \A m \in 1 .. counters[t] :
          \E j \in DOMAIN placeholderOf : placeholderOf[j] = [ type |-> t, n |-> m ])'
  <2> SUFFICES ASSUME NEW t \in Types, NEW m \in 1 .. counters'[t]
               PROVE  \E j \in DOMAIN placeholderOf' : placeholderOf'[j] = [ type |-> t, n |-> m ]
    OBVIOUS
  <2>1. CASE t = Type(i) /\ m = n
    BY <1>6, <2>1 DEF p
  <2>2. CASE ~ (t = Type(i) /\ m = n)
    <3>1. m \in 1 .. counters[t]
      BY <1>2, <1>3, <2>2
    <3>2. QED
      BY <1>6, <1>9, <3>1 DEF NumberInv
  <2>3. QED
    BY <2>1, <2>2
<1>17. \A j \in DOMAIN placeholderOf : Start(j) < Start(i)
  BY <1>1, <1>9 DEF NumberInv
<1>18. NumberedLeftToRight'
  <2> SUFFICES ASSUME NEW j \in DOMAIN placeholderOf', NEW m \in 1 .. placeholderOf'[j].n - 1
               PROVE  \E k \in DOMAIN placeholderOf' :
                        /\ placeholderOf'[k] = [ type |-> Type(j), n |-> m ]
                        /\ Start(k) < Start(j)
    BY <1>6, <1>11, <1>12 DEF NumberedLeftToRight
  <2>1. CASE j # i
    <3>1. PICK k \in DOMAIN placeholderOf :
            placeholderOf[k] = [ type |-> Type(j), n |-> m ] /\ Start(k) < Start(j)
      BY <1>6, <2>1 DEF NumberInv, NumberedLeftToRight
    <3>2. QED
      BY <1>6, <1>9, <3>1
  <2>2. CASE j = i
    <3>1. m \in 1 .. counters[Type(i)]
      BY <1>2, <1>3, <1>6, <2>2 DEF p
    <3>2. PICK k \in DOMAIN placeholderOf : placeholderOf[k] = [ type |-> Type(i), n |-> m ]
      BY <1>2, <3>1 DEF NumberInv
    <3>3. QED
      BY <1>6, <1>9, <1>17, <2>2, <3>2
  <2>3. QED
    BY <2>1, <2>2
<1>19. (\A k \in accepted \ todo, j \in todo : Start(k) < Start(j))'
  <2>1. \A j \in todo' : Start(i) < Start(j)
    BY <1>1, LeftmostIsStrict
  <2>2. \A k \in accepted \ todo, j \in todo : Start(k) < Start(j)
    BY <1>1 DEF NumberInv
  <2>3. QED
    BY <1>1, <1>11, <2>1, <2>2 DEF TablesOK
<1>20. QED
  BY <1>1, <1>10, <1>13, <1>14, <1>15, <1>16, <1>18, <1>19 DEF NumberInv

\* The tables of generate_placeholders stay those of the entities it has numbered.
LEMMA NumberSafety == Spec => []NumberInv
<1>1. Init => NumberInv
  BY DEF Init, NumberInv, SeenSound, Numbered, NumberedLeftToRight
<1>2. TablesOK /\ ResolveInv /\ NumberInv /\ [Next]_vars => NumberInv'
  <2> SUFFICES ASSUME TablesOK, ResolveInv, NumberInv, [Next]_vars PROVE NumberInv'
    OBVIOUS
  <2>1. ASSUME NEW i \in DOMAIN results, ReusePlaceholder(i)
        PROVE  NumberInv'
    BY <2>1, ReuseStep DEF ResolveInv
  <2>2. ASSUME NEW i \in DOMAIN results, NewPlaceholder(i)
        PROVE  NumberInv'
    BY <2>2, NewStep DEF ResolveInv
  <2>3. CASE /\ UNCHANGED << text, results, seen, counters, mappings, placeholderOf >>
             /\ Numbered' = Numbered
             /\ pc' = "number" => (\A i \in accepted \ todo, j \in todo : Start(i) < Start(j))'
    BY <2>3 DEF NumberInv, SeenSound, NumberedLeftToRight, Key, Original, Type, Start, End
  <2>4. CASE UNCHANGED << results, pc, todo, accepted >>
    <3>1. Numbered' = Numbered
      BY <2>4 DEF Numbered
    <3>2. pc = "number" => (\A i \in accepted \ todo, j \in todo : Start(i) < Start(j))'
      BY <2>4 DEF NumberInv, Start
    <3>3. CASE UNCHANGED vars
      BY <2>3, <2>4, <3>1, <3>2, <3>3 DEF vars
    <3>4. CASE Returned
      BY <2>3, <2>4, <3>1, <3>2, <3>4 DEF Returned, vars
    <3>5. ASSUME \E i \in DOMAIN results :
                   \/ KeepEntity(i) \/ DropEntity(i) \/ ReusePlaceholder(i)
                   \/ NewPlaceholder(i) \/ ReplaceEntity(i)
          PROVE  FALSE
      BY <2>4, <3>5 DEF KeepEntity, DropEntity, BestRanked, ReusePlaceholder, NewPlaceholder,
         Leftmost, ReplaceEntity, Rightmost
    <3>6. QED
      BY <2>4, <3>3, <3>4, <3>5
      DEF Next, ReturnUnchanged, StartResolving, StartNumbering, StartReplacing, Return
  <2>5. CASE ReturnUnchanged
    <3>1. Numbered' = Numbered
      BY <2>5 DEF ReturnUnchanged, Numbered, ResolveInv
    <3>2. QED
      BY <2>3, <2>5, <3>1 DEF ReturnUnchanged
  <2>6. CASE StartResolving \/ \E i \in DOMAIN results : KeepEntity(i) \/ DropEntity(i)
    <3>1. /\ pc \in { "start", "resolve" } /\ pc' = "resolve"
          /\ UNCHANGED << text, results, seen, counters, mappings, placeholderOf >>
      BY <2>6 DEF StartResolving, KeepEntity, DropEntity
    <3>2. Numbered' = Numbered
      BY <3>1 DEF Numbered
    <3>3. QED
      BY <2>3, <3>1, <3>2
  <2>7. CASE StartNumbering
    <3>1. Numbered' = Numbered /\ (accepted \ todo = {})'
      BY <2>7 DEF StartNumbering, Numbered
    <3>2. QED
      BY <2>3, <2>7, <3>1 DEF StartNumbering
  <2>8. CASE StartReplacing \/ Return \/ \E i \in DOMAIN results : ReplaceEntity(i)
    <3>1. /\ pc = "replace" \/ (pc = "number" /\ todo = {})
          /\ pc' \in { "replace", "done" }
          /\ UNCHANGED << text, results, accepted, seen, counters, mappings, placeholderOf >>
      BY <2>8 DEF StartReplacing, Return, ReplaceEntity
    <3>2. Numbered' = Numbered
      BY <3>1 DEF Numbered
    <3>3. QED
      BY <2>3, <3>1, <3>2
  <2>9. CASE UNCHANGED vars
    BY <2>4, <2>9 DEF vars
  <2>10. QED
    BY <2>1, <2>2, <2>5, <2>6, <2>7, <2>8, <2>9 DEF Next, Returned
<1>3. QED
  BY <1>1, <1>2, TableSafety, ResolutionSafety, PTL DEF Spec

\* What the tables say of placeholders and pairs follows from how they are built.
LEMMA NumbersConsistent == TablesOK /\ NumberInv => PlaceholdersConsistent
<1> SUFFICES ASSUME TablesOK, NumberInv PROVE PlaceholdersConsistent
  OBVIOUS
<1>1. ASSUME NEW i \in DOMAIN placeholderOf
      PROVE  /\ placeholderOf[i] = seen[Key(i)]
             /\ placeholderOf[i].type = Type(i)
             /\ placeholderOf[i] \in DOMAIN mappings
             /\ mappings[placeholderOf[i]] = Original(i)
  BY <1>1 DEF NumberInv, SeenSound, Key
<1>2. \A i, j \in DOMAIN placeholderOf :
        placeholderOf[i] = placeholderOf[j]
          <=> Type(i) = Type(j) /\ Original(i) = Original(j)
  BY <1>1 DEF Key
<1>3. QED
  BY <1>1, <1>2 DEF NumberInv, PlaceholdersConsistent

\* Placeholders and (type, text) pairs correspond one to one, and the mapping
\* holds the way back and nothing else.
THEOREM PlaceholderConsistency == Spec => []PlaceholdersConsistent
BY NumbersConsistent, TableSafety, NumberSafety, PTL

\* The numbers of a type run from left to right without a gap.
THEOREM NumberingOrder == Spec => []NumberedLeftToRight
<1>1. NumberInv => NumberedLeftToRight
  BY DEF NumberInv
<1>2. QED
  BY <1>1, NumberSafety, PTL

-----------------------------------------------------------------------------
(* replace_entities                                                         *)

SpliceInv ==
  /\ output \in Seq(Symbols \cup Placeholder)
  /\ pc = "replace" =>
       \A i \in todo : End(i) <= Len(output) /\ \A q \in 1 .. End(i) : output[q] = text[q]

\* What the splice at entity i leaves in place: all that stands before it.
LEMMA SpliceKeepsPrefix ==
  ASSUME NEW S, NEW s \in Seq(S), NEW x \in S, NEW a \in Nat, NEW b \in Nat,
         a < b, b <= Len(s)
  PROVE  LET t == SubSeq(s, 1, a) \o << x >> \o SubSeq(s, b + 1, Len(s)) IN
         /\ t \in Seq(S)
         /\ a < Len(t)
         /\ \A q \in 1 .. a : t[q] = s[q]
<1> DEFINE l == SubSeq(s, 1, a)
           r == SubSeq(s, b + 1, Len(s))
<1>1. Len(s) \in Nat /\ \A q \in 1 .. Len(s) : s[q] \in S
  BY LenProperties, ElementOfSeq
<1>2. l \in Seq(S) /\ Len(l) = a /\ \A q \in 1 .. a : l[q] = s[q]
  <2>1. \A q \in 1 .. a : s[q] \in S
    BY <1>1
  <2>2. /\ SubSeq(s, 1, a) \in Seq(S)
        /\ Len(SubSeq(s, 1, a)) = IF 1 <= a THEN a - 1 + 1 ELSE 0
        /\ \A q \in 1 .. a - 1 + 1 : SubSeq(s, 1, a)[q] = s[1 + q - 1]
    BY <2>1, SubSeqProperties
  <2>3. QED
    BY <2>2
<1>3. r \in Seq(S)
  <2>1. \A q \in b + 1 .. Len(s) : s[q] \in S
    BY <1>1
  <2>2. QED
    BY <1>1, <2>1, SubSeqProperties
<1>4. << x >> \in Seq(S) /\ Len(<< x >>) = 1
  OBVIOUS
<1> HIDE DEF l, r
<1>5. /\ l \o << x >> \in Seq(S) /\ Len(l \o << x >>) = a + 1
      /\ \A q \in 1 .. a : (l \o << x >>)[q] = s[q]
  <2> DEFINE y == << x >>
  <2>1. y \in Seq(S) /\ Len(y) = 1
    BY <1>4
  <2> HIDE DEF y
  <2>2. /\ l \o y \in Seq(S) /\ Len(l \o y) = Len(l) + Len(y)
        /\ \A q \in 1 .. Len(l) + Len(y) :
             (l \o y)[q] = IF q <= Len(l) THEN l[q] ELSE y[q - Len(l)]
    <3>1. l \in Seq(S) /\ y \in Seq(S)
      BY <1>2, <2>1
    <3>2. QED
      BY ONLY <3>1, ConcatProperties
  <2>3. \A q \in 1 .. a : (l \o y)[q] = s[q]
    BY <1>2, <2>1, <2>2
  <2>4. QED
    BY <1>2, <2>1, <2>2, <2>3 DEF y
<1>6. /\ (l \o << x >>) \o r \in Seq(S)
      /\ a < Len((l \o << x >>) \o r)
      /\ \A q \in 1 .. a : ((l \o << x >>) \o r)[q] = s[q]
  <2> DEFINE y == l \o << x >>
  <2>1. y \in Seq(S) /\ Len(y) = a + 1 /\ \A q \in 1 .. a : y[q] = s[q]
    BY <1>5
  <2>2. Len(r) \in Nat
    BY <1>3, LenProperties
  <2> HIDE DEF y
  <2>3. /\ y \o r \in Seq(S) /\ Len(y \o r) = Len(y) + Len(r)
        /\ \A q \in 1 .. Len(y) + Len(r) :
             (y \o r)[q] = IF q <= Len(y) THEN y[q] ELSE r[q - Len(y)]
    BY <1>3, <2>1, ConcatProperties
  <2>4. \A q \in 1 .. a : (y \o r)[q] = s[q]
    BY <2>1, <2>2, <2>3
  <2>5. QED
    BY <2>1, <2>2, <2>3, <2>4 DEF y
<1>7. QED
  BY <1>6 DEF l, r

\* Splicing from right to left never disturbs a span that is still to come.
LEMMA SpliceSafety == Spec => []SpliceInv
<1>1. Init => SpliceInv
  BY TextAssumption, SeqMonotonic DEF Init, SpliceInv
<1>2. TablesOK /\ ResolveInv /\ NumberInv /\ SpliceInv /\ [Next]_vars => SpliceInv'
  <2> SUFFICES ASSUME TablesOK, ResolveInv, NumberInv, SpliceInv, [Next]_vars PROVE SpliceInv'
    OBVIOUS
  <2>1. CASE StartReplacing
    <3>1. text \in Seq(Symbols \cup Placeholder)
      BY TextAssumption, SeqMonotonic DEF TablesOK
    <3>2. \A i \in accepted : End(i) <= Len(text)
      BY EntityFacts DEF TablesOK
    <3>3. QED
      BY <2>1, <3>1, <3>2 DEF StartReplacing, SpliceInv, End
  <2>2. ASSUME NEW i \in DOMAIN results, ReplaceEntity(i)
        PROVE  SpliceInv'
    <3>1. /\ UNCHANGED << text, results, pc, accepted, placeholderOf >>
          /\ pc = "replace" /\ i \in todo /\ todo' = todo \ {i}
          /\ \A j \in todo : Start(j) <= Start(i)
          /\ i \in accepted /\ todo \subseteq accepted /\ accepted \subseteq DOMAIN results
      BY <2>2 DEF ReplaceEntity, Rightmost, TablesOK
    <3>2. placeholderOf[i] \in Symbols \cup Placeholder
      BY <3>1 DEF NumberInv, Numbered, TablesOK
    <3>3. /\ Start(i) \in Nat /\ End(i) \in Nat /\ Start(i) < End(i)
          /\ End(i) <= Len(output) /\ output \in Seq(Symbols \cup Placeholder)
      BY <3>1, EntityFacts DEF SpliceInv
    <3>4. /\ output' \in Seq(Symbols \cup Placeholder)
          /\ Start(i) < Len(output')
          /\ \A q \in 1 .. Start(i) : output'[q] = output[q]
      BY <2>2, <3>2, <3>3, SpliceKeepsPrefix DEF ReplaceEntity
    <3>5. ASSUME NEW j \in todo'
          PROVE  End(j) <= Start(i) /\ End(j) \in Nat
      <4>1. j \in accepted /\ i # j /\ Start(j) <= Start(i) /\ j \in DOMAIN results
        BY <3>1, <3>5
      <4>2. Covers(i) \cap Covers(j) = {}
        BY <3>1, <4>1 DEF ResolveInv, AcceptedDisjoint
      <4>3. ~ Overlaps(i, j)
        BY <4>1, <4>2, OverlapIsIntersection
      <4>4. QED
        BY <4>1, <4>3, EntityFacts DEF Overlaps
    <3>6. ASSUME NEW j \in todo'
          PROVE  (End(j) <= Len(output) /\ \A q \in 1 .. End(j) : output[q] = text[q])'
      <4>1. End(j) <= Len(output') /\ End(j)' = End(j)
        BY <3>1, <3>3, <3>4, <3>5, <3>6, LenProperties DEF End
      <4>2. \A q \in 1 .. End(j) : output'[q] = output[q] /\ output[q] = text[q]
        BY <3>1, <3>3, <3>4, <3>5, <3>6 DEF SpliceInv
      <4>3. QED
        BY <3>1, <4>1, <4>2
    <3>7. QED
      BY <3>4, <3>6 DEF SpliceInv
  <2>3. CASE UNCHANGED << text, results, pc, todo, output >>
    BY <2>3 DEF SpliceInv, End
  <2>4. CASE UNCHANGED output /\ pc' # "replace"
    BY <2>4 DEF SpliceInv
  <2>5. QED
    BY <2>1, <2>2, <2>3, <2>4
    DEF Next, vars, Returned, ReturnUnchanged, StartResolving, KeepEntity, DropEntity,
        StartNumbering, ReusePlaceholder, NewPlaceholder, Return
<1>3. QED
  BY <1>1, <1>2, TableSafety, ResolutionSafety, NumberSafety, PTL DEF Spec

\* Every variable keeps its type, the output too.
THEOREM TypeSafety == Spec => []TypeOK
<1>1. TablesOK /\ SpliceInv => TypeOK
  BY DEF TypeOK, SpliceInv
<1>2. QED
  BY <1>1, TableSafety, SpliceSafety, PTL

\* Each splice finds its original text at its original place.
THEOREM SplicesInPlace == Spec => []PendingSpansIntact
<1>1. TablesOK /\ SpliceInv => PendingSpansIntact
  <2> SUFFICES ASSUME TablesOK, SpliceInv, pc = "replace", NEW i \in todo
               PROVE  /\ End(i) <= Len(output)
                      /\ SubSeq(output, Start(i) + 1, End(i)) = Original(i)
    BY DEF PendingSpansIntact
  <2>1. i \in DOMAIN results
    BY DEF TablesOK
  <2>2. /\ Start(i) \in Nat /\ End(i) \in Nat /\ Start(i) < End(i)
        /\ End(i) <= Len(text) /\ text \in Seq(Symbols)
    BY <2>1, EntityFacts
  <2>3. End(i) <= Len(output) /\ \A q \in 1 .. End(i) : output[q] = text[q]
    BY DEF SpliceInv
  <2>4. \A q \in Start(i) + 1 .. End(i) : text[q] \in Symbols /\ output[q] \in Symbols
    BY <2>2, <2>3, ElementOfSeq
  <2>5. SubSeq(output, Start(i) + 1, End(i)) = SubSeq(text, Start(i) + 1, End(i))
    <3> DEFINE m == Start(i) + 1
               n == End(i)
    <3>1. m \in Int /\ n \in Int /\ m <= n
      BY <2>2
    <3> HIDE DEF m, n
    <3>2. /\ SubSeq(text, m, n) \in Seq(Symbols) /\ Len(SubSeq(text, m, n)) = n - m + 1
          /\ \A q \in 1 .. n - m + 1 : SubSeq(text, m, n)[q] = text[m + q - 1]
      BY <2>4, <3>1, SubSeqProperties DEF m, n
    <3>3. /\ SubSeq(output, m, n) \in Seq(Symbols) /\ Len(SubSeq(output, m, n)) = n - m + 1
          /\ \A q \in 1 .. n - m + 1 : SubSeq(output, m, n)[q] = output[m + q - 1]
      BY <2>4, <3>1, SubSeqProperties DEF m, n
    <3>4. \A q \in 1 .. n - m + 1 : output[m + q - 1] = text[m + q - 1]
      <4>1. \A q \in 1 .. n - m + 1 : m + q - 1 \in 1 .. n
        BY <2>2, <3>1 DEF m, n
      <4>2. \A q \in 1 .. n : output[q] = text[q]
        BY <2>3 DEF n
      <4>3. QED
        BY <4>1, <4>2
    <3>5. SubSeq(output, m, n) = SubSeq(text, m, n)
      BY <3>2, <3>3, <3>4, SeqEqual
    <3>6. QED
      BY <3>5 DEF m, n
  <2>6. QED
    BY <2>3, <2>5 DEF Original
<1>2. QED
  BY <1>1, TableSafety, SpliceSafety, PTL

-----------------------------------------------------------------------------
(* The contract: lists of pieces                                             *)

\* F has what FlattenSeq has after each piece
Flattens(F, S, s) ==
  /\ F \in [ 0 .. Len(s) -> Seq(S) ]
  /\ F[0] = << >> /\ Contract!FlattenSeq(s) = F[Len(s)]
  /\ \A p \in 1 .. Len(s) : F[p] = F[p - 1] \o s[p]

\* FlattenSeq appends the pieces from left to right.
LEMMA FlattenLoop ==
  ASSUME NEW S, NEW s \in Seq(Seq(S))
  PROVE  \E F : Flattens(F, S, s)
<1> DEFINE T == Seq(S)
           N == Len(s)
           b == << >>
           g == [ n \in 1 .. N |-> [ x \in T |-> x \o s[n] ] ]
           Loop(f) == f = [ i \in 1 .. N |-> IF i = 1 THEN s[i] ELSE f[i - 1] \o s[i] ]
<1>1. N \in Nat /\ b \in T /\ \A n \in 1 .. N : s[n] \in T
  BY ElementOfSeq
<1>2. \A x \in T : \A n \in 1 .. N : x \o s[n] \in T
  BY <1>1, ConcatProperties
<1>3. Contract!FlattenSeq(s) = IF N = 0 THEN s ELSE (CHOOSE f : Loop(f))[N]
  BY DEF Contract!FlattenSeq
<1>4. N = 0 => s = b
  BY EmptySeq
<1>5. s[1] = b \o s[1] \/ N = 0
  <2>1. CASE N # 0
    <3>1. s[1] \in Seq(S)
      BY <1>1, <2>1
    <3> QED
      BY <3>1, ConcatEmptySeq
  <2> QED
    BY <2>1
<1> HIDE DEF N, T
<1>6. Rounds(g, N, T) /\ \A x \in T : \A n \in 1 .. N : g[n][x] = x \o s[n]
  BY <1>2 DEF Rounds
<1> HIDE DEF g, b
<1>7. PICK F : Runs(F, N, T, b, g)
  BY <1>1, <1>6, LoopExists
<1>8. /\ F \in [ 0 .. N -> T ] /\ F[0] = b
      /\ \A n \in 1 .. N : F[n] = F[n - 1] \o s[n]
  <2>1. F \in [ 0 .. N -> T ] /\ F[0] = b /\ \A n \in 1 .. N : F[n] = g[n][F[n - 1]]
    BY <1>7 DEF Runs
  <2>2. \A n \in 1 .. N : n - 1 \in 0 .. N
    BY <1>1
  <2> QED
    BY <1>6, <2>1, <2>2
<1>9. CASE N = 0
  BY <1>3, <1>4, <1>8, <1>9 DEF Flattens, N, T, b
<1>10. CASE N # 0
  <2>0. F[1] = s[1]
    <3>1. 1 \in 1 .. N /\ 1 - 1 = 0
      BY <1>1, <1>10
    <3>2. F[1] = b \o s[1]
      BY <1>8, <3>1
    <3> QED
      BY <1>5, <1>10, <3>2
  <2>1. Loop([ i \in 1 .. N |-> F[i] ])
    <3>1. \A i \in 1 .. N : i # 1 => i - 1 \in 1 .. N
      BY <1>1
    <3>2. \A i \in 1 .. N : F[i] = IF i = 1 THEN s[i] ELSE F[i - 1] \o s[i]
      BY <1>8, <2>0
    <3> QED
      BY <3>1, <3>2
  <2>2. PICK f : Loop(f) /\ Contract!FlattenSeq(s) = f[N]
    <3> HIDE DEF Loop
    <3> QED
      BY <1>3, <1>10, <2>1
  <2>3. \A i \in 1 .. N : f[i] = IF i = 1 THEN s[i] ELSE f[i - 1] \o s[i]
    BY <2>2
  <2> DEFINE P == { n \in 0 .. N : n = 0 \/ f[n] = F[n] }
  <2>4. 0 \in P
    BY <1>1
  <2>5. ASSUME NEW n \in 1 .. N, n - 1 \in P PROVE n \in P
    <3>1. n \in 0 .. N
      BY <1>1
    <3>2. CASE n = 1
      <4>1. f[1] = s[1]
        BY <2>3, <3>2
      <4> QED
        BY <2>0, <3>1, <3>2, <4>1
    <3>3. CASE n # 1
      <4>1. f[n - 1] = F[n - 1]
        BY <2>5, <3>3
      <4> QED
        BY <1>8, <2>3, <3>1, <3>3, <4>1
    <3> QED
      BY <3>2, <3>3
  <2>6. \A n \in 0 .. N : n \in P
    <3> HIDE DEF P
    <3> QED
      BY <1>1, <2>4, <2>5, FromOneBefore
  <2>7. f[N] = F[N]
    BY <1>1, <1>10, <2>6
  <2> QED
    BY <1>8, <2>2, <2>7 DEF Flattens, N, T, b
<1> QED
  BY <1>9, <1>10

\* the splice of replace_entities: x in place of what stands from a to b
Spliced(s, a, x, b) == SubSeq(s, 1, a) \o << x >> \o SubSeq(s, b + 1, Len(s))

\* A part of a sequence: its type, its length and its elements
LEMMA SubSeqFacts ==
  ASSUME NEW S, NEW s \in Seq(S), NEW m \in Nat, NEW n \in Nat, 1 <= m, n <= Len(s)
  PROVE  /\ SubSeq(s, m, n) \in Seq(S)
         /\ Len(SubSeq(s, m, n)) = IF m <= n THEN n - m + 1 ELSE 0
         /\ \A q \in 1 .. n - m + 1 : SubSeq(s, m, n)[q] = s[m + q - 1]
<1>1. \A q \in m .. n : s[q] \in S
  <2>1. Len(s) \in Nat
    BY LenProperties
  <2>2. m .. n \subseteq 1 .. Len(s)
    BY <2>1
  <2> QED
    BY <2>2, ElementOfSeq
<1> QED
  BY <1>1, SubSeqProperties

\* What is appended behind a splice stays behind it.
LEMMA SpliceAppend ==
  ASSUME NEW S, NEW s \in Seq(S), NEW t \in Seq(S), NEW x \in S, NEW a \in Nat, NEW b \in Nat,
         a < b, b <= Len(s)
  PROVE  Spliced(s \o t, a, x, b) = Spliced(s, a, x, b) \o t
<1> DEFINE u == s \o t
           L == SubSeq(s, 1, a)
           R == SubSeq(s, b + 1, Len(s))
           M == SubSeq(u, b + 1, Len(u))
           y == << x >>
<1>1. /\ u \in Seq(S) /\ Len(u) = Len(s) + Len(t) /\ Len(s) \in Nat /\ Len(t) \in Nat
      /\ \A i \in 1 .. Len(s) + Len(t) : u[i] = IF i <= Len(s) THEN s[i] ELSE t[i - Len(s)]
  BY ConcatProperties, LenProperties
<1>2. y \in Seq(S)
  OBVIOUS
<1> HIDE DEF u, y
<1>3. /\ L \in Seq(S) /\ Len(L) = a /\ \A q \in 1 .. a : L[q] = s[q]
  <2>1. /\ L \in Seq(S) /\ Len(L) = (IF 1 <= a THEN a - 1 + 1 ELSE 0)
        /\ \A q \in 1 .. a - 1 + 1 : L[q] = s[1 + q - 1]
    BY <1>1, SubSeqFacts
  <2> HIDE DEF L
  <2> QED
    BY <2>1
<1>4. SubSeq(u, 1, a) = L
  <2> DEFINE K == SubSeq(u, 1, a)
  <2>1. /\ K \in Seq(S) /\ Len(K) = (IF 1 <= a THEN a - 1 + 1 ELSE 0)
        /\ \A q \in 1 .. a - 1 + 1 : K[q] = u[1 + q - 1]
    BY <1>1, SubSeqFacts
  <2> HIDE DEF K, L
  <2>2. Len(K) = a /\ \A q \in 1 .. a : K[q] = u[q]
    BY <2>1
  <2>4. \A q \in 1 .. a : u[q] = s[q]
    <3>1. \A q \in 1 .. a : q \in 1 .. Len(s) + Len(t) /\ q <= Len(s)
      BY <1>1
    <3> QED
      BY <1>1, <3>1
  <2>3. K = L
    BY <1>3, <2>1, <2>2, <2>4, SeqEqual
  <2> QED
    BY <2>3 DEF K
<1>5. /\ R \in Seq(S) /\ Len(R) = Len(s) - b /\ \A q \in 1 .. Len(s) - b : R[q] = s[b + q]
  <2>1. /\ R \in Seq(S) /\ Len(R) = (IF b + 1 <= Len(s) THEN Len(s) - (b + 1) + 1 ELSE 0)
        /\ \A q \in 1 .. Len(s) - (b + 1) + 1 : R[q] = s[(b + 1) + q - 1]
    BY <1>1, SubSeqFacts
  <2> HIDE DEF R
  <2> QED
    BY <1>1, <2>1
<1>6. /\ M \in Seq(S) /\ Len(M) = Len(u) - b /\ \A q \in 1 .. Len(u) - b : M[q] = u[b + q]
  <2>1. /\ M \in Seq(S) /\ Len(M) = (IF b + 1 <= Len(u) THEN Len(u) - (b + 1) + 1 ELSE 0)
        /\ \A q \in 1 .. Len(u) - (b + 1) + 1 : M[q] = u[(b + 1) + q - 1]
    BY <1>1, SubSeqFacts
  <2> HIDE DEF M
  <2> QED
    BY <1>1, <2>1
<1> HIDE DEF L, R, M
<1>7. M = R \o t
  <2>1. /\ R \o t \in Seq(S) /\ Len(R \o t) = Len(R) + Len(t)
        /\ \A i \in 1 .. Len(R) + Len(t) : (R \o t)[i] = IF i <= Len(R) THEN R[i] ELSE t[i - Len(R)]
    BY <1>5, ConcatProperties
  <2>2. Len(M) = Len(R \o t)
    BY <1>1, <1>5, <1>6, <2>1
  <2>3. ASSUME NEW i \in 1 .. Len(M) PROVE M[i] = (R \o t)[i]
    <3>1. M[i] = u[b + i] /\ b + i \in 1 .. Len(s) + Len(t)
      BY <1>1, <1>6
    <3>2. CASE i <= Len(R)
      BY <1>1, <1>5, <2>1, <2>2, <3>1, <3>2
    <3>3. CASE ~(i <= Len(R))
      <4>1. (b + i) - Len(s) = i - Len(R) /\ ~(b + i <= Len(s))
        BY <1>1, <1>5, <3>3
      <4> QED
        BY <1>1, <2>1, <2>2, <3>1, <3>3, <4>1
    <3> QED
      BY <3>2, <3>3
  <2> QED
    BY <1>6, <2>1, <2>2, <2>3, SeqEqual
<1>8. (L \o y) \o (R \o t) = ((L \o y) \o R) \o t
  <2> DEFINE z == L \o y
  <2>1. z \in Seq(S)
    BY <1>2, <1>3, ConcatProperties
  <2> HIDE DEF z
  <2>2. R \in Seq(S) /\ t \in Seq(S)
    BY <1>5
  <2>3. (z \o R) \o t = z \o (R \o t)
    BY ONLY <2>1, <2>2, ConcatAssociative
  <2> QED
    BY <2>3 DEF z
<1> QED
  BY <1>4, <1>7, <1>8 DEF Spliced, u, y, L, R, M

\* the same for the first n elements
LEMMA PrefixFacts ==
  ASSUME NEW S, NEW s \in Seq(S), NEW n \in Nat, n <= Len(s)
  PROVE  /\ SubSeq(s, 1, n) \in Seq(S) /\ Len(SubSeq(s, 1, n)) = n
         /\ \A q \in 1 .. n : SubSeq(s, 1, n)[q] = s[q]
<1> DEFINE A == SubSeq(s, 1, n)
<1>1. /\ A \in Seq(S) /\ Len(A) = (IF 1 <= n THEN n - 1 + 1 ELSE 0)
      /\ \A q \in 1 .. n - 1 + 1 : A[q] = s[1 + q - 1]
  BY SubSeqFacts
<1> HIDE DEF A
<1>2. A \in Seq(S) /\ Len(A) = n /\ \A q \in 1 .. n : A[q] = s[q]
  BY <1>1
<1> QED
  BY <1>2 DEF A

\* A prefix with one more element
LEMMA PrefixAppend ==
  ASSUME NEW S, NEW s \in Seq(S), NEW n \in 1 .. Len(s)
  PROVE  SubSeq(s, 1, n) = SubSeq(s, 1, n - 1) \o << s[n] >>
<1> DEFINE A == SubSeq(s, 1, n)
           B == SubSeq(s, 1, n - 1)
           y == << s[n] >>
<1>1. Len(s) \in Nat /\ n \in Nat /\ n - 1 \in Nat /\ s[n] \in S /\ n <= Len(s)
  BY LenProperties, ElementOfSeq
<1>2. y \in Seq(S) /\ Len(y) = 1 /\ y[1] = s[n]
  BY <1>1
<1>3. A \in Seq(S) /\ Len(A) = n /\ \A q \in 1 .. n : A[q] = s[q]
  <2>1. /\ A \in Seq(S) /\ Len(A) = (IF 1 <= n THEN n - 1 + 1 ELSE 0)
        /\ \A q \in 1 .. n - 1 + 1 : A[q] = s[1 + q - 1]
    BY <1>1, SubSeqFacts
  <2> HIDE DEF A
  <2> QED
    BY <1>1, <2>1
<1>4. B \in Seq(S) /\ Len(B) = n - 1 /\ \A q \in 1 .. n - 1 : B[q] = s[q]
  <2> DEFINE m == n - 1
  <2>1. m \in Nat /\ m <= Len(s)
    BY <1>1
  <2> HIDE DEF m
  <2>2. /\ SubSeq(s, 1, m) \in Seq(S) /\ Len(SubSeq(s, 1, m)) = (IF 1 <= m THEN m - 1 + 1 ELSE 0)
        /\ \A q \in 1 .. m - 1 + 1 : SubSeq(s, 1, m)[q] = s[1 + q - 1]
    BY <2>1, SubSeqFacts
  <2>3. SubSeq(s, 1, m) \in Seq(S) /\ Len(SubSeq(s, 1, m)) = m /\ \A q \in 1 .. m : SubSeq(s, 1, m)[q] = s[q]
    BY <2>1, <2>2
  <2> QED
    BY <2>3 DEF m
<1> HIDE DEF A, B, y
<1>5. /\ B \o y \in Seq(S) /\ Len(B \o y) = Len(B) + Len(y)
      /\ \A i \in 1 .. Len(B) + Len(y) : (B \o y)[i] = IF i <= Len(B) THEN B[i] ELSE y[i - Len(B)]
  BY <1>2, <1>4, ConcatProperties
<1>6. ASSUME NEW q \in 1 .. n PROVE A[q] = (B \o y)[q]
  <2>1. CASE q = n
    <3>1. q \in 1 .. Len(B) + Len(y) /\ ~(q <= Len(B)) /\ q - Len(B) = 1
      BY <1>1, <1>2, <1>4, <2>1
    <3> QED
      BY <1>2, <1>3, <1>5, <2>1, <3>1
  <2>2. CASE q # n
    <3>1. q \in 1 .. Len(B) + Len(y) /\ q <= Len(B) /\ q \in 1 .. n - 1
      BY <1>1, <1>2, <1>4, <2>2
    <3> QED
      BY <1>3, <1>4, <1>5, <3>1
  <2> QED
    BY <2>1, <2>2
<1>7. A = B \o y
  <2>1. Len(A) = Len(B \o y)
    BY <1>1, <1>2, <1>3, <1>4, <1>5
  <2> QED
    BY <1>3, <1>5, <1>6, <2>1, SeqEqual
<1> QED
  BY <1>7 DEF A, B, y

-----------------------------------------------------------------------------
(* The contract: pieces of the output                                        *)

\* The contract's PieceAt, with the placeholders of the code's table
Piece(D, p) ==
  IF \E i \in D : Start(i) + 1 = p
  THEN << placeholderOf[CHOOSE i \in D : Start(i) + 1 = p] >>
  ELSE IF \E i \in D : Start(i) < p /\ p <= End(i)
       THEN << >>
       ELSE << text[p] >>

Pieces(D) == [ p \in 1 .. Len(text) |-> Piece(D, p) ]

\* The pieces are texts, one for each position.
LEMMA PieceTypes ==
  ASSUME TablesOK, NEW D, D \subseteq DOMAIN placeholderOf
  PROVE  /\ Pieces(D) \in Seq(Seq(Symbols \cup Placeholder)) /\ Len(Pieces(D)) = Len(text)
         /\ \A p \in 1 .. Len(text) : Pieces(D)[p] = Piece(D, p)
<1> DEFINE S == Symbols \cup Placeholder
<1>1. text \in Seq(Symbols) /\ Len(text) \in Nat
  BY TextAssumption, LenProperties DEF TablesOK
<1>2. ASSUME NEW p \in 1 .. Len(text) PROVE Piece(D, p) \in Seq(S)
  <2>1. text[p] \in S
    BY <1>1, ElementOfSeq
  <2>2. CASE \E i \in D : Start(i) + 1 = p
    <3>1. placeholderOf[CHOOSE i \in D : Start(i) + 1 = p] \in Placeholder
      BY <2>2 DEF TablesOK
    <3>2. Piece(D, p) = << placeholderOf[CHOOSE i \in D : Start(i) + 1 = p] >>
      BY <2>2 DEF Piece
    <3> QED
      BY <3>1, <3>2
  <2>3. CASE ~\E i \in D : Start(i) + 1 = p
    <3>1. Piece(D, p) = << >> \/ Piece(D, p) = << text[p] >>
      BY <2>3 DEF Piece
    <3>2. << >> \in Seq(S) /\ << text[p] >> \in Seq(S)
      BY <2>1
    <3> QED
      BY <3>1, <3>2
  <2> QED
    BY <2>2, <2>3
<1> HIDE DEF S
<1>3. Pieces(D) \in [ 1 .. Len(text) -> Seq(S) ]
  BY <1>2 DEF Pieces
<1>4. Pieces(D) \in Seq(Seq(S)) /\ Len(Pieces(D)) = Len(text)
  BY <1>1, <1>3, SeqDef
<1> QED
  BY <1>4 DEF Pieces, S

\* Two kept entities that start at one place are the same.
LEMMA OneStart ==
  ASSUME TablesOK, AcceptedDisjoint, NEW i \in accepted, NEW j \in accepted, Start(i) = Start(j)
  PROVE  i = j
<1>1. i \in DOMAIN results /\ j \in DOMAIN results
  BY DEF TablesOK
<1>2. Start(i) \in Covers(i) /\ Start(j) \in Covers(j)
  BY <1>1, EntityFacts DEF Covers
<1> QED
  BY <1>2 DEF AcceptedDisjoint

\* Where a replaced span starts stands its placeholder.
LEMMA PieceOf ==
  ASSUME TablesOK, AcceptedDisjoint, NEW D \in SUBSET accepted, NEW i \in D
  PROVE  Piece(D, Start(i) + 1) = << placeholderOf[i] >>
<1>1. \A j \in D : Start(j) \in Nat
  BY EntityFacts DEF TablesOK
<1>2. \A j \in D : Start(j) + 1 = Start(i) + 1 => j = i
  BY <1>1, OneStart
<1>3. (CHOOSE j \in D : Start(j) + 1 = Start(i) + 1) = i
  BY <1>2
<1> QED
  BY <1>3 DEF Piece

\* F has the output after each position of the text
Outputs(F, D) ==
  /\ F \in [ 0 .. Len(text) -> Seq(Symbols \cup Placeholder) ]
  /\ F[0] = << >> /\ Contract!FlattenSeq(Pieces(D)) = F[Len(text)]
  /\ \A p \in 1 .. Len(text) : F[p] = F[p - 1] \o Piece(D, p)

\* The output is built from left to right.
LEMMA OutputLoop ==
  ASSUME TablesOK, NEW D, D \subseteq DOMAIN placeholderOf
  PROVE  \E F : Outputs(F, D)
<1> DEFINE s == Pieces(D)
           S == Symbols \cup Placeholder
<1>1. s \in Seq(Seq(S)) /\ Len(s) = Len(text) /\ \A p \in 1 .. Len(text) : s[p] = Piece(D, p)
  BY PieceTypes
<1> HIDE DEF s, S
<1>2. PICK F : Flattens(F, S, s)
  BY <1>1, FlattenLoop
<1>3. /\ F \in [ 0 .. Len(text) -> Seq(S) ]
      /\ F[0] = << >> /\ Contract!FlattenSeq(s) = F[Len(text)]
      /\ \A p \in 1 .. Len(text) : F[p] = F[p - 1] \o s[p]
  BY <1>1, <1>2 DEF Flattens
<1>4. \A p \in 1 .. Len(text) : F[p] = F[p - 1] \o Piece(D, p)
  <2> TAKE p \in 1 .. Len(text)
  <2>1. s[p] = Piece(D, p) /\ F[p] = F[p - 1] \o s[p]
    BY <1>1, <1>3
  <2> QED
    BY ONLY <2>1
<1> QED
  BY <1>3, <1>4 DEF Outputs, s, S

\* Up to the first span the output is the text.
LEMMA OutputPrefix ==
  ASSUME TablesOK, NEW D, NEW F, Outputs(F, D),
         NEW m \in 0 .. Len(text), \A p \in 1 .. m : Piece(D, p) = << text[p] >>
  PROVE  \A p \in 0 .. m : F[p] = SubSeq(text, 1, p)
<1> DEFINE P == { p \in 0 .. m : F[p] = SubSeq(text, 1, p) }
<1>1. text \in Seq(Symbols) /\ Len(text) \in Nat /\ m \in Nat /\ m <= Len(text)
  BY TextAssumption, LenProperties DEF TablesOK
<1>2. F[0] = << >> /\ \A p \in 1 .. Len(text) : F[p] = F[p - 1] \o Piece(D, p)
  BY DEF Outputs
<1>3. 0 \in P
  <2>1. SubSeq(text, 1, 0) = << >>
    BY SubSeqEmpty
  <2>2. F[0] = SubSeq(text, 1, 0)
    BY <1>2, <2>1
  <2> QED
    BY <1>1, <2>2
<1>4. ASSUME NEW p \in 1 .. m, p - 1 \in P PROVE p \in P
  <2>1. p \in 1 .. Len(text) /\ p \in 0 .. m
    BY <1>1
  <2>2. F[p] = F[p - 1] \o Piece(D, p) /\ Piece(D, p) = << text[p] >>
    BY <1>2, <2>1
  <2>3. F[p - 1] = SubSeq(text, 1, p - 1)
    BY <1>4
  <2>4. SubSeq(text, 1, p) = SubSeq(text, 1, p - 1) \o << text[p] >>
    BY <1>1, <2>1, PrefixAppend
  <2> QED
    BY <2>1, <2>2, <2>3, <2>4
<1>5. \A p \in 0 .. m : p \in P
  <2> HIDE DEF P
  <2> QED
    BY <1>1, <1>3, <1>4, FromOneBefore
<1> QED
  BY <1>5

\* One more entity, to the left of all that are replaced, is one more splice.
LEMMA OutputSplice ==
  ASSUME TablesOK, AcceptedDisjoint, NEW D \in SUBSET accepted, NEW i \in accepted, i \notin D,
         D \cup {i} \subseteq DOMAIN placeholderOf, \A j \in D : End(i) <= Start(j)
  PROVE  Contract!FlattenSeq(Pieces(D \cup {i}))
           = Spliced(Contract!FlattenSeq(Pieces(D)), Start(i), placeholderOf[i], End(i))
<1> DEFINE a == Start(i)
           b == End(i)
           x == placeholderOf[i]
           N == Len(text)
           C == D \cup {i}
           S == Symbols \cup Placeholder
<1>1. /\ a \in Nat /\ b \in Nat /\ a < b /\ b <= N /\ N \in Nat
      /\ text \in Seq(Symbols) /\ C \in SUBSET accepted
  BY EntityFacts DEF TablesOK
<1>2. x \in S
  BY DEF TablesOK
<1>3. \A j \in D : Start(j) \in Nat /\ End(j) \in Nat /\ b <= Start(j) /\ Start(j) < End(j)
  BY EntityFacts DEF TablesOK
<1>4. \A p \in 1 .. b : Piece(D, p) = << text[p] >>
  BY <1>1, <1>3 DEF Piece
<1>5. \A p \in 1 .. a : Piece(C, p) = << text[p] >>
  BY <1>1, <1>3 DEF Piece
<1>6. Piece(C, a + 1) = << x >>
  BY <1>1, PieceOf
<1>7. \A p \in a + 2 .. b : Piece(C, p) = << >>
  <2> TAKE p \in a + 2 .. b
  <2>1. ~\E j \in C : Start(j) + 1 = p
    BY <1>1, <1>3
  <2>2. Start(i) < p /\ p <= End(i)
    BY <1>1
  <2> QED
    BY <2>1, <2>2 DEF Piece
<1>8. \A p \in b + 1 .. N : Piece(C, p) = Piece(D, p)
  <2> TAKE p \in b + 1 .. N
  <2>1. Start(i) + 1 # p /\ ~(p <= End(i))
    BY <1>1
  <2>2. CASE \E j \in D : Start(j) + 1 = p
    <3>1. PICK j \in D : Start(j) + 1 = p
      BY <2>2
    <3>2. Piece(D, Start(j) + 1) = << placeholderOf[j] >>
      BY PieceOf
    <3>3. Piece(C, Start(j) + 1) = << placeholderOf[j] >>
      BY <1>1, PieceOf
    <3> QED
      BY <3>1, <3>2, <3>3
  <2>3. CASE ~\E j \in D : Start(j) + 1 = p
    BY <2>1, <2>3 DEF Piece
  <2> QED
    BY <2>2, <2>3
<1> HIDE DEF a, b, x, N, C, S
<1>9. PICK F : Outputs(F, D)
  BY OutputLoop
<1>10. PICK G : Outputs(G, C)
  BY OutputLoop DEF C
<1>11. /\ F \in [ 0 .. N -> Seq(S) ] /\ Contract!FlattenSeq(Pieces(D)) = F[N]
       /\ \A p \in 1 .. N : F[p] = F[p - 1] \o Piece(D, p)
  BY <1>9 DEF Outputs, N, S
<1>12. /\ G \in [ 0 .. N -> Seq(S) ] /\ Contract!FlattenSeq(Pieces(C)) = G[N]
       /\ \A p \in 1 .. N : G[p] = G[p - 1] \o Piece(C, p)
  BY <1>10 DEF Outputs, N, S
<1>13. F[b] = SubSeq(text, 1, b)
  <2>1. b \in 0 .. Len(text) /\ b \in 0 .. b
    BY <1>1 DEF N
  <2> QED
    BY <1>4, <1>9, <2>1, OutputPrefix
<1>14. G[a] = SubSeq(text, 1, a)
  <2>1. a \in 0 .. Len(text) /\ a \in 0 .. a
    BY <1>1 DEF N
  <2> QED
    BY <1>5, <1>10, <2>1, OutputPrefix
<1>15. G[b] = SubSeq(text, 1, a) \o << x >>
  <2> DEFINE A == SubSeq(text, 1, a)
             P == { p \in 0 .. b : p > a => G[p] = A \o << x >> }
  <2>1. A \in Seq(Symbols)
    <3>1. a <= Len(text)
      BY <1>1 DEF N
    <3> QED
      BY <1>1, <3>1, SubSeqFacts
  <2>2. A \o << x >> \in Seq(S)
    <3>1. A \in Seq(S)
      BY <2>1, SeqMonotonic DEF S
    <3>2. << x >> \in Seq(S)
      BY <1>2
    <3> QED
      BY <3>1, <3>2, ConcatProperties
  <2> HIDE DEF A
  <2>3. 0 \in P
    BY <1>1
  <2>4. ASSUME NEW p \in 1 .. b, p - 1 \in P PROVE p \in P
    <3>1. p \in 0 .. b /\ p \in 1 .. N
      BY <1>1
    <3>2. CASE p = a + 1
      <4>1. G[p] = G[p - 1] \o Piece(C, p)
        BY <1>12, <3>1
      <4>2. p - 1 = a /\ Piece(C, p) = << x >>
        BY <1>1, <1>6, <3>2
      <4>3. G[p] = A \o << x >>
        BY <1>14, <4>1, <4>2 DEF A
      <4> QED
        BY <3>1, <4>3
    <3>3. CASE p > a + 1
      <4>1. G[p] = G[p - 1] \o Piece(C, p)
        BY <1>12, <3>1
      <4>2. Piece(C, p) = << >> /\ p - 1 > a
        BY <1>1, <1>7, <3>1, <3>3
      <4>3. G[p] = (A \o << x >>) \o << >>
        BY <2>4, <4>1, <4>2
      <4>4. (A \o << x >>) \o << >> = A \o << x >>
        BY <2>2, ConcatEmptySeq
      <4> QED
        BY <3>1, <4>3, <4>4
    <3>4. CASE ~(p > a)
      BY <3>1, <3>4
    <3> QED
      BY <1>1, <3>2, <3>3, <3>4
  <2>5. \A p \in 0 .. b : p \in P
    <3> HIDE DEF P
    <3> QED
      BY <1>1, <2>3, <2>4, FromOneBefore
  <2>6. b \in P /\ b > a
    BY <1>1, <2>5
  <2> QED
    BY <2>6 DEF A
<1>16. Len(F[b]) = b /\ G[b] = Spliced(F[b], a, x, b)
  <2> DEFINE B == F[b]
  <2>1. text \in Seq(S) /\ a <= Len(text) /\ b <= Len(text)
    BY <1>1, SeqMonotonic DEF N, S
  <2>2. B = SubSeq(text, 1, b)
    BY <1>13
  <2> HIDE DEF B
  <2>3. B \in Seq(S) /\ Len(B) = b /\ \A q \in 1 .. b : B[q] = text[q]
    BY <1>1, <2>1, <2>2, PrefixFacts
  <2>4. SubSeq(text, 1, a) \in Seq(S) /\ Len(SubSeq(text, 1, a)) = a
        /\ \A q \in 1 .. a : SubSeq(text, 1, a)[q] = text[q]
    BY <1>1, <2>1, PrefixFacts
  <2>5. SubSeq(B, 1, a) \in Seq(S) /\ Len(SubSeq(B, 1, a)) = a
        /\ \A q \in 1 .. a : SubSeq(B, 1, a)[q] = B[q]
    <3>1. a <= Len(B)
      BY <1>1, <2>3
    <3> QED
      BY <1>1, <2>3, <3>1, PrefixFacts
  <2>6. \A q \in 1 .. a : B[q] = text[q]
    BY <1>1, <2>3
  <2>7. SubSeq(B, 1, a) = SubSeq(text, 1, a)
    <3> DEFINE K == SubSeq(B, 1, a)
               L == SubSeq(text, 1, a)
    <3>1. /\ K \in Seq(S) /\ Len(K) = a /\ L \in Seq(S) /\ Len(L) = a
          /\ \A q \in 1 .. a : K[q] = L[q]
      BY <2>4, <2>5, <2>6
    <3> HIDE DEF K, L
    <3>2. K = L
      BY <3>1, SeqEqual
    <3> QED
      BY <3>2 DEF K, L
  <2>8. SubSeq(B, b + 1, Len(B)) = << >>
    BY <1>1, <2>3, SubSeqEmpty
  <2>9. (SubSeq(text, 1, a) \o << x >>) \o << >> = SubSeq(text, 1, a) \o << x >>
    <3> DEFINE y == SubSeq(text, 1, a) \o << x >>
    <3>1. << x >> \in Seq(S)
      BY <1>2
    <3>2. y \in Seq(S)
      BY <2>4, <3>1, ConcatProperties
    <3> HIDE DEF y
    <3>3. y \o << >> = y
      BY <3>2, ConcatEmptySeq
    <3> QED
      BY <3>3 DEF y
  <2>10. Spliced(B, a, x, b) = SubSeq(text, 1, a) \o << x >>
    BY <2>7, <2>8, <2>9 DEF Spliced
  <2> QED
    BY <1>15, <2>3, <2>10 DEF B
<1>17. F[N] \in Seq(S) /\ G[N] = Spliced(F[N], a, x, b)
  <2> DEFINE P == { p \in 0 .. N : p >= b => b <= Len(F[p]) /\ G[p] = Spliced(F[p], a, x, b) }
  <2>1. 0 \in P
    BY <1>1
  <2>2. ASSUME NEW p \in 1 .. N, p - 1 \in P PROVE p \in P
    <3>1. p \in 0 .. N /\ p - 1 \in 0 .. N
      BY <1>1
    <3>2. CASE p = b
      BY <1>1, <1>16, <3>1, <3>2
    <3>3. CASE p > b
      <4> DEFINE s == F[p - 1]
                 t == Piece(D, p)
      <4>1. p - 1 >= b /\ p \in b + 1 .. N
        BY <1>1, <3>3
      <4>2. s \in Seq(S) /\ b <= Len(s) /\ G[p - 1] = Spliced(s, a, x, b)
        BY <1>11, <2>2, <3>1, <4>1
      <4>3. t \in Seq(S)
        <5>1. /\ Pieces(D) \in Seq(Seq(S)) /\ Len(Pieces(D)) = N
              /\ \A q \in 1 .. N : Pieces(D)[q] = Piece(D, q)
          BY PieceTypes DEF S, N
        <5>2. Pieces(D)[p] \in Seq(S)
          BY <5>1, ElementOfSeq
        <5> QED
          BY <5>1, <5>2
      <4>4. F[p] = s \o t /\ G[p] = Spliced(s, a, x, b) \o t
        <5>1. F[p] = s \o t
          BY <1>11
        <5>2. G[p] = G[p - 1] \o Piece(C, p) /\ Piece(C, p) = t
          BY <1>8, <1>12, <4>1
        <5> QED
          BY <4>2, <5>1, <5>2
      <4> HIDE DEF s, t
      <4>5. Spliced(s \o t, a, x, b) = Spliced(s, a, x, b) \o t
        BY <1>1, <1>2, <4>2, <4>3, SpliceAppend
      <4>6. Len(s \o t) = Len(s) + Len(t) /\ Len(s) \in Nat /\ Len(t) \in Nat
        BY <4>2, <4>3, ConcatProperties, LenProperties
      <4>7. b <= Len(F[p]) /\ G[p] = Spliced(F[p], a, x, b)
        <5>1. b <= Len(s \o t)
          BY <1>1, <4>2, <4>6
        <5> QED
          BY <4>4, <4>5, <5>1
      <4> QED
        BY <3>1, <4>7
    <3>4. CASE ~(p >= b)
      BY <3>1, <3>4
    <3> QED
      BY <1>1, <3>2, <3>3, <3>4
  <2>3. \A p \in 0 .. N : p \in P
    <3> HIDE DEF P
    <3> QED
      BY <1>1, <2>1, <2>2, FromOneBefore
  <2>4. N \in P /\ N >= b /\ N \in 0 .. N
    BY <1>1, <2>3
  <2> QED
    BY <1>11, <2>4
<1> QED
  BY <1>11, <1>12, <1>17 DEF a, b, x, C

-----------------------------------------------------------------------------
(* The contract: numbers                                                     *)

\* The first entity with the text and type of i
LEMMA FirstExists ==
  ASSUME TablesOK, NEW K \in SUBSET DOMAIN results, NEW i \in K
  PROVE  LET f == Contract!FirstOf(K, i) IN
         f \in K /\ Key(f) = Key(i) /\ \A k \in K : Key(k) = Key(i) => Start(f) <= Start(k)
<1> DEFINE Like == { k \in K : Key(k) = Key(i) }
           S == { Start(k) : k \in Like }
<1>1. \A k \in K : Start(k) \in Nat
  BY EntityFacts
<1>2. S \in SUBSET Nat /\ S # {}
  BY <1>1
<1>3. PICK m \in S : \A n \in S : m <= n
  <2> HIDE DEF S
  <2> QED
    BY <1>2, LeastExists
<1>4. PICK f \in Like : Start(f) = m
  BY <1>3
<1>5. f \in K /\ Key(f) = Key(i) /\ \A k \in K : Key(k) = Key(i) => Start(f) <= Start(k)
  BY <1>3, <1>4
<1>6. \A j, k : Contract!Same(j, k) <=> Key(j) = Key(k)
  BY DEF Contract!Same, Contract!TextOf, Key, Type, Original, Start, End
<1>7. Contract!FirstOf(K, i) =
        CHOOSE j \in K : Contract!Same(i, j) /\ \A k \in K : Contract!Same(i, k) => Start(j) <= Start(k)
  BY DEF Contract!FirstOf, Start
<1>8. LET g == Contract!FirstOf(K, i) IN
      g \in K /\ Contract!Same(i, g) /\ \A k \in K : Contract!Same(i, k) => Start(g) <= Start(k)
  BY <1>5, <1>6, <1>7
<1> QED
  BY <1>6, <1>8

\* Size means the same in the contract's module.
LEMMA SameCardinality == ASSUME NEW S PROVE Contract!Cardinality(S) = Cardinality(S)
BY DEF Contract!Cardinality, Cardinality

\* The number of a placeholder is how many texts of its type begin no further right
\* than the first of its own.
LEMMA NumberIsRank ==
  ASSUME TablesOK, AcceptedDisjoint, NumberInv, DOMAIN placeholderOf = accepted, NEW i \in accepted
  PROVE  placeholderOf[i] = Contract!NameIn(accepted, i)
<1> DEFINE K == accepted
           f == Contract!FirstOf(K, i)
           n == placeholderOf[i].n
           T == Type(i)
           Upto == { k \in K : Type(k) = T /\ Start(k) <= Start(f) }
           S == { Original(j) : j \in Upto }
           Named(m) == [ type |-> T, n |-> m ]
<1>1. K \in SUBSET DOMAIN results /\ \A k \in K : Start(k) \in Nat
  BY EntityFacts DEF TablesOK
<1>2. f \in K /\ Key(f) = Key(i) /\ \A k \in K : Key(k) = Key(i) => Start(f) <= Start(k)
  BY <1>1, FirstExists
<1>3. /\ \A j, k \in K : placeholderOf[j] = placeholderOf[k] <=> Key(j) = Key(k)
      /\ \A k \in K : /\ placeholderOf[k] \in Placeholder /\ placeholderOf[k].type = Type(k)
                      /\ placeholderOf[k] \in DOMAIN mappings
                      /\ mappings[placeholderOf[k]] = Original(k)
  BY NumbersConsistent DEF PlaceholdersConsistent, TablesOK, Key
<1>4. \A k \in K : \A m \in 1 .. placeholderOf[k].n - 1 :
        \E j \in K : placeholderOf[j] = [ type |-> Type(k), n |-> m ] /\ Start(j) < Start(k)
  BY DEF NumberInv, NumberedLeftToRight
<1>5. \A k \in K : /\ placeholderOf[k].n \in Nat \ {0}
                  /\ placeholderOf[k] = [ type |-> Type(k), n |-> placeholderOf[k].n ]
  BY <1>3 DEF Placeholder
<1>6. n \in Nat /\ placeholderOf[f] = placeholderOf[i] /\ Type(f) = T /\ placeholderOf[f].n = n
  BY <1>2, <1>3, <1>5 DEF Key
<1> HIDE DEF K, f, n, T
<1>7. ASSUME NEW m \in 1 .. n PROVE \E j \in Upto : placeholderOf[j] = Named(m)
  <2>1. CASE m = n
    <3>1. f \in Upto
      BY <1>1, <1>2, <1>6
    <3>2. placeholderOf[f] = Named(n)
      BY <1>2, <1>5, <1>6
    <3> QED
      BY <2>1, <3>1, <3>2
  <2>2. CASE m # n
    <3>1. m \in 1 .. placeholderOf[f].n - 1
      BY <1>6, <2>2
    <3>2. PICK j \in K : placeholderOf[j] = [ type |-> Type(f), n |-> m ] /\ Start(j) < Start(f)
      BY <1>2, <1>4, <3>1
    <3>3. Type(j) = T /\ placeholderOf[j] = Named(m)
      BY <1>3, <1>6, <3>2
    <3>4. Start(j) <= Start(f)
      BY <1>1, <1>2, <3>2
    <3> QED
      BY <3>3, <3>4
  <2> QED
    BY <2>1, <2>2
<1>8. ASSUME NEW j \in Upto PROVE placeholderOf[j].n \in 1 .. n
  <2>1. j \in K /\ Type(j) = T /\ Start(j) <= Start(f)
    OBVIOUS
  <2>2. placeholderOf[j].n \in Nat \ {0}
    BY <1>5, <2>1
  <2>3. ASSUME placeholderOf[j].n > n PROVE FALSE
    <3>1. n \in 1 .. placeholderOf[j].n - 1
      <4>1. n \in Nat \ {0}
        BY <1>2, <1>5, <1>6
      <4> QED
        BY <2>2, <2>3, <4>1
    <3>2. PICK k \in K : placeholderOf[k] = [ type |-> Type(j), n |-> n ] /\ Start(k) < Start(j)
      BY <1>4, <2>1, <3>1
    <3>3. placeholderOf[k] = placeholderOf[f]
      BY <1>2, <1>5, <1>6, <2>1, <3>2
    <3>4. Key(k) = Key(i)
      BY <1>2, <1>3, <3>3
    <3>5. Start(f) <= Start(k)
      BY <1>2, <3>4
    <3> QED
      BY <1>1, <1>2, <2>1, <3>2, <3>5
  <2> QED
    BY <1>6, <2>2, <2>3
<1> DEFINE h == [ m \in 1 .. n |-> mappings[Named(m)] ]
<1>9. h \in Bijection(1 .. n, S)
  <2>1. \A m \in 1 .. n : h[m] \in S
    <3> TAKE m \in 1 .. n
    <3>1. PICK j \in Upto : placeholderOf[j] = Named(m)
      BY <1>7
    <3>2. mappings[placeholderOf[j]] = Original(j)
      BY <1>3
    <3> QED
      BY <3>1, <3>2
  <2>2. ASSUME NEW l \in 1 .. n, NEW m \in 1 .. n, h[l] = h[m] PROVE l = m
    <3>1. PICK j \in Upto : placeholderOf[j] = Named(l)
      BY <1>7
    <3>2. PICK k \in Upto : placeholderOf[k] = Named(m)
      BY <1>7
    <3>3. Original(j) = Original(k) /\ Type(j) = Type(k)
      BY <1>3, <2>2, <3>1, <3>2
    <3>4. Named(l) = Named(m)
      BY <1>3, <3>1, <3>2, <3>3 DEF Key
    <3>5. Named(l).n = l /\ Named(m).n = m
      OBVIOUS
    <3> HIDE DEF Named
    <3> QED
      BY <3>4, <3>5
  <2>3. ASSUME NEW s \in S PROVE \E m \in 1 .. n : h[m] = s
    <3>1. PICK j \in Upto : s = Original(j)
      BY <2>3
    <3> DEFINE m == placeholderOf[j].n
    <3>2. m \in 1 .. n /\ placeholderOf[j] = Named(m)
      BY <1>5, <1>8
    <3>3. h[m] = s
      BY <1>3, <3>1, <3>2
    <3> QED
      BY <3>2, <3>3
  <2> HIDE DEF h, S
  <2>4. h \in Injection(1 .. n, S) /\ h \in Surjection(1 .. n, S)
    <3>1. h = [ m \in 1 .. n |-> h[m] ]
      BY DEF h
    <3>2. h \in [ 1 .. n -> S ]
      BY <2>1, <3>1
    <3> QED
      BY <2>2, <2>3, <3>2 DEF Injection, Surjection, IsInjective
  <2> QED
    BY <2>4 DEF Bijection
<1>10. Cardinality(S) = n
  <2> HIDE DEF S, h
  <2>1. ExistsBijection(1 .. n, S)
    BY <1>9 DEF ExistsBijection
  <2> QED
    BY <1>6, <2>1, FS_CountingElements
<1>11. Contract!NumberIn(K, i) = Cardinality(S)
  <2> DEFINE U == { k \in K : results[k].entity_type = results[i].entity_type
                             /\ results[k].start <= results[Contract!FirstOf(K, i)].start }
             V == { Contract!TextOf(j) : j \in U }
  <2>1. Contract!NumberIn(K, i) = Cardinality(V)
    BY SameCardinality DEF Contract!NumberIn
  <2>2. U = Upto
    BY DEF Type, Start, f, T
  <2>3. \A j : Contract!TextOf(j) = Original(j)
    BY DEF Contract!TextOf, Original, Start, End
  <2> HIDE DEF U, Upto
  <2>4. V = S
    BY <2>2, <2>3
  <2> QED
    BY ONLY <2>1, <2>4
<1>12. Contract!NameIn(K, i) = Named(n)
  BY <1>10, <1>11 DEF Contract!NameIn, T, Type
<1>13. placeholderOf[i] = Named(n)
  BY <1>5 DEF n, T, K
<1> QED
  BY <1>12, <1>13 DEF K

-----------------------------------------------------------------------------
(* The output while the splices run                                          *)

\* the text with the spans of D replaced
Replaced(D) == Contract!FlattenSeq(Pieces(D))

\* With nothing replaced it is the text.
LEMMA NothingReplaced ==
  ASSUME TablesOK
  PROVE  Replaced({}) = text
<1>1. text \in Seq(Symbols) /\ Len(text) \in Nat
  BY TextAssumption, LenProperties DEF TablesOK
<1>2. PICK F : Outputs(F, {})
  BY OutputLoop
<1>3. \A p \in 1 .. Len(text) : Piece({}, p) = << text[p] >>
  BY DEF Piece
<1>4. Len(text) \in 0 .. Len(text)
  BY <1>1
<1>5. \A p \in 0 .. Len(text) : F[p] = SubSeq(text, 1, p)
  BY <1>2, <1>3, <1>4, OutputPrefix
<1>6. Replaced({}) = F[Len(text)]
  BY <1>2 DEF Outputs, Replaced
<1>7. SubSeq(text, 1, Len(text)) = text
  BY <1>1, SubSeqFull
<1> QED
  BY <1>4, <1>5, <1>6, <1>7

OutputInv ==
  /\ pc = "start" => output = text /\ foundTypes = {} /\ accepted = {}
  /\ pc = "replace" =>
       /\ output = Replaced(accepted \ todo)
       /\ \A j \in accepted \ todo, k \in todo : Start(k) <= Start(j)

\* The replaced entities stand to the right of the others, and the output is the text
\* with their spans replaced.
LEMMA OutputSafety == Spec => []OutputInv
<1>1. Init => OutputInv
  BY DEF Init, OutputInv
<1>2. TablesOK /\ ResolveInv /\ NumberInv /\ OutputInv /\ [Next]_vars => OutputInv'
  <2> SUFFICES ASSUME TablesOK, ResolveInv, NumberInv, OutputInv, [Next]_vars PROVE OutputInv'
    OBVIOUS
  <2>1. ASSUME UNCHANGED << text, results, placeholderOf >>, NEW D
        PROVE  Replaced(D)' = Replaced(D)
    BY <2>1 DEF Replaced, Pieces, Piece, Start, End
  <2>2. CASE StartReplacing
    <3>1. /\ pc' = "replace" /\ todo' = accepted /\ accepted' = accepted /\ output' = text
          /\ UNCHANGED << text, results, placeholderOf >>
      BY <2>2 DEF StartReplacing
    <3>2. accepted' \ todo' = {}
      BY <3>1
    <3>3. Replaced({})' = text
      BY <2>1, <3>1, NothingReplaced
    <3>4. Replaced(accepted \ todo)' = Replaced({})'
      BY <3>2
    <3> QED
      BY <3>1, <3>2, <3>3, <3>4 DEF OutputInv
  <2>3. ASSUME NEW i \in DOMAIN results, ReplaceEntity(i)
        PROVE  OutputInv'
    <3> DEFINE D == accepted \ todo
    <3>1. /\ UNCHANGED << text, results, pc, accepted, placeholderOf >>
          /\ pc = "replace" /\ i \in todo /\ todo' = todo \ {i}
          /\ \A j \in todo : Start(j) <= Start(i)
          /\ output' = Spliced(output, Start(i), placeholderOf[i], End(i))
      BY <2>3 DEF ReplaceEntity, Rightmost, Spliced
    <3>2. /\ i \in accepted /\ todo \subseteq accepted /\ accepted \subseteq DOMAIN results
          /\ i \notin D /\ D \in SUBSET accepted /\ accepted' \ todo' = D \cup {i}
      BY <3>1 DEF TablesOK
    <3>3. DOMAIN placeholderOf = accepted
      BY <3>1 DEF NumberInv, Numbered
    <3>4. \A j \in D : End(i) <= Start(j)
      <4> TAKE j \in D
      <4>1. j \in accepted /\ j # i /\ j \in DOMAIN results /\ Start(i) <= Start(j)
        BY <3>1, <3>2 DEF OutputInv
      <4>2. ~ Overlaps(i, j)
        BY <3>2, <4>1, OverlapIsIntersection DEF ResolveInv, AcceptedDisjoint
      <4> QED
        BY <4>1, <4>2, EntityFacts DEF Overlaps
    <3>5. output = Replaced(D)
      BY <3>1 DEF OutputInv
    <3>6. Replaced(D \cup {i}) = Spliced(output, Start(i), placeholderOf[i], End(i))
      <4> HIDE DEF D
      <4>1. AcceptedDisjoint /\ D \cup {i} \subseteq DOMAIN placeholderOf
        BY <3>2, <3>3 DEF ResolveInv
      <4>2. Contract!FlattenSeq(Pieces(D \cup {i}))
              = Spliced(Contract!FlattenSeq(Pieces(D)), Start(i), placeholderOf[i], End(i))
        BY <3>2, <3>4, <4>1, OutputSplice
      <4> QED
        BY <3>5, <4>2 DEF Replaced
    <3>7. output' = Replaced(accepted \ todo)'
      <4>1. Replaced(D \cup {i})' = Replaced(accepted \ todo)'
        BY <3>2
      <4> QED
        BY <2>1, <3>1, <3>2, <3>6
    <3>8. \A j \in D, k \in todo : Start(k) <= Start(j)
      BY <3>1 DEF OutputInv
    <3>9. (\A j \in accepted \ todo, k \in todo : Start(k) <= Start(j))'
      <4>1. \A j \in D \cup {i}, k \in todo' : Start(k) <= Start(j)
        BY <3>1, <3>8
      <4> QED
        BY <3>1, <3>2, <4>1 DEF Start
    <3> QED
      BY <3>1, <3>7, <3>9 DEF OutputInv
  <2>4. CASE pc' \notin { "start", "replace" }
    BY <2>4 DEF OutputInv
  <2>5. CASE UNCHANGED vars
    <3>1. UNCHANGED << text, results, placeholderOf >> /\ accepted' \ todo' = accepted \ todo
      BY <2>5 DEF vars
    <3>2. Replaced(accepted \ todo)' = Replaced(accepted \ todo)
      BY <2>1, <3>1
    <3> QED
      BY <2>5, <3>1, <3>2 DEF vars, OutputInv, Start
  <2> QED
    BY <2>2, <2>3, <2>4, <2>5
    DEF Next, Returned, ReturnUnchanged, StartResolving, KeepEntity, DropEntity,
        StartNumbering, ReusePlaceholder, NewPlaceholder, Return
<1> QED
  BY <1>1, <1>2, TableSafety, ResolutionSafety, NumberSafety, PTL DEF Spec

-----------------------------------------------------------------------------
(* The refinement                                                            *)

\* A dropped entity loses to a kept one by the code's own order, ties included.
RankedOut == \A i \in Decided \ accepted : \E k \in accepted : RanksBefore(k, i) /\ Overlaps(i, k)

\* It is decided against entities that all rank before it.
LEMMA RankingSafety == Spec => []RankedOut
<1>1. Init => RankedOut
  BY DEF Init, RankedOut, Decided
<1>2. TablesOK /\ ResolveInv /\ RankedOut /\ [Next]_vars => RankedOut'
  <2> SUFFICES ASSUME TablesOK, ResolveInv, RankedOut, [Next]_vars PROVE RankedOut'
    OBVIOUS
  <2>1. ASSUME UNCHANGED results
        PROVE  \A i, k : RanksBefore(k, i)' = RanksBefore(k, i) /\ Overlaps(i, k)' = Overlaps(i, k)
    BY <2>1 DEF RanksBefore, Overlaps, Span, Start, End
  <2>2. CASE UNCHANGED << results, pc, todo, accepted >>
    <3>1. Decided' = Decided
      BY <2>2 DEF Decided
    <3> QED
      BY <2>1, <2>2, <3>1 DEF RankedOut
  <2>3. CASE StartResolving
    BY <2>3 DEF StartResolving, RankedOut, Decided
  <2>4. ASSUME NEW i \in DOMAIN results, KeepEntity(i)
        PROVE  RankedOut'
    <3>1. /\ UNCHANGED << results, pc >> /\ pc = "resolve"
          /\ accepted' = accepted \cup {i} /\ todo' = todo \ {i}
      BY <2>4 DEF KeepEntity
    <3>2. Decided' \ accepted' \subseteq Decided \ accepted
      BY <3>1 DEF Decided
    <3> QED
      BY <2>1, <3>1, <3>2 DEF RankedOut
  <2>5. ASSUME NEW i \in DOMAIN results, DropEntity(i)
        PROVE  RankedOut'
    <3>1. /\ UNCHANGED << results, pc, accepted >> /\ pc = "resolve"
          /\ todo' = todo \ {i} /\ i \in todo
      BY <2>5 DEF DropEntity, BestRanked
    <3>2. PICK k \in accepted : Overlaps(i, k)
      BY <2>5 DEF DropEntity
    <3>3. RanksBefore(k, i)
      BY <3>1, <3>2 DEF ResolveInv, TablesOK
    <3>4. Decided' \ accepted' \subseteq (Decided \ accepted) \cup {i}
      BY <3>1 DEF Decided
    <3> QED
      BY <2>1, <3>1, <3>2, <3>3, <3>4 DEF RankedOut
  <2>6. CASE /\ UNCHANGED << results, accepted >>
             /\ Decided' = DOMAIN results
             /\ pc = "start" => DOMAIN results = {}
             /\ pc = "resolve" => todo = {}
    <3>1. Decided' = Decided
      BY <2>6 DEF Decided
    <3> QED
      BY <2>1, <2>6, <3>1 DEF RankedOut
  <2>7. results = << >> => DOMAIN results = {}
    OBVIOUS
  <2> QED
    BY <2>2, <2>3, <2>4, <2>5, <2>6, <2>7
    DEF Next, vars, Returned, ReturnUnchanged, StartNumbering, ReusePlaceholder, NewPlaceholder,
        StartReplacing, ReplaceEntity, Return, Decided
<1> QED
  BY <1>1, <1>2, TableSafety, ResolutionSafety, PTL DEF Spec

\* Contract's order and overlap are the code's.
LEMMA SameOrder ==
  ASSUME TablesOK, NEW i \in DOMAIN results, NEW j \in DOMAIN results
  PROVE  /\ Contract!Better(i, j) <=> RanksBefore(i, j)
         /\ Contract!Disjoint(i, j) <=> ~ Overlaps(i, j)
<1>1. /\ i \in Nat /\ j \in Nat /\ results[i].score \in Int /\ results[j].score \in Int
      /\ Start(i) \in Nat /\ End(i) \in Nat /\ Start(j) \in Nat /\ End(j) \in Nat
  BY EntityFacts
<1>2. Contract!Better(i, j) <=> RanksBefore(i, j)
  BY <1>1 DEF Contract!Better, Contract!Length, RanksBefore, Span, Start, End
<1>3. Contract!Disjoint(i, j) <=> ~ Overlaps(i, j)
  BY <1>1 DEF Contract!Disjoint, Overlaps, Start, End
<1> QED
  BY <1>2, <1>3

\* The kept entities are those of the contract.
LEMMA KeptAreResolution ==
  ASSUME TablesOK, AcceptedDisjoint, RankedOut, Decided = DOMAIN results
  PROVE  Contract!IsResolution(accepted)
<1>1. accepted \subseteq DOMAIN results
  BY DEF TablesOK
<1>2. ASSUME NEW i \in accepted, NEW k \in accepted, Contract!Better(k, i)
      PROVE  Contract!Disjoint(k, i)
  <2>1. i \in DOMAIN results /\ k \in DOMAIN results /\ RanksBefore(k, i)
    BY <1>1, <1>2, SameOrder
  <2>2. i # k
    BY <2>1, EntityFacts DEF RanksBefore
  <2>3. ~ Overlaps(k, i)
    BY <2>1, <2>2, OverlapIsIntersection DEF AcceptedDisjoint
  <2> QED
    BY <2>1, <2>3, SameOrder
<1>3. ASSUME NEW i \in DOMAIN results, i \notin accepted
      PROVE  \E k \in accepted : Contract!Better(k, i) /\ ~ Contract!Disjoint(k, i)
  <2>1. PICK k \in accepted : RanksBefore(k, i) /\ Overlaps(i, k)
    BY <1>3 DEF RankedOut
  <2>2. Overlaps(k, i) /\ k \in DOMAIN results
    BY <1>1, <2>1 DEF Overlaps
  <2> QED
    BY <2>1, <2>2, SameOrder
<1> QED
  BY <1>1, <1>2, <1>3 DEF Contract!IsResolution, Contract!Entities

\* With the contract's names the pieces are the contract's.
LEMMA SamePieces ==
  ASSUME \A i \in accepted : placeholderOf[i] = Contract!NameIn(accepted, i)
  PROVE  Replaced(accepted) = Contract!AnswerFor(accepted).output
<1>1. ASSUME NEW p \in 1 .. Len(text)
      PROVE  Piece(accepted, p) = Contract!PieceAt(accepted, p)
  <2>1. CASE \E i \in accepted : Start(i) + 1 = p
    <3> DEFINE c == CHOOSE i \in accepted : Start(i) + 1 = p
    <3>1. c \in accepted /\ placeholderOf[c] = Contract!NameIn(accepted, c)
      BY <2>1
    <3>2. c = CHOOSE i \in accepted : results[i].start + 1 = p
      BY DEF Start
    <3>3. Contract!PieceAt(accepted, p) = << Contract!NameIn(accepted, c) >>
      BY <2>1, <3>2 DEF Contract!PieceAt, Start
    <3>4. Piece(accepted, p) = << placeholderOf[c] >>
      BY <2>1 DEF Piece
    <3> QED
      BY <3>1, <3>3, <3>4
  <2>2. CASE ~\E i \in accepted : Start(i) + 1 = p
    BY <2>2 DEF Piece, Contract!PieceAt, Start, End
  <2> QED
    BY <2>1, <2>2
<1>2. Pieces(accepted) = [ p \in 1 .. Len(text) |-> Contract!PieceAt(accepted, p) ]
  BY <1>1 DEF Pieces
<1> QED
  BY <1>2 DEF Replaced, Contract!AnswerFor

\* What the function is about to return is the contract's answer for the kept entities.
LEMMA AnswerOfKept ==
  ASSUME TablesOK, ResolveInv, NumberInv, RankedOut,
         Decided = DOMAIN results, DOMAIN placeholderOf = accepted, output = Replaced(accepted)
  PROVE  /\ accepted \in SUBSET Contract!Entities /\ Contract!IsResolution(accepted)
         /\ [ output   |-> output,
              mappings |-> { << p, mappings[p] >> : p \in DOMAIN mappings },
              types    |-> { Type(i) : i \in accepted } ] = Contract!AnswerFor(accepted)
<1>1. accepted \in SUBSET Contract!Entities /\ Contract!IsResolution(accepted)
  BY KeptAreResolution DEF ResolveInv, TablesOK, Contract!Entities
<1>2. \A i \in accepted : placeholderOf[i] = Contract!NameIn(accepted, i)
  BY NumberIsRank DEF ResolveInv
<1>3. output = Contract!AnswerFor(accepted).output
  BY <1>2, SamePieces
<1>4. { << p, mappings[p] >> : p \in DOMAIN mappings }
        = { << Contract!NameIn(accepted, i), Contract!TextOf(i) >> : i \in accepted }
  <2>1. \A i \in accepted : /\ placeholderOf[i] \in DOMAIN mappings
                            /\ mappings[placeholderOf[i]] = Original(i)
    BY NumbersConsistent DEF PlaceholdersConsistent
  <2>2. \A p \in DOMAIN mappings : \E i \in accepted : placeholderOf[i] = p
    BY NumbersConsistent DEF PlaceholdersConsistent
  <2>3. \A i : Contract!TextOf(i) = Original(i)
    BY DEF Contract!TextOf, Original, Start, End
  <2>4. \A i \in accepted : << Contract!NameIn(accepted, i), Contract!TextOf(i) >>
                              = << placeholderOf[i], mappings[placeholderOf[i]] >>
    BY <1>2, <2>1, <2>3
  <2> QED
    BY <2>1, <2>2, <2>4
<1>5. { Type(i) : i \in accepted } = { results[i].entity_type : i \in accepted }
  BY DEF Type
<1> QED
  BY <1>1, <1>3, <1>4, <1>5 DEF Contract!AnswerFor

\* The two returns give the contract's answer, and no other step gives any.
LEMMA StepImplements ==
  TablesOK /\ ResolveInv /\ NumberInv /\ RankedOut /\ OutputInv /\ [Next]_vars
    => [Contract!Answer]_(Contract!vars)
<1> SUFFICES ASSUME TablesOK, ResolveInv, NumberInv, RankedOut, OutputInv, [Next]_vars
             PROVE  [Contract!Answer]_(Contract!vars)
  OBVIOUS
<1> DEFINE Given == [ output   |-> output,
                      mappings |-> { << p, mappings[p] >> : p \in DOMAIN mappings },
                      types    |-> foundTypes ]
           answers == IF pc # "done" THEN << >> ELSE << Given >>
<1>1. ASSUME Decided = DOMAIN results, DOMAIN placeholderOf = accepted, output = Replaced(accepted),
             pc # "done", pc' = "done", UNCHANGED << text, results, mappings, output >>,
             foundTypes' = { Type(i) : i \in accepted }
      PROVE  Contract!Answer
  <2>1. Given' = Contract!AnswerFor(accepted)
    BY <1>1, AnswerOfKept
  <2>2. accepted \in SUBSET Contract!Entities /\ Contract!IsResolution(accepted)
    BY <1>1, AnswerOfKept
  <2>3. answers = << >> /\ answers' = << Contract!AnswerFor(accepted) >>
    BY <1>1, <2>1
  <2> QED
    BY <1>1, <2>2, <2>3 DEF Contract!Answer
<1>2. CASE ReturnUnchanged
  <2>1. /\ pc = "start" /\ pc' = "done" /\ results = << >> /\ accepted = {}
        /\ UNCHANGED << text, results, mappings, output, foundTypes >>
        /\ output = text /\ foundTypes = {}
    BY <1>2 DEF ReturnUnchanged, OutputInv
  <2>2. DOMAIN results = {}
    BY <2>1
  <2>3. Decided = DOMAIN results /\ DOMAIN placeholderOf = accepted
    BY <2>1, <2>2 DEF Decided, NumberInv, Numbered
  <2>4. output = Replaced(accepted)
    BY <2>1, NothingReplaced
  <2>5. foundTypes' = { Type(i) : i \in accepted }
    BY <2>1
  <2> QED
    BY <1>1, <2>1, <2>3, <2>4, <2>5
<1>3. CASE Return
  <2>1. /\ pc = "replace" /\ pc' = "done" /\ todo = {}
        /\ UNCHANGED << text, results, mappings, output >>
        /\ foundTypes' = { Type(i) : i \in accepted }
    BY <1>3 DEF Return
  <2>2. Decided = DOMAIN results /\ DOMAIN placeholderOf = accepted
    BY <2>1 DEF Decided, NumberInv, Numbered
  <2>3. output = Replaced(accepted)
    <3>1. accepted \ todo = accepted
      BY <2>1
    <3> QED
      BY <2>1, <3>1 DEF OutputInv
  <2> QED
    BY <1>1, <2>1, <2>2, <2>3
<1>4. CASE UNCHANGED << text, results >> /\ pc # "done" /\ pc' # "done"
  <2>1. answers = << >> /\ answers' = << >>
    BY <1>4
  <2> QED
    BY <1>4, <2>1 DEF Contract!vars
<1>5. CASE UNCHANGED vars
  BY <1>5 DEF vars, Contract!vars
<1> QED
  BY <1>2, <1>3, <1>4, <1>5
  DEF Next, Returned, StartResolving, KeepEntity, DropEntity, StartNumbering,
      ReusePlaceholder, NewPlaceholder, StartReplacing, ReplaceEntity

\* The three loops implement the contract.
THEOREM ContractRefinement == Spec => ImplementsContract
<1>1. Init => Contract!Init
  BY DEF Init, Contract!Init
<1>2. QED
  BY <1>1, StepImplements, TableSafety, ResolutionSafety, NumberSafety, RankingSafety,
     OutputSafety, PTL DEF Spec, ImplementsContract, Contract!Spec

-----------------------------------------------------------------------------
(* The contract leaves no choice                                             *)

\* Ranking is a strict order, so a set of entities has a first one.
LEMMA BestExists ==
  ASSUME TablesOK, NEW S \in SUBSET DOMAIN results, S # {}
  PROVE  \E i \in S : \A j \in S : ~ RanksBefore(j, i)
<1> DEFINE R == StrictSubsetOrdering(Nat)
           Before(i) == { j \in DOMAIN results : RanksBefore(j, i) }
           T == { Before(i) : i \in S }
<1>1. DOMAIN results \in SUBSET Nat /\ IsFiniteSet(DOMAIN results)
  <2>1. PICK n \in 0 .. MaxResults : DOMAIN results = 1 .. n
    BY DEF TablesOK
  <2> QED
    BY <2>1, ResultAssumption, FS_Interval
<1>2. IsWellFoundedOn(R, FiniteSubsetsOf(Nat))
  BY FS_StrictSubsetOrderingWellFounded
<1>3. T \subseteq FiniteSubsetsOf(Nat) /\ T # {}
  <2>1. \A i \in S : Before(i) \in SUBSET DOMAIN results
    OBVIOUS
  <2> HIDE DEF Before
  <2>2. \A i \in S : Before(i) \in SUBSET Nat /\ IsFiniteSet(Before(i))
    BY <1>1, <2>1, FS_Subset
  <2> QED
    BY <2>2 DEF FiniteSubsetsOf
<1>4. \E t \in T : \A u \in T : ~(<< u, t >> \in R)
  <2> HIDE DEF R, T
  <2> QED
    BY <1>2, <1>3, WFMin
<1>5. PICK i \in S : \A j \in S : ~(<< Before(j), Before(i) >> \in R)
  <2> HIDE DEF R, Before
  <2> QED
    BY <1>4
<1>6. ASSUME NEW j \in S, RanksBefore(j, i) PROVE FALSE
  <2>1. /\ \A k \in DOMAIN results : k \in Nat /\ results[k].score \in Int /\ Span(k) \in Nat
        /\ i \in DOMAIN results /\ j \in DOMAIN results
    BY EntityFacts
  <2>2. ~ RanksBefore(j, j)
    BY <2>1 DEF RanksBefore
  <2>3. \A k \in DOMAIN results : RanksBefore(k, j) => RanksBefore(k, i)
    BY <1>6, <2>1 DEF RanksBefore
  <2>4. Before(j) \subseteq Before(i) /\ Before(j) # Before(i)
    BY <1>6, <2>1, <2>2, <2>3
  <2>5. Before(i) \in SUBSET Nat /\ Before(j) \in SUBSET Nat
    BY <1>1
  <2> HIDE DEF Before
  <2>6. << Before(j), Before(i) >> \in R
    <3>1. << Before(j), Before(i) >> \in (SUBSET Nat) \X (SUBSET Nat)
      BY <2>5
    <3> QED
      BY <2>4, <3>1, Zenon DEF StrictSubsetOrdering
  <2> QED
    BY <1>5, <2>6
<1> QED
  BY <1>6

\* At most one set of entities is a resolution, at any moment of the run: the answer
\* the contract asks for is a function of the text and the results.
ResolutionUnique ==
  \A K, L \in SUBSET DOMAIN results :
    Contract!IsResolution(K) /\ Contract!IsResolution(L) => K = L

THEOREM ContractDetermines == Spec => []ResolutionUnique
<1>1. TablesOK => ResolutionUnique
  <2> SUFFICES ASSUME TablesOK, NEW K \in SUBSET DOMAIN results, NEW L \in SUBSET DOMAIN results,
                      Contract!IsResolution(K), Contract!IsResolution(L), K # L
               PROVE  FALSE
    BY DEF ResolutionUnique
  <2> DEFINE S == { i \in DOMAIN results : ~(i \in K <=> i \in L) }
  <2>1. S \in SUBSET DOMAIN results /\ S # {}
    OBVIOUS
  <2>2. PICK i \in S : \A j \in S : ~ RanksBefore(j, i)
    <3> HIDE DEF S
    <3> QED
      BY <2>1, BestExists
  <2>3. \A j \in DOMAIN results : Contract!Better(j, i) => (j \in K <=> j \in L)
    BY <2>2, SameOrder
  <2>4. i \in K <=> \A k \in K : Contract!Better(k, i) => Contract!Disjoint(k, i)
    BY <2>2 DEF Contract!IsResolution, Contract!Entities
  <2>5. i \in L <=> \A k \in L : Contract!Better(k, i) => Contract!Disjoint(k, i)
    BY <2>2 DEF Contract!IsResolution, Contract!Entities
  <2> QED
    BY <2>2, <2>3, <2>4, <2>5
<1> QED
  BY <1>1, TableSafety, PTL
=============================================================================
