------------------------ MODULE DocumentPipelineProofs ------------------------
(***************************************************************************)
(* Proofs about DocumentPipeline: the numbering of a whole document and    *)
(* the assembly of its cells, for documents of any length, any number of   *)
(* entities and any order of the analyses.                                 *)
(***************************************************************************)
EXTENDS DocumentPipeline, ListLemmas

-----------------------------------------------------------------------------
(* Least and greatest elements, and tables with one more entry               *)

LEMMA MinOfNaturals ==
  ASSUME NEW S \in SUBSET Nat, S # {}
  PROVE  Min(S) \in S /\ \A y \in S : Min(S) <= y
BY LeastExists DEF Min

LEMMA MaxOfNaturals ==
  ASSUME NEW n \in Nat, NEW S \in SUBSET (0 .. n), S # {}
  PROVE  Max(S) \in S /\ \A y \in S : Max(S) >= y
<1> DEFINE T == { n - x : x \in S }
<1>1. T \in SUBSET Nat /\ T # {}
  <2>1. \A x \in S : n - x \in Nat
    OBVIOUS
  <2>2. \A t \in T : t \in Nat
    BY <2>1
  <2> QED
    BY <2>2
<1>2. PICK t \in T : \A u \in T : t <= u
  <2> HIDE DEF T
  <2> QED
    BY <1>1, LeastExists
<1>3. PICK x \in S : t = n - x
  BY <1>2
<1>4. \A y \in S : x >= y
  BY <1>2, <1>3
<1> QED
  BY <1>3, <1>4 DEF Max

-----------------------------------------------------------------------------
(* What a document is                                                        *)

ChunksOK ==
  /\ \E n \in Nat : DOMAIN chunks = 1 .. n
  /\ \A k \in DOMAIN chunks :
       /\ [ size |-> chunks[k].size, found |-> chunks[k].found ] \in Text
       /\ chunks[k].size \in { "blank", "fits", "huge" }
       /\ chunks[k].found \in Seq(Entity)
       /\ chunks[k].size # "fits" => chunks[k].found = << >>

\* The references of a document's chunks differ where its assembly looks texts up.
UniqueReferences ==
  \A f \in Formats \ { "text" } : \A places \in Layouts[f] : \A a, b \in DOMAIN places :
    Reference(f, places[a]) = Reference(f, places[b]) => a = b

UniqueIds ==
  format # "text" => \A a, b \in DOMAIN chunks : chunks[a].id = chunks[b].id => a = b

LEMMA TextShape ==
  ASSUME NEW t \in Text
  PROVE  /\ t.size \in { "blank", "fits", "huge" } /\ t.found \in Seq(Entity)
         /\ t.size # "fits" => t.found = << >>
         /\ [ size |-> t.size, found |-> t.found ] = t
<1>1. t \in [ size : { "blank", "fits", "huge" }, found : BoundedSeq(Entity, MaxFound) ]
  BY DEF Text
<1>2. \A s \in BoundedSeq(Entity, MaxFound) : s \in Seq(Entity)
  BY BoundAssumption DEF BoundedSeq, SeqOf
<1> QED
  BY <1>1, <1>2 DEF Text

LEMMA InitDocument ==
  ASSUME Init
  PROVE  format \in Formats /\ ChunksOK /\ (UniqueReferences => UniqueIds)
<1>1. format \in Formats
  BY DEF Init
<1> PICK places \in Layouts[format] :
      \E texts \in Texts(Len(places)) :
        chunks = [ k \in DOMAIN places |-> Chunk(format, places[k], texts[k]) ]
  BY DEF Init, Document
<1>2. PICK texts \in Texts(Len(places)) :
        chunks = [ k \in DOMAIN places |-> Chunk(format, places[k], texts[k]) ]
  OBVIOUS
<1>3. places \in Seq(Range(places)) /\ DOMAIN places = 1 .. Len(places) /\ Len(places) \in Nat
  BY <1>1, LayoutAssumption
<1>4. \A k \in DOMAIN places : texts[k] \in Text
  BY <1>2, <1>3 DEF Texts
<1>5. DOMAIN chunks = DOMAIN places
  BY <1>2
<1>6. \A k \in DOMAIN places :
        /\ chunks[k].id = Reference(format, places[k])
        /\ chunks[k].size = texts[k].size /\ chunks[k].found = texts[k].found
  BY <1>2 DEF Chunk
<1>7. ChunksOK
  BY <1>3, <1>4, <1>5, <1>6, TextShape DEF ChunksOK
<1>8. UniqueReferences => UniqueIds
  BY <1>1, <1>5, <1>6 DEF UniqueReferences, UniqueIds
<1> QED
  BY <1>1, <1>7, <1>8

-----------------------------------------------------------------------------
(* The order of the valid chunks                                             *)

\* A sequence in document order runs through its whole set, once.
LEMMA InOrderFacts ==
  ASSUME NEW S \in SUBSET Nat, IsFiniteSet(S), NEW s \in InOrder(S)
  PROVE  /\ Cardinality(S) \in Nat
         /\ s \in [ 1 .. Cardinality(S) -> S ]
         /\ \A i, j \in 1 .. Cardinality(S) : i < j => s[i] < s[j]
         /\ \A i, j \in 1 .. Cardinality(S) : s[i] = s[j] => i = j
         /\ \A k \in S : \E i \in 1 .. Cardinality(S) : s[i] = k
<1> DEFINE N == Cardinality(S)
<1>1. N \in Nat
  BY FS_CardinalityType
<1>2. s \in [ 1 .. N -> S ] /\ \A i, j \in 1 .. N : i < j => s[i] < s[j]
  BY DEF InOrder
<1>3. \A i \in 1 .. N : s[i] \in Nat
  BY <1>2
<1>4. \A i, j \in 1 .. N : s[i] = s[j] => i = j
  <2> HIDE DEF N
  <2> QED
    BY <1>1, <1>2, <1>3
<1>5. IsFiniteSet(1 .. N) /\ Cardinality(1 .. N) = N
  BY <1>1, FS_Interval
<1>6. s \in Injection(1 .. N, S)
  BY <1>2, <1>4 DEF Injection, IsInjective
<1>7. s \in Surjection(1 .. N, S)
  BY <1>5, <1>6, FS_Injection
<1>8. \A k \in S : \E i \in 1 .. N : s[i] = k
  BY <1>7 DEF Surjection
<1> QED
  BY <1>1, <1>2, <1>4, <1>8

\* The i-th of the sequence has i elements of the set up to itself.
LEMMA Rank ==
  ASSUME NEW S \in SUBSET Nat, IsFiniteSet(S), NEW s \in InOrder(S), NEW i \in 1 .. Cardinality(S)
  PROVE  Cardinality({ j \in S : j <= s[i] }) = i
<1> DEFINE N == Cardinality(S)
           U == { j \in S : j <= s[i] }
           g == [ x \in 1 .. i |-> s[x] ]
<1>1. /\ N \in Nat /\ s \in [ 1 .. N -> S ]
      /\ \A x, y \in 1 .. N : x < y => s[x] < s[y]
      /\ \A x, y \in 1 .. N : s[x] = s[y] => x = y
      /\ \A k \in S : \E x \in 1 .. N : s[x] = k
  BY InOrderFacts
<1>2. 1 .. i \subseteq 1 .. N /\ i \in Nat
  BY <1>1
<1>3. \A x \in 1 .. N : s[x] \in Nat
  BY <1>1
<1>4. \A x \in 1 .. i : g[x] \in U
  <2> SUFFICES ASSUME NEW x \in 1 .. i PROVE s[x] \in S /\ s[x] <= s[i]
    OBVIOUS
  <2>1. x \in 1 .. N /\ i \in 1 .. N
    BY <1>2
  <2>2. x = i \/ x < i
    BY <1>2
  <2> HIDE DEF N
  <2> QED
    BY <1>1, <1>3, <2>1, <2>2
<1>5. \A k \in U : \E x \in 1 .. i : g[x] = k
  <2> SUFFICES ASSUME NEW k \in S, k <= s[i] PROVE \E x \in 1 .. i : s[x] = k
    OBVIOUS
  <2>1. PICK x \in 1 .. N : s[x] = k
    BY <1>1
  <2>2. i \in 1 .. N /\ s[x] \in Nat /\ s[i] \in Nat
    BY <1>3
  <2>3. ~(i < x)
    <3> HIDE DEF N
    <3> QED
      BY <1>1, <2>1, <2>2
  <2> QED
    BY <1>2, <2>1, <2>3
<1>6. \A x, y \in 1 .. i : g[x] = g[y] => x = y
  BY <1>1, <1>2
<1>7. g \in Bijection(1 .. i, U)
  BY <1>4, <1>5, <1>6 DEF Bijection, Injection, Surjection, IsInjective
<1>8. ExistsBijection(1 .. i, U)
  BY <1>7 DEF ExistsBijection
<1>9. IsFiniteSet(1 .. i) /\ Cardinality(1 .. i) = i
  BY <1>2, FS_Interval
<1> QED
  BY <1>8, <1>9, FS_Bijection

-----------------------------------------------------------------------------
(* The chunks between split and assembly                                     *)

Fits == { k \in NonEmpty : chunks[k].size = "fits" }
Huge == { k \in NonEmpty : chunks[k].size = "huge" }

\* valid and skipped divide the chunks with text, and the tasks are those of valid.
SplitOK ==
  /\ pc \in { "uploaded", "refused", "extracted", "analyze", "number", "assemble", "done" }
  /\ pc \in { "uploaded", "refused", "extracted" } => output = << >>
  /\ pc \in { "analyze", "number", "assemble" } =>
       valid \in InOrder(Fits) /\ skipped = Huge /\ output = << >>

LEMMA FitsFacts ==
  ASSUME ChunksOK
  PROVE  Fits \in SUBSET Nat /\ IsFiniteSet(Fits) /\ Fits \subseteq DOMAIN chunks
<1>1. PICK n \in Nat : DOMAIN chunks = 1 .. n
  BY DEF ChunksOK
<1>2. Fits \in SUBSET (1 .. n)
  BY <1>1 DEF Fits, NonEmpty
<1>3. IsFiniteSet(1 .. n)
  BY FS_Interval
<1>4. IsFiniteSet(Fits)
  BY <1>2, <1>3, FS_Subset
<1> QED
  BY <1>1, <1>2, <1>4

\* The table of results and what is marked of it: each entity that the loops have
\* passed has the placeholder that `seen` holds for it.
MarksOK ==
  /\ pc \notin { "number", "assemble", "done" } => results = << >> /\ marks = << >>
  /\ pc \in { "number", "assemble" } => results = [ i \in DOMAIN valid |-> chunks[valid[i]].found ]
  /\ DOMAIN marks = DOMAIN results
  /\ \E n \in Nat : DOMAIN results = 1 .. n
  /\ \A i \in DOMAIN results :
       /\ results[i] \in Seq(Entity) /\ marks[i] \in Seq(Placeholder)
       /\ Len(marks[i]) <= Len(results[i])
       /\ \A j \in 1 .. Len(marks[i]) :
            results[i][j] \in DOMAIN seen /\ marks[i][j] = seen[results[i][j]]
       /\ pc = "assemble" => Len(marks[i]) = Len(results[i])

\* Two entries of `seen` differ in type or number, no number is above its counter,
\* and the mapping leads back.
TableOK ==
  /\ counters \in [ Types -> Nat ]
  /\ DOMAIN seen \subseteq Entity
  /\ \A e \in DOMAIN seen :
       /\ seen[e] \in Placeholder
       /\ seen[e].type = e[1] /\ seen[e].n <= counters[e[1]]
       /\ seen[e] \in DOMAIN mappings /\ mappings[seen[e]] = e[2]
  /\ \A e, f \in DOMAIN seen : seen[e] = seen[f] => e = f
  /\ DOMAIN mappings \subseteq { seen[e] : e \in DOMAIN seen }

NumberInv == ChunksOK /\ format \in Formats /\ SplitOK /\ MarksOK /\ TableOK

LEMMA InitNumberInv == Init => NumberInv
<1> SUFFICES ASSUME Init PROVE NumberInv
  OBVIOUS
<1>1. ChunksOK /\ format \in Formats
  BY InitDocument
<1>2. SplitOK
  BY DEF Init, SplitOK
<1>3. MarksOK
  <2>1. DOMAIN << >> = 1 .. 0
    OBVIOUS
  <2> QED
    BY <2>1 DEF Init, MarksOK
<1>4. TableOK
  BY DEF Init, TableOK
<1> QED
  BY <1>1, <1>2, <1>3, <1>4 DEF NumberInv

LEMMA StepSplitOK ==
  ASSUME NumberInv, [Next]_vars
  PROVE  ChunksOK' /\ format' \in Formats /\ SplitOK'
<1>1. ChunksOK /\ format \in Formats /\ SplitOK
  BY DEF NumberInv
<1>2. chunks' = chunks /\ format' = format
  BY DEF Next, vars, Extract, AnswerEmpty, SplitChunks, ChunkAnalyzed, GatherResults, ReusePlaceholder,
       NewPlaceholder, StartAssembling, Assemble, AssembleText, AssembleCsv, AssembleJson, AssembleXlsx, Finished
<1>3. ChunksOK'
  BY <1>1, <1>2 DEF ChunksOK
<1>4. Fits' = Fits /\ Huge' = Huge /\ InOrder(Fits)' = InOrder(Fits)
  BY <1>2 DEF Fits, Huge, NonEmpty, InOrder
<1>5. SplitOK'
  <2>1. CASE SplitChunks
    BY <1>1, <1>4, <2>1 DEF SplitChunks, SplitOK, Fits, Huge
  <2>2. CASE UNCHANGED vars \/ Finished \/ (\E k \in DOMAIN chunks : ChunkAnalyzed(k)) \/ ReusePlaceholder \/ NewPlaceholder
    BY <1>1, <1>4, <2>2 DEF vars, Finished, ChunkAnalyzed, ReusePlaceholder, NewPlaceholder, SplitOK
  <2>3. CASE Extract \/ AnswerEmpty \/ GatherResults \/ StartAssembling
    BY <1>1, <1>4, <2>3 DEF Extract, AnswerEmpty, GatherResults, StartAssembling, SplitOK
  <2>4. CASE AssembleText \/ AssembleCsv \/ AssembleJson \/ AssembleXlsx
    BY <2>4 DEF AssembleText, AssembleCsv, AssembleJson, AssembleXlsx, Assemble, SplitOK
  <2> QED
    BY <2>1, <2>2, <2>3, <2>4 DEF Next
<1> QED
  BY <1>1, <1>2, <1>3, <1>5

\* The loops are at a chunk that has an entity left.
LEMMA AtChunkFacts ==
  ASSUME MarksOK, Unnumbered # {}
  PROVE  /\ AtChunk \in DOMAIN results /\ Len(marks[AtChunk]) \in Nat
         /\ Len(marks[AtChunk]) + 1 \in 1 .. Len(results[AtChunk])
         /\ AtEntity \in Entity
<1>1. PICK n \in Nat : DOMAIN results = 1 .. n
  BY DEF MarksOK
<1>2. Unnumbered \in SUBSET Nat
  BY <1>1 DEF Unnumbered
<1>3. AtChunk \in Unnumbered
  BY <1>2, MinOfNaturals DEF AtChunk
<1>4. /\ AtChunk \in DOMAIN results
      /\ marks[AtChunk] \in Seq(Placeholder) /\ results[AtChunk] \in Seq(Entity)
      /\ Len(marks[AtChunk]) < Len(results[AtChunk])
  BY <1>3 DEF Unnumbered, MarksOK
<1> QED
  BY <1>4 DEF AtEntity

\* One more mark, with `seen` extended or not
LEMMA MarkKeepsMarksOK ==
  ASSUME MarksOK, pc = "number", pc' = "number", Unnumbered # {}, NEW p \in Placeholder, MarkWith(p),
         results' = results, valid' = valid, chunks' = chunks,
         DOMAIN seen \subseteq DOMAIN seen', \A e \in DOMAIN seen : seen'[e] = seen[e],
         AtEntity \in DOMAIN seen', seen'[AtEntity] = p
  PROVE  MarksOK'
<1>1. /\ AtChunk \in DOMAIN results /\ Len(marks[AtChunk]) \in Nat
      /\ Len(marks[AtChunk]) + 1 \in 1 .. Len(results[AtChunk])
      /\ AtEntity = results[AtChunk][Len(marks[AtChunk]) + 1]
  BY AtChunkFacts DEF AtEntity
<1>2. marks' = [ marks EXCEPT ![AtChunk] = Append(@, p) ] /\ DOMAIN marks = DOMAIN results
  BY DEF MarkWith, MarksOK
<1>3. ASSUME NEW i \in DOMAIN results
      PROVE  /\ results[i] \in Seq(Entity) /\ marks'[i] \in Seq(Placeholder)
             /\ Len(marks'[i]) <= Len(results[i])
             /\ \A j \in 1 .. Len(marks'[i]) :
                  results[i][j] \in DOMAIN seen' /\ marks'[i][j] = seen'[results[i][j]]
  <2>1. /\ results[i] \in Seq(Entity) /\ marks[i] \in Seq(Placeholder)
        /\ Len(marks[i]) <= Len(results[i])
        /\ \A j \in 1 .. Len(marks[i]) : results[i][j] \in DOMAIN seen /\ marks[i][j] = seen[results[i][j]]
    BY DEF MarksOK
  <2>2. CASE i # AtChunk
    BY <1>2, <2>1, <2>2
  <2>3. CASE i = AtChunk
    <3>1. marks'[i] = Append(marks[i], p)
      BY <1>2, <2>3
    <3>2. /\ marks'[i] \in Seq(Placeholder) /\ Len(marks'[i]) = Len(marks[i]) + 1
          /\ \A j \in 1 .. Len(marks[i]) : marks'[i][j] = marks[i][j]
          /\ marks'[i][Len(marks[i]) + 1] = p
      BY <2>1, <3>1
    <3>3. ASSUME NEW j \in 1 .. Len(marks'[i])
          PROVE  results[i][j] \in DOMAIN seen' /\ marks'[i][j] = seen'[results[i][j]]
      <4>1. j \in 1 .. Len(marks[i]) \/ j = Len(marks[i]) + 1
        BY <2>1, <3>2
      <4> QED
        BY <1>1, <2>1, <2>3, <3>2, <4>1
    <3> QED
      BY <1>1, <2>1, <2>3, <3>2, <3>3
  <2> QED
    BY <2>2, <2>3
<1>4. DOMAIN marks' = DOMAIN results
  BY <1>2
<1>5. \E n \in Nat : DOMAIN results' = 1 .. n
  BY DEF MarksOK
<1>6. results' = [ i \in DOMAIN valid' |-> chunks'[valid'[i]].found ]
  BY DEF MarksOK
<1> QED
  BY <1>3, <1>4, <1>5, <1>6 DEF MarksOK

\* A document's results, in document order
LEMMA GatheredResults ==
  ASSUME NumberInv, GatherResults
  PROVE  MarksOK'
<1>1. /\ valid \in InOrder(Fits) /\ ChunksOK
      /\ results' = [ i \in DOMAIN valid |-> chunks[valid[i]].found ]
      /\ marks' = [ i \in DOMAIN valid |-> << >> ]
      /\ pc' = "number" /\ valid' = valid /\ chunks' = chunks
  BY DEF NumberInv, SplitOK, GatherResults
<1>2. /\ Cardinality(Fits) \in Nat /\ DOMAIN valid = 1 .. Cardinality(Fits)
      /\ \A i \in DOMAIN valid : valid[i] \in DOMAIN chunks
  BY <1>1, FitsFacts, InOrderFacts
<1>3. \A i \in DOMAIN valid : chunks[valid[i]].found \in Seq(Entity)
  BY <1>1, <1>2 DEF ChunksOK
<1>4. ASSUME NEW i \in DOMAIN valid
      PROVE  /\ results'[i] \in Seq(Entity) /\ marks'[i] \in Seq(Placeholder)
             /\ marks'[i] = << >> /\ Len(marks'[i]) = 0 /\ Len(marks'[i]) <= Len(results'[i])
  BY <1>1, <1>3
<1> QED
  BY <1>1, <1>2, <1>4 DEF MarksOK

LEMMA StepMarksOK ==
  ASSUME NumberInv, [Next]_vars
  PROVE  MarksOK' /\ TableOK'
<1>1. MarksOK /\ TableOK
  BY DEF NumberInv
<1>2. ASSUME UNCHANGED << results, marks, seen, counters, mappings, chunks >>,
             pc \notin { "number", "assemble", "done" } <=> pc' \notin { "number", "assemble", "done" },
             pc' \in { "number", "assemble" } => pc = pc' /\ valid' = valid
      PROVE  MarksOK' /\ TableOK'
  BY <1>1, <1>2 DEF MarksOK, TableOK
<1>3. CASE Extract \/ SplitChunks \/ (\E k \in DOMAIN chunks : ChunkAnalyzed(k)) \/ Finished \/ UNCHANGED vars
  BY <1>2, <1>3 DEF Extract, SplitChunks, ChunkAnalyzed, Finished, vars
<1>4. CASE AnswerEmpty
  BY <1>1, <1>4 DEF AnswerEmpty, MarksOK, TableOK
<1>5. CASE GatherResults
  <2>1. TableOK'
    BY <1>1, <1>5 DEF GatherResults, TableOK
  <2> QED
    BY <1>5, <2>1, GatheredResults
<1>6. CASE ReusePlaceholder
  <2>1. /\ pc = "number" /\ pc' = "number" /\ Unnumbered # {} /\ AtEntity \in DOMAIN seen
        /\ MarkWith(seen[AtEntity])
        /\ UNCHANGED << results, valid, chunks, seen, counters, mappings >>
    BY <1>6 DEF ReusePlaceholder
  <2>2. seen[AtEntity] \in Placeholder
    BY <1>1, <2>1 DEF TableOK
  <2>3. MarksOK'
    <3>1. AtEntity \in DOMAIN seen' /\ seen'[AtEntity] = seen[AtEntity]
      BY <2>1
    <3> QED
      BY <1>1, <2>1, <2>2, <3>1, MarkKeepsMarksOK
  <2>4. TableOK'
    BY <1>1, <2>1 DEF TableOK
  <2> QED
    BY <2>3, <2>4
<1>7. CASE NewPlaceholder
  <2> DEFINE e == AtEntity
             p == [ type |-> AtEntity[1], n |-> counters[AtEntity[1]] + 1 ]
  <2>1. /\ pc = "number" /\ pc' = "number" /\ Unnumbered # {} /\ e \notin DOMAIN seen
        /\ counters' = [ counters EXCEPT ![e[1]] = @ + 1 ]
        /\ seen' = Put(seen, e, p) /\ mappings' = Put(mappings, p, e[2])
        /\ MarkWith(p) /\ UNCHANGED << results, valid, chunks >>
    BY <1>7 DEF NewPlaceholder
  <2>2. e \in Entity /\ e[1] \in Types /\ e[2] \in Values
    BY <1>1, <2>1, AtChunkFacts DEF Entity
  <2>3. counters[e[1]] \in Nat /\ counters'[e[1]] = counters[e[1]] + 1
        /\ \A t \in Types : counters'[t] \in Nat /\ counters'[t] >= counters[t] /\ counters[t] \in Nat
    BY <1>1, <2>1, <2>2 DEF TableOK
  <2>4. p \in Placeholder /\ p.type = e[1] /\ p.n = counters[e[1]] + 1
    BY <2>2, <2>3 DEF Placeholder
  <2> HIDE DEF e, p
  <2>5. /\ DOMAIN seen' = (DOMAIN seen) \cup { e } /\ seen'[e] = p
        /\ \A f \in DOMAIN seen : seen'[f] = seen[f]
    BY <2>1 DEF Put
  <2>6. MarksOK'
    <3>1. e = AtEntity
      BY DEF e
    <3> QED
      BY <1>1, <2>1, <2>4, <2>5, <3>1, MarkKeepsMarksOK
  \* the number is new: no entry of `seen` has it
  <2>7. \A f \in DOMAIN seen : seen[f] # p
    <3> SUFFICES ASSUME NEW f \in DOMAIN seen, seen[f] = p PROVE FALSE
      OBVIOUS
    <3>1. f[1] = e[1] /\ p.n <= counters[f[1]]
      BY <1>1, <2>4 DEF TableOK
    <3> QED
      BY <2>3, <2>4, <3>1
  <2>8. /\ DOMAIN mappings' = (DOMAIN mappings) \cup { p } /\ mappings'[p] = e[2]
        /\ \A q \in DOMAIN mappings : q # p => mappings'[q] = mappings[q]
    BY <2>1 DEF Put
  <2>9. ASSUME NEW f \in DOMAIN seen'
        PROVE  /\ seen'[f] \in Placeholder
               /\ seen'[f].type = f[1] /\ seen'[f].n <= counters'[f[1]]
               /\ seen'[f] \in DOMAIN mappings' /\ mappings'[seen'[f]] = f[2]
    <3>1. CASE f = e
      BY <2>3, <2>4, <2>5, <2>8, <3>1
    <3>2. CASE f # e
      <4>1. /\ f \in DOMAIN seen /\ seen'[f] = seen[f] /\ seen[f] # p
            /\ seen[f] \in Placeholder /\ seen[f].type = f[1] /\ seen[f].n <= counters[f[1]]
            /\ seen[f] \in DOMAIN mappings /\ mappings[seen[f]] = f[2] /\ f[1] \in Types
        BY <1>1, <2>5, <2>7, <3>2 DEF TableOK, Entity
      <4>2. seen[f].n \in Nat
        BY <4>1 DEF Placeholder
      <4>3. seen[f].n <= counters'[f[1]]
        BY <2>3, <4>1, <4>2
      <4> QED
        BY <2>8, <4>1, <4>3
    <3> QED
      BY <3>1, <3>2
  <2>10. \A f, g \in DOMAIN seen' : seen'[f] = seen'[g] => f = g
    BY <1>1, <2>5, <2>7 DEF TableOK
  <2>11. DOMAIN mappings' \subseteq { seen'[f] : f \in DOMAIN seen' }
    BY <1>1, <2>5, <2>8 DEF TableOK
  <2>12. counters' \in [ Types -> Nat ] /\ DOMAIN seen' \subseteq Entity
    BY <1>1, <2>1, <2>2, <2>3, <2>5 DEF TableOK
  <2>13. TableOK'
    BY <2>9, <2>10, <2>11, <2>12 DEF TableOK
  <2> QED
    BY <2>6, <2>13
<1>8. CASE StartAssembling
  <2>1. /\ pc = "number" /\ pc' = "assemble" /\ Unnumbered = {}
        /\ UNCHANGED << results, marks, seen, counters, mappings, chunks, valid >>
    BY <1>8 DEF StartAssembling
  <2>2. \A i \in DOMAIN results : Len(marks[i]) = Len(results[i])
    BY <1>1, <2>1 DEF MarksOK, Unnumbered
  <2> QED
    BY <1>1, <2>1, <2>2 DEF MarksOK, TableOK
<1>9. CASE AssembleText \/ AssembleCsv \/ AssembleJson \/ AssembleXlsx
  <2>1. /\ pc = "assemble" /\ pc' = "done"
        /\ UNCHANGED << results, marks, seen, counters, mappings, chunks, valid >>
    BY <1>9 DEF AssembleText, AssembleCsv, AssembleJson, AssembleXlsx, Assemble
  <2>2. MarksOK'
    BY <1>1, <2>1 DEF MarksOK
  <2>3. TableOK'
    BY <1>1, <2>1 DEF TableOK
  <2> QED
    BY <2>2, <2>3
<1> QED
  BY <1>3, <1>4, <1>5, <1>6, <1>7, <1>8, <1>9 DEF Next

LEMMA NumberInvariance == Spec => []NumberInv
<1>1. NumberInv /\ [Next]_vars => NumberInv'
  BY StepSplitOK, StepMarksOK DEF NumberInv
<1> QED
  BY <1>1, InitNumberInv, PTL DEF Spec

\* One table numbers the whole document: two entities anywhere in it have one
\* placeholder exactly when they are one text of one type.
THEOREM PlaceholdersUnified == Spec => []UnifiedPlaceholders
<1>1. NumberInv => UnifiedPlaceholders
  <2> SUFFICES ASSUME NumberInv, NEW x \in Marked, NEW y \in Marked
               PROVE  LET Of(z)   == results[z[1]][z[2]]
                          Mark(z) == marks[z[1]][z[2]]
                      IN
                      /\ Mark(x) = Mark(y) <=> Of(x) = Of(y)
                      /\ Mark(x).type = Of(x)[1]
                      /\ Mark(x) \in DOMAIN mappings /\ mappings[Mark(x)] = Of(x)[2]
    BY DEF UnifiedPlaceholders
  <2>1. ASSUME NEW z \in Marked
        PROVE  results[z[1]][z[2]] \in DOMAIN seen /\ marks[z[1]][z[2]] = seen[results[z[1]][z[2]]]
    <3>1. z[1] \in DOMAIN results /\ z[2] \in DOMAIN marks[z[1]]
      BY DEF Marked, NumberInv, MarksOK
    <3>2. DOMAIN marks[z[1]] = 1 .. Len(marks[z[1]])
      BY <3>1 DEF NumberInv, MarksOK
    <3> QED
      BY <3>1, <3>2 DEF NumberInv, MarksOK
  <2> QED
    BY <2>1 DEF NumberInv, TableOK
<1> QED
  BY <1>1, NumberInvariance, PTL

-----------------------------------------------------------------------------
(* The cells of the answer                                                   *)

\* What EachCellItsOwn asks of the cell c of chunk k
OwnCell(k, c) ==
  /\ c.form = "anonymized" /\ c.of = k
  /\ Len(c.marks) = Len(chunks[k].found)
  /\ \A j \in DOMAIN chunks[k].found : chunks[k].found[j] = << c.marks[j].type, mappings[c.marks[j]] >>

\* What RawTextOnlyWhereKnown allows for cell k
KnownRaw(k, c) ==
  c.form = "verbatim" =>
    chunks[c.of].size = "blank" \/ (chunks[k].size = "huge" /\ format \in { "csv", "json" })

OwnCells == pc = "done" => \A k \in DOMAIN chunks : chunks[k].size = "fits" => OwnCell(k, output[k])
KnownCells == \A k \in DOMAIN output : KnownRaw(k, output[k])

LEMMA DocumentFixed == [Next]_vars => format' = format /\ chunks' = chunks
<1> SUFFICES ASSUME [Next]_vars PROVE format' = format /\ chunks' = chunks
  OBVIOUS
<1>1. CASE Extract \/ AnswerEmpty \/ SplitChunks \/ GatherResults \/ StartAssembling \/ Finished \/ UNCHANGED vars
  BY <1>1 DEF Extract, AnswerEmpty, SplitChunks, GatherResults, StartAssembling, Finished, vars
<1>2. CASE (\E k \in DOMAIN chunks : ChunkAnalyzed(k)) \/ ReusePlaceholder \/ NewPlaceholder
  BY <1>2 DEF ChunkAnalyzed, ReusePlaceholder, NewPlaceholder
<1>3. CASE AssembleText \/ AssembleCsv \/ AssembleJson \/ AssembleXlsx
  BY <1>3 DEF AssembleText, AssembleCsv, AssembleJson, AssembleXlsx, Assemble
<1> QED
  BY <1>1, <1>2, <1>3 DEF Next

\* The chunks that are analysed are exactly the entries of valid, in document order.
LEMMA AssembleFacts ==
  ASSUME NumberInv, pc = "assemble"
  PROVE  /\ Fits \in SUBSET Nat /\ IsFiniteSet(Fits) /\ Fits \subseteq DOMAIN chunks
         /\ valid \in InOrder(Fits) /\ skipped = Huge /\ DOMAIN valid = 1 .. Cardinality(Fits)
         /\ Cardinality(Fits) \in Nat
         /\ \A i \in DOMAIN valid : valid[i] \in Fits
         /\ \A i, j \in DOMAIN valid : valid[i] = valid[j] => i = j
         /\ \A k \in Fits : \E i \in DOMAIN valid : valid[i] = k
         /\ NonEmpty \ skipped = Fits
         /\ \A k \in DOMAIN chunks : k \notin NonEmpty <=> chunks[k].size = "blank"
         /\ \A k \in DOMAIN chunks : k \in skipped <=> chunks[k].size = "huge"
         /\ \A k \in DOMAIN chunks : k \in Fits <=> chunks[k].size = "fits"
<1>1. ChunksOK /\ valid \in InOrder(Fits) /\ skipped = Huge
  BY DEF NumberInv, SplitOK
<1>2. Fits \in SUBSET Nat /\ IsFiniteSet(Fits) /\ Fits \subseteq DOMAIN chunks
  BY <1>1, FitsFacts
<1>3. \A k \in DOMAIN chunks : chunks[k].size \in { "blank", "fits", "huge" }
  BY <1>1 DEF ChunksOK
<1>4. /\ NonEmpty \ skipped = Fits
      /\ \A k \in DOMAIN chunks : k \notin NonEmpty <=> chunks[k].size = "blank"
      /\ \A k \in DOMAIN chunks : k \in skipped <=> chunks[k].size = "huge"
      /\ \A k \in DOMAIN chunks : k \in Fits <=> chunks[k].size = "fits"
  BY <1>1, <1>3 DEF Fits, Huge, NonEmpty
<1>5. /\ Cardinality(Fits) \in Nat /\ valid \in [ 1 .. Cardinality(Fits) -> Fits ]
      /\ \A i, j \in 1 .. Cardinality(Fits) : valid[i] = valid[j] => i = j
      /\ \A k \in Fits : \E i \in 1 .. Cardinality(Fits) : valid[i] = k
  BY <1>1, <1>2, InOrderFacts
<1> QED
  BY <1>1, <1>2, <1>4, <1>5

\* The anonymized text of an entry of valid is that of its chunk.
LEMMA AnonymizedIsOwn ==
  ASSUME NumberInv, pc = "assemble", NEW i \in DOMAIN valid
  PROVE  OwnCell(valid[i], AnonymizedChunks[i]) /\ AnonymizedChunks[i].form = "anonymized"
<1>1. MarksOK /\ TableOK
  BY DEF NumberInv
<1>2. AnonymizedChunks[i].form = "anonymized" /\ AnonymizedChunks[i].of = valid[i] /\ AnonymizedChunks[i].marks = marks[i]
  BY DEF AnonymizedChunks, Anonymized
<1>3. i \in DOMAIN results /\ results[i] = chunks[valid[i]].found
  BY <1>1 DEF MarksOK
<1>4. /\ results[i] \in Seq(Entity) /\ marks[i] \in Seq(Placeholder) /\ Len(marks[i]) = Len(results[i])
      /\ \A j \in 1 .. Len(marks[i]) : results[i][j] \in DOMAIN seen /\ marks[i][j] = seen[results[i][j]]
  BY <1>1, <1>3 DEF MarksOK
<1>5. ASSUME NEW j \in DOMAIN results[i]
      PROVE  results[i][j] = << marks[i][j].type, mappings[marks[i][j]] >>
  <2>1. j \in 1 .. Len(marks[i]) /\ results[i][j] \in Entity
    BY <1>4
  <2>2. results[i][j] \in DOMAIN seen /\ marks[i][j] = seen[results[i][j]]
    BY <1>4, <2>1
  <2>3. marks[i][j].type = results[i][j][1] /\ mappings[marks[i][j]] = results[i][j][2]
    BY <1>1, <2>2 DEF TableOK
  <2> QED
    BY <2>1, <2>3 DEF Entity
<1> QED
  BY <1>2, <1>3, <1>4, <1>5 DEF OwnCell

\* A cell found by reference is anonymized, or the chunk has no analysed text.
LEMMA ByIdKnown ==
  ASSUME NumberInv, pc = "assemble", NEW k \in DOMAIN chunks
  PROVE  LET c == ById(chunks[k].id, Verbatim(k)) IN
         \/ c.form = "anonymized"
         \/ c.form = "verbatim" /\ c.of = k /\ chunks[k].size # "fits"
<1>1. CASE Lookup(chunks[k].id) = {}
  <2>1. k \notin Fits
    BY <1>1, AssembleFacts DEF Lookup
  <2> QED
    BY <1>1, <2>1, AssembleFacts DEF ById, Verbatim
<1>2. CASE Lookup(chunks[k].id) # {}
  <2>1. Lookup(chunks[k].id) \in SUBSET (0 .. Cardinality(Fits)) /\ Cardinality(Fits) \in Nat
    BY AssembleFacts DEF Lookup
  <2>2. Max(Lookup(chunks[k].id)) \in DOMAIN valid
    BY <1>2, <2>1, MaxOfNaturals DEF Lookup
  <2> QED
    BY <1>2, <2>2, AnonymizedIsOwn DEF ById
<1> QED
  BY <1>1, <1>2

\* When references differ the cell found by reference is the chunk's own.
LEMMA ByIdOwn ==
  ASSUME NumberInv, pc = "assemble", format # "text", UniqueIds, NEW k \in Fits
  PROVE  OwnCell(k, ById(chunks[k].id, Verbatim(k)))
<1>1. PICK i \in DOMAIN valid : valid[i] = k
  BY AssembleFacts
<1>2. Lookup(chunks[k].id) = { i }
  BY <1>1, AssembleFacts DEF Lookup, UniqueIds
<1>3. { i } \in SUBSET (0 .. Cardinality(Fits)) /\ Cardinality(Fits) \in Nat
  BY AssembleFacts
<1>4. Max({ i }) = i
  BY <1>3, MaxOfNaturals
<1>5. ById(chunks[k].id, Verbatim(k)) = AnonymizedChunks[i]
  BY <1>2, <1>4 DEF ById
<1> QED
  BY <1>1, <1>5, AnonymizedIsOwn

\* In a text the count of the chunks up to k is the index of k in valid.
LEMMA ByRankOwn ==
  ASSUME NumberInv, pc = "assemble", NEW k \in Fits
  PROVE  /\ OwnCell(k, AnonymizedChunks[Cardinality({ j \in NonEmpty \ skipped : j <= k })])
         /\ AnonymizedChunks[Cardinality({ j \in NonEmpty \ skipped : j <= k })].form = "anonymized"
<1>1. PICK i \in DOMAIN valid : valid[i] = k
  BY AssembleFacts
<1>2. NonEmpty \ skipped = Fits
  BY AssembleFacts
<1>3. Cardinality({ j \in Fits : j <= k }) = i
  BY <1>1, AssembleFacts, Rank
<1> QED
  BY <1>1, <1>2, <1>3, AnonymizedIsOwn

\* Assembly, format by format: what each cell is
LEMMA AssembledCells ==
  ASSUME NumberInv, AssembleText \/ AssembleCsv \/ AssembleJson \/ AssembleXlsx
  PROVE  /\ DOMAIN output' = DOMAIN chunks
         /\ \A k \in DOMAIN chunks : KnownRaw(k, output'[k])
         /\ UniqueIds => \A k \in Fits : OwnCell(k, output'[k])
<1>1. CASE AssembleText
  <2>1. /\ pc = "assemble" /\ format = "text"
        /\ output' = [ k \in DOMAIN chunks |->
             IF k \notin NonEmpty THEN Absent ELSE IF k \in skipped THEN Marker
             ELSE AnonymizedChunks[Cardinality({ j \in NonEmpty \ skipped : j <= k })] ]
    BY <1>1 DEF AssembleText, Assemble
  <2>2. ASSUME NEW k \in DOMAIN chunks
        PROVE  KnownRaw(k, output'[k]) /\ (k \in Fits => OwnCell(k, output'[k]))
    <3>1. CASE k \in Fits
      <4>1. k \in NonEmpty /\ k \notin skipped
        BY <2>1, <3>1, AssembleFacts DEF Fits
      <4>2. output'[k] = AnonymizedChunks[Cardinality({ j \in NonEmpty \ skipped : j <= k })]
        BY <2>1, <4>1
      <4> QED
        BY <2>1, <3>1, <4>2, ByRankOwn DEF KnownRaw
    <3>2. CASE k \notin Fits
      <4>1. output'[k] \in { Absent, Marker }
        BY <2>1, <3>2, AssembleFacts
      <4> QED
        BY <3>2, <4>1 DEF KnownRaw, Absent, Marker
    <3> QED
      BY <3>1, <3>2
  <2> QED
    BY <2>1, <2>2, AssembleFacts
<1>2. CASE AssembleCsv \/ AssembleJson
  <2>1. /\ pc = "assemble" /\ format \in { "csv", "json" }
        /\ output' = [ k \in DOMAIN chunks |-> ById(chunks[k].id, Verbatim(k)) ]
    BY <1>2 DEF AssembleCsv, AssembleJson, Assemble
  <2>2. \A k \in DOMAIN chunks : output'[k] = ById(chunks[k].id, Verbatim(k))
    BY <2>1
  <2>3. ASSUME NEW k \in DOMAIN chunks PROVE KnownRaw(k, output'[k])
    <3>1. chunks[k].size \in { "blank", "fits", "huge" }
      BY DEF NumberInv, ChunksOK
    <3> QED
      BY <2>1, <2>2, <3>1, ByIdKnown DEF KnownRaw
  <2>4. ASSUME UniqueIds, NEW k \in Fits PROVE OwnCell(k, output'[k])
    <3>1. k \in DOMAIN chunks
      BY <2>1, AssembleFacts
    <3> QED
      BY <2>1, <2>2, <2>4, <3>1, ByIdOwn
  <2> QED
    BY <2>1, <2>3, <2>4
<1>3. CASE AssembleXlsx
  <2>1. /\ pc = "assemble" /\ format = "xlsx"
        /\ output' = [ k \in DOMAIN chunks |->
             IF k \notin NonEmpty THEN Verbatim(k) ELSE IF k \in skipped THEN Marker
             ELSE ById(chunks[k].id, Verbatim(k)) ]
    BY <1>3 DEF AssembleXlsx, Assemble
  <2>2. ASSUME NEW k \in DOMAIN chunks PROVE KnownRaw(k, output'[k])
    <3>1. CASE k \notin NonEmpty
      BY <2>1, <3>1, AssembleFacts DEF KnownRaw, Verbatim
    <3>2. CASE k \in NonEmpty /\ k \in skipped
      BY <2>1, <3>2 DEF KnownRaw, Marker
    <3>3. CASE k \in NonEmpty /\ k \notin skipped
      <4>1. chunks[k].size = "fits" /\ output'[k] = ById(chunks[k].id, Verbatim(k))
        BY <2>1, <3>3, AssembleFacts
      <4> QED
        BY <2>1, <4>1, ByIdKnown DEF KnownRaw
    <3> QED
      BY <3>1, <3>2, <3>3
  <2>3. ASSUME UniqueIds, NEW k \in Fits PROVE OwnCell(k, output'[k])
    <3>1. k \in DOMAIN chunks /\ k \in NonEmpty /\ k \notin skipped
      BY <2>1, AssembleFacts DEF Fits
    <3>2. output'[k] = ById(chunks[k].id, Verbatim(k))
      BY <2>1, <3>1
    <3> QED
      BY <2>1, <2>3, <3>2, ByIdOwn
  <2> QED
    BY <2>1, <2>2, <2>3
<1> QED
  BY <1>1, <1>2, <1>3

LEMMA StepCells ==
  ASSUME NumberInv, [Next]_vars, KnownCells
  PROVE  KnownCells' /\ (UniqueIds /\ OwnCells => OwnCells')
<1>1. chunks' = chunks /\ format' = format
  BY DocumentFixed
<1>2. \A k \in DOMAIN chunks : chunks[k].size \in { "blank", "fits", "huge" }
  BY DEF NumberInv, ChunksOK
<1>3. CASE AssembleText \/ AssembleCsv \/ AssembleJson \/ AssembleXlsx
  <2>1. mappings' = mappings /\ pc = "assemble"
    BY <1>3 DEF AssembleText, AssembleCsv, AssembleJson, AssembleXlsx, Assemble
  <2>2. KnownCells'
    BY <1>1, <1>3, AssembledCells DEF KnownCells, KnownRaw
  <2>3. ASSUME UniqueIds, NEW k \in DOMAIN chunks, chunks[k].size = "fits" PROVE OwnCell(k, output'[k])
    BY <1>3, <2>1, <2>3, AssembledCells, AssembleFacts
  <2> QED
    BY <1>1, <2>1, <2>2, <2>3 DEF OwnCells, OwnCell
<1>4. CASE AnswerEmpty
  <2>1. /\ NonEmpty = {}
        /\ output' = [ k \in DOMAIN chunks |-> IF format = "json" THEN Verbatim(k) ELSE Absent ]
    BY <1>4 DEF AnswerEmpty
  <2>2. \A k \in DOMAIN chunks : chunks[k].size = "blank"
    BY <2>1 DEF NonEmpty
  <2>3. ASSUME NEW k \in DOMAIN chunks PROVE KnownRaw(k, output'[k])
    <3>1. output'[k] = Verbatim(k) \/ output'[k] = Absent
      BY <2>1
    <3> QED
      BY <2>2, <3>1 DEF KnownRaw, Verbatim, Absent
  <2> QED
    BY <1>1, <2>1, <2>2, <2>3 DEF KnownCells, KnownRaw, OwnCells
<1>5. CASE Finished \/ UNCHANGED vars
  BY <1>5 DEF Finished, vars, KnownCells, KnownRaw, OwnCells, OwnCell
<1>6. ASSUME output' = output, pc' # "done"
      PROVE  KnownCells' /\ OwnCells'
  BY <1>1, <1>6 DEF KnownCells, KnownRaw, OwnCells
<1>7. CASE Extract \/ SplitChunks \/ (\E k \in DOMAIN chunks : ChunkAnalyzed(k)) \/ GatherResults
  BY <1>6, <1>7 DEF Extract, SplitChunks, ChunkAnalyzed, GatherResults
<1>8. CASE ReusePlaceholder \/ NewPlaceholder \/ StartAssembling
  BY <1>6, <1>8 DEF ReusePlaceholder, NewPlaceholder, StartAssembling
<1> QED
  BY <1>3, <1>4, <1>5, <1>7, <1>8 DEF Next

\* A cell shows a text as it came only if the text is blank or, in a CSV or JSON
\* output, oversized, however many chunks a file has and whatever their references
\* are.
THEOREM RawTextKnown == Spec => []RawTextOnlyWhereKnown
<1>1. Init => KnownCells
  BY DEF Init, KnownCells
<1>2. NumberInv /\ KnownCells /\ [Next]_vars => KnownCells'
  BY StepCells
<1>3. KnownCells => RawTextOnlyWhereKnown
  BY DEF KnownCells, KnownRaw, RawTextOnlyWhereKnown
<1> QED
  BY <1>1, <1>2, <1>3, NumberInvariance, PTL DEF Spec

\* Where the references of a file's texts differ, every analysed text stands in its
\* own cell, its entities replaced by placeholders that the mapping leads back
\* from.  For text formats no condition on references is needed.
THEOREM CellsAreOwn == UniqueReferences => (Spec => []EachCellItsOwn)
<1> SUFFICES ASSUME UniqueReferences PROVE Spec => []EachCellItsOwn
  OBVIOUS
<1>1. Init => KnownCells /\ UniqueIds /\ OwnCells
  BY InitDocument DEF Init, KnownCells, OwnCells
<1>2. NumberInv /\ (KnownCells /\ UniqueIds /\ OwnCells) /\ [Next]_vars => (KnownCells /\ UniqueIds /\ OwnCells)'
  <2>1. UniqueIds /\ [Next]_vars => UniqueIds'
    BY DocumentFixed DEF UniqueIds
  <2> QED
    BY <2>1, StepCells
<1>3. OwnCells => EachCellItsOwn
  BY DEF OwnCells, OwnCell, EachCellItsOwn
<1> QED
  BY <1>1, <1>2, <1>3, NumberInvariance, PTL DEF Spec

-----------------------------------------------------------------------------
(* The order of the numbers                                                  *)

\* The two loops: whatever has a placeholder was met at a place they passed, and a
\* chunk is begun only when those before it are complete.
LoopOK ==
  /\ pc \notin { "number", "assemble", "done" } => DOMAIN seen = {}
  /\ pc = "number" =>
       /\ \A e \in DOMAIN seen : \E i \in DOMAIN marks : \E j \in 1 .. Len(marks[i]) : results[i][j] = e
       /\ \A h, i \in DOMAIN marks : h < i /\ Len(marks[i]) > 0 => Len(marks[h]) = Len(results[h])

\* Where the outer loop is: chunks before it are complete, chunks after it untouched.
LEMMA LoopPosition ==
  ASSUME MarksOK, LoopOK, pc = "number", Unnumbered # {}
  PROVE  /\ AtChunk \in DOMAIN results /\ AtChunk \in Nat
         /\ \A h \in DOMAIN results : h \in Nat /\ Len(marks[h]) \in Nat /\ Len(results[h]) \in Nat
         /\ \A h \in DOMAIN results : h < AtChunk => Len(marks[h]) = Len(results[h])
         /\ \A h \in DOMAIN results : AtChunk < h => Len(marks[h]) = 0
         /\ Len(marks[AtChunk]) < Len(results[AtChunk])
<1>1. \A h \in DOMAIN results : /\ h \in Nat /\ Len(marks[h]) \in Nat /\ Len(results[h]) \in Nat
                                /\ Len(marks[h]) <= Len(results[h])
  BY DEF MarksOK
<1>2. Unnumbered \in SUBSET Nat
  BY <1>1 DEF Unnumbered
<1>3. AtChunk \in Unnumbered /\ \A h \in Unnumbered : AtChunk <= h
  BY <1>2, MinOfNaturals DEF AtChunk
<1>4. AtChunk \in DOMAIN results /\ AtChunk \in Nat /\ Len(marks[AtChunk]) < Len(results[AtChunk])
  BY <1>2, <1>3 DEF Unnumbered
<1>5. ASSUME NEW h \in DOMAIN results, h < AtChunk PROVE Len(marks[h]) = Len(results[h])
  <2>1. h \notin Unnumbered
    BY <1>1, <1>3, <1>4, <1>5
  <2> QED
    BY <1>1, <2>1 DEF Unnumbered
<1>6. ASSUME NEW h \in DOMAIN results, AtChunk < h PROVE Len(marks[h]) = 0
  <2>1. Len(marks[h]) > 0 => Len(marks[AtChunk]) = Len(results[AtChunk])
    BY <1>4, <1>6 DEF LoopOK, MarksOK
  <2> QED
    BY <1>1, <1>4, <2>1
<1> QED
  BY <1>1, <1>4, <1>5, <1>6

LEMMA MarkKeepsLoop ==
  ASSUME MarksOK, LoopOK, pc = "number", pc' = "number", Unnumbered # {}, NEW p \in Placeholder, MarkWith(p),
         results' = results, DOMAIN seen' = (DOMAIN seen) \cup { AtEntity }
  PROVE  LoopOK'
<1>1. /\ AtChunk \in DOMAIN results /\ AtChunk \in Nat /\ DOMAIN marks = DOMAIN results
      /\ \A h \in DOMAIN results : h \in Nat /\ Len(marks[h]) \in Nat /\ Len(results[h]) \in Nat
      /\ \A h \in DOMAIN results : h < AtChunk => Len(marks[h]) = Len(results[h])
      /\ \A h \in DOMAIN results : AtChunk < h => Len(marks[h]) = 0
      /\ AtEntity = results[AtChunk][Len(marks[AtChunk]) + 1]
      /\ marks[AtChunk] \in Seq(Placeholder)
  BY LoopPosition DEF MarksOK, AtEntity
<1>2. marks' = [ marks EXCEPT ![AtChunk] = Append(@, p) ]
  BY DEF MarkWith
<1>3. /\ DOMAIN marks' = DOMAIN results /\ Len(marks'[AtChunk]) = Len(marks[AtChunk]) + 1
      /\ \A h \in DOMAIN results : h # AtChunk => marks'[h] = marks[h]
  BY <1>1, <1>2
<1>4. ASSUME NEW e \in DOMAIN seen'
      PROVE  \E i \in DOMAIN results : \E j \in 1 .. Len(marks'[i]) : results[i][j] = e
  <2>1. CASE e = AtEntity
    BY <1>1, <1>3, <2>1
  <2>2. CASE e \in DOMAIN seen
    <3>1. PICK i \in DOMAIN results : \E j \in 1 .. Len(marks[i]) : results[i][j] = e
      BY <1>1, <2>2 DEF LoopOK
    <3>2. 1 .. Len(marks[i]) \subseteq 1 .. Len(marks'[i])
      <4>1. CASE i = AtChunk
        BY <1>1, <1>3, <4>1
      <4>2. CASE i # AtChunk
        BY <1>3, <4>2
      <4> QED
        BY <4>1, <4>2
    <3> QED
      BY <3>1, <3>2
  <2> QED
    BY <2>1, <2>2
<1>5. ASSUME NEW h \in DOMAIN results, NEW i \in DOMAIN results, h < i, Len(marks'[i]) > 0
      PROVE  Len(marks'[h]) = Len(results[h])
  <2>1. ~(AtChunk < i)
    BY <1>1, <1>3, <1>5
  <2>2. h < AtChunk
    BY <1>1, <1>5, <2>1
  <2> QED
    BY <1>1, <1>3, <2>2
<1> QED
  BY <1>3, <1>4, <1>5 DEF LoopOK

\* Where the entity at hand stands: the places of one that has no placeholder yet
\* come after every place that the loops have passed.
LEMMA NewComesLater ==
  ASSUME NumberInv, LoopOK, pc = "number", Unnumbered # {}, AtEntity \notin DOMAIN seen, NEW f \in DOMAIN seen
  PROVE  \E x \in Places(f) : \A y \in Places(AtEntity) :
           x[1] < y[1] \/ (x[1] = y[1] /\ x[2] < y[2])
<1>1. MarksOK /\ valid \in InOrder(Fits) /\ ChunksOK /\ results = [ i \in DOMAIN valid |-> chunks[valid[i]].found ]
  BY DEF NumberInv, SplitOK, MarksOK
<1>2. Fits \in SUBSET Nat /\ IsFiniteSet(Fits) /\ Fits \subseteq DOMAIN chunks
  BY <1>1, FitsFacts
<1>3. /\ Cardinality(Fits) \in Nat /\ DOMAIN valid = 1 .. Cardinality(Fits)
      /\ \A i \in DOMAIN valid : valid[i] \in Fits /\ valid[i] \in Nat
      /\ \A h, i \in DOMAIN valid : h < i => valid[h] < valid[i]
      /\ \A k \in Fits : \E i \in DOMAIN valid : valid[i] = k
  <2>1. /\ Cardinality(Fits) \in Nat /\ valid \in [ 1 .. Cardinality(Fits) -> Fits ]
        /\ \A h, i \in 1 .. Cardinality(Fits) : h < i => valid[h] < valid[i]
        /\ \A k \in Fits : \E i \in 1 .. Cardinality(Fits) : valid[i] = k
    BY <1>1, <1>2, InOrderFacts
  <2> QED
    BY <1>2, <2>1
<1>4. /\ DOMAIN marks = DOMAIN results /\ DOMAIN results = DOMAIN valid
      /\ \A h \in DOMAIN results : h \in Nat /\ Len(marks[h]) \in Nat /\ Len(results[h]) \in Nat
      /\ \A h \in DOMAIN results : h < AtChunk => Len(marks[h]) = Len(results[h])
      /\ \A h \in DOMAIN results : AtChunk < h => Len(marks[h]) = 0
      /\ AtChunk \in Nat
  BY <1>1, LoopPosition DEF MarksOK
<1>5. PICK i \in DOMAIN results : \E j \in 1 .. Len(marks[i]) : results[i][j] = f
  BY <1>4 DEF LoopOK
<1>6. PICK j \in 1 .. Len(marks[i]) : results[i][j] = f
  BY <1>5
<1>7. /\ results[i] = chunks[valid[i]].found /\ results[i] \in Seq(Entity) /\ Len(marks[i]) <= Len(results[i])
      /\ valid[i] \in DOMAIN chunks
  BY <1>1, <1>2, <1>3, <1>4 DEF MarksOK
<1>8. j \in DOMAIN results[i] /\ j \in 1 .. MaxFound
  <2>1. chunks[valid[i]].found \in BoundedSeq(Entity, MaxFound)
    BY <1>1, <1>7 DEF ChunksOK, Text
  <2>2. Len(chunks[valid[i]].found) <= MaxFound
    BY <2>1, BoundAssumption DEF BoundedSeq, SeqOf
  <2> QED
    BY <1>4, <1>7, <2>2, BoundAssumption
<1>9. << valid[i], j >> \in Places(f)
  BY <1>6, <1>7, <1>8 DEF Places
<1>10. ASSUME NEW y \in Places(AtEntity)
       PROVE  valid[i] < y[1] \/ (valid[i] = y[1] /\ j < y[2])
  <2>1. y[1] \in DOMAIN chunks /\ y[2] \in DOMAIN chunks[y[1]].found /\ chunks[y[1]].found[y[2]] = AtEntity
    BY DEF Places
  <2>2. y[1] \in Fits
    <3>1. chunks[y[1]].found # << >>
      BY <2>1
    <3> QED
      BY <1>1, <2>1, <3>1 DEF ChunksOK, Fits, NonEmpty
  <2>3. PICK h \in DOMAIN valid : valid[h] = y[1]
    BY <1>3, <2>2
  <2>4. results[h] = chunks[y[1]].found /\ y[2] \in 1 .. Len(results[h])
    BY <1>1, <1>4, <2>1, <2>3 DEF MarksOK
  <2>5. ~(y[2] \in 1 .. Len(marks[h]))
    BY <1>1, <1>4, <2>1, <2>4 DEF MarksOK
  <2>6. y[2] > Len(marks[h]) /\ Len(marks[h]) < Len(results[h])
    BY <1>4, <2>4, <2>5
  <2>7. AtChunk <= h /\ i <= AtChunk
    BY <1>4, <1>6, <2>6
  <2>8. CASE i < h
    BY <1>3, <1>4, <2>3, <2>8
  <2>9. CASE i = h
    BY <1>4, <1>6, <2>3, <2>4, <2>6, <2>9
  <2> QED
    BY <1>4, <2>7, <2>8, <2>9
<1> QED
  BY <1>9, <1>10

OrderInv == LoopOK /\ NumberedInDocumentOrder

LEMMA StepOrder ==
  ASSUME NumberInv, OrderInv, [Next]_vars
  PROVE  OrderInv'
<1>1. MarksOK /\ TableOK /\ LoopOK /\ NumberedInDocumentOrder
  BY DEF NumberInv, OrderInv
<1>2. chunks' = chunks
  BY DocumentFixed
<1>3. seen' = seen => NumberedInDocumentOrder'
  BY <1>1, <1>2 DEF NumberedInDocumentOrder, Places
<1>4. CASE Extract \/ SplitChunks \/ AnswerEmpty \/ (\E k \in DOMAIN chunks : ChunkAnalyzed(k))
  <2>1. pc \notin { "number", "assemble", "done" } /\ pc' # "number" /\ seen' = seen
    BY <1>4 DEF Extract, SplitChunks, AnswerEmpty, ChunkAnalyzed
  <2>2. LoopOK'
    BY <1>1, <2>1 DEF LoopOK
  <2> QED
    BY <1>3, <2>1, <2>2 DEF OrderInv
<1>5. CASE Finished \/ UNCHANGED vars
  BY <1>1, <1>3, <1>5 DEF Finished, vars, OrderInv, LoopOK
<1>6. CASE StartAssembling \/ AssembleText \/ AssembleCsv \/ AssembleJson \/ AssembleXlsx
  BY <1>1, <1>3, <1>6 DEF StartAssembling, AssembleText, AssembleCsv, AssembleJson, AssembleXlsx, Assemble,
                          OrderInv, LoopOK
<1>7. CASE GatherResults
  <2>1. pc = "analyze" /\ pc' = "number" /\ seen' = seen /\ marks' = [ i \in DOMAIN valid |-> << >> ]
    BY <1>7 DEF GatherResults
  <2>2. \A i \in DOMAIN marks' : Len(marks'[i]) = 0
    BY <2>1
  <2> QED
    BY <1>1, <1>3, <2>1, <2>2 DEF OrderInv, LoopOK
<1>8. CASE ReusePlaceholder
  <2>1. /\ pc = "number" /\ pc' = "number" /\ Unnumbered # {} /\ AtEntity \in DOMAIN seen
        /\ MarkWith(seen[AtEntity]) /\ results' = results /\ seen' = seen
    BY <1>8 DEF ReusePlaceholder
  <2>2. seen[AtEntity] \in Placeholder
    BY <1>1, <2>1 DEF TableOK
  <2>3. DOMAIN seen' = (DOMAIN seen) \cup { AtEntity }
    BY <2>1
  <2> QED
    BY <1>1, <1>3, <2>1, <2>2, <2>3, MarkKeepsLoop DEF OrderInv
<1>9. CASE NewPlaceholder
  <2> DEFINE e == AtEntity
             p == [ type |-> AtEntity[1], n |-> counters[AtEntity[1]] + 1 ]
  <2>1. /\ pc = "number" /\ pc' = "number" /\ Unnumbered # {} /\ e \notin DOMAIN seen
        /\ seen' = Put(seen, e, p) /\ MarkWith(p) /\ results' = results
    BY <1>9 DEF NewPlaceholder
  <2>2. e \in Entity /\ e[1] \in Types /\ counters[e[1]] \in Nat
    BY <1>1, <2>1, AtChunkFacts DEF Entity, TableOK
  <2>3. p \in Placeholder /\ p.n = counters[e[1]] + 1
    BY <2>2 DEF Placeholder
  <2>4. \A f \in DOMAIN seen : \E x \in Places(f) : \A y \in Places(AtEntity) :
          x[1] < y[1] \/ (x[1] = y[1] /\ x[2] < y[2])
    BY <1>1, <2>1, NewComesLater
  <2>5. \A f \in DOMAIN seen : f[1] = e[1] => seen[f].n <= counters[e[1]] /\ seen[f].n \in Nat
    BY <1>1 DEF TableOK, Placeholder
  <2>6. e = AtEntity
    OBVIOUS
  <2> HIDE DEF e, p
  <2>7. /\ DOMAIN seen' = (DOMAIN seen) \cup { e } /\ seen'[e] = p
        /\ \A f \in DOMAIN seen : seen'[f] = seen[f]
    BY <2>1 DEF Put
  <2>8. LoopOK'
    BY <1>1, <2>1, <2>3, <2>6, <2>7, MarkKeepsLoop
  <2>9. ASSUME NEW f \in DOMAIN seen', NEW g \in DOMAIN seen', f[1] = g[1], seen'[f].n < seen'[g].n
        PROVE  \E x \in Places(f) : \A y \in Places(g) :
                 x[1] < y[1] \/ (x[1] = y[1] /\ x[2] < y[2])
    <3>1. CASE g = e
      <4>1. f # e
        BY <2>2, <2>3, <2>7, <2>9, <3>1
      <4>2. f \in DOMAIN seen
        BY <2>7, <4>1
      <4> QED
        BY <2>4, <2>6, <3>1, <4>2
    <3>2. CASE g # e
      <4>1. g \in DOMAIN seen /\ seen'[g] = seen[g]
        BY <2>7, <3>2
      <4>2. f # e
        BY <2>2, <2>3, <2>5, <2>7, <2>9, <4>1
      <4> QED
        BY <1>1, <2>7, <2>9, <4>1, <4>2 DEF NumberedInDocumentOrder
    <3> QED
      BY <3>1, <3>2
  <2>10. \A f : Places(f)' = Places(f)
    BY <1>2 DEF Places
  <2>11. NumberedInDocumentOrder'
    BY <2>9, <2>10 DEF NumberedInDocumentOrder
  <2> QED
    BY <2>8, <2>11 DEF OrderInv
<1> QED
  BY <1>4, <1>5, <1>6, <1>7, <1>8, <1>9 DEF Next

\* Numbers follow the document for any order in which the analyses come back, any
\* number of chunks and any number of entities in each.
THEOREM NumbersFollowDocument == Spec => []NumberedInDocumentOrder
<1>1. Init => OrderInv
  BY DEF Init, OrderInv, LoopOK, NumberedInDocumentOrder
<1>2. NumberInv /\ OrderInv /\ [Next]_vars => OrderInv'
  BY StepOrder
<1>3. OrderInv => NumberedInDocumentOrder
  BY DEF OrderInv
<1> QED
  BY <1>1, <1>2, <1>3, NumberInvariance, PTL DEF Spec

-----------------------------------------------------------------------------
(* Types                                                                     *)

\* What TypeOK says beyond NumberInv
FlowOK ==
  /\ Range(valid) \subseteq NonEmpty
  /\ arrived \in Seq(DOMAIN chunks) /\ Range(arrived) \subseteq Range(valid)
  /\ skipped \subseteq NonEmpty \ Range(valid)
  /\ pc \in { "uploaded", "extracted" } => Range(arrived) = {}
  /\ output # << >> => DOMAIN output = DOMAIN chunks

LEMMA StepFlow ==
  ASSUME NumberInv, FlowOK, [Next]_vars
  PROVE  FlowOK'
<1>1. chunks' = chunks /\ NonEmpty' = NonEmpty
  BY DocumentFixed DEF NonEmpty
<1>2. CASE Extract \/ Finished \/ UNCHANGED vars
  BY <1>1, <1>2 DEF Extract, Finished, vars, FlowOK
<1>3. CASE GatherResults \/ StartAssembling
  BY <1>1, <1>3 DEF GatherResults, StartAssembling, FlowOK
<1>4. CASE ReusePlaceholder \/ NewPlaceholder
  BY <1>1, <1>4 DEF ReusePlaceholder, NewPlaceholder, FlowOK
<1>5. CASE AnswerEmpty
  BY <1>1, <1>5 DEF AnswerEmpty, FlowOK
<1>6. CASE SplitChunks
  <2>1. /\ pc = "extracted" /\ pc' = "analyze" /\ arrived' = arrived /\ output' = output
        /\ skipped' = Huge /\ valid' \in InOrder(Fits)
    BY <1>6 DEF SplitChunks, Fits, Huge
  <2>2. Range(arrived) = {} /\ Range(arrived') = {}
    BY <2>1 DEF FlowOK
  <2>3. Range(valid') \subseteq Fits
    BY <2>1 DEF InOrder, Range
  <2>4. Fits \subseteq NonEmpty /\ Huge \subseteq NonEmpty \ Fits
    BY DEF Fits, Huge
  <2> QED
    BY <1>1, <2>1, <2>2, <2>3, <2>4 DEF FlowOK
<1>7. ASSUME NEW k \in DOMAIN chunks, ChunkAnalyzed(k) PROVE FlowOK'
  <2>1. /\ k \in Range(valid) /\ arrived' = Append(arrived, k)
        /\ pc = "analyze" /\ UNCHANGED << pc, valid, skipped, output >>
    BY <1>7 DEF ChunkAnalyzed
  <2>2. arrived \in Seq(DOMAIN chunks)
    BY DEF FlowOK
  <2>3. arrived' \in Seq(DOMAIN chunks)
    BY <2>1, <2>2
  <2>4. Range(arrived') \subseteq Range(arrived) \cup { k }
    BY <2>1, <2>2 DEF Range
  <2> QED
    BY <1>1, <2>1, <2>3, <2>4 DEF FlowOK
<1>8. CASE AssembleText \/ AssembleCsv \/ AssembleJson \/ AssembleXlsx
  <2>1. pc' = "done" /\ UNCHANGED << valid, skipped, arrived >>
    BY <1>8 DEF AssembleText, AssembleCsv, AssembleJson, AssembleXlsx, Assemble
  <2>2. DOMAIN output' = DOMAIN chunks
    BY <1>8, AssembledCells
  <2> QED
    BY <1>1, <2>1, <2>2 DEF FlowOK
<1> QED
  BY <1>2, <1>3, <1>4, <1>5, <1>6, <1>7, <1>8 DEF Next

\* Every variable keeps its type; the mapping holds exactly the placeholders that
\* were given.
THEOREM PipelineTypes == Spec => []TypeOK
<1>1. Init => FlowOK
  BY DEF Init, FlowOK, Range
<1>2. NumberInv /\ FlowOK /\ [Next]_vars => FlowOK'
  BY StepFlow
<1>3. NumberInv /\ FlowOK => TypeOK
  <2> SUFFICES ASSUME NumberInv, FlowOK PROVE TypeOK
    OBVIOUS
  <2>1. ChunksOK /\ format \in Formats /\ SplitOK /\ MarksOK /\ TableOK
    BY DEF NumberInv
  <2>2. Range(seen) \subseteq Placeholder
    BY <2>1 DEF Range, TableOK
  <2>3. Range(seen) = { seen[e] : e \in DOMAIN seen }
    BY DEF Range
  <2>4. DOMAIN mappings = Range(seen)
    <3>1. \A e \in DOMAIN seen : seen[e] \in DOMAIN mappings
      BY <2>1 DEF TableOK
    <3>2. DOMAIN mappings \subseteq { seen[e] : e \in DOMAIN seen }
      BY <2>1 DEF TableOK
    <3> QED
      BY <2>3, <3>1, <3>2
  <2>5. Range(mappings) \subseteq Values
    <3> SUFFICES ASSUME NEW q \in DOMAIN mappings PROVE mappings[q] \in Values
      BY DEF Range
    <3>1. PICK e \in DOMAIN seen : q = seen[e]
      BY <2>3, <2>4
    <3>2. e \in Entity /\ mappings[q] = e[2]
      BY <2>1, <3>1 DEF TableOK
    <3> QED
      BY <3>2 DEF Entity
  <2>6. \A i \in DOMAIN marks : Range(marks[i]) \subseteq Placeholder
    <3> SUFFICES ASSUME NEW i \in DOMAIN marks PROVE Range(marks[i]) \subseteq Placeholder
      OBVIOUS
    <3>1. marks[i] \in Seq(Placeholder)
      BY <2>1 DEF MarksOK
    <3> QED
      BY <3>1 DEF Range
  <2> QED
    BY <2>1, <2>2, <2>4, <2>5, <2>6 DEF TypeOK, FlowOK, ChunksOK, SplitOK, TableOK
<1> QED
  BY <1>1, <1>2, <1>3, NumberInvariance, PTL DEF Spec
=============================================================================
