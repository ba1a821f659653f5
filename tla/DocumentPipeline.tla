-------------------------- MODULE DocumentPipeline --------------------------
(***************************************************************************)
(* services/document_processor.py: what process_document does with the     *)
(* chunks of one document, from the extraction to the assembled output.    *)
(*                                                                         *)
(* A chunk stands for its text: `found` lists what resolve_overlaps leaves *)
(* of the analyzer's results for it, in text order (Anonymizer has that    *)
(* loop in detail).  An output cell says which chunk's text it shows, in   *)
(* which form and with which placeholders.  The chunks are analysed        *)
(* concurrently and answer in any order (DocumentUpload has the tasks,     *)
(* their failures and the timeout); the rest is sequential.                *)
(***************************************************************************)
EXTENDS Integers, FiniteSets, FiniteSetsExt, Extractors

CONSTANTS
  Types,        \* entity types
  Values,       \* texts of entities
  Formats,      \* the ways to assemble an output
  Layouts,      \* format -> the places at which files have texts, in their order
  MaxChunks,    \* bound: most chunks of a document with entities
  MaxFound      \* bound: most entities of a chunk

ASSUME FormatAssumption == Formats \subseteq { "text", "csv", "json", "xlsx" }
ASSUME BoundAssumption  == MaxChunks \in Nat /\ MaxFound \in Nat
\* a place of a file has one text
ASSUME LayoutAssumption ==
  \A f \in Formats : \A places \in Layouts[f] :
    places \in Seq(Range(places)) /\ IsInjective(places)

VARIABLES
  format,      \* how the output is assembled
  chunks,      \* the texts of the file; the extractors leave out some blank ones
  pc,          \* the step of process_document
  valid,       \* valid_chunks, as positions in chunks
  skipped,     \* the oversized chunks, as positions in chunks
  arrived,     \* valid chunks whose analysis has returned, in that order
  results,     \* all_chunk_entities
  seen,        \* (type, text) -> placeholder
  counters,    \* type -> last number given
  mappings,    \* global_mappings
  marks,       \* per_chunk_maps: chunk -> its placeholders
  output       \* the cells of the answer, by position in chunks

vars == << format, chunks, pc, valid, skipped, arrived, results, seen, counters,
           mappings, marks, output >>

-----------------------------------------------------------------------------
(* Documents                                                                *)

Entity == Types \X Values
Placeholder == [ type : Types, n : Nat \ {0} ]

\* "huge": longer than max_text_length; only a chunk that is analysed has results
Text ==
  { t \in [ size : { "blank", "fits", "huge" }, found : BoundedSeq(Entity, MaxFound) ] :
      t.size # "fits" => t.found = << >> }

\* Longer documents are without entities: their number is what matters.
Texts(n) == [ 1 .. n -> IF n <= MaxChunks THEN Text ELSE { t \in Text : t.found = << >> } ]

Chunk(f, place, t) ==
  [ id |-> Reference(f, place), depth |-> IF f = "json" THEN Len(place) ELSE 0,
    size |-> t.size, found |-> t.found ]

Document(f) ==
  UNION { { [ k \in DOMAIN places |-> Chunk(f, places[k], texts[k]) ] : texts \in Texts(Len(places)) } :
            places \in Layouts[f] }

NonEmpty == { k \in DOMAIN chunks : chunks[k].size # "blank" }

\* The positions of a set, in the order of the document: the only sequence of them
InOrder(S) ==
  { s \in [ 1 .. Cardinality(S) -> S ] : \A i, j \in DOMAIN s : i < j => s[i] < s[j] }

-----------------------------------------------------------------------------
(* Cells of the output                                                      *)

Absent       == [ form |-> "absent",     of |-> 0, marks |-> << >> ]
Marker       == [ form |-> "skipped",    of |-> 0, marks |-> << >> ]
Verbatim(k)  == [ form |-> "verbatim",   of |-> k, marks |-> << >> ]
Anonymized(k, m) == [ form |-> "anonymized", of |-> k, marks |-> m ]

-----------------------------------------------------------------------------
Init ==
  /\ format \in Formats
  /\ chunks \in Document(format)
  /\ pc = "uploaded"
  /\ valid = << >>
  /\ skipped = {}
  /\ arrived = << >>
  /\ results = << >>
  /\ seen = << >>
  /\ counters = [ t \in Types |-> 0 ]
  /\ mappings = << >>
  /\ marks = << >>
  /\ output = << >>

\* The depth of the deepest node of a JSON document that is no text: any, but a
\* document that is one bare text has no other node
OtherDepth == IF \E k \in DOMAIN chunks : chunks[k].depth = 0 THEN { 0 } ELSE 0 .. MaxDepth + 1

Refused(other) ==
  \/ format = "json" /\ TooDeep({ chunks[k].depth : k \in DOMAIN chunks } \cup { other })
  \/ format = "xlsx" /\ TooManyCells(Cardinality(NonEmpty))

\* the extractor of the format returns its chunks or raises
Extract ==
  /\ pc = "uploaded"
  /\ \E other \in OtherDepth : pc' = IF Refused(other) THEN "refused" ELSE "extracted"
  /\ UNCHANGED << format, chunks, valid, skipped, arrived, results, seen, counters, mappings, marks, output >>

\* _build_empty_response: nothing to analyse, JSON keeps its original structure
AnswerEmpty ==
  /\ pc = "extracted"
  /\ NonEmpty = {}
  /\ output' = [ k \in DOMAIN chunks |-> IF format = "json" THEN Verbatim(k) ELSE Absent ]
  /\ pc' = "done"
  /\ UNCHANGED << format, chunks, valid, skipped, arrived, results, seen, counters, mappings, marks >>

\* mutant: the loop does not go on to the next chunk after a skipped one
SplitWithoutContinue ==
  /\ pc = "extracted"
  /\ NonEmpty # {}
  /\ skipped' = { k \in NonEmpty : chunks[k].size = "huge" }
  /\ valid' \in InOrder(NonEmpty)
  /\ pc' = "analyze"
  /\ UNCHANGED << format, chunks, arrived, results, seen, counters, mappings, marks, output >>

\* steps 3 and 3b: blank chunks are filtered, oversized ones set aside
SplitChunks ==
  /\ pc = "extracted"
  /\ NonEmpty # {}
  /\ skipped' = { k \in NonEmpty : chunks[k].size = "huge" }
  /\ valid' \in InOrder({ k \in NonEmpty : chunks[k].size = "fits" })
  /\ pc' = "analyze"
  /\ UNCHANGED << format, chunks, arrived, results, seen, counters, mappings, marks, output >>

\* one analyze_chunk task returns
ChunkAnalyzed(k) ==
  /\ pc = "analyze"
  /\ k \in Range(valid) \ Range(arrived)
  /\ arrived' = Append(arrived, k)
  /\ UNCHANGED << format, chunks, pc, valid, skipped, results, seen, counters, mappings, marks, output >>

\* mutant: the results are taken in the order in which they came
GatherAsCompleted ==
  /\ pc = "analyze"
  /\ Range(arrived) = Range(valid)
  /\ results' = [ i \in DOMAIN arrived |-> chunks[arrived[i]].found ]
  /\ marks' = [ i \in DOMAIN valid |-> << >> ]
  /\ pc' = "number"
  /\ UNCHANGED << format, chunks, valid, skipped, arrived, seen, counters, mappings, output >>

\* gather returns the results in the order of its arguments
GatherResults ==
  /\ pc = "analyze"
  /\ Range(arrived) = Range(valid)
  /\ results' = [ i \in DOMAIN valid |-> chunks[valid[i]].found ]
  /\ marks' = [ i \in DOMAIN valid |-> << >> ]
  /\ pc' = "number"
  /\ UNCHANGED << format, chunks, valid, skipped, arrived, seen, counters, mappings, output >>

-----------------------------------------------------------------------------
(* build_unified_placeholder_map: the two nested loops, an entity a step    *)

Unnumbered == { i \in DOMAIN results : Len(marks[i]) < Len(results[i]) }
\* the chunk the outer loop is at, and the entity the inner loop is at
AtChunk  == Min(Unnumbered)
AtEntity == results[AtChunk][Len(marks[AtChunk]) + 1]

\* a table with an entry set
Put(f, k, v) == [ x \in (DOMAIN f) \cup { k } |-> IF x = k THEN v ELSE f[x] ]

MarkWith(p) == marks' = [ marks EXCEPT ![AtChunk] = Append(@, p) ]

ReusePlaceholder ==
  /\ pc = "number"
  /\ Unnumbered # {}
  /\ AtEntity \in DOMAIN seen
  /\ MarkWith(seen[AtEntity])
  /\ UNCHANGED << format, chunks, pc, valid, skipped, arrived, results, seen, counters, mappings, output >>

\* mutant: the counters start again with every chunk
NumberPerChunk ==
  /\ pc = "number"
  /\ Unnumbered # {}
  /\ AtEntity \notin DOMAIN seen
  /\ LET t == AtEntity[1]
         n == Cardinality({ j \in DOMAIN marks[AtChunk] : marks[AtChunk][j].type = t }) + 1
         p == [ type |-> t, n |-> n ]
     IN
     /\ counters' = [ counters EXCEPT ![t] = n ]
     /\ seen' = Put(seen, AtEntity, p)
     /\ mappings' = Put(mappings, p, AtEntity[2])
     /\ MarkWith(p)
  /\ UNCHANGED << format, chunks, pc, valid, skipped, arrived, results, output >>

NewPlaceholder ==
  /\ pc = "number"
  /\ Unnumbered # {}
  /\ AtEntity \notin DOMAIN seen
  /\ LET t == AtEntity[1]
         p == [ type |-> t, n |-> counters[t] + 1 ]
     IN
     /\ counters' = [ counters EXCEPT ![t] = @ + 1 ]
     /\ seen' = Put(seen, AtEntity, p)
     /\ mappings' = Put(mappings, p, AtEntity[2])
     /\ MarkWith(p)
  /\ UNCHANGED << format, chunks, pc, valid, skipped, arrived, results, output >>

StartAssembling ==
  /\ pc = "number"
  /\ Unnumbered = {}
  /\ pc' = "assemble"
  /\ UNCHANGED << format, chunks, valid, skipped, arrived, results, seen, counters, mappings, marks, output >>

-----------------------------------------------------------------------------
(* Steps 8 and 9: replace_entities on every valid chunk, then the format's   *)
(* own way of putting the chunks back                                        *)

AnonymizedChunks == [ i \in DOMAIN valid |-> Anonymized(valid[i], marks[i]) ]

\* chunk_map and path_map: of the chunks with one id the last one stays
Lookup(id) == { i \in DOMAIN valid : chunks[valid[i]].id = id }
ById(id, default) ==
  IF Lookup(id) = {} THEN default ELSE AnonymizedChunks[Max(Lookup(id))]

Assemble(f, cells) ==
  /\ pc = "assemble"
  /\ format = f
  /\ output' = cells
  /\ pc' = "done"
  /\ UNCHANGED << format, chunks, valid, skipped, arrived, results, seen, counters, mappings, marks >>

\* mutant: valid_idx counts the skipped chunks too
AssembleTextUnshifted ==
  Assemble("text", [ k \in DOMAIN chunks |->
    IF k \notin NonEmpty THEN Absent
    ELSE IF k \in skipped THEN Marker
    ELSE LET i == Cardinality({ j \in NonEmpty : j <= k })
         IN IF i \in DOMAIN valid THEN AnonymizedChunks[i] ELSE Absent ])

\* the i-th chunk that was not skipped takes the i-th anonymized text
AssembleText ==
  Assemble("text", [ k \in DOMAIN chunks |->
    IF k \notin NonEmpty THEN Absent
    ELSE IF k \in skipped THEN Marker
    ELSE AnonymizedChunks[Cardinality({ j \in NonEmpty \ skipped : j <= k })] ])

AssembleCsv ==
  Assemble("csv", [ k \in DOMAIN chunks |-> ById(chunks[k].id, Verbatim(k)) ])

AssembleJson ==
  Assemble("json", [ k \in DOMAIN chunks |-> ById(chunks[k].id, Verbatim(k)) ])

\* mutant: the loop over the skipped chunks is missing
AssembleXlsxVerbatim ==
  Assemble("xlsx", [ k \in DOMAIN chunks |-> ById(chunks[k].id, Verbatim(k)) ])

\* a blank cell has no reference and stays as it is
AssembleXlsx ==
  Assemble("xlsx", [ k \in DOMAIN chunks |->
    IF k \notin NonEmpty THEN Verbatim(k)
    ELSE IF k \in skipped THEN Marker
    ELSE ById(chunks[k].id, Verbatim(k)) ])

\* the answer is built, or the error passed on
Finished == pc \in { "done", "refused" } /\ UNCHANGED vars

-----------------------------------------------------------------------------
Next ==
  \/ Extract
  \/ AnswerEmpty
  \/ SplitChunks
  \/ \E k \in DOMAIN chunks : ChunkAnalyzed(k)
  \/ GatherResults
  \/ ReusePlaceholder
  \/ NewPlaceholder
  \/ StartAssembling
  \/ AssembleText
  \/ AssembleCsv
  \/ AssembleJson
  \/ AssembleXlsx
  \/ Finished

Spec == Init /\ [][Next]_vars

-----------------------------------------------------------------------------
(* Properties                                                               *)

TypeOK ==
  /\ format \in Formats
  /\ \A k \in DOMAIN chunks : [ size |-> chunks[k].size, found |-> chunks[k].found ] \in Text
  /\ pc \in { "uploaded", "refused", "extracted", "analyze", "number", "assemble", "done" }
  /\ Range(valid) \subseteq NonEmpty /\ Range(arrived) \subseteq Range(valid)
  /\ skipped \subseteq NonEmpty \ Range(valid)
  /\ DOMAIN seen \subseteq Entity /\ Range(seen) \subseteq Placeholder
  /\ counters \in [ Types -> Nat ]
  /\ DOMAIN mappings = Range(seen) /\ Range(mappings) \subseteq Values
  /\ \A i \in DOMAIN marks : Range(marks[i]) \subseteq Placeholder
  /\ output # << >> => DOMAIN output = DOMAIN chunks

\* All entities with a placeholder, as << chunk, position >>
Marked == { x \in (DOMAIN marks) \X (1 .. MaxFound) : x[2] \in DOMAIN marks[x[1]] }

\* One mapping serves the whole document: wherever in it two entities stand,
\* they have one placeholder exactly when they are the same text of the same
\* type, and the mapping leads back to that text.
UnifiedPlaceholders ==
  \A x, y \in Marked :
    LET Of(z)   == results[z[1]][z[2]]
        Mark(z) == marks[z[1]][z[2]]
    IN
    /\ Mark(x) = Mark(y) <=> Of(x) = Of(y)
    /\ Mark(x).type = Of(x)[1]
    /\ Mark(x) \in DOMAIN mappings /\ mappings[Mark(x)] = Of(x)[2]

\* Where an entity stands in the document, as << chunk, place in it >>
Places(e) == { x \in (DOMAIN chunks) \X (1 .. MaxFound) :
                 x[2] \in DOMAIN chunks[x[1]].found /\ chunks[x[1]].found[x[2]] = e }

\* Numbers follow the document, in whatever order the analyses came back: of two
\* numbered entities of a type the one with the smaller number stands first.
NumberedInDocumentOrder ==
  \A e, f \in DOMAIN seen :
    e[1] = f[1] /\ seen[e].n < seen[f].n =>
      \E x \in Places(e) : \A y \in Places(f) :
        x[1] < y[1] \/ (x[1] = y[1] /\ x[2] < y[2])

\* The cell of a chunk shows that chunk, its own entities replaced by
\* placeholders that lead back to them, in every format and however many blank
\* and oversized chunks stand before it.  A document has no text that is lost or
\* that turns up in another place.
EachCellItsOwn ==
  pc = "done" =>
    \A k \in DOMAIN chunks : chunks[k].size = "fits" =>
      /\ output[k].form = "anonymized" /\ output[k].of = k
      /\ Len(output[k].marks) = Len(chunks[k].found)
      /\ \A j \in DOMAIN chunks[k].found :
           LET p == output[k].marks[j] IN
           chunks[k].found[j] = << p.type, mappings[p] >>

\* No text leaves the server as it came but blanks and what the CSV and JSON
\* outputs keep of oversized chunks.
RawTextOnlyWhereKnown ==
  \A k \in DOMAIN output :
    output[k].form = "verbatim" =>
      chunks[output[k].of].size = "blank" \/ (chunks[k].size = "huge" /\ format \in { "csv", "json" })

\* SPEC-003 EDGE-013: "the skipped chunk's original text is NOT included in the
\* output (to avoid returning un-anonymized PII)".
SkippedTextWithheld == \A k \in DOMAIN output : k \in skipped => output[k].form # "verbatim"

\* SPEC-003 REQ-005: "Output is the anonymized JSON structure": a leaf of it is the
\* leaf at the same place of the input, not another one's text.
LeavesStayInPlace == \A k \in DOMAIN output : output[k].of \in { 0, k }
=============================================================================
