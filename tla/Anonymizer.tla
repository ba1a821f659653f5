----------------------------- MODULE Anonymizer -----------------------------
(***************************************************************************)
(* services/anonymizer.py: anonymize_entities and the three loops it runs. *)
(*                                                                         *)
(*   resolve_overlaps       visit the entities by (score, length), best    *)
(*                          first, keep one iff it overlaps no kept one    *)
(*   generate_placeholders  visit the kept entities left to right, number  *)
(*                          each new (type, text) pair per type            *)
(*   replace_entities       visit the kept entities right to left, splice  *)
(*                          the placeholder into the text                  *)
(*                                                                         *)
(* One action is one iteration of a loop.  A `for x in sorted(...)` loop is *)
(* the set `todo` of entities it has yet to visit together with a guard    *)
(* that picks the next one of the sort order; an entity is named by its    *)
(* index in the analyzer's result list.  A text is a sequence of symbols   *)
(* and a placeholder is one symbol, the record [type, n] for "<TYPE_n>".   *)
(***************************************************************************)
EXTENDS Integers, Sequences, FiniteSets

CONSTANTS
  Symbols,     \* characters of the texts
  Texts,       \* the texts submitted, sequences of Symbols
  Types,       \* entity types of the analyzer
  Scores,      \* confidence scores, integers: only their order matters
  MaxResults   \* longest result list of the analyzer

ASSUME TextAssumption   == Texts \subseteq Seq(Symbols)
ASSUME ScoreAssumption  == Scores \subseteq Int
ASSUME ResultAssumption == MaxResults \in Nat

VARIABLES
  text,           \* the submitted text
  results,        \* the analyzer's result list, a sequence of entities
  pc,             \* which loop runs
  todo,           \* indices the running loop has yet to visit
  accepted,       \* resolve_overlaps: the kept entities
  seen,           \* generate_placeholders: (type, text) -> placeholder
  counters,       \* generate_placeholders: type -> last number given
  mappings,       \* generate_placeholders: placeholder -> text
  placeholderOf,  \* generate_placeholders: index -> placeholder
  output,         \* replace_entities: the text being rewritten
  foundTypes      \* the entity types reported

vars == << text, results, pc, todo, accepted, seen, counters, mappings,
           placeholderOf, output, foundTypes >>

-----------------------------------------------------------------------------
(* The analyzer's answers: non-empty spans inside the text, half open and   *)
(* counted from 0, in any order, overlapping in any way.                    *)

Entity(t) ==
  { e \in [ entity_type : Types, start : 0 .. Len(t), end : 0 .. Len(t), score : Scores ] :
      e.start < e.end }

Placeholder == [ type : Types, n : Nat \ {0} ]

Start(i) == results[i].start
End(i)   == results[i].end
Type(i)  == results[i].entity_type
Span(i)  == End(i) - Start(i)

Original(i) == SubSeq(text, Start(i) + 1, End(i))
\* mutant: the table of generate_placeholders is keyed by the text alone
KeyWithoutType(i) == << Original(i) >>

Key(i)      == << Type(i), Original(i) >>

\* f with f[k] = v, whether or not k was in its domain
Put(f, k, v) == [ x \in DOMAIN f \cup {k} |-> IF x = k THEN v ELSE f[x] ]

-----------------------------------------------------------------------------
(* Initial states and the early return for a text with no entity.           *)

Init ==
  /\ text \in Texts
  /\ \E n \in 0 .. MaxResults : results \in [ 1 .. n -> Entity(text) ]
  /\ pc = "start"
  /\ todo = {}
  /\ accepted = {}
  /\ seen = << >>
  /\ counters = [ t \in Types |-> 0 ]
  /\ mappings = << >>
  /\ placeholderOf = << >>
  /\ output = text
  /\ foundTypes = {}

ReturnUnchanged ==
  /\ pc = "start"
  /\ results = << >>
  /\ pc' = "done"
  /\ UNCHANGED << text, results, todo, accepted, seen, counters, mappings,
                  placeholderOf, output, foundTypes >>

StartResolving ==
  /\ pc = "start"
  /\ results # << >>
  /\ pc' = "resolve"
  /\ todo' = DOMAIN results
  /\ UNCHANGED << text, results, accepted, seen, counters, mappings,
                  placeholderOf, output, foundTypes >>

-----------------------------------------------------------------------------
(* resolve_overlaps                                                         *)

\* mutant: the longest span first, whatever its score
RanksByLength(i, j) ==
  \/ Span(i) > Span(j)
  \/ Span(i) = Span(j) /\ i < j

\* i comes before j in the stable descending sort by (score, length)
RanksBefore(i, j) ==
  \/ results[i].score > results[j].score
  \/ results[i].score = results[j].score /\ Span(i) > Span(j)
  \/ results[i].score = results[j].score /\ Span(i) = Span(j) /\ i < j

\* mutant: an entity overlaps a kept one only if it starts inside it
OverlapsAtStart(i, j) == Start(j) <= Start(i) /\ Start(i) < End(j)

Overlaps(i, j) == Start(i) < End(j) /\ Start(j) < End(i)

BestRanked(i) == i \in todo /\ \A j \in todo \ {i} : RanksBefore(i, j)

KeepEntity(i) ==
  /\ pc = "resolve"
  /\ BestRanked(i)
  /\ \A k \in accepted : ~ Overlaps(i, k)
  /\ accepted' = accepted \cup {i}
  /\ todo' = todo \ {i}
  /\ UNCHANGED << text, results, pc, seen, counters, mappings, placeholderOf,
                  output, foundTypes >>

DropEntity(i) ==
  /\ pc = "resolve"
  /\ BestRanked(i)
  /\ \E k \in accepted : Overlaps(i, k)
  /\ todo' = todo \ {i}
  /\ UNCHANGED << text, results, pc, accepted, seen, counters, mappings,
                  placeholderOf, output, foundTypes >>

StartNumbering ==
  /\ pc = "resolve"
  /\ todo = {}
  /\ pc' = "number"
  /\ todo' = accepted
  /\ UNCHANGED << text, results, accepted, seen, counters, mappings,
                  placeholderOf, output, foundTypes >>

-----------------------------------------------------------------------------
(* generate_placeholders                                                    *)

\* mutant: the sort by start is missing, any order will do
InAnyOrder(i) == i \in todo

Leftmost(i) == i \in todo /\ \A j \in todo : Start(i) <= Start(j)

ReusePlaceholder(i) ==
  /\ pc = "number"
  /\ Leftmost(i)
  /\ Key(i) \in DOMAIN seen
  /\ placeholderOf' = Put(placeholderOf, i, seen[Key(i)])
  /\ todo' = todo \ {i}
  /\ UNCHANGED << text, results, pc, accepted, seen, counters, mappings,
                  output, foundTypes >>

\* mutant: numbers start at 0
NumberFromZero(i) ==
  LET n == counters[Type(i)]
      p == [ type |-> Type(i), n |-> n ]
  IN
  /\ pc = "number"
  /\ Leftmost(i)
  /\ Key(i) \notin DOMAIN seen
  /\ counters' = [ counters EXCEPT ![Type(i)] = n + 1 ]
  /\ seen' = Put(seen, Key(i), p)
  /\ mappings' = Put(mappings, p, Original(i))
  /\ placeholderOf' = Put(placeholderOf, i, p)
  /\ todo' = todo \ {i}
  /\ UNCHANGED << text, results, pc, accepted, output, foundTypes >>

NewPlaceholder(i) ==
  LET n == counters[Type(i)] + 1
      p == [ type |-> Type(i), n |-> n ]
  IN
  /\ pc = "number"
  /\ Leftmost(i)
  /\ Key(i) \notin DOMAIN seen
  /\ counters' = [ counters EXCEPT ![Type(i)] = n ]
  /\ seen' = Put(seen, Key(i), p)
  /\ mappings' = Put(mappings, p, Original(i))
  /\ placeholderOf' = Put(placeholderOf, i, p)
  /\ todo' = todo \ {i}
  /\ UNCHANGED << text, results, pc, accepted, output, foundTypes >>

StartReplacing ==
  /\ pc = "number"
  /\ todo = {}
  /\ pc' = "replace"
  /\ todo' = accepted
  /\ output' = text
  /\ UNCHANGED << text, results, accepted, seen, counters, mappings,
                  placeholderOf, foundTypes >>

-----------------------------------------------------------------------------
(* replace_entities and the end of anonymize_entities                       *)

\* mutant: the sort misses reverse=True
FromTheLeft(i) == i \in todo /\ \A j \in todo : Start(i) <= Start(j)

Rightmost(i) == i \in todo /\ \A j \in todo : Start(j) <= Start(i)

ReplaceEntity(i) ==
  /\ pc = "replace"
  /\ Rightmost(i)
  /\ output' = SubSeq(output, 1, Start(i)) \o << placeholderOf[i] >>
                 \o SubSeq(output, End(i) + 1, Len(output))
  /\ todo' = todo \ {i}
  /\ UNCHANGED << text, results, pc, accepted, seen, counters, mappings,
                  placeholderOf, foundTypes >>

\* mutant: the types of the dropped entities are reported too
ReturnAllTypes ==
  /\ pc = "replace"
  /\ todo = {}
  /\ pc' = "done"
  /\ foundTypes' = { Type(i) : i \in DOMAIN results }
  /\ UNCHANGED << text, results, todo, accepted, seen, counters, mappings,
                  placeholderOf, output >>

Return ==
  /\ pc = "replace"
  /\ todo = {}
  /\ pc' = "done"
  /\ foundTypes' = { Type(i) : i \in accepted }
  /\ UNCHANGED << text, results, todo, accepted, seen, counters, mappings,
                  placeholderOf, output >>

\* the function has returned
Returned == pc = "done" /\ UNCHANGED vars

-----------------------------------------------------------------------------
Next ==
  \/ ReturnUnchanged
  \/ StartResolving
  \/ \E i \in DOMAIN results : KeepEntity(i)
  \/ \E i \in DOMAIN results : DropEntity(i)
  \/ StartNumbering
  \/ \E i \in DOMAIN results : ReusePlaceholder(i)
  \/ \E i \in DOMAIN results : NewPlaceholder(i)
  \/ StartReplacing
  \/ \E i \in DOMAIN results : ReplaceEntity(i)
  \/ Return
  \/ Returned

Spec == Init /\ [][Next]_vars

-----------------------------------------------------------------------------
(* Properties                                                               *)

\* Every variable keeps its type: `output` too, whose splices stay in range.
TablesOK ==
  /\ text \in Texts
  /\ \E n \in 0 .. MaxResults : results \in [ 1 .. n -> Entity(text) ]
  /\ pc \in { "start", "resolve", "number", "replace", "done" }
  /\ accepted \subseteq DOMAIN results
  /\ todo \subseteq DOMAIN results
  /\ pc \in { "number", "replace" } => todo \subseteq accepted
  /\ seen \in [ DOMAIN seen -> Placeholder ]
  /\ counters \in [ Types -> Nat ]
  /\ mappings \in [ DOMAIN mappings -> Seq(Symbols) ]
  /\ DOMAIN mappings \subseteq Placeholder
  /\ placeholderOf \in [ DOMAIN placeholderOf -> Placeholder ]
  /\ DOMAIN placeholderOf \subseteq accepted
  /\ foundTypes \subseteq Types

TypeOK == TablesOK /\ output \in Seq(Symbols \cup Placeholder)

\* The positions a span covers, and the order of (score, length), stated apart
\* from the code's comparisons
Covers(i) == Start(i) .. End(i) - 1
NoWorse(k, i) ==
  \/ results[k].score > results[i].score
  \/ results[k].score = results[i].score /\ Span(k) >= Span(i)

\* No two kept entities overlap, at any point of the resolution loop: without
\* it the splices of replace_entities would cut into one another.
AcceptedDisjoint ==
  \A i, j \in accepted : i # j => Covers(i) \cap Covers(j) = {}

\* The entities the resolution loop has decided
Decided ==
  IF pc = "start" THEN {} ELSE IF pc = "resolve" THEN DOMAIN results \ todo ELSE DOMAIN results

\* An entity is dropped only for a kept one that overlaps it and ranks
\* no lower, so no personal data is lost to a worse or to an unrelated entity.
DroppedForCause ==
  \A i \in Decided \ accepted : \E k \in accepted : NoWorse(k, i) /\ Covers(i) \cap Covers(k) # {}

\* Two entities share a placeholder exactly when they have the same type and the
\* same text, and the mapping leads from the placeholder back to that text; the
\* mapping holds no other entry.
PlaceholdersConsistent ==
  /\ \A i, j \in DOMAIN placeholderOf :
       placeholderOf[i] = placeholderOf[j]
         <=> Type(i) = Type(j) /\ Original(i) = Original(j)
  /\ \A i \in DOMAIN placeholderOf :
       /\ placeholderOf[i].type = Type(i)
       /\ placeholderOf[i] \in DOMAIN mappings
       /\ mappings[placeholderOf[i]] = Original(i)
  /\ \A p \in DOMAIN mappings : \E i \in DOMAIN placeholderOf : placeholderOf[i] = p

\* The numbers of a type have no gap and follow the text: every smaller number
\* of the type already stands further left.
NumberedLeftToRight ==
  \A j \in DOMAIN placeholderOf : \A m \in 1 .. placeholderOf[j].n - 1 :
    \E i \in DOMAIN placeholderOf :
      placeholderOf[i] = [ type |-> Type(j), n |-> m ] /\ Start(i) < Start(j)

\* While the splices run, every span still to be replaced holds its original
\* text at its original offsets: the reason the loop runs from right to left.
PendingSpansIntact ==
  pc = "replace" =>
    \A i \in todo : End(i) <= Len(output) /\ SubSeq(output, Start(i) + 1, End(i)) = Original(i)

\* The loops implement the contract: the answer they return is the one the
\* declarative definition gives, and it is given once.
Contract == INSTANCE AnonymizerContract WITH
  answers <- IF pc # "done" THEN << >>
             ELSE << [ output   |-> output,
                       mappings |-> { << p, mappings[p] >> : p \in DOMAIN mappings },
                       types    |-> foundTypes ] >>
ImplementsContract == Contract!Spec
=============================================================================
