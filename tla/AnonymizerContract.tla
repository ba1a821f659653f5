------------------------- MODULE AnonymizerContract -------------------------
(***************************************************************************)
(* What anonymize_entities promises, with no loop in it: from a text and   *)
(* the analyzer's results to one answer, in one step.                      *)
(*                                                                         *)
(*   - the kept entities are the one set K such that an entity is in K     *)
(*     exactly when no better ranked member of K overlaps it;              *)
(*   - the number in a placeholder is the rank, by first appearance, of    *)
(*     its text among the kept texts of its type;                          *)
(*   - the output is the text with every kept span turned into its         *)
(*     placeholder and every other symbol untouched.                       *)
(***************************************************************************)
EXTENDS Integers, Sequences, FiniteSets, SequencesExt

VARIABLES
  text, results,
  answers   \* the answers given

vars == << text, results, answers >>

-----------------------------------------------------------------------------
Entities == DOMAIN results
Length(i) == results[i].end - results[i].start
Disjoint(i, j) ==
  results[i].end <= results[j].start \/ results[j].end <= results[i].start

\* score, then length, then position in the analyzer's list
Better(i, j) ==
  \/ results[i].score > results[j].score
  \/ /\ results[i].score = results[j].score
     /\ \/ Length(i) > Length(j)
        \/ Length(i) = Length(j) /\ i < j

IsResolution(K) ==
  \A i \in Entities : i \in K <=> \A k \in K : Better(k, i) => Disjoint(k, i)

TextOf(i) == SubSeq(text, results[i].start + 1, results[i].end)
Same(i, j) == results[i].entity_type = results[j].entity_type /\ TextOf(i) = TextOf(j)

FirstOf(K, i) ==
  CHOOSE j \in K : Same(i, j) /\ \A k \in K : Same(i, k) => results[j].start <= results[k].start

NumberIn(K, i) ==
  Cardinality({ TextOf(j) : j \in { k \in K :
      /\ results[k].entity_type = results[i].entity_type
      /\ results[k].start <= results[FirstOf(K, i)].start } })

NameIn(K, i) == [ type |-> results[i].entity_type, n |-> NumberIn(K, i) ]

\* what the symbol at position p of the text becomes
PieceAt(K, p) ==
  IF \E i \in K : results[i].start + 1 = p
  THEN << NameIn(K, CHOOSE i \in K : results[i].start + 1 = p) >>
  ELSE IF \E i \in K : results[i].start < p /\ p <= results[i].end
       THEN << >>
       ELSE << text[p] >>

AnswerFor(K) ==
  [ output   |-> FlattenSeq([ p \in 1 .. Len(text) |-> PieceAt(K, p) ]),
    mappings |-> { << NameIn(K, i), TextOf(i) >> : i \in K },
    types    |-> { results[i].entity_type : i \in K } ]

-----------------------------------------------------------------------------
Init == answers = << >>

Answer ==
  /\ answers = << >>
  /\ \E K \in SUBSET Entities : IsResolution(K) /\ answers' = << AnswerFor(K) >>
  /\ UNCHANGED << text, results >>

Spec == Init /\ [][Answer]_vars
=============================================================================
