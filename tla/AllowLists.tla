----------------------------- MODULE AllowLists -----------------------------
(***************************************************************************)
(* utils.py: allow lists and score floors, as both text routes use them.   *)
(* A term is a word that may have white space around it; the word "" makes *)
(* it blank.  None and [] are one value here: every caller tests the truth *)
(* of a list only.                                                         *)
(***************************************************************************)
EXTENDS Naturals, Sequences, SequencesExt

CONSTANTS
  Words,      \* that terms consist of
  MaxTerms,   \* MAX_ALLOW_LIST_TERMS
  LongWords   \* words longer than MAX_ALLOW_LIST_TERM_LENGTH

ASSUME TermAssumption == MaxTerms \in Nat /\ LongWords \subseteq Words \ { "" }

Terms        == [ word : Words, padded : BOOLEAN ]
Term(word)   == [ word |-> word, padded |-> FALSE ]
Strip(t)     == [ t EXCEPT !.padded = FALSE ]
NotBlank(t)  == t.word # ""
Clean(terms) == \A i \in DOMAIN terms : NotBlank(terms[i]) /\ ~terms[i].padded

\* [term for term in terms if term.strip()]
WithoutBlanks(terms) ==
  LET kept[n \in 0 .. Len(terms)] ==
        IF n = 0 THEN << >>
        ELSE IF NotBlank(terms[n]) THEN Append(kept[n - 1], terms[n]) ELSE kept[n - 1]
  IN kept[Len(terms)]

\* parse_allow_list of what stands between the commas
parse_allow_list(items) ==
  LET kept == WithoutBlanks(items)
  IN [ i \in DOMAIN kept |-> Strip(kept[i]) ]

\* what does not make validate_allow_list raise ValueError
ValidAllowList(terms) ==
  /\ Len(terms) <= MaxTerms
  /\ \A i \in DOMAIN terms : terms[i].word \notin LongWords

\* mutant: without dict.fromkeys
MergeWithRepeats(instance, request) == instance \o request

\* dict.fromkeys keeps the first of equal terms
merge_allow_lists(instance, request) ==
  LET list == instance \o request
      kept[n \in 0 .. Len(list)] ==
        IF n = 0 THEN << >>
        ELSE IF Contains(kept[n - 1], list[n]) THEN kept[n - 1] ELSE Append(kept[n - 1], list[n])
  IN kept[Len(list)]

\* only warns of the rest
validate_instance_allow_list(terms) == WithoutBlanks(terms)

\* Floors are functions on some of the entity types.  mutant: the higher floor wins
MergeHigherFloor(instance, request) ==
  [ t \in DOMAIN instance \cup DOMAIN request |->
      IF t \in DOMAIN instance \cap DOMAIN request
      THEN IF instance[t] > request[t] THEN instance[t] ELSE request[t]
      ELSE IF t \in DOMAIN instance THEN instance[t] ELSE request[t] ]

merge_entity_thresholds(instance, request) ==
  [ t \in DOMAIN instance \cup DOMAIN request |->
      IF t \in DOMAIN request THEN request[t] ELSE instance[t] ]

filter_by_entity_thresholds(results, thresholds) ==
  { r \in results : r.type \in DOMAIN thresholds => r.score >= thresholds[r.type] }
=============================================================================
