---------------------------- MODULE Deanonymizer ----------------------------
(***************************************************************************)
(* apply_mappings of routers/deanonymize.py and its twin deanonymize() in  *)
(* static/deanonymize.js and static/deanonymize-documents.js: placeholders *)
(* are put back one at a time, the longest first, each on the text that    *)
(* the ones before it left behind.                                         *)
(*                                                                         *)
(* A text, a placeholder and an original are sequences of symbols.  The    *)
(* script does not count; the rest is the same in both.                    *)
(***************************************************************************)
EXTENDS Integers, Sequences, FiniteSets, SequencesExt, FiniteSetsExt, Functions

CONSTANTS
  Symbols,       \* characters
  Open, Close,   \* the brackets of a placeholder
  Keys,          \* placeholders a mapping may hold
  Values,        \* originals a mapping may hold
  MaxText,       \* bound: longest text
  MaxMappings    \* bound: most placeholders of a mapping

ASSUME SymbolAssumption ==
  /\ Open \in Symbols /\ Close \in Symbols /\ Open # Close
  /\ Keys \subseteq Seq(Symbols) /\ Values \subseteq Seq(Symbols)
\* the empty placeholder, which nothing generates, is left out
ASSUME KeyAssumption == << >> \notin Keys
ASSUME BoundAssumption == MaxText \in Nat /\ MaxMappings \in Nat

VARIABLES
  given,         \* the text of the request
  mappings,      \* placeholder -> original
  todo,          \* what is left of the sorted placeholders
  text,          \* the text so far
  replacements,  \* replacements_made
  pc

vars == << given, mappings, todo, text, replacements, pc >>

-----------------------------------------------------------------------------
(* str.count and str.replace, split().join() in the script: occurrences from *)
(* left to right that do not overlap                                         *)

OccursAt(key, s, i) ==
  /\ i + Len(key) - 1 <= Len(s)
  /\ SubSeq(s, i, i + Len(key) - 1) = key

Count(s, key) ==
  LET from[i \in 1 .. Len(s) + 1] ==
        IF i > Len(s) THEN 0
        ELSE IF OccursAt(key, s, i) THEN 1 + from[i + Len(key)] ELSE from[i + 1]
  IN from[1]

Replace(s, key, value) ==
  LET from[i \in 1 .. Len(s) + 1] ==
        IF i > Len(s) THEN << >>
        ELSE IF OccursAt(key, s, i) THEN value \o from[i + Len(key)] ELSE << s[i] >> \o from[i + 1]
  IN from[1]

\* mutant: in ascending order
ShortestFirst(m) ==
  { keys \in SetToSeqs(DOMAIN m) : \A i, j \in DOMAIN keys : i < j => Len(keys[i]) <= Len(keys[j]) }

\* sorted(..., key=len, reverse=True): ties stay as the mapping was filled
LongestFirst(m) ==
  { keys \in SetToSeqs(DOMAIN m) : \A i, j \in DOMAIN keys : i < j => Len(keys[i]) >= Len(keys[j]) }

-----------------------------------------------------------------------------
Init ==
  /\ given \in BoundedSeq(Symbols, MaxText)
  /\ \E K \in SUBSET Keys :
       IsFiniteSet(K) /\ Cardinality(K) <= MaxMappings /\ mappings \in [ K -> Values ]
  /\ todo = << >>
  /\ text = given
  /\ replacements = 0
  /\ pc = "called"

Sort ==
  /\ pc = "called"
  /\ todo' \in LongestFirst(mappings)
  /\ pc' = "replacing"
  /\ UNCHANGED << given, mappings, text, replacements >>

\* mutant: only the first occurrence is put back
ReplaceOnce ==
  /\ pc = "replacing" /\ todo # << >>
  /\ LET key == Head(todo)
         at  == { i \in DOMAIN text : OccursAt(key, text, i) }
     IN
     IF at = {} THEN UNCHANGED << text, replacements >>
     ELSE /\ text' = SubSeq(text, 1, Min(at) - 1) \o mappings[key]
                       \o SubSeq(text, Min(at) + Len(key), Len(text))
          /\ replacements' = replacements + 1
  /\ todo' = Tail(todo)
  /\ UNCHANGED << given, mappings, pc >>

\* mutant: the count is taken after the replacement
CountAfter ==
  /\ pc = "replacing" /\ todo # << >>
  /\ text' = Replace(text, Head(todo), mappings[Head(todo)])
  /\ replacements' = replacements + Count(text', Head(todo))
  /\ todo' = Tail(todo)
  /\ UNCHANGED << given, mappings, pc >>

\* the body of the loop
ReplaceNext ==
  /\ pc = "replacing" /\ todo # << >>
  /\ text' = Replace(text, Head(todo), mappings[Head(todo)])
  /\ replacements' = replacements + Count(text, Head(todo))
  /\ todo' = Tail(todo)
  /\ UNCHANGED << given, mappings, pc >>

Return ==
  /\ pc = "replacing" /\ todo = << >>
  /\ pc' = "returned"
  /\ UNCHANGED << given, mappings, todo, text, replacements >>

Returned == pc = "returned" /\ UNCHANGED vars

Next == Sort \/ ReplaceNext \/ Return \/ Returned

Spec == Init /\ [][Next]_vars

-----------------------------------------------------------------------------
(* Reference: one pass over the text, at each place the longest placeholder  *)

KeysAt(s, i) == { k \in DOMAIN mappings : OccursAt(k, s, i) }
LongestAt(s, i) == CHOOSE k \in KeysAt(s, i) : \A l \in KeysAt(s, i) : Len(l) <= Len(k)

Restored(s) ==
  LET from[i \in 1 .. Len(s) + 1] ==
        IF i > Len(s) THEN << >>
        ELSE IF KeysAt(s, i) = {} THEN << s[i] >> \o from[i + 1]
        ELSE mappings[LongestAt(s, i)] \o from[i + Len(LongestAt(s, i))]
  IN from[1]

Placeholders(s) ==
  LET from[i \in 1 .. Len(s) + 1] ==
        IF i > Len(s) THEN 0
        ELSE IF KeysAt(s, i) = {} THEN from[i + 1]
        ELSE 1 + from[i + Len(LongestAt(s, i))]
  IN from[1]

\* A placeholder begins with the only opening bracket in it, and what comes back
\* for one is some text with no character of another: no closing bracket is needed.
FreshOriginals ==
  LET used == UNION { Range(k) : k \in DOMAIN mappings } IN
  /\ \A k \in DOMAIN mappings : \A i \in DOMAIN k : k[i] = Open <=> i = 1
  /\ \A k \in DOMAIN mappings : mappings[k] # << >> /\ Range(mappings[k]) \cap used = {}

\* What anonymization makes of a text without brackets: placeholders in brackets,
\* originals without, and in the text no bracket inside another pair.
Bracketed ==
  /\ \A k \in DOMAIN mappings : \A i \in DOMAIN k :
       (k[i] = Open <=> i = 1) /\ (k[i] = Close <=> i = Len(k))
  /\ \A k \in DOMAIN mappings : Range(mappings[k]) \cap { Open, Close } = {}
  /\ \A i, j \in DOMAIN given :
       i < j /\ given[i] = Open /\ given[j] = Open =>
         \E c \in i .. j : given[c] = Close

-----------------------------------------------------------------------------
(* Properties                                                               *)

\* "longest-first to avoid partial matches": the loop over the placeholders, where
\* a replaced text is searched again for every later placeholder, gives what one
\* pass over the original text gives: no original is taken for a placeholder, no
\* placeholder is cut by a shorter one, and the order of equally long ones is free.
RestoredInOnePass ==
  pc = "returned" /\ (FreshOriginals \/ Bracketed) => text = Restored(given)

\* replacements_made tells how many placeholders stood in the text of the request.
ReplacementsCounted ==
  pc = "returned" /\ (FreshOriginals \/ Bracketed) => replacements = Placeholders(given)
=============================================================================
