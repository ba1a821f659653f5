-------------------------- MODULE MappingPageProofs --------------------------
(***************************************************************************)
(* Proofs about MappingPage: what the page remembers is what it shows, for *)
(* any number of requests and any size of a mapping.                       *)
(***************************************************************************)
EXTENDS MappingPage, TLAPS

\* What was copied or pasted came from an answered request, and the request that is
\* out is newer than all of it: this is why an answer, whenever it comes, brings a
\* mapping newer than every text that the user has taken from the page.
TakenBeforeAsked ==
  /\ inFlight # 0 => shown.of < inFlight /\ clipboard < inFlight /\ pasted < inFlight
  /\ shown.kind = "result" => shown.of # 0 /\ clipboard <= shown.of /\ pasted <= shown.of

PageInv ==
  /\ TypeOK
  /\ MappingIsOfShownResult
  /\ NothingLeftBehind
  /\ NeverAnOlderMapping
  /\ TakenBeforeAsked

-----------------------------------------------------------------------------
LEMMA Values ==
  /\ Empty.kind = "empty" /\ Empty.of = 0
  /\ Error.kind = "error" /\ Error.of = 0
  /\ \A r : Result(r).kind = "result" /\ Result(r).of = r
  /\ Null.of = 0 /\ Null.size = 0
  /\ \A m \in Mapping : m.of \in 1 .. MaxRequests /\ m.size \in Nat /\ m # Null
  /\ Blank.from = 0 /\ Blank.with = 0
BY BoundAssumption DEF Empty, Error, Result, Null, Mapping, Request, Blank

LEMMA ValueTypes ==
  ASSUME NEW n \in Nat
  PROVE  /\ Empty \in [ kind : { "empty", "error", "result" }, of : 0 .. n ]
         /\ Error \in [ kind : { "empty", "error", "result" }, of : 0 .. n ]
         /\ \A r \in 0 .. n : Result(r) \in [ kind : { "empty", "error", "result" }, of : 0 .. n ]
         /\ Blank \in [ from : 0 .. n, with : 0 .. n ]
BY DEF Empty, Error, Result, Blank

LEMMA InitPageInv == Init => PageInv
<1> SUFFICES ASSUME Init PROVE PageInv
  OBVIOUS
<1>1. FormOK
  BY BoundAssumption DEF Init, FormOK
<1>2. PageOK
  BY DEF Init, PageOK, Empty, Blank
<1>3. MappingIsOfShownResult
  BY Values DEF Init, MappingIsOfShownResult
<1>4. NothingLeftBehind
  BY Values DEF Init, NothingLeftBehind
<1>5. NeverAnOlderMapping
  BY Values DEF Init, NeverAnOlderMapping
<1>6. TakenBeforeAsked
  BY Values DEF Init, TakenBeforeAsked
<1> QED
  BY <1>1, <1>2, <1>3, <1>4, <1>5, <1>6 DEF PageInv, TypeOK

\* What a step of the form does to the requests, whatever else it is part of.
LEMMA FormStep ==
  ASSUME FormOK, [Next]_vars
  PROVE  /\ FormOK'
         /\ sent \in Nat /\ sent <= sent'
         /\ inFlight' # 0 => (inFlight' = inFlight \/ sent < inFlight')
<1> USE BoundAssumption DEF FormOK
<1>1. CASE Submit
  BY <1>1 DEF Submit
<1>2. CASE NextRequest
  BY <1>2 DEF NextRequest
<1>3. CASE UNCHANGED form
  BY <1>3 DEF form
<1>4. CASE Reload
  BY <1>4 DEF Reload
<1> QED
  BY <1>1, <1>2, <1>3, <1>4 DEF Next, AnswerDropped, SwapError, SwapResult, Copy, Paste,
       Deanonymize, Clear, form, vars

LEMMA StepPageInv == PageInv /\ [Next]_vars => PageInv'
<1> SUFFICES ASSUME PageInv, [Next]_vars PROVE PageInv'
  OBVIOUS
<1> USE BoundAssumption DEF PageInv, TypeOK, FormOK, PageOK, MappingIsOfShownResult,
      NothingLeftBehind, NeverAnOlderMapping, TakenBeforeAsked
<1>1. /\ FormOK' /\ sent \in Nat /\ sent' \in Nat /\ sent <= sent'
      /\ inFlight' # 0 => (inFlight' = inFlight \/ sent < inFlight')
  BY FormStep
<1>2. CASE Submit
  BY <1>1, <1>2, Values DEF Submit, form
<1>3. CASE AnswerDropped
  BY <1>1, <1>3, Values DEF AnswerDropped, NextRequest
<1>4. CASE SwapError
  BY <1>1, <1>4, Values, ValueTypes DEF SwapError, NextRequest, clearMapping
<1>5. CASE SwapResult
  BY <1>1, <1>5, Values, ValueTypes DEF SwapResult, NextRequest, Mapping, Request
<1>6. CASE Copy
  BY <1>1, <1>6, Values DEF Copy, form
<1>7. CASE Paste
  BY <1>1, <1>7, Values DEF Paste, form
<1>8. CASE Deanonymize
  BY <1>1, <1>8, Values DEF Deanonymize, form
<1>9. CASE Clear
  BY <1>1, <1>9, Values, ValueTypes DEF Clear, clearMapping, form
<1>10. CASE Reload
  BY <1>1, <1>10, Values, ValueTypes DEF Reload, clearMapping
<1>11. CASE UNCHANGED vars
  BY <1>1, <1>11, Values DEF vars
<1> QED
  BY <1>2, <1>3, <1>4, <1>5, <1>6, <1>7, <1>8, <1>9, <1>10, <1>11 DEF Next

LEMMA PageInvariance == Spec => []PageInv
BY InitPageInv, StepPageInv, PTL DEF Spec

-----------------------------------------------------------------------------
\* The page's variables keep their types, and a form that was submitted again
\* waits only behind a request that is out.
THEOREM PageTypes == Spec => []TypeOK
<1>1. PageInv => TypeOK
  BY DEF PageInv
<1> QED
  BY <1>1, PageInvariance, PTL

\* The script never keeps the mapping of anything but the result on the page: not
\* after an error, nor when an answer comes after "Clear mapping".
THEOREM MappingMatchesPage == Spec => []MappingIsOfShownResult
<1>1. PageInv => MappingIsOfShownResult
  BY DEF PageInv
<1> QED
  BY <1>1, PageInvariance, PTL

\* clearMapping leaves neither restored text nor pasted answer of a mapping that is
\* gone, on every path on which the script forgets one.
THEOREM NothingRemains == Spec => []NothingLeftBehind
<1>1. PageInv => NothingLeftBehind
  BY DEF PageInv
<1> QED
  BY <1>1, PageInvariance, PTL

\* The button's handler never restores a text with an older mapping than the one
\* of the result from which the text was copied.
THEOREM MappingNotOlder == Spec => []NeverAnOlderMapping
<1>1. PageInv => NeverAnOlderMapping
  BY DEF PageInv
<1> QED
  BY <1>1, PageInvariance, PTL
=============================================================================
