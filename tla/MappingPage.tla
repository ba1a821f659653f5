---------------------------- MODULE MappingPage ----------------------------
(***************************************************************************)
(* The page /anonymize: static/deanonymize.js (deanonymize-documents.js is *)
(* its twin for uploads) on a form that htmx submits.  The mapping of the  *)
(* last result is kept in a variable of the page, and restores the answer  *)
(* that the user brings back from an AI tool.                              *)
(*                                                                         *)
(* Requests are numbered in the order in which they leave the page.  Every *)
(* request numbers its placeholders from one again, so a text taken from   *)
(* one result can be restored with the mapping of another: what counts is  *)
(* which request a text and a mapping come from (Deanonymizer has the      *)
(* replacement itself).                                                    *)
(***************************************************************************)
EXTENDS Naturals

CONSTANTS
  MaxRequests,   \* bound: requests of a user
  MaxFound       \* bound: placeholders of a result

ASSUME BoundAssumption == MaxRequests \in Nat /\ MaxFound \in Nat

VARIABLES
  sent,        \* requests that have left the page
  inFlight,    \* the request that is not answered yet, 0 for none
  queued,      \* 1 when the form was submitted again in the meantime, else 0
  shown,       \* what #anonymize-results holds
  piiMapping,  \* the request whose mapping it is and its size, or null
  section,     \* the deanonymize section: "enabled" or "disabled"
  clipboard,   \* the request whose result the user took to the AI tool, 0 for none
  pasted,      \* the request whose text stands in #deanonymize-input, 0 for blank
  restored     \* what #deanonymize-output shows: text and mapping it was made from

vars == << sent, inFlight, queued, shown, piiMapping, section, clipboard, pasted, restored >>
form == << sent, inFlight, queued >>

Request == 1 .. MaxRequests
Null    == [ of |-> 0, size |-> 0 ]
Mapping == [ of : Request, size : 0 .. MaxFound ]

Empty     == [ kind |-> "empty",  of |-> 0 ]
Error     == [ kind |-> "error",  of |-> 0 ]
Result(r) == [ kind |-> "result", of |-> r ]

Blank == [ from |-> 0, with |-> 0 ]

-----------------------------------------------------------------------------
Init ==
  /\ sent = 0 /\ inFlight = 0 /\ queued = 0
  /\ shown = Empty
  /\ piiMapping = Null
  /\ section = "disabled"
  /\ clipboard = 0 /\ pasted = 0 /\ restored = Blank

(* htmx: a form has one request out; of what is submitted meanwhile the last *)
(* one is kept, and leaves with the form's values of that moment             *)

Submit ==
  /\ sent < MaxRequests
  /\ IF inFlight = 0
     THEN sent' = sent + 1 /\ inFlight' = sent' /\ UNCHANGED queued
     ELSE queued' = 1 /\ UNCHANGED << sent, inFlight >>
  /\ UNCHANGED << shown, piiMapping, section, clipboard, pasted, restored >>

\* mutant: what was submitted meanwhile leaves, and is still kept
NextRequestStaysQueued ==
  /\ inFlight # 0
  /\ sent' = IF queued = 1 THEN sent + 1 ELSE sent
  /\ inFlight' = IF queued = 1 THEN sent + 1 ELSE 0
  /\ UNCHANGED queued

NextRequest ==
  /\ inFlight # 0
  /\ sent' = IF queued = 1 THEN sent + 1 ELSE sent
  /\ inFlight' = IF queued = 1 THEN sent + 1 ELSE 0
  /\ queued' = 0

\* an error status or a broken connection: nothing is swapped
AnswerDropped ==
  /\ NextRequest
  /\ UNCHANGED << shown, piiMapping, section, clipboard, pasted, restored >>

\* clearMapping and disableDeanonymize
clearMapping ==
  /\ piiMapping' = Null
  /\ section' = "disabled"
  /\ pasted' = 0
  /\ restored' = Blank

\* mutant: the script returns when there is no #anonymize-output
SwapErrorIgnored ==
  /\ NextRequest
  /\ shown' = Error
  /\ UNCHANGED << piiMapping, section, clipboard, pasted, restored >>

\* the error partial is swapped in
SwapError ==
  /\ NextRequest
  /\ shown' = Error
  /\ clearMapping
  /\ UNCHANGED clipboard

\* mutant: a mapping without entries is not taken over
SwapEmptyIgnored ==
  /\ NextRequest
  /\ shown' = Result(inFlight)
  /\ \E n \in 0 .. MaxFound :
       /\ piiMapping' = IF n > 0 THEN [ of |-> inFlight, size |-> n ] ELSE piiMapping
       /\ section' = IF n > 0 THEN "enabled" ELSE section
  /\ UNCHANGED << clipboard, pasted, restored >>

\* a result is swapped in; the section is enabled for a mapping with entries, and
\* stays as it is for one without
SwapResult ==
  /\ NextRequest
  /\ shown' = Result(inFlight)
  /\ \E n \in 0 .. MaxFound :
       /\ piiMapping' = [ of |-> inFlight, size |-> n ]
       /\ section' = IF n > 0 THEN "enabled" ELSE section
  /\ UNCHANGED << clipboard, pasted, restored >>

Copy ==
  /\ shown.kind = "result"
  /\ clipboard' = shown.of
  /\ UNCHANGED << form, shown, piiMapping, section, pasted, restored >>

\* the AI tool's answer to the copied text, which may be a while ago
Paste ==
  /\ section = "enabled"
  /\ clipboard # 0
  /\ pasted' = clipboard
  /\ UNCHANGED << form, shown, piiMapping, section, clipboard, restored >>

\* the handler of #deanonymize-btn
Deanonymize ==
  /\ section = "enabled"
  /\ piiMapping # Null /\ pasted # 0
  /\ restored' = [ from |-> pasted, with |-> piiMapping.of ]
  /\ UNCHANGED << form, shown, piiMapping, section, clipboard, pasted >>

\* mutant: the old output stays
ClearKeepingOutput ==
  /\ section = "enabled"
  /\ piiMapping' = Null /\ section' = "disabled" /\ pasted' = 0
  /\ shown' = Empty
  /\ UNCHANGED << form, clipboard, restored >>

\* the handler of #clear-mapping-btn; a request that is out goes on
Clear ==
  /\ section = "enabled"
  /\ clearMapping
  /\ shown' = Empty
  /\ UNCHANGED << form, clipboard >>

\* the page is loaded anew, answers to the old one have no place to go
Reload ==
  /\ inFlight' = 0 /\ queued' = 0
  /\ shown' = Empty
  /\ clearMapping
  /\ UNCHANGED << sent, clipboard >>

Next ==
  \/ Submit \/ AnswerDropped \/ SwapError \/ SwapResult
  \/ Copy \/ Paste \/ Deanonymize \/ Clear \/ Reload

Spec == Init /\ [][Next]_vars

-----------------------------------------------------------------------------
(* Properties                                                               *)

FormOK ==
  /\ sent \in 0 .. MaxRequests
  /\ inFlight \in { 0, sent }
  /\ queued \in { 0, 1 }
  /\ queued = 1 => inFlight # 0 /\ sent < MaxRequests

PageOK ==
  /\ shown \in [ kind : { "empty", "error", "result" }, of : 0 .. sent ]
  /\ piiMapping \in Mapping \cup { Null }
  /\ section \in { "enabled", "disabled" }
  /\ clipboard \in 0 .. sent
  /\ pasted \in 0 .. sent
  /\ restored \in [ from : 0 .. sent, with : 0 .. sent ]

TypeOK == FormOK /\ PageOK

\* The mapping in memory is the one of the result that the user sees, and there is
\* none when the page shows an error or nothing: also after errors, lost answers,
\* results without entities, and answers that come after "Clear mapping".
MappingIsOfShownResult ==
  IF shown.kind = "result" THEN piiMapping.of = shown.of ELSE piiMapping = Null

\* SPEC-002: "Clear mapping" and a refresh "clear the in-memory variable", disable
\* the section and reset all output areas.  Without a mapping no restored text and
\* no pasted answer is left, and with entries in it the section can be used.
NothingLeftBehind ==
  /\ piiMapping = Null => section = "disabled" /\ pasted = 0 /\ restored = Blank
  /\ piiMapping.size > 0 => section = "enabled"

\* A text is never restored with a mapping older than the result it was copied
\* from.  (With a newer one it may be: the user who anonymizes again before the
\* answer comes back has lost the mapping for it.)
NeverAnOlderMapping == restored.with >= restored.from
=============================================================================
