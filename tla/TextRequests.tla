---------------------------- MODULE TextRequests ----------------------------
(***************************************************************************)
(* The text routes: run_detection and run_anonymization (routers/detect.py *)
(* and routers/anonymize.py, line by line the same but for what they make  *)
(* of the results), called by the JSON API and by the forms of             *)
(* routers/pages.py, with the audit entry of each answer (AuditLog) and    *)
(* the lists and floors of utils.py (AllowLists).                          *)
(*                                                                         *)
(* All requests of a behaviour carry one text, one language and one list   *)
(* of terms, so that their answers can be compared; the API adds floors    *)
(* and a threshold, which the forms do not have.  The analyzer is          *)
(* external: it finds `Findings` in the text, which do not overlap, and    *)
(* leaves out what scores below the threshold and the words that are       *)
(* allowed.                                                                *)
(***************************************************************************)
EXTENDS AllowLists, AuditLog

CONSTANTS
  ApiRequests, WebRequests,
  Operations,    \* "detect", "anonymize"
  Supported,     \* settings.supported_languages
  Languages,     \* what a request may name, other than "auto"
  Fallback,      \* settings.language_detection_fallback
  Findings,      \* results of the analyzer for the text: type, word, score
  InstanceLists, \* settings.allow_list
  TermLists,     \* what users list
  InstanceFloors, RequestFloors,       \* score floors
  DefaultThreshold, RequestThresholds  \* score thresholds

Requests == ApiRequests \cup WebRequests

ASSUME RouteAssumption    == ApiRequests \cap WebRequests = {}
ASSUME LanguageAssumption ==
  Fallback \in Supported /\ "" \notin Supported /\ "auto" \notin Supported \cup Languages
ASSUME ThresholdAssumption == RequestThresholds \subseteq Nat /\ DefaultThreshold \in RequestThresholds
ASSUME ListAssumption      == InstanceLists \cup TermLists \subseteq Seq(Terms)
ASSUME FindingAssumption   == \A f \in Findings : f.word \in Words \ { "" } /\ f.score \in Nat
ASSUME FloorAssumption     ==
  \A floorsOf \in InstanceFloors \cup RequestFloors :
    \A t \in DOMAIN floorsOf : floorsOf[t] \in Nat

VARIABLES
  operation,     \* the route's operation
  allowList,     \* settings.allow_list
  instanceFloors,\* settings.entity_score_thresholds
  size,          \* of the text
  language,      \* that the requests name
  terms,         \* that the requests list
  pc,            \* request -> where its handler stands
  query,         \* request -> what it asks the analyzer
  floors,        \* request -> entity_score_thresholds
  reply,         \* request -> how the analyzer's call ended
  answer         \* request -> the response

inputs == << operation, instanceFloors, size, language, terms >>
vars == << operation, instanceFloors, size, language, terms, allowList, pc, query, floors, reply,
           answer, setups, handlers, open, written, failed >>

\* "big": longer than max_text_length, when that is set below the 512,000 of the
\* request models; "huge": longer than both
Sizes == { "blank", "fits", "big", "huge" }

Unasked == [ language |-> "", threshold |-> 0, allow |-> << >> ]
NoAnswer == [ status |-> 0, body |-> "none", language |-> "", kept |-> {}, allowed |-> 0 ]
Error(status) == [ NoAnswer EXCEPT !.status = status, !.body = "error" ]
Result(l, kept, allowed) ==
  [ status |-> 200, body |-> "result", language |-> l, kept |-> kept, allowed |-> allowed ]

\* the forms answer every error they handle with a page, which is swapped in
ErrorOf(r, status) == IF r \in WebRequests THEN Error(200) ELSE Error(status)

-----------------------------------------------------------------------------
Init ==
  /\ operation \in Operations
  /\ instanceFloors \in InstanceFloors
  /\ size \in Sizes
  /\ language \in Languages \cup { "auto" }
  /\ terms \in TermLists
  /\ allowList \in InstanceLists
  /\ pc = [ r \in Requests |-> "idle" ]
  /\ query = [ r \in Requests |-> Unasked ]
  /\ floors = [ r \in Requests |-> << >> ]
  /\ reply = [ r \in Requests |-> "none" ]
  /\ answer = [ r \in Requests |-> NoAnswer ]
  /\ AuditInit

\* lifespan, which runs again when the application is started again in the process
Startup ==
  /\ \A r \in Requests : pc[r] \in { "idle", "answered" }
  /\ setup_logging
  /\ allowList' = validate_instance_allow_list(allowList)
  /\ UNCHANGED << inputs, pc, query, floors, reply, answer >>

-----------------------------------------------------------------------------
(* The handlers.  A step ends at an await or with the response.              *)

\* the number of the audit entry: results found, or originals in the mapping
EntityCount(kept) ==
  IF operation = "detect" THEN Cardinality(kept)
  ELSE Cardinality({ << f.type, f.word >> : f \in kept })

Entry(r, a) == [ of |-> r, count |-> EntityCount(a.kept), types |-> { f.type : f \in a.kept },
                 language |-> a.language, allowed |-> a.allowed ]

Respond(r, a) ==
  /\ answer' = [ answer EXCEPT ![r] = a ]
  /\ pc' = [ pc EXCEPT ![r] = "answered" ]
  /\ IF a.body = "result" THEN Emit(Entry(r, a)) ELSE UNCHANGED auditVars

\* mutant: the form's list is not handed on
ListOfApi(r) == IF r \in WebRequests THEN << >> ELSE terms

\* the list that reaches run_detection and run_anonymization
ListOf(r) == IF r \in WebRequests THEN parse_allow_list(terms) ELSE terms

\* from the resolved language to presidio.analyze
Ask(r, l, threshold) ==
  IF l \notin Supported
  THEN Respond(r, ErrorOf(r, 400)) /\ UNCHANGED query
  ELSE IF ~ValidAllowList(ListOf(r))
  THEN Respond(r, ErrorOf(r, 422)) /\ UNCHANGED query
  ELSE
    /\ query' = [ query EXCEPT ![r] =
         [ language |-> l, threshold |-> threshold, allow |-> merge_allow_lists(allowList, ListOf(r)) ] ]
    /\ pc' = [ pc EXCEPT ![r] = "analyzing" ]
    /\ UNCHANGED << answer, auditVars >>

TooLong(r) == size = "huge" \/ (size = "big" /\ r \in WebRequests)

\* mutant: a request without a threshold does not get the default
OptionsAsGiven(r) ==
  IF r \in WebRequests THEN { << << >>, 0 >> } ELSE RequestFloors \X RequestThresholds

\* floors and threshold of a request
Options(r) ==
  IF r \in WebRequests THEN { << << >>, DefaultThreshold >> } ELSE RequestFloors \X RequestThresholds

Refuse(r) ==
  /\ setups > 0 /\ pc[r] = "idle"
  /\ TooLong(r)
  /\ Respond(r, ErrorOf(r, 422))
  /\ UNCHANGED << inputs, allowList, query, floors, reply >>

\* a text without words: nothing else of the request is looked at
AnswerBlank(r) ==
  /\ setups > 0 /\ pc[r] = "idle"
  /\ size = "blank"
  /\ Respond(r, Result(Fallback, {}, 0))
  /\ UNCHANGED << inputs, allowList, query, floors, reply >>

\* a language named by the user is taken as it is, another is detected
Receive(r) ==
  /\ setups > 0 /\ pc[r] = "idle"
  /\ size # "blank" /\ ~TooLong(r)
  /\ \E o \in Options(r) :
       /\ floors' = [ floors EXCEPT ![r] = o[1] ]
       /\ IF language = "auto"
          THEN /\ pc' = [ pc EXCEPT ![r] = "detecting" ]
               /\ query' = [ query EXCEPT ![r].threshold = o[2] ]
               /\ UNCHANGED << answer, auditVars >>
          ELSE Ask(r, language, o[2])
  /\ UNCHANGED << inputs, allowList, reply >>

\* detect_language returns; LanguageDetection's AnswerUsable says which languages
LanguageDetected(r) ==
  /\ pc[r] = "detecting"
  /\ \E l \in Supported : Ask(r, l, query[r].threshold)
  /\ UNCHANGED << inputs, allowList, floors, reply >>

\* mutant: a floor of the request is raised to the instance's
KeepAboveHigher(r, found) ==
  filter_by_entity_thresholds(found, MergeHigherFloor(instanceFloors, floors[r]))

\* what is left of the analyzer's results
Keep(r, found) ==
  filter_by_entity_thresholds(found, merge_entity_thresholds(instanceFloors, floors[r]))

Found(q) ==
  { f \in Findings : f.score >= q.threshold /\ ~Contains(q.allow, Term(f.word)) }

Analyzed(r) ==
  /\ pc[r] = "analyzing"
  /\ reply' = [ reply EXCEPT ![r] = "results" ]
  /\ Respond(r, Result(query[r].language, Keep(r, Found(query[r])), Len(query[r].allow)))
  /\ UNCHANGED << inputs, allowList, query, floors >>

\* mutant: a failed call counts as one without results
FailAsEmpty(r) ==
  /\ pc[r] = "analyzing"
  /\ \E why \in { "connect", "timeout", "server_error", "bad_body", "client_error", "other" } :
       /\ reply' = [ reply EXCEPT ![r] = why ]
       /\ Respond(r, IF why \in { "client_error", "other" } THEN Error(500)
                     ELSE Result(query[r].language, {}, 0))
  /\ UNCHANGED << inputs, allowList, query, floors >>

\* "bad_body": a reply that is not JSON raises a ValueError, which the routes take
\* for a refused allow list; a 4xx and other failures of the call go through
AnalysisFails(r) ==
  /\ pc[r] = "analyzing"
  /\ \E why \in { "connect", "timeout", "server_error", "bad_body", "client_error", "other" } :
       /\ reply' = [ reply EXCEPT ![r] = why ]
       /\ Respond(r, CASE why = "connect"      -> ErrorOf(r, 503)
                       [] why = "timeout"      -> ErrorOf(r, 504)
                       [] why = "server_error" -> ErrorOf(r, 502)
                       [] why = "bad_body"     -> ErrorOf(r, 422)
                       [] OTHER                -> Error(500))
  /\ UNCHANGED << inputs, allowList, query, floors >>

\* nothing left to do
Quiet == (\A r \in Requests : pc[r] = "answered") /\ UNCHANGED vars

Next ==
  \/ Startup
  \/ \E r \in Requests :
       \/ Refuse(r) \/ AnswerBlank(r) \/ Receive(r)
       \/ LanguageDetected(r) \/ Analyzed(r) \/ AnalysisFails(r)
  \/ Quiet

Spec == Init /\ [][Next]_vars

-----------------------------------------------------------------------------
(* Properties                                                               *)

TypeOK ==
  /\ pc \in [ Requests -> { "idle", "detecting", "analyzing", "answered" } ]
  /\ \A r \in Requests :
       /\ query[r].language \in Supported \cup { "" }
       /\ query[r].threshold \in RequestThresholds \cup { 0 }
       /\ query[r].language # "" => query[r].threshold \in RequestThresholds
       /\ reply[r] # "none" => query[r] # Unasked
       /\ answer[r].kept \subseteq Findings
       /\ answer[r].status # 0 <=> pc[r] = "answered"
  /\ setups \in 0 .. MaxSetups
  /\ DOMAIN written = Sinks /\ failed \subseteq Sinks

\* One text gets one result: two routes that were given the same text, language and
\* terms, without options of the API and with a clean list, and whose analyses
\* succeeded, answer the same results in the same language.
SameByEveryRoute ==
  \A r, s \in Requests :
    /\ answer[r].body = "result" /\ answer[s].body = "result"
    /\ answer[r].language = answer[s].language
    /\ Clean(terms)
    /\ query[r].threshold = query[s].threshold /\ floors[r] = floors[s]
    => answer[r] = answer[s]

\* What is found and not kept has a reason that the user or the operator gave, and
\* nothing is kept against one: a score below the threshold, a word that either list
\* allows, or a score below the floor, where the request's own floor for a type
\* counts instead of the instance's.
EveryOmissionExplained ==
  \A r \in Requests : reply[r] = "results" =>
    \A f \in Findings :
      LET own     == f.type \in DOMAIN floors[r]
          set     == f.type \in DOMAIN instanceFloors
          allowed == \E i \in DOMAIN allowList : allowList[i] = Term(f.word)
          listed  == \E i \in DOMAIN terms :
                       Term(f.word) = IF r \in WebRequests THEN Strip(terms[i]) ELSE terms[i]
      IN
      f \notin answer[r].kept <=>
        \/ f.score < query[r].threshold
        \/ allowed \/ listed
        \/ own /\ f.score < floors[r][f.type]
        \/ ~own /\ set /\ f.score < instanceFloors[f.type]

\* The analyzer never gets a term twice, nor a blank one that came from the settings
\* or a form; its list begins with the instance's terms in their order, and the audit
\* entry's count is the length of the list that was sent.
MergedListsOrdered ==
  \A r \in Requests : query[r].language # "" =>
    LET merged == query[r].allow IN
    /\ \A i, j \in DOMAIN merged : merged[i] = merged[j] => i = j
    /\ \A i \in DOMAIN merged : NotBlank(merged[i]) \/ (r \in ApiRequests /\ Contains(terms, merged[i]))
    /\ \A i, j \in DOMAIN merged :
         Contains(allowList, merged[j]) /\ i < j => Contains(allowList, merged[i])
    /\ answer[r].body = "result" => answer[r].allowed = Len(merged)

\* Who is refused with which status: the handlers of six kinds of failure and the
\* order in which language, list and analysis are looked at.
StatusExplained ==
  \A r \in Requests : pc[r] = "answered" =>
    LET status == answer[r].status
        page   == r \in WebRequests /\ answer[r].body = "error" /\ status = 200
    IN
    /\ answer[r].body = "result" <=> size = "blank" \/ reply[r] = "results"
    /\ status = 500 <=> reply[r] \in { "client_error", "other" }
    /\ page => TooLong(r) \/ language \notin Supported \cup { "auto" }
               \/ ~ValidAllowList(ListOf(r)) \/ reply[r] \notin { "none", "results" }
    /\ status = 503 => reply[r] = "connect"
    /\ status = 504 => reply[r] = "timeout"
    /\ status = 502 => reply[r] = "server_error"
    /\ status = 400 => language \notin Supported \cup { "auto" }
    /\ status = 422 => TooLong(r) \/ ~ValidAllowList(ListOf(r)) \/ reply[r] = "bad_body"

\* Each answered result leaves at most one line in each log, however often logging
\* was set up, with the numbers of that answer, and exactly one where nothing fails
\* to be written, also next to a file that does; refused and failed requests leave
\* none.
AuditedOnce ==
  \A s \in Sinks :
    /\ \A i, j \in DOMAIN written[s] : written[s][i].of = written[s][j].of => i = j
    /\ \A i \in DOMAIN written[s] :
         LET r == written[s][i].of IN
         answer[r].body = "result" /\ written[s][i] = Entry(r, answer[r])
    /\ s = "stderr" /\ s \notin failed =>
         \A r \in Requests : answer[r].body = "result" => \E i \in DOMAIN written[s] : written[s][i].of = r

\* Setting up logging again leaves no file open that no handler writes to, and never
\* two handlers on one sink.
HandlersAccounted ==
  /\ open = { h \in handlers : h.sink = "file" }
  /\ \A h, g \in handlers : h.sink = g.sink => h = g
  /\ setups > 0 => \E h \in handlers : h.sink = "stderr"
=============================================================================
