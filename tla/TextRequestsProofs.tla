-------------------------- MODULE TextRequestsProofs --------------------------
(***************************************************************************)
(* Proofs about TextRequests and the audit log it writes: types, statuses, *)
(* handlers and entries, the lists the analyzer gets and what is left out  *)
(* of an answer, for any number of requests, any lists, floors and         *)
(* findings, and any number of starts of the application.                  *)
(***************************************************************************)
EXTENDS TextRequests, ListLemmas

Replies == { "none", "results", "connect", "timeout", "server_error", "bad_body", "client_error", "other" }

RequestVars == << pc, query, floors, reply, answer >>

\* What a request asks and is answered
Typed ==
  /\ pc \in [ Requests -> { "idle", "detecting", "analyzing", "answered" } ]
  /\ reply \in [ Requests -> Replies ]
  /\ DOMAIN query = Requests /\ DOMAIN answer = Requests /\ DOMAIN floors = Requests
  /\ query = [ r \in Requests |-> query[r] ]
  /\ answer = [ r \in Requests |-> answer[r] ]

\* StatusExplained of one request
Explained(r) ==
  LET status == answer[r].status
      page   == r \in WebRequests /\ answer[r].body = "error" /\ status = 200
  IN
  /\ answer[r].body = "result" <=> size = "blank" \/ reply[r] = "results"
  /\ status = 500 <=> reply[r] \in { "client_error", "other" }
  /\ page => TooLong(r) \/ language \notin Supported \cup { "auto" }
             \/ ~ValidAllowList(ListOf(r)) \/ reply[r] \notin { "none", "results" }
  /\ status = 503 => reply[r] = "connect"
  /\ status = 504 => reply[r] = "timeout"
  /\ status = 502 => reply[r] = "server_error"
  /\ status = 400 => language \notin Supported \cup { "auto" }
  /\ status = 422 => TooLong(r) \/ ~ValidAllowList(ListOf(r)) \/ reply[r] = "bad_body"

\* What is known of a request on its way, and of each answer
Progress(r) ==
  /\ pc[r] # "answered" => answer[r] = NoAnswer /\ reply[r] = "none"
  /\ pc[r] # "idle" => setups > 0
  /\ pc[r] = "detecting" => language = "auto"
  /\ pc[r] \in { "detecting", "analyzing" } => size # "blank" /\ ~TooLong(r)
  /\ pc[r] = "answered" => Explained(r)

RequestInv == Typed /\ setups \in Nat /\ \A r \in Requests : Progress(r)

-----------------------------------------------------------------------------
LEMMA Responses ==
  /\ NoAnswer.status = 0 /\ NoAnswer.body = "none"
  /\ \A status : Error(status).status = status /\ Error(status).body = "error"
  /\ \A l, kept, n : Result(l, kept, n).status = 200 /\ Result(l, kept, n).body = "result"
BY DEF NoAnswer, Error, Result

LEMMA InitRequestInv == Init => RequestInv
<1> SUFFICES ASSUME Init PROVE RequestInv
  OBVIOUS
<1>1. Typed
  BY DEF Init, Typed, Replies
<1>2. \A r \in Requests : Progress(r)
  BY DEF Init, Progress
<1> QED
  BY <1>1, <1>2 DEF Init, AuditInit, RequestInv

\* What Respond does to the request, whatever it does to the log
LEMMA Responded ==
  ASSUME Typed, NEW r \in Requests, NEW a, Respond(r, a)
  PROVE  /\ pc' = [ pc EXCEPT ![r] = "answered" ]
         /\ pc'[r] = "answered" /\ answer'[r] = a
         /\ \A s \in Requests : s # r => pc'[s] = pc[s] /\ answer'[s] = answer[s]
         /\ DOMAIN answer' = Requests /\ answer' = [ s \in Requests |-> answer'[s] ]
         /\ setups' = setups
<1>1. setups' = setups
  BY DEF Respond, Emit, auditVars
<1> QED
  BY <1>1 DEF Typed, Respond

\* A request that a step does not touch stays as it was.
LEMMA Untouched ==
  ASSUME RequestInv, NEW r \in Requests, UNCHANGED inputs, setups' \in Nat, setups' >= setups,
         pc'[r] = pc[r], answer'[r] = answer[r], reply'[r] = reply[r]
  PROVE  Progress(r)'
<1>1. setups \in Nat /\ Progress(r)
  BY DEF RequestInv
<1>2. size' = size /\ language' = language /\ terms' = terms
  BY DEF inputs
<1>3. TooLong(r)' = TooLong(r) /\ ListOf(r)' = ListOf(r)
  BY <1>2 DEF TooLong, ListOf
<1>4. Explained(r)' = Explained(r)
  BY <1>2, <1>3 DEF Explained
<1> QED
  BY <1>1, <1>2, <1>3, <1>4 DEF Progress

\* A response is as good as its explanation.
LEMMA RespondKeepsInv ==
  ASSUME RequestInv, NEW r \in Requests, NEW a, Respond(r, a), UNCHANGED inputs,
         setups > 0, query' = [ s \in Requests |-> query'[s] ], DOMAIN floors' = Requests,
         reply' \in [ Requests -> Replies ], \A s \in Requests : s # r => reply'[s] = reply[s],
         Explained(r)'
  PROVE  RequestInv'
<1>1. Typed /\ setups \in Nat
  BY DEF RequestInv
<1>2. /\ pc' = [ pc EXCEPT ![r] = "answered" ]
      /\ pc'[r] = "answered" /\ answer'[r] = a
      /\ \A s \in Requests : s # r => pc'[s] = pc[s] /\ answer'[s] = answer[s]
      /\ DOMAIN answer' = Requests /\ answer' = [ s \in Requests |-> answer'[s] ]
      /\ setups' = setups
  BY <1>1, Responded
<1>3. Typed'
  BY <1>1, <1>2 DEF Typed
<1>4. \A s \in Requests : s # r => Progress(s)'
  BY <1>1, <1>2, Untouched
<1>5. Progress(r)'
  BY <1>1, <1>2 DEF Progress
<1> QED
  BY <1>1, <1>2, <1>3, <1>4, <1>5 DEF RequestInv

\* What Ask leads to: a page or a status, or a call of the analyzer
LEMMA Asked ==
  ASSUME RequestInv, NEW r \in Requests, NEW l, NEW n, Ask(r, l, n), UNCHANGED inputs,
         setups > 0, pc[r] # "answered", size # "blank", ~TooLong(r),
         DOMAIN floors' = Requests, reply' = reply,
         l \in Supported \/ language \notin Supported \cup { "auto" }
  PROVE  RequestInv'
<1>1. Typed /\ setups \in Nat /\ Progress(r)
  BY DEF RequestInv
<1>2. reply[r] = "none" /\ answer[r] = NoAnswer
  BY <1>1 DEF Progress
<1>3. size' = size /\ language' = language /\ terms' = terms
  BY DEF inputs
<1>4. TooLong(r)' = TooLong(r) /\ ListOf(r)' = ListOf(r)
  BY <1>3 DEF TooLong, ListOf
<1>5. reply' \in [ Requests -> Replies ] /\ \A s \in Requests : s # r => reply'[s] = reply[s]
  BY <1>1 DEF Typed
<1>6. ASSUME NEW status \in { 400, 422 }, Respond(r, ErrorOf(r, status)), query' = query,
             status = 400 => language \notin Supported \cup { "auto" },
             status = 422 => ~ValidAllowList(ListOf(r))
      PROVE  RequestInv'
  <2>1. answer'[r] = ErrorOf(r, status)
    BY <1>1, <1>6, Responded
  <2>2. Explained(r)'
    BY <1>2, <1>3, <1>4, <1>6, <2>1, Responses DEF Explained, ErrorOf
  <2> QED
    BY <1>1, <1>5, <1>6, <2>2, RespondKeepsInv DEF Typed
<1>7. CASE l \notin Supported
  BY <1>6, <1>7 DEF Ask
<1>8. CASE l \in Supported /\ ~ValidAllowList(ListOf(r))
  BY <1>6, <1>8 DEF Ask
<1>9. CASE l \in Supported /\ ValidAllowList(ListOf(r))
  <2>1. /\ pc' = [ pc EXCEPT ![r] = "analyzing" ] /\ answer' = answer /\ setups' = setups
        /\ query' = [ query EXCEPT ![r] =
             [ language |-> l, threshold |-> n, allow |-> merge_allow_lists(allowList, ListOf(r)) ] ]
    BY <1>9 DEF Ask, auditVars
  <2>2. Typed'
    BY <1>1, <1>5, <2>1 DEF Typed
  <2>3. \A s \in Requests : s # r => Progress(s)'
    BY <1>1, <1>5, <2>1, Untouched DEF Typed
  <2>4. Progress(r)'
    BY <1>1, <1>2, <1>3, <1>4, <2>1 DEF Progress, Typed
  <2> QED
    BY <1>1, <2>1, <2>2, <2>3, <2>4 DEF RequestInv
<1> QED
  BY <1>7, <1>8, <1>9

LEMMA StepRequestInv == RequestInv /\ [Next]_vars => RequestInv'
<1> SUFFICES ASSUME RequestInv, [Next]_vars PROVE RequestInv'
  OBVIOUS
<1>1. Typed /\ setups \in Nat /\ \A r \in Requests : Progress(r)
  BY DEF RequestInv
<1>2. ASSUME UNCHANGED inputs, UNCHANGED RequestVars, setups' \in Nat, setups' >= setups PROVE RequestInv'
  <2>1. Typed'
    BY <1>1, <1>2 DEF Typed, RequestVars
  <2>2. \A r \in Requests : Progress(r)'
    BY <1>2, Untouched DEF RequestVars
  <2> QED
    BY <1>2, <2>1, <2>2 DEF RequestInv
<1>3. CASE Startup
  BY <1>1, <1>2, <1>3 DEF Startup, setup_logging, RequestVars
<1>4. CASE UNCHANGED vars
  BY <1>1, <1>2, <1>4 DEF vars, inputs, RequestVars
<1>5. ASSUME NEW r \in Requests, Refuse(r) \/ AnswerBlank(r) PROVE RequestInv'
  <2>1. /\ UNCHANGED inputs /\ query' = query /\ floors' = floors /\ reply' = reply
        /\ setups > 0 /\ pc[r] = "idle"
    BY <1>5 DEF Refuse, AnswerBlank
  <2>2. size' = size /\ language' = language /\ terms' = terms
    BY <2>1 DEF inputs
  <2>3. TooLong(r)' = TooLong(r) /\ ListOf(r)' = ListOf(r) /\ reply'[r] = "none"
    BY <1>1, <2>1, <2>2 DEF TooLong, ListOf, Progress
  <2>4. CASE Refuse(r)
    <3>1. Respond(r, ErrorOf(r, 422)) /\ answer'[r] = ErrorOf(r, 422) /\ TooLong(r)
      BY <1>1, <2>4, Responded DEF Refuse
    <3>2. size # "blank"
      BY <3>1 DEF TooLong
    <3>3. Explained(r)'
      BY <2>2, <2>3, <3>1, <3>2, Responses DEF Explained, ErrorOf
    <3> QED
      BY <1>1, <2>1, <3>1, <3>3, RespondKeepsInv DEF Typed
  <2>5. CASE AnswerBlank(r)
    <3>1. Respond(r, Result(Fallback, {}, 0)) /\ answer'[r] = Result(Fallback, {}, 0) /\ size = "blank"
      BY <1>1, <2>5, Responded DEF AnswerBlank
    <3>2. Explained(r)'
      BY <2>2, <2>3, <3>1, Responses DEF Explained
    <3> QED
      BY <1>1, <2>1, <3>1, <3>2, RespondKeepsInv DEF Typed
  <2> QED
    BY <1>5, <2>4, <2>5
<1>6. ASSUME NEW r \in Requests, Receive(r) PROVE RequestInv'
  <2>1. PICK o \in Options(r) :
          /\ floors' = [ floors EXCEPT ![r] = o[1] ]
          /\ IF language = "auto"
             THEN /\ pc' = [ pc EXCEPT ![r] = "detecting" ]
                  /\ query' = [ query EXCEPT ![r].threshold = o[2] ]
                  /\ UNCHANGED << answer, auditVars >>
             ELSE Ask(r, language, o[2])
    BY <1>6 DEF Receive
  <2>2. /\ UNCHANGED inputs /\ reply' = reply /\ setups > 0 /\ pc[r] = "idle"
        /\ size # "blank" /\ ~TooLong(r) /\ DOMAIN floors' = Requests
    BY <1>1, <1>6, <2>1 DEF Receive, Typed
  <2>3. CASE language # "auto"
    BY <2>1, <2>2, <2>3, Asked
  <2>4. CASE language = "auto"
    <3>1. /\ pc' = [ pc EXCEPT ![r] = "detecting" ]
          /\ query' = [ query EXCEPT ![r].threshold = o[2] ]
          /\ answer' = answer /\ setups' = setups
      BY <2>1, <2>4 DEF auditVars
    <3>2. Typed'
      BY <1>1, <2>2, <3>1 DEF Typed
    <3>3. \A s \in Requests : s # r => Progress(s)'
      BY <1>1, <2>2, <3>1, Untouched DEF Typed
    <3>4. size' = size /\ language' = language /\ TooLong(r)' = TooLong(r)
      BY <2>2 DEF inputs, TooLong
    <3>5. Progress(r)'
      BY <1>1, <2>2, <2>4, <3>1, <3>4 DEF Progress, Typed
    <3> QED
      BY <1>1, <3>1, <3>2, <3>3, <3>5 DEF RequestInv
  <2> QED
    BY <2>3, <2>4
<1>7. ASSUME NEW r \in Requests, LanguageDetected(r) PROVE RequestInv'
  <2>1. PICK l \in Supported : Ask(r, l, query[r].threshold)
    BY <1>7 DEF LanguageDetected
  <2>2. /\ UNCHANGED inputs /\ reply' = reply /\ setups > 0 /\ pc[r] # "answered"
        /\ size # "blank" /\ ~TooLong(r) /\ DOMAIN floors' = Requests
    BY <1>1, <1>7 DEF LanguageDetected, Progress, Typed
  <2> QED
    BY <2>1, <2>2, Asked
<1>8. ASSUME NEW r \in Requests, Analyzed(r) PROVE RequestInv'
  <2> DEFINE a == Result(query[r].language, Keep(r, Found(query[r])), Len(query[r].allow))
  <2>1. /\ UNCHANGED inputs /\ query' = query /\ floors' = floors /\ pc[r] = "analyzing"
        /\ reply' = [ reply EXCEPT ![r] = "results" ] /\ Respond(r, a)
    BY <1>8 DEF Analyzed
  <2>2. setups > 0 /\ size # "blank" /\ size' = size
    BY <1>1, <2>1 DEF Progress, inputs
  <2>3. reply' \in [ Requests -> Replies ] /\ reply'[r] = "results"
        /\ \A s \in Requests : s # r => reply'[s] = reply[s]
    BY <1>1, <2>1 DEF Typed, Replies
  <2>4. answer'[r].status = 200 /\ answer'[r].body = "result"
    BY <1>1, <2>1, Responded, Responses
  <2>5. Explained(r)'
    BY <2>2, <2>3, <2>4 DEF Explained
  <2> HIDE DEF a
  <2> QED
    BY <1>1, <2>1, <2>2, <2>3, <2>5, RespondKeepsInv DEF Typed
<1>9. ASSUME NEW r \in Requests, AnalysisFails(r) PROVE RequestInv'
  <2>1. PICK why \in { "connect", "timeout", "server_error", "bad_body", "client_error", "other" } :
          /\ reply' = [ reply EXCEPT ![r] = why ]
          /\ Respond(r, CASE why = "connect"      -> ErrorOf(r, 503)
                          [] why = "timeout"      -> ErrorOf(r, 504)
                          [] why = "server_error" -> ErrorOf(r, 502)
                          [] why = "bad_body"     -> ErrorOf(r, 422)
                          [] OTHER                -> Error(500))
    BY <1>9 DEF AnalysisFails
  <2>2. /\ UNCHANGED inputs /\ query' = query /\ floors' = floors /\ pc[r] = "analyzing"
    BY <1>9 DEF AnalysisFails
  <2>3. setups > 0 /\ size # "blank" /\ size' = size
    BY <1>1, <2>2 DEF Progress, inputs
  <2>4. reply' \in [ Requests -> Replies ] /\ reply'[r] = why
        /\ \A s \in Requests : s # r => reply'[s] = reply[s]
    BY <1>1, <2>1 DEF Typed, Replies
  <2>5. PICK a : Respond(r, a) /\ a = CASE why = "connect"      -> ErrorOf(r, 503)
                                        [] why = "timeout"      -> ErrorOf(r, 504)
                                        [] why = "server_error" -> ErrorOf(r, 502)
                                        [] why = "bad_body"     -> ErrorOf(r, 422)
                                        [] OTHER                -> Error(500)
    BY <2>1
  <2>6. answer'[r] = a
    BY <1>1, <2>5, Responded
  <2>7. Explained(r)'
    BY <2>1, <2>3, <2>4, <2>5, <2>6, Responses DEF Explained, ErrorOf
  <2> QED
    BY <1>1, <2>2, <2>3, <2>4, <2>5, <2>7, RespondKeepsInv DEF Typed
<1> QED
  BY <1>3, <1>4, <1>5, <1>6, <1>7, <1>8, <1>9 DEF Next, Quiet

LEMMA RequestInvariance == Spec => []RequestInv
BY InitRequestInv, StepRequestInv, PTL DEF Spec

-----------------------------------------------------------------------------
(* The log                                                                   *)

LogOK ==
  /\ handlers \subseteq [ sink : Sinks, setup : Nat ]
  /\ DOMAIN written = Sinks
  /\ \A s \in Sinks : \E S : written[s] \in Seq(S)
  /\ failed \subseteq Sinks

\* Entries are written for requests only.
EntriesOfRequests ==
  \A s \in Sinks : \A i \in DOMAIN written[s] : written[s][i].of \in Requests

LogInv == LogOK /\ HandlersAccounted /\ EntriesOfRequests /\ AuditedOnce

LEMMA InitLogInv == Init => LogInv
<1> SUFFICES ASSUME Init PROVE LogInv
  OBVIOUS
<1>1. /\ handlers = {} /\ open = {} /\ failed = {} /\ setups = 0
      /\ written = [ s \in Sinks |-> << >> ]
      /\ \A r \in Requests : answer[r] = NoAnswer
  BY DEF Init, AuditInit
<1>2. LogOK
  <2>1. \A s \in Sinks : written[s] \in Seq({})
    BY <1>1
  <2> QED
    BY <1>1, <2>1 DEF LogOK
<1>3. HandlersAccounted
  BY <1>1 DEF HandlersAccounted
<1>4. EntriesOfRequests /\ AuditedOnce
  BY <1>1, Responses DEF EntriesOfRequests, AuditedOnce
<1> QED
  BY <1>2, <1>3, <1>4 DEF LogInv

\* A request's step leaves log and answers alone, or responds.
LEMMA RequestStep ==
  ASSUME RequestInv, NEW r \in Requests,
         Refuse(r) \/ AnswerBlank(r) \/ Receive(r) \/ LanguageDetected(r) \/ Analyzed(r) \/ AnalysisFails(r)
  PROVE  /\ setups > 0 /\ answer[r] = NoAnswer /\ operation' = operation
         /\ \/ answer' = answer /\ UNCHANGED auditVars
            \/ \E a : Respond(r, a)
<1>1. setups > 0 /\ answer[r] = NoAnswer
  BY DEF RequestInv, Progress, Refuse, AnswerBlank, Receive, LanguageDetected, Analyzed, AnalysisFails
<1>2. operation' = operation
  BY DEF inputs, Refuse, AnswerBlank, Receive, LanguageDetected, Analyzed, AnalysisFails
<1>3. ASSUME NEW l, NEW n, Ask(r, l, n)
      PROVE  \/ answer' = answer /\ UNCHANGED auditVars
             \/ \E a : Respond(r, a)
  BY <1>3 DEF Ask
<1>4. CASE Refuse(r) \/ AnswerBlank(r) \/ Analyzed(r) \/ AnalysisFails(r)
  BY <1>1, <1>2, <1>4 DEF Refuse, AnswerBlank, Analyzed, AnalysisFails
<1>5. CASE Receive(r)
  BY <1>1, <1>2, <1>3, <1>5 DEF Receive
<1>6. CASE LanguageDetected(r)
  BY <1>1, <1>2, <1>3, <1>6 DEF LanguageDetected
<1> QED
  BY <1>4, <1>5, <1>6

\* An emission adds the entry to the log of each working handler, once.
LEMMA EmitOnce ==
  ASSUME LogOK, HandlersAccounted, NEW e, Emit(e), NEW s \in Sinks
  PROVE  /\ failed \subseteq failed' /\ failed' \subseteq Sinks
         /\ DOMAIN written' = Sinks
         /\ \E S : written'[s] \in Seq(S)
         /\ \A i \in DOMAIN written[s] : i \in DOMAIN written'[s] /\ written'[s][i] = written[s][i]
         /\ \A i, j \in DOMAIN written'[s] : i \notin DOMAIN written[s] /\ j \notin DOMAIN written[s] =>
              i = j /\ written'[s][i] = e
         /\ setups > 0 /\ s = "stderr" /\ s \notin failed' =>
              \E i \in DOMAIN written'[s] : written'[s][i] = e
<1>1. PICK working \in SUBSET handlers :
        /\ failed' = failed \cup { h.sink : h \in handlers \ working }
        /\ written' = [ z \in Sinks |->
             written[z] \o [ i \in 1 .. Cardinality({ h \in working : h.sink = z }) |-> e ] ]
  BY DEF Emit
<1> DEFINE Mine == { h \in working : h.sink = s }
<1>2. Mine = {} \/ \E h \in handlers : Mine = { h }
  BY <1>1 DEF HandlersAccounted
<1>3. Cardinality(Mine) = 0 \/ Cardinality(Mine) = 1
  BY <1>2, FS_EmptySet, FS_Singleton
<1>4. PICK S : written[s] \in Seq(S)
  BY DEF LogOK
<1>5. PICK T : T = S \cup { e }
  OBVIOUS
<1>6. written[s] \in Seq(T) /\ e \in T /\ Len(written[s]) \in Nat /\ DOMAIN written[s] = 1 .. Len(written[s])
  BY <1>4, <1>5
<1>7. failed \subseteq failed' /\ failed' \subseteq Sinks /\ DOMAIN written' = Sinks
  BY <1>1 DEF LogOK
<1>8. setups > 0 /\ s = "stderr" /\ s \notin failed' => Mine # {}
  <2> SUFFICES ASSUME setups > 0, s = "stderr", s \notin failed' PROVE Mine # {}
    OBVIOUS
  <2>1. PICK h \in handlers : h.sink = "stderr"
    BY DEF HandlersAccounted
  <2>2. h \in working
    BY <1>1, <2>1
  <2> QED
    BY <2>1, <2>2
<1>9. CASE Cardinality(Mine) = 0
  <2>1. Mine = {}
    BY <1>2, <1>9, FS_Singleton
  <2>2. written'[s] = written[s] \o [ i \in 1 .. 0 |-> e ]
    BY <1>1, <1>9
  <2>3. [ i \in 1 .. 0 |-> e ] = << >>
    OBVIOUS
  <2>4. written'[s] = written[s]
    BY <1>6, <2>2, <2>3
  <2> QED
    BY <1>6, <1>7, <1>8, <2>1, <2>4
<1>10. CASE Cardinality(Mine) = 1
  <2>1. written'[s] = written[s] \o [ i \in 1 .. 1 |-> e ]
    BY <1>1, <1>10
  <2>2. [ i \in 1 .. 1 |-> e ] = << e >>
    OBVIOUS
  <2>3. written'[s] = written[s] \o << e >>
    BY <2>1, <2>2
  <2>4. /\ written'[s] \in Seq(T)
        /\ DOMAIN written'[s] = 1 .. (Len(written[s]) + 1)
        /\ \A i \in 1 .. Len(written[s]) : written'[s][i] = written[s][i]
        /\ written'[s][Len(written[s]) + 1] = e
    BY <1>6, <2>3
  <2> QED
    BY <1>6, <1>7, <2>4
<1> QED
  BY <1>3, <1>9, <1>10

\* The first answer of a request reaches the log, if it is a result.
LEMMA RespondLogs ==
  ASSUME RequestInv, LogInv, NEW r \in Requests, NEW a, Respond(r, a),
         answer[r] = NoAnswer, setups > 0, operation' = operation
  PROVE  LogInv'
<1>1. /\ answer'[r] = a /\ \A q \in Requests : q # r => answer'[q] = answer[q]
      /\ setups' = setups
  BY Responded DEF RequestInv
<1>2. LogOK /\ HandlersAccounted /\ EntriesOfRequests /\ AuditedOnce
  BY DEF LogInv
<1>3. \A s \in Sinks : \A i \in DOMAIN written[s] : written[s][i].of \in Requests \ { r }
  BY <1>2, Responses DEF EntriesOfRequests, AuditedOnce
<1>4. \A q \in Requests : q # r => Entry(q, answer[q])' = Entry(q, answer[q])
  BY <1>1 DEF Entry, EntityCount
<1>5. Entry(r, answer[r])' = Entry(r, a) /\ Entry(r, a).of = r
  BY <1>1 DEF Entry, EntityCount
<1>6. CASE a.body # "result"
  <2>1. UNCHANGED auditVars
    BY <1>6 DEF Respond
  <2>2. LogOK' /\ HandlersAccounted' /\ EntriesOfRequests'
    BY <1>2, <2>1 DEF LogOK, HandlersAccounted, EntriesOfRequests, auditVars
  <2>3. AuditedOnce'
    BY <1>1, <1>2, <1>3, <1>4, <1>6, <2>1 DEF AuditedOnce, auditVars
  <2> QED
    BY <2>2, <2>3 DEF LogInv
<1>7. CASE a.body = "result"
  <2> DEFINE e == Entry(r, a)
  <2>1. Emit(e)
    BY <1>7 DEF Respond
  <2>2. handlers' = handlers /\ open' = open
    BY <2>1 DEF Emit
  <2> HIDE DEF e
  <2>3. ASSUME NEW s \in Sinks
        PROVE  /\ failed \subseteq failed' /\ failed' \subseteq Sinks
               /\ DOMAIN written' = Sinks
               /\ \E S : written'[s] \in Seq(S)
               /\ \A i \in DOMAIN written[s] : i \in DOMAIN written'[s] /\ written'[s][i] = written[s][i]
               /\ \A i, j \in DOMAIN written'[s] : i \notin DOMAIN written[s] /\ j \notin DOMAIN written[s] =>
                    i = j /\ written'[s][i] = e
               /\ s = "stderr" /\ s \notin failed' => \E i \in DOMAIN written'[s] : written'[s][i] = e
    BY <1>2, <2>1, EmitOnce
  <2>4. LogOK'
    BY <1>2, <2>2, <2>3 DEF LogOK, Sinks
  <2>5. HandlersAccounted'
    BY <1>1, <1>2, <2>2 DEF HandlersAccounted
  <2>6. \A s \in Sinks : \A i \in DOMAIN written'[s] :
          \/ i \in DOMAIN written[s] /\ written'[s][i] = written[s][i] /\ written[s][i].of \in Requests \ { r }
          \/ i \notin DOMAIN written[s] /\ written'[s][i] = e /\ written'[s][i].of = r
    BY <1>3, <1>5, <2>3 DEF e
  <2>7. EntriesOfRequests'
    BY <2>6 DEF EntriesOfRequests
  <2>8. AuditedOnce'
    <3> SUFFICES ASSUME NEW s \in Sinks
                 PROVE  /\ \A i, j \in DOMAIN written'[s] : written'[s][i].of = written'[s][j].of => i = j
                        /\ \A i \in DOMAIN written'[s] :
                             /\ answer'[written'[s][i].of].body = "result"
                             /\ written'[s][i] = Entry(written[s][i].of, answer[written[s][i].of])'
                        /\ s = "stderr" /\ s \notin failed' =>
                             \A q \in Requests : answer'[q].body = "result" =>
                               \E i \in DOMAIN written'[s] : written'[s][i].of = q
      BY DEF AuditedOnce
    <3>1. \A i, j \in DOMAIN written'[s] : written'[s][i].of = written'[s][j].of => i = j
      BY <1>2, <2>3, <2>6 DEF AuditedOnce
    <3>2. ASSUME NEW i \in DOMAIN written'[s]
          PROVE  /\ answer'[written'[s][i].of].body = "result"
                 /\ written'[s][i] = Entry(written[s][i].of, answer[written[s][i].of])'
      <4>1. CASE i \notin DOMAIN written[s]
        <5>1. written'[s][i] = e /\ written'[s][i].of = r
          BY <2>6, <4>1
        <5>2. Entry(written[s][i].of, answer[written[s][i].of])' = e
          BY <1>1, <5>1 DEF Entry, EntityCount, e
        <5> QED
          BY <1>1, <1>7, <5>1, <5>2
      <4>2. CASE i \in DOMAIN written[s]
        <5>1. written'[s][i] = written[s][i] /\ written[s][i].of \in Requests \ { r }
          BY <1>3, <2>3, <4>2
        <5>2. /\ answer[written[s][i].of].body = "result"
              /\ written[s][i] = Entry(written[s][i].of, answer[written[s][i].of])
          BY <1>2, <4>2 DEF AuditedOnce
        <5>3. Entry(written[s][i].of, answer[written[s][i].of])' = Entry(written[s][i].of, answer[written[s][i].of])
          BY <1>1, <5>1 DEF Entry, EntityCount
        <5> QED
          BY <1>1, <5>1, <5>2, <5>3
      <4> QED
        BY <4>1, <4>2
    <3>3. ASSUME s = "stderr", s \notin failed', NEW q \in Requests, answer'[q].body = "result"
          PROVE  \E i \in DOMAIN written'[s] : written'[s][i].of = q
      <4>1. CASE q = r
        BY <1>5, <2>3, <3>3, <4>1 DEF e
      <4>2. CASE q # r
        <5>1. answer[q].body = "result" /\ s \notin failed
          BY <1>1, <2>3, <3>3, <4>2
        <5>2. PICK i \in DOMAIN written[s] : written[s][i].of = q
          BY <1>2, <3>3, <5>1 DEF AuditedOnce
        <5> QED
          BY <2>3, <5>2
      <4> QED
        BY <4>1, <4>2
    <3> QED
      BY <3>1, <3>2, <3>3
  <2> QED
    BY <2>4, <2>5, <2>7, <2>8 DEF LogInv
<1> QED
  BY <1>6, <1>7

\* A new set-up replaces the handlers and leaves the log.
LEMMA SetupKeepsLog ==
  ASSUME LogInv, setups \in Nat, setup_logging, answer' = answer, operation' = operation
  PROVE  LogInv'
<1>1. LogOK /\ HandlersAccounted /\ EntriesOfRequests /\ AuditedOnce
  BY DEF LogInv
<1>2. /\ setups' = setups + 1 /\ written' = written /\ failed' = failed
      /\ \E added \in { {}, { Handler("file") } } :
           /\ handlers' = { Handler("stderr") } \cup added
           /\ open' = (open \ handlers) \cup added
  BY DEF setup_logging
<1>3. /\ Handler("file").sink = "file" /\ Handler("stderr").sink = "stderr"
      /\ { Handler("file"), Handler("stderr") } \subseteq [ sink : Sinks, setup : Nat ]
  BY DEF Handler, Sinks
<1>4. open \ handlers = {}
  BY <1>1 DEF HandlersAccounted
<1>5. PICK added \in { {}, { Handler("file") } } :
        handlers' = { Handler("stderr") } \cup added /\ open' = added
  BY <1>2, <1>4
<1>6. LogOK'
  BY <1>1, <1>2, <1>3, <1>5 DEF LogOK
<1>7. HandlersAccounted'
  BY <1>3, <1>5 DEF HandlersAccounted
<1>8. EntriesOfRequests'
  BY <1>1, <1>2 DEF EntriesOfRequests
<1>9. \A r : Entry(r, answer[r])' = Entry(r, answer[r])
  BY DEF Entry, EntityCount
<1>10. AuditedOnce'
  BY <1>1, <1>2, <1>9 DEF AuditedOnce
<1> QED
  BY <1>6, <1>7, <1>8, <1>10 DEF LogInv

LEMMA LogUntouched ==
  ASSUME LogInv, answer' = answer, operation' = operation, UNCHANGED auditVars
  PROVE  LogInv'
<1>1. \A r : Entry(r, answer[r])' = Entry(r, answer[r])
  BY DEF Entry, EntityCount
<1> QED
  BY <1>1 DEF LogInv, LogOK, HandlersAccounted, EntriesOfRequests, AuditedOnce, auditVars

LEMMA LogInvariance == Spec => []LogInv
<1>1. RequestInv /\ LogInv /\ [Next]_vars => LogInv'
  <2> SUFFICES ASSUME RequestInv, LogInv, [Next]_vars PROVE LogInv'
    OBVIOUS
  <2>1. CASE Startup
    BY <2>1, SetupKeepsLog DEF Startup, inputs, RequestInv
  <2>2. ASSUME NEW r \in Requests,
               Refuse(r) \/ AnswerBlank(r) \/ Receive(r) \/ LanguageDetected(r) \/ Analyzed(r) \/ AnalysisFails(r)
        PROVE  LogInv'
    BY <2>2, RequestStep, RespondLogs, LogUntouched
  <2>3. CASE UNCHANGED vars
    BY <2>3, LogUntouched DEF vars, auditVars
  <2> QED
    BY <2>1, <2>2, <2>3 DEF Next, Quiet
<1> QED
  BY <1>1, InitLogInv, RequestInvariance, PTL DEF Spec

-----------------------------------------------------------------------------
\* Every status of the text routes names its cause, and a result is answered exactly
\* for a blank text or after a successful analysis, whatever order the requests'
\* steps come in.
THEOREM StatusSoundness == Spec => []StatusExplained
<1>1. RequestInv => StatusExplained
  BY DEF RequestInv, Progress, Explained, StatusExplained
<1> QED
  BY <1>1, RequestInvariance, PTL

\* One answered result, one line in each log that can be written: however many
\* requests, set-ups and failing handlers there are.
THEOREM AuditExactness == Spec => []AuditedOnce
<1>1. LogInv => AuditedOnce
  BY DEF LogInv
<1> QED
  BY <1>1, LogInvariance, PTL

\* setup_logging closes what it replaces.
THEOREM HandlerAccounting == Spec => []HandlersAccounted
<1>1. LogInv => HandlersAccounted
  BY DEF LogInv
<1> QED
  BY <1>1, LogInvariance, PTL

-----------------------------------------------------------------------------
(* Types                                                                     *)

\* TypeOK of one request, with what its next step may ask
QueryOK(r) ==
  /\ query[r].language \in Supported \cup { "" }
  /\ query[r].threshold \in RequestThresholds \cup { 0 }
  /\ query[r].language # "" => query[r].threshold \in RequestThresholds
  /\ pc[r] = "idle" => query[r] = Unasked
  /\ pc[r] = "detecting" => query[r].threshold \in RequestThresholds
  /\ pc[r] = "analyzing" => query[r].language \in Supported
  /\ reply[r] # "none" => query[r].language # ""
  /\ answer[r].kept \subseteq Findings
  /\ answer[r].status # 0 <=> pc[r] = "answered"

QueriesOK == \A r \in Requests : QueryOK(r)

LEMMA Kept ==
  /\ NoAnswer.kept = {} /\ \A status : Error(status).kept = {}
  /\ \A l, kept, n : Result(l, kept, n).kept = kept
BY DEF NoAnswer, Error, Result

LEMMA WithThreshold ==
  \A n : /\ [ Unasked EXCEPT !.threshold = n ].language = ""
         /\ [ Unasked EXCEPT !.threshold = n ].threshold = n
BY DEF Unasked

LEMMA RespondKeepsQueries ==
  ASSUME Typed, QueriesOK, NEW r \in Requests, NEW a, Respond(r, a), query' = query,
         \A s \in Requests : s # r => reply'[s] = reply[s],
         reply'[r] # "none" => query[r].language # "", a.status # 0, a.kept \subseteq Findings
  PROVE  QueriesOK'
<1>1. /\ pc'[r] = "answered" /\ answer'[r] = a
      /\ \A s \in Requests : s # r => pc'[s] = pc[s] /\ answer'[s] = answer[s]
  BY Responded
<1>2. QueryOK(r)'
  BY <1>1 DEF QueriesOK, QueryOK
<1>3. \A s \in Requests : s # r => QueryOK(s)'
  BY <1>1 DEF QueriesOK, QueryOK
<1> QED
  BY <1>2, <1>3 DEF QueriesOK

LEMMA AskKeepsQueries ==
  ASSUME Typed, QueriesOK, NEW r \in Requests, NEW l, NEW n \in RequestThresholds, Ask(r, l, n),
         reply' = reply, reply[r] = "none", pc[r] # "answered"
  PROVE  QueriesOK'
<1>0. ASSUME NEW a, Respond(r, a), query' = query, a.status # 0, a.kept \subseteq Findings
      PROVE  QueriesOK'
  <2>1. \A s \in Requests : s # r => reply'[s] = reply[s]
    OBVIOUS
  <2>2. reply'[r] # "none" => query[r].language # ""
    OBVIOUS
  <2> QED
    BY <1>0, <2>1, <2>2, RespondKeepsQueries
<1>1. CASE \E status \in { 400, 422 } : Respond(r, ErrorOf(r, status)) /\ query' = query
  <2>1. PICK status \in { 400, 422 } : Respond(r, ErrorOf(r, status)) /\ query' = query
    BY <1>1
  <2>2. ErrorOf(r, status).status # 0 /\ ErrorOf(r, status).kept \subseteq Findings
    BY Responses, Kept DEF ErrorOf
  <2>3. PICK a : Respond(r, a) /\ a.status # 0 /\ a.kept \subseteq Findings
    BY <2>1, <2>2
  <2>4. query' = query
    BY <2>1
  <2> QED
    BY <2>3, <2>4, <1>0
<1>2. CASE /\ l \in Supported
           /\ query' = [ query EXCEPT ![r] =
                [ language |-> l, threshold |-> n, allow |-> merge_allow_lists(allowList, ListOf(r)) ] ]
           /\ pc' = [ pc EXCEPT ![r] = "analyzing" ]
           /\ UNCHANGED << answer, auditVars >>
  <2>1. query'[r].language = l /\ query'[r].threshold = n /\ pc'[r] = "analyzing"
    BY <1>2 DEF Typed
  <2>2. QueryOK(r)'
    BY <1>2, <2>1, LanguageAssumption DEF QueriesOK, QueryOK
  <2>3. \A s \in Requests : s # r => QueryOK(s)'
    BY <1>2 DEF QueriesOK, QueryOK, Typed
  <2> QED
    BY <2>2, <2>3 DEF QueriesOK
<1> QED
  BY <1>1, <1>2 DEF Ask

LEMMA InitQueries == Init => QueriesOK
<1> SUFFICES ASSUME Init, NEW r \in Requests PROVE QueryOK(r)
  BY DEF QueriesOK
<1>1. pc[r] = "idle" /\ query[r] = Unasked /\ reply[r] = "none" /\ answer[r] = NoAnswer
  BY DEF Init
<1>2. Unasked.language = "" /\ Unasked.threshold = 0
  BY DEF Unasked
<1> QED
  BY <1>1, <1>2, Responses, Kept DEF QueryOK

LEMMA StepQueries == RequestInv /\ QueriesOK /\ [Next]_vars => QueriesOK'
<1> SUFFICES ASSUME RequestInv, QueriesOK, [Next]_vars PROVE QueriesOK'
  OBVIOUS
<1>1. Typed /\ \A r \in Requests : pc[r] # "answered" => reply[r] = "none"
  BY DEF RequestInv, Progress
<1>2. CASE Startup \/ UNCHANGED vars
  <2>1. UNCHANGED << pc, query, reply, answer >>
    BY <1>2 DEF Startup, vars
  <2>2. \A r \in Requests : QueryOK(r)' = QueryOK(r)
    BY <2>1 DEF QueryOK
  <2> QED
    BY <2>2 DEF QueriesOK
<1>3. ASSUME NEW r \in Requests, Refuse(r) \/ AnswerBlank(r) PROVE QueriesOK'
  <2>1. query' = query /\ reply' = reply /\ reply[r] = "none"
    BY <1>1, <1>3 DEF Refuse, AnswerBlank
  <2>2. PICK a \in { ErrorOf(r, 422), Result(Fallback, {}, 0) } : Respond(r, a)
    BY <1>3 DEF Refuse, AnswerBlank
  <2>3. a.status # 0 /\ a.kept \subseteq Findings
    BY Responses, Kept DEF ErrorOf
  <2> QED
    BY <1>1, <2>1, <2>2, <2>3, RespondKeepsQueries
<1>4. ASSUME NEW r \in Requests, Receive(r) PROVE QueriesOK'
  <2>1. PICK o \in Options(r) :
          IF language = "auto"
          THEN /\ pc' = [ pc EXCEPT ![r] = "detecting" ]
               /\ query' = [ query EXCEPT ![r].threshold = o[2] ]
               /\ UNCHANGED << answer, auditVars >>
          ELSE Ask(r, language, o[2])
    BY <1>4 DEF Receive
  <2>2. o[2] \in RequestThresholds
    BY ThresholdAssumption DEF Options
  <2>3. pc[r] = "idle" /\ reply' = reply /\ reply[r] = "none"
    BY <1>1, <1>4 DEF Receive
  <2>4. CASE language # "auto"
    BY <1>1, <2>1, <2>2, <2>3, <2>4, AskKeepsQueries
  <2>5. CASE language = "auto"
    <3>1. /\ pc' = [ pc EXCEPT ![r] = "detecting" ]
          /\ query' = [ query EXCEPT ![r].threshold = o[2] ] /\ answer' = answer
      BY <2>1, <2>5
    <3>2. query[r] = Unasked
      BY <2>3 DEF QueriesOK, QueryOK
    <3>3. query'[r].language = "" /\ query'[r].threshold = o[2] /\ pc'[r] = "detecting"
      <4>1. pc'[r] = "detecting" /\ query'[r] = [ query[r] EXCEPT !.threshold = o[2] ]
        BY <1>1, <3>1 DEF Typed
      <4> QED
        BY <3>2, <4>1, WithThreshold
    <3>4. QueryOK(r)'
      BY <2>2, <2>3, <3>1, <3>3 DEF QueriesOK, QueryOK
    <3>5. \A s \in Requests : s # r => QueryOK(s)'
      BY <1>1, <2>3, <3>1 DEF QueriesOK, QueryOK, Typed
    <3> QED
      BY <3>4, <3>5 DEF QueriesOK
  <2> QED
    BY <2>4, <2>5
<1>5. ASSUME NEW r \in Requests, LanguageDetected(r) PROVE QueriesOK'
  <2>1. PICK l \in Supported : Ask(r, l, query[r].threshold)
    BY <1>5 DEF LanguageDetected
  <2>2. pc[r] = "detecting" /\ reply' = reply /\ reply[r] = "none"
    BY <1>1, <1>5 DEF LanguageDetected
  <2>3. query[r].threshold \in RequestThresholds
    BY <2>2 DEF QueriesOK, QueryOK
  <2> QED
    BY <1>1, <2>1, <2>2, <2>3, AskKeepsQueries
<1>6. ASSUME NEW r \in Requests, Analyzed(r) PROVE QueriesOK'
  <2> DEFINE a == Result(query[r].language, Keep(r, Found(query[r])), Len(query[r].allow))
  <2>1. /\ query' = query /\ pc[r] = "analyzing" /\ reply' = [ reply EXCEPT ![r] = "results" ] /\ Respond(r, a)
    BY <1>6 DEF Analyzed
  <2>2. query[r].language # ""
    BY <2>1, LanguageAssumption DEF QueriesOK, QueryOK
  <2>3. Keep(r, Found(query[r])) \subseteq Findings
    BY DEF Keep, Found, filter_by_entity_thresholds
  <2>4. a.status # 0 /\ a.kept \subseteq Findings
    BY <2>3, Responses, Kept
  <2>5. \A s \in Requests : s # r => reply'[s] = reply[s]
    BY <1>1, <2>1 DEF Typed
  <2> HIDE DEF a
  <2> QED
    BY <1>1, <2>1, <2>2, <2>4, <2>5, RespondKeepsQueries
<1>7. ASSUME NEW r \in Requests, AnalysisFails(r) PROVE QueriesOK'
  <2>1. PICK why \in { "connect", "timeout", "server_error", "bad_body", "client_error", "other" } :
          /\ reply' = [ reply EXCEPT ![r] = why ]
          /\ Respond(r, CASE why = "connect"      -> ErrorOf(r, 503)
                          [] why = "timeout"      -> ErrorOf(r, 504)
                          [] why = "server_error" -> ErrorOf(r, 502)
                          [] why = "bad_body"     -> ErrorOf(r, 422)
                          [] OTHER                -> Error(500))
    BY <1>7 DEF AnalysisFails
  <2>2. query' = query /\ pc[r] = "analyzing"
    BY <1>7 DEF AnalysisFails
  <2>3. query[r].language # ""
    BY <2>2, LanguageAssumption DEF QueriesOK, QueryOK
  <2>4. PICK a \in { ErrorOf(r, 503), ErrorOf(r, 504), ErrorOf(r, 502), ErrorOf(r, 422), Error(500) } : Respond(r, a)
    BY <2>1
  <2>5. a.status # 0 /\ a.kept \subseteq Findings
    BY Responses, Kept DEF ErrorOf
  <2>6. \A s \in Requests : s # r => reply'[s] = reply[s]
    BY <1>1, <2>1 DEF Typed
  <2> QED
    BY <1>1, <2>2, <2>3, <2>4, <2>5, <2>6, RespondKeepsQueries
<1> QED
  BY <1>2, <1>3, <1>4, <1>5, <1>6, <1>7 DEF Next, Quiet

LEMMA SetupsBounded == Spec => [](setups \in 0 .. MaxSetups)
<1>1. Init => setups \in 0 .. MaxSetups
  BY SetupAssumption DEF Init, AuditInit
<1>2. setups \in 0 .. MaxSetups /\ [Next]_vars => (setups \in 0 .. MaxSetups)'
  <2> SUFFICES ASSUME setups \in 0 .. MaxSetups, [Next]_vars PROVE setups' \in 0 .. MaxSetups
    OBVIOUS
  <2>1. CASE Startup
    BY <2>1, SetupAssumption DEF Startup, setup_logging
  <2>2. setups' = setups => setups' \in 0 .. MaxSetups
    OBVIOUS
  <2>3. CASE UNCHANGED vars
    BY <2>2, <2>3 DEF vars
  <2>4. ASSUME NEW r \in Requests, NEW a, Respond(r, a) PROVE setups' = setups
    BY <2>4 DEF Respond, Emit, auditVars
  <2>5. ASSUME NEW r \in Requests, NEW l, NEW n, Ask(r, l, n) PROVE setups' = setups
    BY <2>4, <2>5 DEF Ask, auditVars
  <2>6. ASSUME NEW r \in Requests, Receive(r) \/ LanguageDetected(r) PROVE setups' = setups
    BY <2>5, <2>6 DEF Receive, LanguageDetected, auditVars
  <2>7. ASSUME NEW r \in Requests, Refuse(r) \/ AnswerBlank(r) \/ Analyzed(r) \/ AnalysisFails(r)
        PROVE  setups' = setups
    BY <2>4, <2>7 DEF Refuse, AnswerBlank, Analyzed, AnalysisFails
  <2> QED
    BY <2>1, <2>2, <2>3, <2>6, <2>7 DEF Next, Quiet
<1> QED
  BY <1>1, <1>2, PTL DEF Spec

\* The analyzer is asked with a supported language and an allowed threshold only, and
\* a response holds findings of the text.
THEOREM RequestTypes == Spec => []TypeOK
<1>1. RequestInv /\ LogInv /\ QueriesOK /\ setups \in 0 .. MaxSetups => TypeOK
  <2> SUFFICES ASSUME RequestInv, LogInv, QueriesOK, setups \in 0 .. MaxSetups PROVE TypeOK
    OBVIOUS
  <2>1. Typed /\ DOMAIN written = Sinks /\ failed \subseteq Sinks
    BY DEF RequestInv, LogInv, LogOK
  <2>2. Unasked.language = ""
    BY DEF Unasked
  <2> QED
    BY <2>1, <2>2 DEF TypeOK, Typed, QueriesOK, QueryOK
<1> QED
  BY <1>1, InitQueries, StepQueries, SetupsBounded, RequestInvariance, LogInvariance, PTL DEF Spec

-----------------------------------------------------------------------------
(* Lists                                                                     *)

\* What the loop of a list comprehension has after each term
LEMMA WithoutBlanksLoop ==
  ASSUME NEW S, NEW s \in Seq(S)
  PROVE  \E f \in [ 0 .. Len(s) -> Seq(S) ] :
           /\ f[0] = << >> /\ WithoutBlanks(s) = f[Len(s)]
           /\ \A n \in 1 .. Len(s) :
                f[n] = IF NotBlank(s[n]) THEN Append(f[n - 1], s[n]) ELSE f[n - 1]
<1> DEFINE T == Seq(S)
           N == Len(s)
           b == << >>
           Round(x, n) == IF NotBlank(s[n]) THEN Append(x, s[n]) ELSE x
           g == [ n \in 1 .. N |-> [ x \in T |-> Round(x, n) ] ]
           Loop(f) == f = [ n \in 0 .. N |-> IF n = 0 THEN b ELSE Round(f[n - 1], n) ]
<1>1. N \in Nat /\ b \in T
  OBVIOUS
<1>2. \A x \in T : \A n \in 1 .. N : Round(x, n) \in T
  OBVIOUS
<1>3. WithoutBlanks(s) = (CHOOSE f : Loop(f))[N]
  BY DEF WithoutBlanks
<1> HIDE DEF N, b, T, Round
<1>4. Rounds(g, N, T) /\ \A x \in T : \A n \in 1 .. N : g[n][x] = Round(x, n)
  BY <1>2 DEF Rounds
<1> HIDE DEF g
<1>5. \E f : Runs(f, N, T, b, g)
  BY <1>1, <1>4, LoopExists
<1>6. \E f : Loop(f)
  <2>1. PICK f : Runs(f, N, T, b, g)
    BY <1>5
  <2>2. f \in [ 0 .. N -> T ] /\ f[0] = b /\ \A n \in 1 .. N : f[n] = g[n][f[n - 1]]
    BY <2>1 DEF Runs
  <2>3. \A n \in 1 .. N : n - 1 \in 0 .. N
    BY <1>1
  <2>4. \A n \in 1 .. N : f[n] = Round(f[n - 1], n)
    BY <1>4, <2>2, <2>3
  <2>5. Loop(f)
    BY <1>1, <2>2, <2>4
  <2> QED
    BY <2>5
<1>7. PICK f : Loop(f) /\ WithoutBlanks(s) = f[N]
  <2> HIDE DEF Loop
  <2> QED
    BY <1>3, <1>6
<1>8. f = [ n \in 0 .. N |-> f[n] ] /\ f[0] = b /\ \A n \in 1 .. N : f[n] = Round(f[n - 1], n)
  BY <1>1, <1>7
<1>9. f \in [ 0 .. N -> T ]
  <2> DEFINE P == { n \in 0 .. N : f[n] \in T }
  <2>1. 0 \in P
    BY <1>1, <1>8
  <2>2. ASSUME NEW n \in 1 .. N, n - 1 \in P PROVE n \in P
    <3>1. n \in 0 .. N /\ f[n - 1] \in T
      BY <1>1, <2>2
    <3>2. Round(f[n - 1], n) \in T
      BY <1>2, <3>1
    <3> QED
      BY <1>8, <3>1, <3>2
  <2>3. \A n \in 0 .. N : n \in P
    <3> HIDE DEF P
    <3> QED
      BY <1>1, <2>1, <2>2, FromOneBefore
  <2> QED
    BY <1>8, <2>3
<1> QED
  BY <1>7, <1>8, <1>9 DEF Round, N, b, T

\* The terms that are not blank, in their order
LEMMA WithoutBlanksFacts ==
  ASSUME NEW S, NEW s \in Seq(S)
  PROVE  /\ WithoutBlanks(s) \in Seq(S)
         /\ \A i \in DOMAIN WithoutBlanks(s) :
              NotBlank(WithoutBlanks(s)[i]) /\ \E k \in DOMAIN s : WithoutBlanks(s)[i] = s[k]
         /\ \A k \in DOMAIN s :
              NotBlank(s[k]) => \E i \in DOMAIN WithoutBlanks(s) : WithoutBlanks(s)[i] = s[k]
         /\ (\A k \in DOMAIN s : NotBlank(s[k])) => WithoutBlanks(s) = s
<1> DEFINE N == Len(s)
<1>1. PICK f \in [ 0 .. N -> Seq(S) ] :
        /\ f[0] = << >> /\ WithoutBlanks(s) = f[N]
        /\ \A n \in 1 .. N : f[n] = IF NotBlank(s[n]) THEN Append(f[n - 1], s[n]) ELSE f[n - 1]
  BY WithoutBlanksLoop
<1>2. N \in Nat /\ DOMAIN s = 1 .. N /\ \A n \in 1 .. N : s[n] \in S
  BY LenProperties, ElementOfSeq
<1> HIDE DEF N
<1> DEFINE Good(n) ==
             /\ \A i \in 1 .. Len(f[n]) : NotBlank(f[n][i]) /\ \E k \in 1 .. n : f[n][i] = s[k]
             /\ \A k \in 1 .. n : NotBlank(s[k]) => \E i \in 1 .. Len(f[n]) : f[n][i] = s[k]
             /\ (\A k \in 1 .. n : NotBlank(s[k])) => Len(f[n]) = n /\ \A k \in 1 .. n : f[n][k] = s[k]
           P == { n \in 0 .. N : Good(n) }
<1>3. Good(0)
  BY <1>1, <1>2
<1>4. ASSUME NEW n \in 1 .. N, Good(n - 1) PROVE Good(n)
  <2>1. f[n - 1] \in Seq(S) /\ n - 1 \in Nat /\ s[n] \in S
    BY <1>1, <1>2
  <2> DEFINE x == f[n - 1]
             y == f[n]
  <2>2. Len(x) \in Nat
    BY <2>1
  <2>3. CASE NotBlank(s[n])
    <3>1. y = Append(x, s[n])
      BY <1>1, <2>3
    <3>2. Len(y) = Len(x) + 1 /\ y[Len(x) + 1] = s[n] /\ \A i \in 1 .. Len(x) : y[i] = x[i]
      BY <2>1, <3>1, AppendProperties
    <3> HIDE DEF x, y
    <3>3. \A i \in 1 .. Len(x) : NotBlank(x[i]) /\ \E k \in 1 .. n - 1 : x[i] = s[k]
      BY <1>4 DEF x
    <3>4. \A i \in 1 .. Len(y) : NotBlank(y[i]) /\ \E k \in 1 .. n : y[i] = s[k]
      <4> TAKE i \in 1 .. Len(y)
      <4>1. i \in 1 .. Len(x) \/ i = Len(x) + 1
        BY <2>2, <3>2
      <4> QED
        BY <2>1, <2>3, <3>2, <3>3, <4>1
    <3>5. \A k \in 1 .. n - 1 : NotBlank(s[k]) => \E i \in 1 .. Len(x) : x[i] = s[k]
      BY <1>4 DEF x
    <3>6. \A k \in 1 .. n : NotBlank(s[k]) => \E i \in 1 .. Len(y) : y[i] = s[k]
      <4> SUFFICES ASSUME NEW k \in 1 .. n, NotBlank(s[k]) PROVE \E i \in 1 .. Len(y) : y[i] = s[k]
        OBVIOUS
      <4>1. CASE k = n
        BY <2>2, <3>2, <4>1
      <4>2. CASE k # n
        <5>1. PICK i \in 1 .. Len(x) : x[i] = s[k]
          BY <2>1, <3>5, <4>2
        <5> QED
          BY <2>2, <3>2, <5>1
      <4> QED
        BY <4>1, <4>2
    <3>7. (\A k \in 1 .. n - 1 : NotBlank(s[k])) => Len(x) = n - 1 /\ \A k \in 1 .. n - 1 : x[k] = s[k]
      BY <1>4 DEF x
    <3>8. (\A k \in 1 .. n : NotBlank(s[k])) => Len(y) = n /\ \A k \in 1 .. n : y[k] = s[k]
      BY <2>1, <3>2, <3>7
    <3> QED
      BY <3>4, <3>6, <3>8 DEF y
  <2>4. CASE ~NotBlank(s[n])
    <3>1. y = x
      BY <1>1, <2>4
    <3>2. 1 .. n - 1 \subseteq 1 .. n /\ n \in 1 .. n /\ \A k \in 1 .. n : k = n \/ k \in 1 .. n - 1
      OBVIOUS
    <3> QED
      BY <1>4, <2>4, <3>1, <3>2
  <2> QED
    BY <2>3, <2>4
<1>5. N \in P
  <2> HIDE DEF Good
  <2>1. 0 \in P /\ \A n \in 1 .. N : n - 1 \in P => n \in P
    BY <1>2, <1>3, <1>4
  <2> HIDE DEF P
  <2>2. \A n \in 0 .. N : n \in P
    BY <1>2, <2>1, FromOneBefore
  <2> QED
    BY <1>2, <2>2
<1>6. Good(N)
  BY <1>5
<1>7. f[N] \in Seq(S) /\ DOMAIN f[N] = 1 .. Len(f[N])
  BY <1>1, <1>2
<1>8. (\A k \in DOMAIN s : NotBlank(s[k])) => f[N] = s
  <2> SUFFICES ASSUME \A k \in 1 .. N : NotBlank(s[k]) PROVE f[N] = s
    BY <1>2
  <2>1. Len(f[N]) = N /\ \A k \in 1 .. N : f[N][k] = s[k]
    BY <1>6
  <2> QED
    BY <1>7, <2>1, SeqEqual DEF N
<1>9. /\ \A i \in 1 .. Len(f[N]) : NotBlank(f[N][i]) /\ \E k \in 1 .. N : f[N][i] = s[k]
      /\ \A k \in 1 .. N : NotBlank(s[k]) => \E i \in 1 .. Len(f[N]) : f[N][i] = s[k]
  BY <1>6
<1> HIDE DEF Good
<1>10. WithoutBlanks(s) = f[N] /\ DOMAIN s = 1 .. N
  BY <1>1, <1>2
<1>11. /\ \A i \in DOMAIN f[N] : NotBlank(f[N][i]) /\ \E k \in DOMAIN s : f[N][i] = s[k]
       /\ \A k \in DOMAIN s : NotBlank(s[k]) => \E i \in DOMAIN f[N] : f[N][i] = s[k]
  BY <1>7, <1>9, <1>10
<1> QED
  BY <1>7, <1>8, <1>10, <1>11

\* f has what is left of equal terms after each term of the two lists
Merges(f, S, a, c) ==
  LET list == a \o c IN
  /\ f \in [ 0 .. Len(list) -> Seq(S) ]
  /\ f[0] = << >> /\ merge_allow_lists(a, c) = f[Len(list)]
  /\ \A n \in 1 .. Len(list) :
       f[n] = IF Contains(f[n - 1], list[n]) THEN f[n - 1] ELSE Append(f[n - 1], list[n])

LEMMA MergeLoop ==
  ASSUME NEW S, NEW a \in Seq(S), NEW c \in Seq(S)
  PROVE  \E f : Merges(f, S, a, c)
<1> DEFINE T == Seq(S)
           s == a \o c
           N == Len(s)
           b == << >>
           Round(x, n) == IF Contains(x, s[n]) THEN x ELSE Append(x, s[n])
           g == [ n \in 1 .. N |-> [ x \in T |-> Round(x, n) ] ]
           Loop(f) == f = [ n \in 0 .. N |-> IF n = 0 THEN b ELSE Round(f[n - 1], n) ]
<1>1. N \in Nat /\ b \in T /\ s \in Seq(S)
  OBVIOUS
<1>2. \A x \in T : \A n \in 1 .. N : Round(x, n) \in T
  <2> HIDE DEF s
  <2> QED
    BY <1>1, ElementOfSeq, AppendProperties
<1>3. merge_allow_lists(a, c) = (CHOOSE f : Loop(f))[N]
  BY DEF merge_allow_lists
<1> HIDE DEF N, b, T, Round, s
<1>4. Rounds(g, N, T) /\ \A x \in T : \A n \in 1 .. N : g[n][x] = Round(x, n)
  BY <1>2 DEF Rounds
<1> HIDE DEF g
<1>5. \E f : Runs(f, N, T, b, g)
  BY <1>1, <1>4, LoopExists
<1>6. \E f : Loop(f)
  <2>1. PICK f : Runs(f, N, T, b, g)
    BY <1>5
  <2>2. f \in [ 0 .. N -> T ] /\ f[0] = b /\ \A n \in 1 .. N : f[n] = g[n][f[n - 1]]
    BY <2>1 DEF Runs
  <2>3. \A n \in 1 .. N : n - 1 \in 0 .. N
    BY <1>1
  <2>4. \A n \in 1 .. N : f[n] = Round(f[n - 1], n)
    BY <1>4, <2>2, <2>3
  <2>5. Loop(f)
    BY <1>1, <2>2, <2>4
  <2> QED
    BY <2>5
<1>7. PICK f : Loop(f) /\ merge_allow_lists(a, c) = f[N]
  <2> HIDE DEF Loop
  <2> QED
    BY <1>3, <1>6
<1>8. f = [ n \in 0 .. N |-> f[n] ] /\ f[0] = b /\ \A n \in 1 .. N : f[n] = Round(f[n - 1], n)
  <2>1. f = [ n \in 0 .. N |-> IF n = 0 THEN b ELSE Round(f[n - 1], n) ]
    BY <1>7
  <2>2. 0 \in 0 .. N /\ \A n \in 1 .. N : n \in 0 .. N /\ n # 0
    BY <1>1
  <2> HIDE DEF Loop
  <2>3. f = [ n \in 0 .. N |-> f[n] ]
    BY <2>1, Zenon
  <2> QED
    BY <2>1, <2>2, <2>3
<1>9. f \in [ 0 .. N -> T ]
  <2> DEFINE P == { n \in 0 .. N : f[n] \in T }
  <2>1. 0 \in P
    BY <1>1, <1>8
  <2>2. ASSUME NEW n \in 1 .. N, n - 1 \in P PROVE n \in P
    <3>1. n \in 0 .. N /\ f[n - 1] \in T
      BY <1>1, <2>2
    <3>2. Round(f[n - 1], n) \in T
      BY <1>2, <3>1
    <3> QED
      BY <1>8, <3>1, <3>2
  <2>3. \A n \in 0 .. N : n \in P
    <3> HIDE DEF P
    <3> QED
      BY <1>1, <2>1, <2>2, FromOneBefore
  <2> QED
    BY <1>8, <2>3
<1> QED
  BY <1>7, <1>8, <1>9 DEF Merges, Round, N, b, T, s

\* each term once, the instance's terms before the others
Merged(m, a, c) ==
  /\ \A i, j \in DOMAIN m : m[i] = m[j] => i = j
  /\ \A t : Contains(m, t) <=> Contains(a, t) \/ Contains(c, t)
  /\ \A i, j \in DOMAIN m : Contains(a, m[j]) /\ i < j => Contains(a, m[i])

LEMMA MergeFacts ==
  ASSUME NEW S, NEW a \in Seq(S), NEW c \in Seq(S)
  PROVE  merge_allow_lists(a, c) \in Seq(S) /\ Merged(merge_allow_lists(a, c), a, c)
<1> DEFINE s == a \o c
           N == Len(s)
           A == Len(a)
<1>1. PICK f \in [ 0 .. N -> Seq(S) ] :
        /\ f[0] = << >> /\ merge_allow_lists(a, c) = f[N]
        /\ \A n \in 1 .. N : f[n] = IF Contains(f[n - 1], s[n]) THEN f[n - 1] ELSE Append(f[n - 1], s[n])
  <2>1. PICK f : Merges(f, S, a, c)
    BY MergeLoop
  <2> QED
    BY <2>1 DEF Merges
<1>2. /\ s \in Seq(S) /\ N = A + Len(c) /\ A \in Nat /\ Len(c) \in Nat
      /\ \A i \in 1 .. N : s[i] = IF i <= A THEN a[i] ELSE c[i - A]
  <2>1. A \in Nat /\ Len(c) \in Nat
    OBVIOUS
  <2>2. s \in Seq(S) /\ N = A + Len(c) /\ \A i \in 1 .. A + Len(c) : s[i] = IF i <= A THEN a[i] ELSE c[i - A]
    BY ConcatProperties
  <2> QED
    BY <2>1, <2>2
<1>3. \A i \in 1 .. N : s[i] \in S
  BY <1>2, ElementOfSeq
<1> HIDE DEF N, A, s
<1>4. \A i \in 1 .. A : i \in 1 .. N /\ s[i] = a[i]
  BY <1>2
<1>5. \A t : Contains(a, t) <=> \E i \in 1 .. A : s[i] = t
  BY <1>4 DEF Contains, A
<1>6. \A t : (\E i \in 1 .. N : s[i] = t) <=> Contains(a, t) \/ Contains(c, t)
  <2>1. ASSUME NEW i \in 1 .. N PROVE Contains(a, s[i]) \/ Contains(c, s[i])
    <3>1. CASE i <= A
      BY <1>2, <1>5, <3>1
    <3>2. CASE ~(i <= A)
      <4>1. s[i] = c[i - A] /\ i - A \in 1 .. Len(c)
        BY <1>2, <3>2
      <4> QED
        BY <4>1 DEF Contains
    <3> QED
      BY <3>1, <3>2
  <2>2. ASSUME NEW i \in 1 .. Len(c) PROVE \E k \in 1 .. N : s[k] = c[i]
    <3>1. i + A \in 1 .. N /\ ~(i + A <= A) /\ (i + A) - A = i
      BY <1>2
    <3> QED
      BY <1>2, <3>1
  <2>3. \A t : Contains(c, t) <=> \E i \in 1 .. Len(c) : c[i] = t
    BY DEF Contains
  <2>4. ASSUME NEW t, \E i \in 1 .. N : s[i] = t PROVE Contains(a, t) \/ Contains(c, t)
    BY <2>1, <2>4
  <2>5. ASSUME NEW t, Contains(a, t) \/ Contains(c, t) PROVE \E i \in 1 .. N : s[i] = t
    BY <1>4, <1>5, <2>2, <2>3, <2>5
  <2> QED
    BY <2>4, <2>5
<1> DEFINE Good(n) ==
             /\ \A i, j \in 1 .. Len(f[n]) : f[n][i] = f[n][j] => i = j
             /\ \A t : Contains(f[n], t) <=> \E k \in 1 .. n : s[k] = t
             /\ \A i, j \in 1 .. Len(f[n]) : Contains(a, f[n][j]) /\ i < j => Contains(a, f[n][i])
           P == { n \in 0 .. N : Good(n) }
<1>7. Good(0)
  BY <1>1 DEF Contains
<1>8. ASSUME NEW n \in 1 .. N, Good(n - 1) PROVE Good(n)
  <2> DEFINE x == f[n - 1]
             y == f[n]
  <2>1. x \in Seq(S) /\ n - 1 \in Nat /\ s[n] \in S /\ Len(x) \in Nat
    <3>1. n - 1 \in 0 .. N /\ n - 1 \in Nat /\ s[n] \in S
      BY <1>2, <1>3
    <3>2. x \in Seq(S)
      BY <3>1
    <3> HIDE DEF x
    <3>3. Len(x) \in Nat
      BY <3>2, LenProperties
    <3> QED
      BY <3>1, <3>2, <3>3
  <2>2. /\ \A i, j \in 1 .. Len(x) : x[i] = x[j] => i = j
        /\ \A t : Contains(x, t) <=> \E k \in 1 .. n - 1 : s[k] = t
        /\ \A i, j \in 1 .. Len(x) : Contains(a, x[j]) /\ i < j => Contains(a, x[i])
    BY <1>8
  <2>3. \A k : k \in 1 .. n <=> k = n \/ k \in 1 .. n - 1
    OBVIOUS
  <2>4. y = IF Contains(x, s[n]) THEN x ELSE Append(x, s[n])
    BY <1>1
  <2> HIDE DEF x
  <2>5. CASE Contains(x, s[n])
    <3>1. y = x
      BY <2>4, <2>5
    <3>2. \A t : Contains(x, t) <=> \E k \in 1 .. n : s[k] = t
      BY <2>2, <2>3, <2>5
    <3> QED
      BY <2>2, <3>1, <3>2
  <2>6. CASE ~Contains(x, s[n])
    <3>1. Len(y) = Len(x) + 1 /\ y[Len(x) + 1] = s[n] /\ \A i \in 1 .. Len(x) : y[i] = x[i]
      BY <2>1, <2>4, <2>6, AppendProperties
    <3> HIDE DEF y
    <3>2. \A i : i \in 1 .. Len(y) <=> i = Len(x) + 1 \/ i \in 1 .. Len(x)
      BY <2>1, <3>1
    <3>3. \A i \in 1 .. Len(x) : y[i] # s[n]
      BY <2>6, <3>1 DEF Contains
    <3>4. \A i, j \in 1 .. Len(y) : y[i] = y[j] => i = j
      BY <2>2, <3>1, <3>2, <3>3
    <3>5. \A t : Contains(y, t) <=> t = s[n] \/ Contains(x, t)
      BY <3>1, <3>2 DEF Contains
    <3>6. \A t : Contains(y, t) <=> \E k \in 1 .. n : s[k] = t
      BY <2>2, <2>3, <3>5
    <3>7. ASSUME NEW i \in 1 .. Len(y), NEW j \in 1 .. Len(y), Contains(a, y[j]), i < j
          PROVE  Contains(a, y[i])
      <4>1. i \in 1 .. Len(x) /\ y[i] = x[i]
        BY <2>1, <3>1, <3>2, <3>7
      <4>2. CASE j \in 1 .. Len(x)
        BY <2>2, <3>1, <3>7, <4>1, <4>2
      <4>3. CASE j = Len(x) + 1
        <5>1. PICK k \in 1 .. A : s[k] = s[n]
          BY <1>5, <3>1, <3>7, <4>3
        <5>2. ~(k \in 1 .. n - 1)
          BY <2>2, <2>6, <5>1
        <5>3. 1 .. n - 1 \subseteq 1 .. A
          BY <1>2, <5>2
        <5>4. PICK l \in 1 .. n - 1 : s[l] = x[i]
          BY <2>2, <4>1 DEF Contains
        <5> QED
          BY <1>5, <4>1, <5>3, <5>4
      <4> QED
        BY <3>2, <4>2, <4>3
    <3> QED
      BY <3>4, <3>6, <3>7 DEF y
  <2> QED
    BY <2>5, <2>6
<1>9. N \in P
  <2> HIDE DEF Good
  <2>1. N \in Nat /\ 0 \in P /\ \A n \in 1 .. N : n - 1 \in P => n \in P
    BY <1>2, <1>7, <1>8
  <2> HIDE DEF P
  <2>2. \A n \in 0 .. N : n \in P
    BY <2>1, FromOneBefore
  <2> QED
    BY <2>1, <2>2
<1>10. Good(N)
  BY <1>9
<1>11. /\ \A i, j \in 1 .. Len(f[N]) : f[N][i] = f[N][j] => i = j
       /\ \A t : Contains(f[N], t) <=> \E k \in 1 .. N : s[k] = t
       /\ \A i, j \in 1 .. Len(f[N]) : Contains(a, f[N][j]) /\ i < j => Contains(a, f[N][i])
  BY <1>10
<1>12. f[N] \in Seq(S) /\ DOMAIN f[N] = 1 .. Len(f[N])
  BY <1>1, <1>2
<1> HIDE DEF Good
<1>13. Merged(f[N], a, c)
  BY <1>6, <1>11, <1>12, Zenon DEF Merged
<1> QED
  BY <1>1, <1>12, <1>13

LEMMA ContainsByDomain ==
  ASSUME NEW S, NEW s \in Seq(S)
  PROVE  \A t : Contains(s, t) <=> \E i \in DOMAIN s : s[i] = t
BY DEF Contains

-----------------------------------------------------------------------------
(* Answers                                                                   *)

\* the answer to what r asked
Due(r) == Result(query[r].language, Keep(r, Found(query[r])), Len(query[r].allow))

\* What is asked, kept and answered of one request comes from the text, the lists
\* and the floors as they still are.
Owed(r) ==
  /\ pc[r] \in { "idle", "detecting" } => query[r].language = ""
  /\ query[r].language # "" =>
       /\ setups > 0 /\ size # "blank"
       /\ query[r].allow = merge_allow_lists(allowList, ListOf(r))
  /\ floors[r] = << >> \/ floors[r] \in RequestFloors
  /\ reply[r] = "results" => query[r].language # "" /\ answer[r] = Due(r)
  /\ answer[r].body = "result" /\ reply[r] # "results" =>
       size = "blank" /\ answer[r] = Result(Fallback, {}, 0)

\* After the first start settings.allow_list has no blank term, so that a later start
\* leaves it, and what was asked with it, as it is.
ListsOK ==
  /\ allowList \in Seq(Terms) /\ terms \in Seq(Terms) /\ instanceFloors \in InstanceFloors
  /\ setups > 0 => \A i \in DOMAIN allowList : NotBlank(allowList[i])

AnswerInv == ListsOK /\ \A r \in Requests : Owed(r)

LEMMA InitAnswerInv == Init => AnswerInv
<1> SUFFICES ASSUME Init PROVE AnswerInv
  OBVIOUS
<1>1. /\ instanceFloors \in InstanceFloors /\ terms \in TermLists /\ allowList \in InstanceLists
      /\ setups = 0
  BY DEF Init, AuditInit
<1>2. ListsOK
  BY <1>1, ListAssumption DEF ListsOK
<1>3. ASSUME NEW r \in Requests PROVE Owed(r)
  <2>1. query[r] = Unasked /\ floors[r] = << >> /\ reply[r] = "none" /\ answer[r] = NoAnswer
    BY DEF Init
  <2>2. Unasked.language = ""
    BY DEF Unasked
  <2> QED
    BY <2>1, <2>2, Responses DEF Owed
<1> QED
  BY <1>2, <1>3 DEF AnswerInv

LEMMA SameDue ==
  ASSUME NEW r, instanceFloors' = instanceFloors, floors'[r] = floors[r], query'[r] = query[r]
  PROVE  Due(r)' = Due(r)
BY DEF Due, Result, Keep, Found, merge_entity_thresholds, filter_by_entity_thresholds

LEMMA ListsKept ==
  ASSUME ListsOK, UNCHANGED inputs, allowList' = allowList, setups' = setups
  PROVE  ListsOK'
BY DEF ListsOK, inputs

LEMMA OwedUntouched ==
  ASSUME NEW r, Owed(r), UNCHANGED inputs, allowList' = allowList, setups > 0 => setups' > 0,
         pc'[r] = pc[r], query'[r] = query[r], floors'[r] = floors[r], reply'[r] = reply[r],
         answer'[r] = answer[r]
  PROVE  Owed(r)'
<1>1. size' = size /\ terms' = terms /\ instanceFloors' = instanceFloors
  BY DEF inputs
<1>2. Due(r)' = Due(r)
  BY <1>1, SameDue
<1>3. ListOf(r) = ListOf(r)'
  BY <1>1 DEF ListOf
<1>4. merge_allow_lists(allowList, ListOf(r))' = merge_allow_lists(allowList, ListOf(r))
  BY <1>3 DEF merge_allow_lists
<1> QED
  BY <1>1, <1>2, <1>3, <1>4 DEF Owed

\* A response is owed: what the analysis leaves, or the answer for a blank text.
LEMMA RespondOwed ==
  ASSUME RequestInv, AnswerInv, NEW r \in Requests, NEW a, Respond(r, a), UNCHANGED inputs,
         allowList' = allowList, query' = query,
         \A s \in Requests : s # r => reply'[s] = reply[s] /\ floors'[s] = floors[s],
         floors'[r] = << >> \/ floors'[r] \in RequestFloors,
         reply'[r] = "results" => floors'[r] = floors[r] /\ query[r].language # "" /\ a = Due(r),
         a.body = "result" /\ reply'[r] # "results" => size = "blank" /\ a = Result(Fallback, {}, 0)
  PROVE  AnswerInv'
<1>0. Typed
  BY DEF RequestInv
<1>1. Typed /\ setups \in Nat /\ ListsOK /\ \A s \in Requests : Owed(s)
  BY DEF RequestInv, AnswerInv
<1>2. /\ pc'[r] = "answered" /\ answer'[r] = a /\ setups' = setups
      /\ \A s \in Requests : s # r => pc'[s] = pc[s] /\ answer'[s] = answer[s]
  BY <1>0, Responded
<1>3. ListsOK'
  BY <1>1, <1>2, ListsKept
<1>4. ASSUME NEW s \in Requests, s # r PROVE Owed(s)'
  <2>1. query'[s] = query[s] /\ pc'[s] = pc[s] /\ answer'[s] = answer[s] /\ floors'[s] = floors[s]
        /\ reply'[s] = reply[s]
    BY <1>2, <1>4
  <2>2. Owed(s) /\ (setups > 0 => setups' > 0)
    BY <1>1, <1>2
  <2> QED
    BY <2>1, <2>2, OwedUntouched
<1>5. Owed(r)'
  <2>1. size' = size /\ terms' = terms /\ instanceFloors' = instanceFloors
    BY DEF inputs
  <2>2. floors'[r] = floors[r] => Due(r)' = Due(r)
    BY <2>1, SameDue
  <2>3. ListOf(r)' = ListOf(r)
    BY <2>1 DEF ListOf
  <2>4. merge_allow_lists(allowList, ListOf(r))' = merge_allow_lists(allowList, ListOf(r))
    BY <2>3 DEF merge_allow_lists
  <2> QED
    BY <1>1, <1>2, <2>1, <2>2, <2>4 DEF Owed
<1> QED
  BY <1>3, <1>4, <1>5 DEF AnswerInv

LEMMA AskOwed ==
  ASSUME RequestInv, AnswerInv, NEW r \in Requests, NEW l, NEW n, Ask(r, l, n), UNCHANGED inputs,
         allowList' = allowList, reply' = reply, pc[r] # "answered", setups > 0, size # "blank",
         \A s \in Requests : s # r => floors'[s] = floors[s],
         floors'[r] = << >> \/ floors'[r] \in RequestFloors
  PROVE  AnswerInv'
<1>1. Typed /\ setups \in Nat /\ ListsOK /\ (\A s \in Requests : Owed(s)) /\ Progress(r)
  BY DEF RequestInv, AnswerInv
<1>2. reply[r] = "none" /\ answer[r] = NoAnswer
  BY <1>1 DEF Progress
<1>3. ASSUME NEW status, Respond(r, ErrorOf(r, status)), query' = query PROVE AnswerInv'
  <2>1. ErrorOf(r, status).body = "error"
    BY Responses DEF ErrorOf
  <2>2. PICK a : Respond(r, a) /\ a.body = "error"
    BY <1>3, <2>1
  <2>3. \A s \in Requests : s # r => reply'[s] = reply[s] /\ floors'[s] = floors[s]
    OBVIOUS
  <2>4. reply'[r] # "results" /\ a.body # "result"
    BY <1>2, <2>2
  <2> QED
    BY <1>3, <2>2, <2>3, <2>4, RespondOwed
<1>4. CASE /\ l \in Supported
           /\ query' = [ query EXCEPT ![r] =
                [ language |-> l, threshold |-> n, allow |-> merge_allow_lists(allowList, ListOf(r)) ] ]
           /\ pc' = [ pc EXCEPT ![r] = "analyzing" ]
           /\ UNCHANGED << answer, auditVars >>
  <2>1. query'[r].language = l /\ query'[r].allow = merge_allow_lists(allowList, ListOf(r))
        /\ pc'[r] = "analyzing" /\ answer' = answer /\ setups' = setups
    BY <1>1, <1>4 DEF Typed, auditVars
  <2>2. ASSUME NEW s \in Requests, s # r PROVE Owed(s)'
    <3>1. query'[s] = query[s] /\ pc'[s] = pc[s] /\ answer'[s] = answer[s] /\ floors'[s] = floors[s]
          /\ reply'[s] = reply[s]
      BY <1>1, <1>4, <2>1, <2>2 DEF Typed
    <3> QED
      BY <1>1, <2>1, <3>1, OwedUntouched
  <2>3. Owed(r)'
    <3>1. size' = size /\ ListOf(r)' = ListOf(r)
      BY DEF inputs, ListOf
    <3>2. merge_allow_lists(allowList, ListOf(r))' = merge_allow_lists(allowList, ListOf(r))
      BY <3>1 DEF merge_allow_lists
    <3> QED
      BY <1>2, <2>1, <3>1, <3>2, Responses DEF Owed
  <2>4. ListsOK'
    BY <1>1, <2>1, ListsKept
  <2> QED
    BY <2>2, <2>3, <2>4 DEF AnswerInv
<1> QED
  BY <1>3, <1>4 DEF Ask

LEMMA StepAnswerInv == RequestInv /\ QueriesOK /\ AnswerInv /\ [Next]_vars => AnswerInv'
<1> SUFFICES ASSUME RequestInv, QueriesOK, AnswerInv, [Next]_vars PROVE AnswerInv'
  OBVIOUS
<1>1. Typed /\ setups \in Nat /\ \A r \in Requests : Progress(r)
  BY DEF RequestInv
<1>2. ListsOK /\ \A r \in Requests : Owed(r)
  BY DEF AnswerInv
<1>3. ASSUME NEW r \in Requests
      PROVE  /\ pc[r] # "idle" => setups > 0
             /\ pc[r] # "answered" => reply[r] = "none"
             /\ pc[r] \in { "detecting", "analyzing" } => size # "blank"
             /\ floors[r] = << >> \/ floors[r] \in RequestFloors
  <2>1. Progress(r) /\ Owed(r)
    BY <1>1, <1>2
  <2> QED
    BY <2>1 DEF Progress, Owed
<1>4. CASE Startup
  <2>1. /\ UNCHANGED inputs /\ UNCHANGED RequestVars /\ setups' = setups + 1
        /\ allowList' = WithoutBlanks(allowList)
    BY <1>4 DEF Startup, setup_logging, RequestVars, validate_instance_allow_list
  <2>2. terms' = terms /\ instanceFloors' = instanceFloors
    BY <2>1 DEF inputs
  <2>3. ListsOK'
    <3>1. allowList \in Seq(Terms) /\ terms \in Seq(Terms) /\ instanceFloors \in InstanceFloors
      BY <1>2 DEF ListsOK
    <3>2. allowList' \in Seq(Terms) /\ \A i \in DOMAIN allowList' : NotBlank(allowList'[i])
      BY <2>1, <3>1, WithoutBlanksFacts
    <3> QED
      BY <2>2, <3>1, <3>2 DEF ListsOK
  <2>4. ASSUME NEW r \in Requests PROVE Owed(r)'
    <3>1. CASE setups > 0
      <4>1. allowList \in Seq(Terms) /\ \A i \in DOMAIN allowList : NotBlank(allowList[i])
        BY <1>2, <3>1 DEF ListsOK
      <4>2. allowList' = allowList
        BY <2>1, <4>1, WithoutBlanksFacts
      <4>3. pc' = pc /\ query' = query /\ floors' = floors /\ reply' = reply /\ answer' = answer
        BY <2>1 DEF RequestVars
      <4>4. Owed(r) /\ (setups > 0 => setups' > 0)
        BY <1>1, <1>2, <2>1
      <4> QED
        BY <1>1, <2>1, <4>2, <4>3, <4>4, OwedUntouched
    <3>2. CASE ~(setups > 0)
      <4>1. pc[r] = "idle" /\ reply[r] = "none" /\ answer[r] = NoAnswer
        BY <1>1, <1>3, <3>2 DEF Typed, Progress
      <4>2. pc'[r] = "idle" /\ reply'[r] = "none" /\ answer'[r] = NoAnswer /\ query'[r] = query[r]
            /\ floors'[r] = floors[r]
        BY <2>1, <4>1 DEF RequestVars
      <4>3. query'[r].language = ""
        BY <1>2, <4>1, <4>2 DEF Owed
      <4> QED
        BY <1>3, <4>2, <4>3, Responses DEF Owed
    <3> QED
      BY <3>1, <3>2
  <2> QED
    BY <2>3, <2>4 DEF AnswerInv
<1>5. CASE UNCHANGED vars
  <2>1. UNCHANGED inputs /\ UNCHANGED RequestVars /\ allowList' = allowList /\ setups' = setups
    BY <1>5 DEF vars, inputs, RequestVars
  <2>2. ListsOK'
    BY <1>2, <2>1, ListsKept
  <2>3. ASSUME NEW r \in Requests PROVE Owed(r)'
    <3>1. pc' = pc /\ query' = query /\ floors' = floors /\ reply' = reply /\ answer' = answer
      BY <2>1 DEF RequestVars
    <3>2. Owed(r) /\ (setups > 0 => setups' > 0)
      BY <1>2, <2>1
    <3> QED
      BY <1>1, <2>1, <3>1, <3>2, OwedUntouched
  <2> QED
    BY <2>2, <2>3 DEF AnswerInv
<1>6. ASSUME NEW r \in Requests, Refuse(r) PROVE AnswerInv'
  <2>1. /\ UNCHANGED inputs /\ allowList' = allowList /\ query' = query /\ floors' = floors
        /\ reply' = reply /\ pc[r] = "idle" /\ Respond(r, ErrorOf(r, 422))
    BY <1>6 DEF Refuse
  <2>2. ErrorOf(r, 422).body = "error"
    BY Responses DEF ErrorOf
  <2>3. PICK a : Respond(r, a) /\ a.body = "error"
    BY <2>1, <2>2
  <2>4. reply'[r] # "results" /\ a.body # "result" /\ (floors'[r] = << >> \/ floors'[r] \in RequestFloors)
    BY <1>3, <2>1, <2>3
  <2>5. \A s \in Requests : s # r => reply'[s] = reply[s] /\ floors'[s] = floors[s]
    BY <2>1
  <2> QED
    BY <2>1, <2>3, <2>4, <2>5, RespondOwed
<1>7. ASSUME NEW r \in Requests, AnswerBlank(r) PROVE AnswerInv'
  <2>1. /\ UNCHANGED inputs /\ allowList' = allowList /\ query' = query /\ floors' = floors
        /\ reply' = reply /\ pc[r] = "idle" /\ size = "blank"
    BY <1>7 DEF AnswerBlank
  <2>2. PICK a : Respond(r, a) /\ a = Result(Fallback, {}, 0)
    BY <1>7 DEF AnswerBlank
  <2>3. reply'[r] # "results" /\ (floors'[r] = << >> \/ floors'[r] \in RequestFloors)
    BY <1>3, <2>1
  <2>4. \A s \in Requests : s # r => reply'[s] = reply[s] /\ floors'[s] = floors[s]
    BY <2>1
  <2> QED
    BY <2>1, <2>2, <2>3, <2>4, RespondOwed
<1>8. ASSUME NEW r \in Requests, Receive(r) PROVE AnswerInv'
  <2>1. PICK o \in Options(r) :
          /\ floors' = [ floors EXCEPT ![r] = o[1] ]
          /\ IF language = "auto"
             THEN /\ pc' = [ pc EXCEPT ![r] = "detecting" ]
                  /\ query' = [ query EXCEPT ![r].threshold = o[2] ]
                  /\ UNCHANGED << answer, auditVars >>
             ELSE Ask(r, language, o[2])
    BY <1>8 DEF Receive
  <2>2. /\ UNCHANGED inputs /\ reply' = reply /\ setups > 0 /\ pc[r] = "idle"
        /\ size # "blank" /\ allowList' = allowList
    BY <1>8 DEF Receive
  <2>3. o[1] = << >> \/ o[1] \in RequestFloors
    BY DEF Options
  <2>4. /\ floors'[r] = << >> \/ floors'[r] \in RequestFloors
        /\ \A s \in Requests : s # r => floors'[s] = floors[s]
    BY <1>1, <2>1, <2>3 DEF Typed
  <2>5. CASE language # "auto"
    <3>1. Ask(r, language, o[2]) /\ pc[r] # "answered"
      BY <2>1, <2>2, <2>5
    <3> QED
      BY <2>2, <2>4, <3>1, AskOwed
  <2>6. CASE language = "auto"
    <3>1. /\ pc' = [ pc EXCEPT ![r] = "detecting" ]
          /\ query' = [ query EXCEPT ![r].threshold = o[2] ]
          /\ answer' = answer /\ setups' = setups
      BY <2>1, <2>6 DEF auditVars
    <3>2. reply[r] = "none" /\ answer[r] = NoAnswer /\ query[r] = Unasked
      BY <1>1, <2>2 DEF Progress, QueriesOK, QueryOK
    <3>3. query'[r].language = ""
      <4>1. query'[r] = [ query[r] EXCEPT !.threshold = o[2] ]
        BY <1>1, <3>1 DEF Typed
      <4> QED
        BY <3>2, <4>1, WithThreshold
    <3>4. Owed(r)'
      BY <2>2, <2>4, <3>1, <3>2, <3>3, Responses DEF Owed
    <3>5. ASSUME NEW s \in Requests, s # r PROVE Owed(s)'
      <4>1. query'[s] = query[s] /\ pc'[s] = pc[s] /\ answer'[s] = answer[s]
            /\ floors'[s] = floors[s] /\ reply'[s] = reply[s]
        BY <1>1, <2>2, <2>4, <3>1, <3>5 DEF Typed
      <4>2. Owed(s) /\ (setups > 0 => setups' > 0)
        BY <1>2, <3>1
      <4> QED
        BY <1>1, <2>2, <4>1, <4>2, OwedUntouched
    <3>6. ListsOK'
      BY <1>2, <2>2, <3>1, ListsKept
    <3> QED
      BY <3>4, <3>5, <3>6 DEF AnswerInv
  <2> QED
    BY <2>5, <2>6
<1>9. ASSUME NEW r \in Requests, LanguageDetected(r) PROVE AnswerInv'
  <2>1. PICK l \in Supported : Ask(r, l, query[r].threshold)
    BY <1>9 DEF LanguageDetected
  <2>2. /\ UNCHANGED inputs /\ allowList' = allowList /\ reply' = reply /\ floors' = floors
        /\ pc[r] = "detecting" /\ setups > 0 /\ size # "blank"
    BY <1>3, <1>9 DEF LanguageDetected
  <2>3. /\ floors'[r] = << >> \/ floors'[r] \in RequestFloors
        /\ \A s \in Requests : s # r => floors'[s] = floors[s]
    BY <1>3, <2>2
  <2> QED
    BY <2>1, <2>2, <2>3, AskOwed
<1>10. ASSUME NEW r \in Requests, Analyzed(r) PROVE AnswerInv'
  <2>1. /\ UNCHANGED inputs /\ allowList' = allowList /\ query' = query /\ floors' = floors
        /\ pc[r] = "analyzing" /\ reply' = [ reply EXCEPT ![r] = "results" ] /\ Respond(r, Due(r))
    BY <1>10 DEF Analyzed, Due
  <2>2. PICK a : Respond(r, a) /\ a = Due(r)
    BY <2>1
  <2>3. query[r].language # ""
    BY <2>1, LanguageAssumption DEF QueriesOK, QueryOK
  <2>4. reply'[r] = "results" /\ (floors'[r] = << >> \/ floors'[r] \in RequestFloors)
    BY <1>1, <1>3, <2>1 DEF Typed
  <2>5. \A s \in Requests : s # r => reply'[s] = reply[s] /\ floors'[s] = floors[s]
    BY <1>1, <2>1 DEF Typed
  <2> QED
    BY <2>1, <2>2, <2>3, <2>4, <2>5, RespondOwed
<1>11. ASSUME NEW r \in Requests, AnalysisFails(r) PROVE AnswerInv'
  <2>1. PICK why \in { "connect", "timeout", "server_error", "bad_body", "client_error", "other" } :
          /\ reply' = [ reply EXCEPT ![r] = why ]
          /\ Respond(r, CASE why = "connect"      -> ErrorOf(r, 503)
                          [] why = "timeout"      -> ErrorOf(r, 504)
                          [] why = "server_error" -> ErrorOf(r, 502)
                          [] why = "bad_body"     -> ErrorOf(r, 422)
                          [] OTHER                -> Error(500))
    BY <1>11 DEF AnalysisFails
  <2>2. UNCHANGED inputs /\ allowList' = allowList /\ query' = query /\ floors' = floors
    BY <1>11 DEF AnalysisFails
  <2>3. PICK a \in { ErrorOf(r, 503), ErrorOf(r, 504), ErrorOf(r, 502), ErrorOf(r, 422), Error(500) } : Respond(r, a)
    BY <2>1
  <2>4. a.body # "result"
    BY Responses DEF ErrorOf
  <2>5. reply'[r] # "results" /\ (floors'[r] = << >> \/ floors'[r] \in RequestFloors)
    BY <1>1, <1>3, <2>1, <2>2 DEF Typed
  <2>6. \A s \in Requests : s # r => reply'[s] = reply[s] /\ floors'[s] = floors[s]
    BY <1>1, <2>1, <2>2 DEF Typed
  <2> QED
    BY <2>2, <2>3, <2>4, <2>5, <2>6, RespondOwed
<1> QED
  BY <1>4, <1>5, <1>6, <1>7, <1>8, <1>9, <1>10, <1>11 DEF Next, Quiet

LEMMA AnswerInvariance == Spec => [](RequestInv /\ QueriesOK /\ AnswerInv)
BY InitQueries, InitAnswerInv, StepQueries, StepAnswerInv, RequestInvariance, PTL DEF Spec

\* The terms that a form's list leaves, and those of the API as they come
LEMMA ListOfFacts ==
  ASSUME terms \in Seq(Terms), NEW r \in Requests
  PROVE  LET list == ListOf(r) IN
         /\ list \in Seq(Terms)
         /\ r \in WebRequests => \A i \in DOMAIN list : NotBlank(list[i])
         /\ r \in ApiRequests => list = terms
         /\ Clean(terms) => list = terms
         /\ \A t : NotBlank(t) =>
              (Contains(list, t) <=>
                \E i \in DOMAIN terms : t = IF r \in WebRequests THEN Strip(terms[i]) ELSE terms[i])
<1> DEFINE list == ListOf(r)
           kept == WithoutBlanks(terms)
<1>1. CASE r \notin WebRequests
  <2>1. list = terms
    BY <1>1 DEF ListOf
  <2>2. \A t : Contains(terms, t) <=> \E i \in DOMAIN terms : t = terms[i]
    BY DEF Contains
  <2> HIDE DEF list
  <2> QED
    BY <1>1, <2>1, <2>2 DEF list
<1>2. CASE r \in WebRequests
  <2>1. list = [ i \in DOMAIN kept |-> Strip(kept[i]) ]
    BY <1>2 DEF ListOf, parse_allow_list
  <2>2. /\ kept \in Seq(Terms)
        /\ \A i \in DOMAIN kept : NotBlank(kept[i]) /\ \E k \in DOMAIN terms : kept[i] = terms[k]
        /\ \A k \in DOMAIN terms : NotBlank(terms[k]) => \E i \in DOMAIN kept : kept[i] = terms[k]
        /\ (\A k \in DOMAIN terms : NotBlank(terms[k])) => kept = terms
    BY WithoutBlanksFacts
  <2> HIDE DEF list, kept
  <2>3. DOMAIN list = DOMAIN kept /\ \A i \in DOMAIN kept : list[i] = Strip(kept[i])
    BY <2>1
  <2>4. DOMAIN kept = 1 .. Len(kept) /\ Len(kept) \in Nat /\ \A i \in DOMAIN kept : kept[i] \in Terms
    BY <2>2
  <2>5. \A t \in Terms : /\ Strip(t) \in Terms /\ (NotBlank(Strip(t)) <=> NotBlank(t))
                         /\ ~t.padded => Strip(t) = t
    BY DEF Terms, Strip, NotBlank
  <2>6. list \in Seq(Terms)
    <3>1. \A i \in 1 .. Len(kept) : Strip(kept[i]) \in Terms
      BY <2>4, <2>5
    <3>2. [ i \in 1 .. Len(kept) |-> Strip(kept[i]) ] \in Seq(Terms)
      BY <2>4, <3>1, SeqDef
    <3> QED
      BY <2>1, <2>4, <3>2
  <2>7. \A i \in DOMAIN list : NotBlank(list[i])
    BY <2>2, <2>3, <2>4, <2>5
  <2>8. ASSUME Clean(terms) PROVE list = terms
    <3>1. kept = terms /\ \A i \in DOMAIN terms : ~terms[i].padded
      BY <2>2, <2>8 DEF Clean
    <3>2. \A i \in DOMAIN kept : Strip(kept[i]) = kept[i]
      BY <2>4, <2>5, <3>1
    <3>3. list = [ i \in DOMAIN kept |-> kept[i] ]
      BY <2>1, <3>2
    <3> QED
      BY <2>2, <3>1, <3>3
  <2>9. ASSUME NEW t, NotBlank(t)
        PROVE  Contains(list, t) <=> \E i \in DOMAIN terms : t = Strip(terms[i])
    <3>1. \A i \in DOMAIN terms : terms[i] \in Terms
      OBVIOUS
    <3>2. ASSUME NEW i \in DOMAIN list, list[i] = t PROVE \E k \in DOMAIN terms : t = Strip(terms[k])
      BY <2>2, <2>3, <3>2
    <3>3. ASSUME NEW k \in DOMAIN terms, t = Strip(terms[k]) PROVE \E i \in DOMAIN list : list[i] = t
      <4>1. NotBlank(terms[k])
        BY <2>5, <2>9, <3>1, <3>3
      <4>2. PICK i \in DOMAIN kept : kept[i] = terms[k]
        BY <2>2, <4>1
      <4> QED
        BY <2>3, <3>3, <4>2
    <3> QED
      BY <3>2, <3>3 DEF Contains
  <2>10. r \notin ApiRequests
    BY <1>2, RouteAssumption
  <2> QED
    BY <1>2, <2>6, <2>7, <2>8, <2>9, <2>10 DEF list
<1> QED
  BY <1>1, <1>2 DEF list

\* The analyzer gets each term once, the instance's first, and no blank one that a
\* form or the settings held, however often the application starts again and in
\* whatever order the requests come.
THEOREM MergedListSoundness == Spec => []MergedListsOrdered
<1>1. RequestInv /\ AnswerInv => MergedListsOrdered
  <2> SUFFICES ASSUME RequestInv, AnswerInv, NEW r \in Requests, query[r].language # ""
               PROVE  LET merged == query[r].allow IN
                      /\ \A i, j \in DOMAIN merged : merged[i] = merged[j] => i = j
                      /\ \A i \in DOMAIN merged :
                           NotBlank(merged[i]) \/ (r \in ApiRequests /\ Contains(terms, merged[i]))
                      /\ \A i, j \in DOMAIN merged :
                           Contains(allowList, merged[j]) /\ i < j => Contains(allowList, merged[i])
                      /\ answer[r].body = "result" => answer[r].allowed = Len(merged)
    BY DEF MergedListsOrdered
  <2> DEFINE merged == query[r].allow
             list   == ListOf(r)
  <2>1. ListsOK /\ Owed(r) /\ Progress(r)
    BY DEF RequestInv, AnswerInv
  <2>2. setups > 0 /\ size # "blank" /\ merged = merge_allow_lists(allowList, list)
    BY <2>1 DEF Owed
  <2>3. allowList \in Seq(Terms) /\ terms \in Seq(Terms)
        /\ \A i \in DOMAIN allowList : NotBlank(allowList[i])
    BY <2>1, <2>2 DEF ListsOK
  <2>4. /\ list \in Seq(Terms)
        /\ r \in WebRequests => \A i \in DOMAIN list : NotBlank(list[i])
        /\ r \in ApiRequests => list = terms
    BY <2>3, ListOfFacts
  <2> HIDE DEF list, merged
  <2>5. /\ \A i, j \in DOMAIN merged : merged[i] = merged[j] => i = j
        /\ \A t : Contains(merged, t) <=> Contains(allowList, t) \/ Contains(list, t)
        /\ \A i, j \in DOMAIN merged : Contains(allowList, merged[j]) /\ i < j => Contains(allowList, merged[i])
    <3>1. Merged(merged, allowList, list)
      BY <2>2, <2>3, <2>4, MergeFacts
    <3> QED
      BY <3>1 DEF Merged
  <2>6. ASSUME NEW i \in DOMAIN merged
        PROVE  NotBlank(merged[i]) \/ (r \in ApiRequests /\ Contains(terms, merged[i]))
    <3>1. Contains(merged, merged[i])
      <4>1. merged \in Seq(Terms)
        BY <2>2, <2>3, <2>4, MergeFacts
      <4> QED
        BY <4>1, ContainsByDomain
    <3>2. CASE Contains(allowList, merged[i])
      BY <2>3, <3>2, ContainsByDomain
    <3>3. CASE Contains(list, merged[i])
      <4>1. CASE r \in WebRequests
        BY <2>4, <3>3, <4>1, ContainsByDomain
      <4>2. CASE r \in ApiRequests
        BY <2>4, <3>3, <4>2
      <4> QED
        BY <4>1, <4>2 DEF Requests
    <3> QED
      BY <2>5, <3>1, <3>2, <3>3
  <2>7. answer[r].body = "result" => answer[r].allowed = Len(merged)
    <3>1. ASSUME answer[r].body = "result" PROVE answer[r] = Due(r)
      BY <2>1, <2>2, <3>1 DEF Owed
    <3>2. Due(r).allowed = Len(merged)
      BY DEF Due, Result, merged
    <3> QED
      BY <3>1, <3>2
  <2> QED
    BY <2>5, <2>6, <2>7 DEF merged
<1> QED
  BY <1>1, AnswerInvariance, PTL

\* What is kept and what is left out of an answer follows from the thresholds, the
\* floors and the two lists alone: nothing is lost or kept on the way through either
\* route.
THEOREM OmissionSoundness == Spec => []EveryOmissionExplained
<1>1. RequestInv /\ QueriesOK /\ AnswerInv => EveryOmissionExplained
  <2> SUFFICES ASSUME RequestInv, QueriesOK, AnswerInv, NEW r \in Requests, reply[r] = "results",
                      NEW f \in Findings
               PROVE  LET own     == f.type \in DOMAIN floors[r]
                          set     == f.type \in DOMAIN instanceFloors
                          allowed == \E i \in DOMAIN allowList : allowList[i] = Term(f.word)
                          listed  == \E i \in DOMAIN terms :
                                       Term(f.word) = IF r \in WebRequests THEN Strip(terms[i]) ELSE terms[i]
                      IN
                      f \notin answer[r].kept <=>
                        \/ f.score < query[r].threshold
                        \/ allowed \/ listed
                        \/ own /\ f.score < floors[r][f.type]
                        \/ ~own /\ set /\ f.score < instanceFloors[f.type]
    BY DEF EveryOmissionExplained
  <2> DEFINE t    == Term(f.word)
             q    == query[r]
             list == ListOf(r)
             both == merge_entity_thresholds(instanceFloors, floors[r])
  <2>1. ListsOK /\ Owed(r) /\ QueryOK(r)
    BY DEF AnswerInv, QueriesOK
  <2>2. /\ q.language # "" /\ answer[r] = Due(r)
        /\ q.allow = merge_allow_lists(allowList, list)
    BY <2>1 DEF Owed
  <2>3. allowList \in Seq(Terms) /\ terms \in Seq(Terms) /\ instanceFloors \in InstanceFloors
    BY <2>1 DEF ListsOK
  <2>4. NotBlank(t) /\ f.score \in Nat
    BY FindingAssumption DEF NotBlank, Term
  <2>5. /\ list \in Seq(Terms)
        /\ Contains(list, t) <=>
             \E i \in DOMAIN terms : t = IF r \in WebRequests THEN Strip(terms[i]) ELSE terms[i]
    BY <2>3, <2>4, ListOfFacts
  <2>6. Contains(q.allow, t) <=> Contains(allowList, t) \/ Contains(list, t)
    <3> HIDE DEF t, list, q
    <3>1. Merged(q.allow, allowList, list)
      BY <2>2, <2>3, <2>5, MergeFacts
    <3> QED
      BY <3>1 DEF Merged
  <2>7. q.threshold \in Nat
    BY <2>1, <2>2, ThresholdAssumption DEF QueryOK
  <2>8. \A u : /\ u \in DOMAIN instanceFloors => instanceFloors[u] \in Nat
               /\ u \in DOMAIN floors[r] => floors[r][u] \in Nat
    <3>1. floors[r] = << >> \/ floors[r] \in RequestFloors
      BY <2>1 DEF Owed
    <3> QED
      BY <2>3, <3>1, FloorAssumption
  <2>9. answer[r].kept = { g \in Found(q) : g.type \in DOMAIN both => g.score >= both[g.type] }
    <3>1. answer[r].kept = Keep(r, Found(q))
      <4>1. Due(r).kept = Keep(r, Found(q))
        BY Kept DEF Due
      <4> QED
        BY <2>2, <4>1
    <3> QED
      BY <3>1 DEF Keep, filter_by_entity_thresholds
  <2>10. f \in answer[r].kept <=>
           /\ f.score >= q.threshold /\ ~Contains(q.allow, t)
           /\ f.type \in DOMAIN both => f.score >= both[f.type]
    BY <2>9 DEF Found
  <2>11. /\ f.type \in DOMAIN both <=> f.type \in DOMAIN instanceFloors \/ f.type \in DOMAIN floors[r]
         /\ f.type \in DOMAIN both =>
              both[f.type] = IF f.type \in DOMAIN floors[r] THEN floors[r][f.type] ELSE instanceFloors[f.type]
    BY DEF merge_entity_thresholds
  <2>12. Contains(allowList, t) <=> \E i \in DOMAIN allowList : allowList[i] = Term(f.word)
    BY DEF Contains
  <2> DEFINE listed == \E i \in DOMAIN terms : t = IF r \in WebRequests THEN Strip(terms[i]) ELSE terms[i]
             allowed == \E i \in DOMAIN allowList : allowList[i] = t
  <2>13. (Contains(list, t) <=> listed) /\ (Contains(allowList, t) <=> allowed)
    BY <2>5, <2>12
  <2> HIDE DEF both, list, q, listed, allowed, t
  <2>14. f \notin answer[r].kept <=>
           \/ f.score < q.threshold
           \/ allowed \/ listed
           \/ f.type \in DOMAIN floors[r] /\ f.score < floors[r][f.type]
           \/ f.type \notin DOMAIN floors[r] /\ f.type \in DOMAIN instanceFloors /\ f.score < instanceFloors[f.type]
    BY <2>4, <2>6, <2>7, <2>8, <2>10, <2>11, <2>13
  <2> QED
    BY <2>14 DEF q, listed, allowed, t
<1> QED
  BY <1>1, AnswerInvariance, PTL

\* One text, one result: whatever route, order and start of the application.
THEOREM RouteAgreement == Spec => []SameByEveryRoute
<1>1. AnswerInv => SameByEveryRoute
  <2> SUFFICES ASSUME AnswerInv, NEW r \in Requests, NEW s \in Requests,
                      answer[r].body = "result", answer[s].body = "result",
                      answer[r].language = answer[s].language, Clean(terms),
                      query[r].threshold = query[s].threshold, floors[r] = floors[s]
               PROVE  answer[r] = answer[s]
    BY DEF SameByEveryRoute
  <2>1. ListsOK /\ Owed(r) /\ Owed(s)
    BY DEF AnswerInv
  <2>2. ListOf(r) = terms /\ ListOf(s) = terms
    BY <2>1, ListOfFacts DEF ListsOK
  <2>3. CASE size = "blank"
    <3>1. \A u \in { r, s } : reply[u] # "results"
      BY <2>1, <2>3 DEF Owed
    <3> QED
      BY <2>1, <3>1 DEF Owed
  <2>4. CASE size # "blank"
    <3>1. \A u \in { r, s } : /\ query[u].language # "" /\ answer[u] = Due(u)
                              /\ query[u].allow = merge_allow_lists(allowList, terms)
      BY <2>1, <2>2, <2>4 DEF Owed
    <3>2. query[r].language = query[s].language
      <4>1. \A u \in { r, s } : Due(u).language = query[u].language
        BY DEF Due, Result
      <4> QED
        BY <3>1, <4>1
    <3>3. Found(query[r]) = Found(query[s])
      BY <3>1 DEF Found
    <3>4. Keep(r, Found(query[r])) = Keep(s, Found(query[s]))
      BY <3>3 DEF Keep
    <3> QED
      BY <3>1, <3>2, <3>4 DEF Due
  <2> QED
    BY <2>3, <2>4
<1> QED
  BY <1>1, AnswerInvariance, PTL
=============================================================================
