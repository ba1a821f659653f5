--------------------------- MODULE DocumentUpload ---------------------------
(***************************************************************************)
(* The life of an uploaded document: routers/documents.py upload_document, *)
(* its twin documents_submit in routers/pages.py, and the asynchronous     *)
(* part of services/document_processor.py process_document.                *)
(*                                                                         *)
(* The server is one asyncio event loop.  An action is what runs between   *)
(* two awaits: the look at the upload semaphore, its acquisition, the      *)
(* validation and the extraction are one action, because none of them      *)
(* awaits.  Chunks are analysed by one task each under a semaphore of the  *)
(* document; asyncio.gather settles on the first exception and leaves the  *)
(* other tasks running; asyncio.wait_for ends the whole by cancelling the  *)
(* handler's task, which reaches the chunk tasks only through a gather     *)
(* that has not settled yet.                                               *)
(***************************************************************************)
EXTENDS Integers, FiniteSets

CONSTANTS
  Uploads,      \* the upload requests
  WebUploads,   \* those that come from the web form, the others use the API
  MaxUploads,   \* settings.max_concurrent_uploads
  ChunkLimit,   \* the 10 of asyncio.Semaphore(10)
  MaxChunks,    \* bound: most chunks of a document
  Causes        \* how a call to the analyzer can fail

ASSUME UploadAssumption == IsFiniteSet(Uploads) /\ WebUploads \subseteq Uploads
ASSUME LimitAssumption  == MaxUploads \in Nat \ {0} /\ ChunkLimit \in Nat \ {0}
ASSUME ChunkAssumption  == MaxChunks \in Nat
ASSUME CauseAssumption  ==
  Causes \subseteq { "connect", "timeout", "server_error", "client_error", "bad_body", "other" }

VARIABLES
  free,      \* value of the upload semaphore
  stage,     \* upload -> where its handler stands
  chunk,     \* upload -> chunk -> state of its analyze_chunk task
  outer,     \* upload -> the future that gather returned
  expiry,    \* upload -> what became of the timeout of wait_for
  answer,    \* upload -> the HTTP answer
  audited    \* upload -> audit records written

vars == << free, stage, chunk, outer, expiry, answer, audited >>

Chunks == 1 .. MaxChunks

Stages == { "reading", "language", "analyzing", "answered" }

\* "absent": the document has no such chunk; "queued": the task waits for the
\* document's semaphore; "calling": its request to the analyzer is out
ChunkStates == { "absent", "queued", "calling", "returned", "cancelled" } \cup Causes

\* "passed": the cancellation went on to the chunk tasks; "pending": it will be
\* raised in the handler's task when that runs next
Expiries == { "none", "passed", "pending" }

NoAnswer == [ status |-> 0, body |-> "none" ]
Statuses == { 0, 200, 400, 413, 422, 429, 500, 502, 503, 504 }
Answers  == [ status : Statuses, body : { "none", "result", "error", "busy" } ]

-----------------------------------------------------------------------------
(* Answers                                                                  *)

\* mutant: a timeout of the analyzer is caught with the connection errors
TimeoutAsUnavailable(cause) ==
  CASE cause \in { "connect", "timeout" } -> 503
    [] cause = "server_error" -> 502
    [] cause = "bad_body"     -> 422
    [] OTHER                  -> 500

\* the API's status for an exception of the analyzer call; a reply that is not
\* JSON raises a ValueError, what no handler names ends as a plain 500
ApiStatus(cause) ==
  CASE cause = "connect"      -> 503
    [] cause = "timeout"      -> 504
    [] cause = "server_error" -> 502
    [] cause = "bad_body"     -> 422
    [] OTHER                  -> 500

\* the web form shows a handled error as a page of status 200; it handles every
\* HTTP status error, the API only those from 500 on
WebStatus(cause) == IF cause = "other" THEN 500 ELSE 200

Failure(u, cause) ==
  [ status |-> IF u \in WebUploads THEN WebStatus(cause) ELSE ApiStatus(cause),
    body   |-> "error" ]

Refusal(u, status) ==
  [ status |-> IF u \in WebUploads THEN 200 ELSE status, body |-> "error" ]

Busy(u) == [ status |-> IF u \in WebUploads THEN 200 ELSE 429, body |-> "busy" ]

Result == [ status |-> 200, body |-> "result" ]

\* what DocumentUploadResponse does not take, the result of a JSON file that is one
\* bare string, number or boolean, or what JSON cannot be written from
Unsent == [ status |-> 500, body |-> "error" ]

\* the API's response is built outside the try block; a page takes any result
Delivery(u) == IF u \in WebUploads THEN { Result } ELSE { Result, Unsent }

Answered(u, a, records) ==
  /\ stage' = [ stage EXCEPT ![u] = "answered" ]
  /\ answer' = [ answer EXCEPT ![u] = a ]
  /\ audited' = [ audited EXCEPT ![u] = @ + records ]

Reply(u, a) == Answered(u, a, 0)

\* the document is processed: the audit record is written first, the response
\* built afterwards
Deliver(u) == \E a \in Delivery(u) : Answered(u, a, 1)

-----------------------------------------------------------------------------
Init ==
  /\ free = MaxUploads
  /\ stage = [ u \in Uploads |-> "reading" ]
  /\ chunk = [ u \in Uploads |-> [ c \in Chunks |-> "absent" ] ]
  /\ outer = [ u \in Uploads |-> "pending" ]
  /\ expiry = [ u \in Uploads |-> "none" ]
  /\ answer = [ u \in Uploads |-> NoAnswer ]
  /\ audited = [ u \in Uploads |-> 0 ]

-----------------------------------------------------------------------------
(* The file has been read: `if sem.locked()`, `async with sem`, and all that *)
(* process_document does before its first await.                             *)

\* mutant: the last free slot is never given away
RejectBusyEarly(u) ==
  /\ stage[u] = "reading"
  /\ free <= 1
  /\ Reply(u, Busy(u))
  /\ UNCHANGED << free, chunk, outer, expiry >>

RejectBusy(u) ==
  /\ stage[u] = "reading"
  /\ free = 0
  /\ Reply(u, Busy(u))
  /\ UNCHANGED << free, chunk, outer, expiry >>

\* mutant: the slot of a rejected document is given back twice
RejectAndReleaseTwice(u) ==
  /\ stage[u] = "reading"
  /\ free > 0
  /\ \E status \in { 400, 413, 422 } : Reply(u, Refusal(u, status))
  /\ free' = free + 1
  /\ UNCHANGED << chunk, outer, expiry >>

\* an unsupported, mismatched, oversized or unparsable file, an unsupported
\* language, an invalid allow list: the slot is taken and given back at once
RejectDocument(u) ==
  /\ stage[u] = "reading"
  /\ free > 0
  /\ \E status \in { 400, 413, 422 } : Reply(u, Refusal(u, status))
  /\ UNCHANGED << free, chunk, outer, expiry >>

\* no text, or nothing but oversized chunks: no await either
AnswerEmpty(u) ==
  /\ stage[u] = "reading"
  /\ free > 0
  /\ Deliver(u)
  /\ UNCHANGED << free, chunk, outer, expiry >>

\* language "auto": the detection is awaited
StartDetection(u) ==
  /\ stage[u] = "reading"
  /\ free > 0
  /\ free' = free - 1
  /\ stage' = [ stage EXCEPT ![u] = "language" ]
  /\ UNCHANGED << chunk, outer, expiry, answer, audited >>

StartTasks(u) ==
  /\ stage' = [ stage EXCEPT ![u] = "analyzing" ]
  /\ \E n \in 1 .. MaxChunks :
       chunk' = [ chunk EXCEPT ![u] = [ c \in Chunks |-> IF c <= n THEN "queued" ELSE "absent" ] ]

\* a language was given: straight to gather
StartAnalysis(u) ==
  /\ stage[u] = "reading"
  /\ free > 0
  /\ free' = free - 1
  /\ StartTasks(u)
  /\ UNCHANGED << outer, expiry, answer, audited >>

-----------------------------------------------------------------------------
(* After the language detection                                             *)

LanguageDetected(u) ==
  /\ stage[u] = "language"
  /\ expiry[u] = "none"
  /\ StartTasks(u)
  /\ UNCHANGED << free, outer, expiry, answer, audited >>

\* the allow list is validated only now
RejectTerms(u) ==
  /\ stage[u] = "language"
  /\ expiry[u] = "none"
  /\ Reply(u, Refusal(u, 422))
  /\ free' = free + 1
  /\ UNCHANGED << chunk, outer, expiry >>

-----------------------------------------------------------------------------
(* analyze_chunk: one task per chunk                                        *)

Calling(u) == { c \in Chunks : chunk[u][c] = "calling" }
Live(u)    == { c \in Chunks : chunk[u][c] \in { "queued", "calling" } }

\* mutant: a call that failed keeps the document's semaphore
BeginAfterLeak(u, c) ==
  /\ chunk[u][c] = "queued"
  /\ \A d \in 1 .. c - 1 : chunk[u][d] # "queued"
  /\ Cardinality({ d \in Chunks : chunk[u][d] \in { "calling" } \cup Causes }) < ChunkLimit
  /\ chunk' = [ chunk EXCEPT ![u][c] = "calling" ]
  /\ UNCHANGED << free, stage, outer, expiry, answer, audited >>

\* the semaphore wakes its waiters in the order they came
BeginCall(u, c) ==
  /\ chunk[u][c] = "queued"
  /\ \A d \in 1 .. c - 1 : chunk[u][d] # "queued"
  /\ Cardinality(Calling(u)) < ChunkLimit
  /\ chunk' = [ chunk EXCEPT ![u][c] = "calling" ]
  /\ UNCHANGED << free, stage, outer, expiry, answer, audited >>

EndCall(u, c) ==
  /\ chunk[u][c] = "calling"
  /\ \E s \in { "returned" } \cup Causes : chunk' = [ chunk EXCEPT ![u][c] = s ]
  /\ UNCHANGED << free, stage, outer, expiry, answer, audited >>

-----------------------------------------------------------------------------
(* gather and wait_for                                                      *)

Tasks(u) == { c \in Chunks : chunk[u][c] # "absent" }

\* mutant: the first task that returns settles the future
FirstReturnSettles(u) ==
  /\ stage[u] = "analyzing"
  /\ outer[u] = "pending"
  /\ \E c \in Tasks(u) :
       /\ chunk[u][c] \in Causes \cup { "cancelled", "returned" }
       /\ outer' = [ outer EXCEPT ![u] = chunk[u][c] ]
  /\ UNCHANGED << free, stage, chunk, expiry, answer, audited >>

\* the callback of a finished task settles the future: on the first exception
\* it meets, or when every task has returned
GatherSettles(u) ==
  /\ stage[u] = "analyzing"
  /\ outer[u] = "pending"
  /\ \/ \E c \in Tasks(u) :
          /\ chunk[u][c] \in Causes \cup { "cancelled" }
          /\ outer' = [ outer EXCEPT ![u] = chunk[u][c] ]
     \/ /\ \A c \in Tasks(u) : chunk[u][c] = "returned"
        /\ outer' = [ outer EXCEPT ![u] = "returned" ]
  /\ UNCHANGED << free, stage, chunk, expiry, answer, audited >>

\* mutant: only the requests that are out are cancelled, not the queued tasks
TimerCancelsCalls(u) ==
  /\ stage[u] \in { "language", "analyzing" }
  /\ expiry[u] = "none"
  /\ IF stage[u] = "analyzing" /\ outer[u] = "pending" /\ Calling(u) # {}
     THEN /\ expiry' = [ expiry EXCEPT ![u] = "passed" ]
          /\ chunk' = [ chunk EXCEPT ![u] =
               [ c \in Chunks |-> IF c \in Calling(u) THEN "cancelled" ELSE chunk[u][c] ] ]
     ELSE /\ expiry' = [ expiry EXCEPT ![u] = "pending" ]
          /\ UNCHANGED chunk
  /\ UNCHANGED << free, stage, outer, answer, audited >>

\* mutant: the gather is shielded from the cancellation
TimerIsShielded(u) ==
  /\ stage[u] \in { "language", "analyzing" }
  /\ expiry[u] = "none"
  /\ expiry' = [ expiry EXCEPT ![u] = "pending" ]
  /\ UNCHANGED << free, stage, chunk, outer, answer, audited >>

\* The 120 seconds are over: the handler's task is cancelled.  Waiting on an
\* unsettled gather with live tasks, it hands the cancellation to them.
TimerFires(u) ==
  /\ stage[u] \in { "language", "analyzing" }
  /\ expiry[u] = "none"
  /\ IF stage[u] = "analyzing" /\ outer[u] = "pending" /\ Live(u) # {}
     THEN /\ expiry' = [ expiry EXCEPT ![u] = "passed" ]
          /\ chunk' = [ chunk EXCEPT ![u] =
               [ c \in Chunks |-> IF c \in Live(u) THEN "cancelled" ELSE chunk[u][c] ] ]
     ELSE /\ expiry' = [ expiry EXCEPT ![u] = "pending" ]
          /\ UNCHANGED chunk
  /\ UNCHANGED << free, stage, outer, answer, audited >>

-----------------------------------------------------------------------------
(* The handler's task runs again                                            *)

Resumes(u) ==
  \/ stage[u] = "language" /\ expiry[u] = "pending"
  \/ stage[u] = "analyzing" /\ outer[u] # "pending"

\* the cancellation reached the handler: 504
AnswerExpired(u) ==
  /\ Resumes(u)
  /\ expiry[u] = "pending" \/ outer[u] = "cancelled"
  /\ Reply(u, Refusal(u, 504))
  /\ free' = free + 1
  /\ UNCHANGED << chunk, outer, expiry >>

\* mutant: the slot is given back on the way of success only
FailWithoutRelease(u) ==
  /\ Resumes(u)
  /\ expiry[u] # "pending"
  /\ outer[u] \in Causes
  /\ Reply(u, Failure(u, outer[u]))
  /\ UNCHANGED << free, chunk, outer, expiry >>

AnswerFailure(u) ==
  /\ Resumes(u)
  /\ expiry[u] # "pending"
  /\ outer[u] \in Causes
  /\ Reply(u, Failure(u, outer[u]))
  /\ free' = free + 1
  /\ UNCHANGED << chunk, outer, expiry >>

AnswerResult(u) ==
  /\ Resumes(u)
  /\ expiry[u] # "pending"
  /\ outer[u] = "returned"
  /\ Deliver(u)
  /\ free' = free + 1
  /\ UNCHANGED << chunk, outer, expiry >>

-----------------------------------------------------------------------------
Next ==
  \E u \in Uploads :
    \/ RejectBusy(u)
    \/ RejectDocument(u)
    \/ AnswerEmpty(u)
    \/ StartDetection(u)
    \/ StartAnalysis(u)
    \/ LanguageDetected(u)
    \/ RejectTerms(u)
    \/ \E c \in Chunks : BeginCall(u, c)
    \/ \E c \in Chunks : EndCall(u, c)
    \/ GatherSettles(u)
    \/ TimerFires(u)
    \/ AnswerExpired(u)
    \/ AnswerFailure(u)
    \/ AnswerResult(u)

\* every request is answered and every task is over
Finished == \A u \in Uploads : stage[u] = "answered" /\ Live(u) = {}
Idle == Finished /\ UNCHANGED vars

\* The event loop runs every task that is ready and fires every timer that is
\* due.  The client may never finish sending, the analyzer may never reply.
Fairness ==
  \A u \in Uploads :
    /\ WF_vars(LanguageDetected(u) \/ RejectTerms(u))
    /\ WF_vars(\E c \in Chunks : BeginCall(u, c))
    /\ WF_vars(GatherSettles(u))
    /\ WF_vars(TimerFires(u))
    /\ WF_vars(AnswerExpired(u) \/ AnswerFailure(u) \/ AnswerResult(u))

SafeSpec == Init /\ [][Next \/ Idle]_vars
Spec     == SafeSpec /\ Fairness

-----------------------------------------------------------------------------
(* Properties                                                               *)

TypeOK ==
  /\ free \in 0 .. MaxUploads
  /\ stage \in [ Uploads -> Stages ]
  /\ chunk \in [ Uploads -> [ Chunks -> ChunkStates ] ]
  /\ outer \in [ Uploads -> { "pending", "returned", "cancelled" } \cup Causes ]
  /\ expiry \in [ Uploads -> Expiries ]
  /\ answer \in [ Uploads -> Answers ]
  /\ audited \in [ Uploads -> Nat ]

Holders == { u \in Uploads : stage[u] \in { "language", "analyzing" } }

\* Every slot of the upload semaphore is free or held by exactly one request in
\* process: no way out of the handler, exception, timeout or answer, loses or
\* doubles one.
SlotsAccounted == free + Cardinality(Holders) = MaxUploads

Failed(u, cause) == \E c \in Chunks : chunk[u][c] = cause

\* The documents that can have calls out: those in process, and those that were
\* answered with the error of one of their chunks
FailedDocuments == { u \in Uploads : stage[u] = "answered" /\ \E cause \in Causes : Failed(u, cause) }
Calls           == { x \in Uploads \X Chunks : chunk[x[1]][x[2]] = "calling" }

\* The two semaphores together bound the load on the analyzer, which neither does
\* alone: a slot is given back with the answer, so tasks that live on add to the
\* calls of the next document.  Only failed documents add theirs, each within its
\* own limit; refused, expired and completed ones add none.
LoadBounded ==
  Cardinality(Calls) <= ChunkLimit * (MaxUploads + Cardinality(FailedDocuments))

\* A processed document whose response could not be built
LostResult(u) ==
  /\ u \notin WebUploads /\ answer[u] = Unsent
  /\ \A c \in Tasks(u) : chunk[u][c] = "returned"

\* A result is sent only when every chunk of the document has been analysed, and
\* there is exactly one audit record if the document was processed to its end,
\* with a result or one the API could not send, and none otherwise: no partial
\* result, no failure of the processing that is recorded, nothing recorded twice.
ResultsComplete ==
  \A u \in Uploads :
    /\ answer[u].body = "result" => \A c \in Tasks(u) : chunk[u][c] = "returned"
    /\ audited[u] = (IF answer[u].body = "result" \/ LostResult(u) THEN 1 ELSE 0)

\* What an API caller reads off a 500, 502, 503 or 504 is what happened: some
\* chunk's call ended in that way, or the document's time was up; a 500 without
\* such a call is a processed and recorded document with no response.
StatusExplained ==
  \A u \in Uploads \ WebUploads :
    /\ answer[u].status = 502 => Failed(u, "server_error")
    /\ answer[u].status = 503 => Failed(u, "connect")
    /\ answer[u].status = 504 => Failed(u, "timeout") \/ expiry[u] # "none"
    /\ answer[u].status = 500 =>
         \/ audited[u] = 0 /\ (Failed(u, "client_error") \/ Failed(u, "other"))
         \/ audited[u] = 1 /\ LostResult(u)

\* Chunk tasks outlive their request only after the failure of a sibling; the
\* timeout alone leaves none behind, however late it strikes.
OrphansOnlyAfterFailure ==
  \A u \in Uploads :
    stage[u] = "answered" /\ Live(u) # {} => \E c \in Chunks : chunk[u][c] \in Causes

\* What ties the future of gather, the timeout and the chunk tasks together: the
\* strengthening under which the invariants above are inductive.
TasksConsistent(u) ==
  /\ stage[u] \in { "reading", "language" } => Tasks(u) = {} /\ outer[u] = "pending"
  /\ stage[u] = "reading" => expiry[u] = "none"
  /\ outer[u] = "returned" => \A c \in Tasks(u) : chunk[u][c] = "returned"
  /\ outer[u] \in Causes => \E c \in Chunks : chunk[u][c] = outer[u]
  /\ outer[u] = "cancelled" => expiry[u] = "passed"
  /\ expiry[u] = "passed" => Live(u) = {}
  /\ \A c \in Chunks : chunk[u][c] = "cancelled" => expiry[u] = "passed"
  /\ stage[u] # "answered" => answer[u] = NoAnswer

TaskInvariant == \A u \in Uploads : TasksConsistent(u)

\* SPEC-003 FAIL-002: when a chunk fails, "cancel remaining in-progress chunks and
\* return the error".  Read at its weakest: once the error is returned, no task of
\* the document sends a new request to the analyzer.
ErrorStopsCalls ==
  [][\A u \in Uploads, c \in Chunks :
       chunk[u][c] = "queued" /\ chunk'[u][c] = "calling" => answer[u].body # "error"]_vars

\* A document that was let in is answered and its slot returned, even if the
\* analyzer never replies.
AdmittedAreAnswered ==
  \A u \in Uploads : stage[u] \in { "language", "analyzing" } ~> stage[u] = "answered"

\* If every call to the analyzer ends, by a reply or by the client's timeout, so
\* does every chunk task, those whose request was answered long ago included.
TasksDrain ==
  (\A u \in Uploads : WF_vars(\E c \in Chunks : EndCall(u, c)))
    => \A u \in Uploads : []<>(Live(u) = {})

\* The routes implement the upload gate.
Gate == INSTANCE UploadGate WITH
  phase <- [ u \in Uploads |->
    IF stage[u] = "reading" THEN "waiting"
    ELSE IF stage[u] # "answered" THEN "admitted"
    ELSE IF answer[u].body = "busy" THEN "refused"
    ELSE "served" ]
ImplementsGate == Gate!Spec
=============================================================================
