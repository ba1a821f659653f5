------------------------- MODULE LanguageDetection -------------------------
(***************************************************************************)
(* services/language.py: the settings checked at startup, the detector     *)
(* that is built on first use, and detect_language, which hands the text   *)
(* to a thread of the loop's default executor and waits for it no longer   *)
(* than language_detection_timeout.                                        *)
(*                                                                         *)
(* Two kinds of actor touch a request: the event loop (one callback at a   *)
(* time) and the executor's threads.  A thread that is past its deadline   *)
(* cannot be stopped: it keeps its place in the pool until it returns.     *)
(***************************************************************************)
EXTENDS Integers, Sequences, FiniteSets

CONSTANTS
  Requests,    \* calls of detect_language
  Documents,   \* those made under the deadline of a document upload
  Workers,     \* threads of the default executor
  Codes,       \* language codes the settings may name
  Mapped       \* keys of ISO_TO_LINGUA

ASSUME RequestAssumption == Documents \subseteq Requests /\ IsFiniteSet(Requests)
ASSUME WorkerAssumption  == Workers \in Nat \ {0}
ASSUME CodeAssumption    == Mapped \subseteq Codes /\ IsFiniteSet(Codes)

VARIABLES
  supported,   \* settings.supported_languages
  fallback,    \* settings.language_detection_fallback
  app,         \* the server's life: starting, serving, or refused to start
  call,        \* request -> where its detect_language stands
  job,         \* request -> where its _detect_sync stands
  queue,       \* the executor's work queue
  detectors,   \* detectors built so far; the first one is kept by lru_cache
  outcome,     \* request -> what its _detect_sync found, while someone waits for it
  answer       \* request -> the LanguageDetection it was given

vars == << supported, fallback, app, call, job, queue, detectors, outcome, answer >>
config == << supported, fallback, app >>

\* None is for texts without words and for confidences that could not be computed
Confidence == { "none", "number" }
Detection  == [ language : Codes, confidence : Confidence ]
Unset      == [ language |-> "", confidence |-> "unset" ]
Raised     == [ language |-> "", confidence |-> "raised" ]

\* a language whose confidence is not computed yet
Unrated    == [ language : Codes, confidence : { "unset" } ]

Fallback(c) == [ language |-> fallback, confidence |-> c ]

Busy == { r \in Requests : job[r] \in { "building", "detecting", "rating" } }

-----------------------------------------------------------------------------
Init ==
  /\ supported \in SUBSET Codes
  /\ fallback \in Codes
  /\ app = "starting"
  /\ call = [ r \in Requests |-> "idle" ]
  /\ job = [ r \in Requests |-> "none" ]
  /\ queue = << >>
  /\ detectors = 0
  /\ outcome = [ r \in Requests |-> Unset ]
  /\ answer = [ r \in Requests |-> Unset ]

\* mutant: the fallback is not looked at
FallbackUnchecked == supported \subseteq Mapped /\ Cardinality(supported) >= 2

ConfigValid ==
  /\ supported \subseteq Mapped
  /\ Cardinality(supported) >= 2
  /\ fallback \in supported

\* lifespan: validate_language_config raises, and the server does not start
Startup ==
  /\ app = "starting"
  /\ app' = IF ConfigValid THEN "serving" ELSE "refused"
  /\ UNCHANGED << supported, fallback, call, job, queue, detectors, outcome, answer >>

-----------------------------------------------------------------------------
(* The event loop                                                            *)

\* the text is empty or white space
DetectBlank(r) ==
  /\ app = "serving" /\ call[r] = "idle"
  /\ call' = [ call EXCEPT ![r] = "answered" ]
  /\ answer' = [ answer EXCEPT ![r] = Fallback("none") ]
  /\ UNCHANGED << config, job, queue, detectors, outcome >>

\* run_in_executor, and wait_for starts its timer
Submit(r) ==
  /\ app = "serving" /\ call[r] = "idle"
  /\ call' = [ call EXCEPT ![r] = "waiting" ]
  /\ job' = [ job EXCEPT ![r] = "queued" ]
  /\ queue' = Append(queue, r)
  /\ UNCHANGED << config, detectors, outcome, answer >>

\* the thread's result reaches the loop; of a request that is not waiting any
\* more it is dropped
DeliverResult(r) ==
  /\ call[r] = "waiting" /\ job[r] = "ended"
  /\ call' = [ call EXCEPT ![r] = "resuming" ]
  /\ UNCHANGED << config, job, queue, detectors, outcome, answer >>

\* mutant: without `except Exception`
ResumeUncaught(r) ==
  /\ call[r] = "resuming"
  /\ call' = [ call EXCEPT ![r] = "answered" ]
  /\ answer' = [ answer EXCEPT ![r] = outcome[r] ]
  /\ outcome' = [ outcome EXCEPT ![r] = Unset ]
  /\ UNCHANGED << config, job, queue, detectors >>

\* detect_language goes on with the result, or in `except Exception`
Resume(r) ==
  /\ call[r] = "resuming"
  /\ call' = [ call EXCEPT ![r] = "answered" ]
  /\ answer' = [ answer EXCEPT ![r] = IF outcome[r] = Raised THEN Fallback("number") ELSE outcome[r] ]
  /\ outcome' = [ outcome EXCEPT ![r] = Unset ]
  /\ UNCHANGED << config, job, queue, detectors >>

\* mutant: the wait for a thread that has started is not cut short
TimerSparesRunning(r) ==
  /\ call[r] \in { "waiting", "resuming" } /\ r \notin Busy
  /\ call' = [ call EXCEPT ![r] = "cancelling" ]
  /\ UNCHANGED << config, job, queue, detectors, outcome, answer >>

\* the timer wins even over a result the request was not yet resumed with
TimerFires(r) ==
  /\ call[r] \in { "waiting", "resuming" }
  /\ call' = [ call EXCEPT ![r] = "cancelling" ]
  /\ UNCHANGED << config, job, queue, detectors, outcome, answer >>

\* the upload's own deadline passes: the CancelledError goes through detect_language
Withdraw(r) ==
  /\ r \in Documents
  /\ call[r] \in { "waiting", "resuming", "cancelling" }
  /\ call' = [ call EXCEPT ![r] = "withdrawing" ]
  /\ UNCHANGED << config, job, queue, detectors, outcome, answer >>

\* mutant: the future is shielded (asyncio.shield), so the executor is not told
ForwardCancelLost(r) ==
  /\ \/ call[r] = "cancelling" /\ call' = [ call EXCEPT ![r] = "interrupted" ]
     \/ call[r] = "withdrawing" /\ call' = [ call EXCEPT ![r] = "withdrawn" ]
  /\ UNCHANGED << config, job, queue, detectors, outcome, answer >>

\* the cancellation is passed on to the executor, where only a job that no thread
\* has taken can be cancelled
ForwardCancel(r) ==
  /\ \/ call[r] = "cancelling" /\ call' = [ call EXCEPT ![r] = "interrupted" ]
     \/ call[r] = "withdrawing" /\ call' = [ call EXCEPT ![r] = "withdrawn" ]
  /\ job' = [ job EXCEPT ![r] = IF @ = "queued" THEN "cancelled" ELSE @ ]
  /\ outcome' = [ outcome EXCEPT ![r] = IF call[r] = "withdrawing" THEN Unset ELSE @ ]
  /\ UNCHANGED << config, queue, detectors, answer >>

\* `except asyncio.TimeoutError`
AnswerFallback(r) ==
  /\ call[r] = "interrupted"
  /\ call' = [ call EXCEPT ![r] = "answered" ]
  /\ answer' = [ answer EXCEPT ![r] = Fallback("number") ]
  /\ outcome' = [ outcome EXCEPT ![r] = Unset ]
  /\ UNCHANGED << config, job, queue, detectors >>

-----------------------------------------------------------------------------
(* The threads                                                               *)

\* mutant: without lru_cache
BuildAlways ==
  /\ queue # << >> /\ Cardinality(Busy) < Workers
  /\ queue' = Tail(queue)
  /\ job' = [ job EXCEPT ![Head(queue)] = IF @ = "cancelled" THEN "cancelled" ELSE "building" ]
  /\ UNCHANGED << config, call, detectors, outcome, answer >>

\* a free thread takes the next job, and finds out whether it was cancelled;
\* _build_detector is called by every job that comes before the first is built
TakeJob ==
  /\ queue # << >> /\ Cardinality(Busy) < Workers
  /\ queue' = Tail(queue)
  /\ job' = [ job EXCEPT ![Head(queue)] =
                IF @ = "cancelled" THEN "cancelled"
                ELSE IF detectors > 0 THEN "detecting" ELSE "building" ]
  /\ UNCHANGED << config, call, detectors, outcome, answer >>

BuildDetector(r) ==
  /\ job[r] = "building"
  /\ detectors' = detectors + 1
  /\ job' = [ job EXCEPT ![r] = "detecting" ]
  /\ UNCHANGED << config, call, queue, outcome, answer >>

\* the languages the detector chooses from
Detectable ==
  IF Cardinality(supported \cap Mapped) < 2 THEN Mapped ELSE supported \cap Mapped

\* what the thread finds; nobody reads it once the request is over
Found(r, o) ==
  outcome' = [ outcome EXCEPT ![r] = IF call[r] \in { "answered", "withdrawn" } THEN Unset ELSE o ]

End(r, o) ==
  /\ Found(r, o)
  /\ job' = [ job EXCEPT ![r] = "ended" ]
  /\ UNCHANGED << config, call, queue, detectors, answer >>

\* detect_language_of: no language stands out, or it raises
DetectNone(r) ==
  /\ job[r] = "detecting"
  /\ \E o \in { Fallback("number"), Raised } : End(r, o)

\* detect_language_of returns a language; its confidence is computed next
DetectLanguage(r) ==
  /\ job[r] = "detecting"
  /\ \E l \in Detectable :
       Found(r, [ language |-> l, confidence |-> "unset" ])
  /\ job' = [ job EXCEPT ![r] = "rating" ]
  /\ UNCHANGED << config, call, queue, detectors, answer >>

\* mutant: after an exception the whole detection is tried again
RateOrDetectAgain(r) ==
  /\ job[r] = "rating"
  /\ \/ End(r, [ outcome[r] EXCEPT !.confidence = "number" ])
     \/ /\ Found(r, Unset)
        /\ job' = [ job EXCEPT ![r] = "detecting" ]
        /\ UNCHANGED << config, call, queue, detectors, answer >>

\* "none": compute_language_confidence_values raised
RateLanguage(r) ==
  /\ job[r] = "rating"
  /\ \E c \in Confidence : End(r, [ outcome[r] EXCEPT !.confidence = c ])

\* nothing left to do
Quiet ==
  /\ \/ app = "refused"
     \/ /\ queue = << >> /\ Busy = {}
        /\ \A r \in Requests : call[r] \in { "answered", "withdrawn" }
  /\ UNCHANGED vars

-----------------------------------------------------------------------------
LoopStep(r) ==
  DeliverResult(r) \/ Resume(r) \/ TimerFires(r) \/ ForwardCancel(r) \/ AnswerFallback(r)

Detecting(r) == BuildDetector(r) \/ DetectNone(r) \/ DetectLanguage(r) \/ RateLanguage(r)

ThreadStep == TakeJob \/ \E r \in Requests : Detecting(r)

Next ==
  \/ Startup
  \/ \E r \in Requests : DetectBlank(r) \/ Submit(r) \/ Withdraw(r) \/ LoopStep(r)
  \/ ThreadStep
  \/ Quiet

\* The loop runs its callbacks and its timers; nothing says that a thread returns.
LoopFairness == \A r \in Requests : WF_vars(LoopStep(r))

Spec == Init /\ [][Next]_vars /\ LoopFairness

\* Threads that are scheduled and detections that end
ThreadFairness ==
  /\ WF_vars(TakeJob)
  /\ \A r \in Requests : WF_vars(Detecting(r))

-----------------------------------------------------------------------------
(* Properties                                                               *)

TypeOK ==
  /\ supported \subseteq Codes /\ fallback \in Codes
  /\ app \in { "starting", "serving", "refused" }
  /\ call \in [ Requests -> { "idle", "waiting", "resuming", "cancelling", "withdrawing",
                              "interrupted", "answered", "withdrawn" } ]
  /\ job \in [ Requests -> { "none", "queued", "building", "detecting", "rating", "ended", "cancelled" } ]
  /\ queue \in Seq(Requests)
  /\ \A i, j \in DOMAIN queue : queue[i] = queue[j] => i = j
  /\ detectors \in Nat
  /\ outcome \in [ Requests -> Detection \cup { Unset, Raised } \cup Unrated ]
  /\ answer \in [ Requests -> Detection \cup { Unset } ]

\* Whatever the settings were, a server that runs gives every text a language it
\* supports, detected or fallen back to: the analyzer is never asked for another
\* and "auto" is never refused with a 400.
AnswerUsable == \A r \in Requests : call[r] = "answered" => answer[r].language \in supported

\* SPEC-004 REQ-005: "If the timeout fires after language detection succeeds but
\* before confidence computation completes, return the detected language with
\* `language_confidence: null`".
KnownLanguageKept ==
  [][\A r \in Requests :
       call[r] = "interrupted" /\ call'[r] = "answered" /\ job[r] = "rating" =>
         answer'[r] = [ language |-> outcome[r].language, confidence |-> "none" ]]_vars

\* No thread starts on a text whose request has its answer: what a request that
\* gave up leaves behind is at most the detection that ran when it did.
NoWorkForTheAnswered ==
  [][\A r \in Requests :
       job[r] = "queued" /\ job'[r] \in { "building", "detecting" } =>
         call[r] \notin { "interrupted", "answered", "withdrawn" }]_vars

\* The threads may each build a detector before the first is kept, and never after:
\* there are at most as many as threads.
DetectorsBounded == detectors <= Workers

\* detect_language returns although every thread hangs, unless the upload that
\* called it is over.
EveryCallReturns ==
  \A r \in Requests : call[r] = "waiting" ~> call[r] \in { "answered", "withdrawn" }

\* If detections end then the executor gets through its queue again and again: jobs
\* that were given up there, or while they ran, hold up none of the later ones.
QueueDrains == ThreadFairness => []<>(queue = << >>)
=============================================================================
