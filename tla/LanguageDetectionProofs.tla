------------------------ MODULE LanguageDetectionProofs ------------------------
(***************************************************************************)
(* Proofs about LanguageDetection: which languages it answers, how often   *)
(* the detector is built, and what a request that gave up leaves behind,   *)
(* for any number of calls, threads and languages.                         *)
(***************************************************************************)
EXTENDS LanguageDetection, FiniteSetTheorems, TLAPS

Over == { "answered", "withdrawn" }

\* The types of the variables, without the queue
StateOK ==
  /\ supported \subseteq Codes /\ fallback \in Codes
  /\ app \in { "starting", "serving", "refused" }
  /\ call \in [ Requests -> { "idle", "waiting", "resuming", "cancelling", "withdrawing",
                              "interrupted", "answered", "withdrawn" } ]
  /\ job \in [ Requests -> { "none", "queued", "building", "detecting", "rating", "ended", "cancelled" } ]
  /\ outcome \in [ Requests -> Detection \cup { Unset, Raised } \cup Unrated ]
  /\ answer \in [ Requests -> Detection \cup { Unset } ]

\* Nothing is asked of a server that has not started, and what started is valid.
Served ==
  /\ app = "serving" => ConfigValid
  /\ app # "serving" => \A r \in Requests : call[r] = "idle"

\* How far the thread of a call can be when the call stands where it does
Paired ==
  \A r \in Requests :
    /\ call[r] = "idle" => job[r] = "none"
    /\ call[r] = "resuming" => job[r] = "ended"
    /\ job[r] = "queued" => call[r] \in { "waiting", "cancelling", "withdrawing" }

\* What a thread leaves for a call that is not over is fit to be answered.
Usable ==
  \A r \in Requests :
    /\ call[r] = "answered" => answer[r].language \in supported
    /\ call[r] \notin Over /\ job[r] = "rating" =>
         outcome[r] \in Unrated /\ outcome[r].language \in supported
    /\ call[r] \notin Over /\ job[r] = "ended" =>
         outcome[r] = Raised \/ (outcome[r] \in Detection /\ outcome[r].language \in supported)

\* The queue holds each call once, and none that a thread has.
QueueOK ==
  /\ queue \in Seq(Requests)
  /\ \A i, j \in DOMAIN queue : queue[i] = queue[j] => i = j
  /\ \A i \in DOMAIN queue : job[queue[i]] \in { "queued", "cancelled" }

LanguageInv == StateOK /\ Served /\ Paired /\ Usable /\ QueueOK

-----------------------------------------------------------------------------
LEMMA FallbackIsDetection ==
  ASSUME StateOK, NEW c \in Confidence
  PROVE  Fallback(c) \in Detection /\ Fallback(c).language = fallback
BY DEF StateOK, Fallback, Detection

\* With valid settings the detector knows the supported languages and no other.
LEMMA DetectsSupported == ConfigValid => Detectable = supported
<1> SUFFICES ASSUME ConfigValid PROVE Detectable = supported
  OBVIOUS
<1>1. supported \cap Mapped = supported
  BY DEF ConfigValid
<1>2. Cardinality(supported) \in Nat
  <2>1. IsFiniteSet(supported)
    BY CodeAssumption, FS_Subset DEF ConfigValid
  <2> QED
    BY <2>1, FS_CardinalityType
<1>3. ~(Cardinality(supported) < 2)
  BY <1>2 DEF ConfigValid
<1> QED
  BY <1>1, <1>3 DEF Detectable

LEMMA InitLanguageInv == Init => LanguageInv
<1> SUFFICES ASSUME Init PROVE LanguageInv
  OBVIOUS
<1>1. StateOK
  BY DEF Init, StateOK
<1>2. Served /\ Paired /\ Usable /\ QueueOK
  BY DEF Init, Served, Paired, Usable, QueueOK
<1> QED
  BY <1>1, <1>2 DEF LanguageInv

LEMMA StepStateOK == LanguageInv /\ [Next]_vars => StateOK'
<1> SUFFICES ASSUME LanguageInv, [Next]_vars PROVE StateOK'
  OBVIOUS
<1> USE DEF LanguageInv, StateOK, config
<1>1. CASE Startup
  BY <1>1 DEF Startup
<1>2. ASSUME NEW r \in Requests, DetectBlank(r) \/ AnswerFallback(r) PROVE StateOK'
  <2>1. Fallback("none") \in Detection /\ Fallback("number") \in Detection
    BY FallbackIsDetection DEF Confidence
  <2>2. CASE DetectBlank(r)
    BY <2>1, <2>2 DEF DetectBlank
  <2>3. CASE AnswerFallback(r)
    BY <2>1, <2>3 DEF AnswerFallback
  <2> QED
    BY <1>2, <2>2, <2>3
<1>3. ASSUME NEW r \in Requests,
             Submit(r) \/ Withdraw(r) \/ DeliverResult(r) \/ TimerFires(r) \/ ForwardCancel(r)
      PROVE  StateOK'
  BY <1>3 DEF Submit, Withdraw, DeliverResult, TimerFires, ForwardCancel
<1>4. ASSUME NEW r \in Requests, Resume(r) PROVE StateOK'
  <2>1. Fallback("number") \in Detection
    BY FallbackIsDetection DEF Confidence
  <2>2. outcome[r] = Raised \/ outcome[r] \in Detection
    BY <1>4 DEF Resume, Paired, Usable, Over
  <2> QED
    BY <1>4, <2>1, <2>2 DEF Resume
<1>5. CASE TakeJob
  BY <1>5 DEF TakeJob
<1>6. ASSUME NEW r \in Requests, BuildDetector(r) PROVE StateOK'
  BY <1>6 DEF BuildDetector
<1>7. ASSUME NEW r \in Requests, DetectNone(r) PROVE StateOK'
  <2>1. Fallback("number") \in Detection
    BY FallbackIsDetection DEF Confidence
  <2> QED
    BY <1>7, <2>1 DEF DetectNone, End, Found
<1>8. ASSUME NEW r \in Requests, DetectLanguage(r) PROVE StateOK'
  <2>1. \A l \in Detectable : [ language |-> l, confidence |-> "unset" ] \in Unrated
    BY CodeAssumption DEF Detectable, Unrated
  <2> QED
    BY <1>8, <2>1 DEF DetectLanguage, Found
<1>9. ASSUME NEW r \in Requests, RateLanguage(r) PROVE StateOK'
  <2>1. call[r] \notin Over => \A c \in Confidence : [ outcome[r] EXCEPT !.confidence = c ] \in Detection
    BY <1>9 DEF RateLanguage, Usable, Unrated, Detection
  <2> QED
    BY <1>9, <2>1 DEF RateLanguage, End, Found, Over
<1>10. CASE UNCHANGED vars
  BY <1>10 DEF vars
<1> QED
  BY <1>1, <1>2, <1>3, <1>4, <1>5, <1>6, <1>7, <1>8, <1>9, <1>10
     DEF Next, LoopStep, ThreadStep, Detecting, Quiet

LEMMA StepServed == LanguageInv /\ [Next]_vars => Served'
<1> SUFFICES ASSUME LanguageInv, [Next]_vars PROVE Served'
  OBVIOUS
<1> USE DEF LanguageInv, StateOK, Served, ConfigValid, config
<1>1. CASE Startup
  BY <1>1 DEF Startup
<1>2. ASSUME NEW r \in Requests, DetectBlank(r) \/ Submit(r) PROVE Served'
  BY <1>2 DEF DetectBlank, Submit
<1>3. ASSUME NEW r \in Requests, Withdraw(r) \/ LoopStep(r) PROVE Served'
  BY <1>3 DEF Withdraw, LoopStep, DeliverResult, Resume, TimerFires, ForwardCancel, AnswerFallback
<1>4. CASE ThreadStep
  BY <1>4 DEF ThreadStep, Detecting, TakeJob, BuildDetector, DetectNone, DetectLanguage,
       RateLanguage, Found, End
<1>5. CASE UNCHANGED vars
  BY <1>5 DEF vars
<1> QED
  BY <1>1, <1>2, <1>3, <1>4, <1>5 DEF Next, Quiet

\* What the queue gives to a thread
LEMMA HeadOfQueue ==
  ASSUME QueueOK, queue # << >>
  PROVE  /\ Head(queue) \in Requests
         /\ job[Head(queue)] \in { "queued", "cancelled" }
         /\ Tail(queue) \in Seq(Requests)
         /\ DOMAIN Tail(queue) = 1 .. (Len(queue) - 1)
         /\ \A i \in DOMAIN Tail(queue) :
              i + 1 \in DOMAIN queue /\ Tail(queue)[i] = queue[i + 1] /\ Tail(queue)[i] # Head(queue)
BY DEF QueueOK

LEMMA StepPaired == LanguageInv /\ [Next]_vars => Paired'
<1> SUFFICES ASSUME LanguageInv, [Next]_vars PROVE Paired'
  OBVIOUS
<1> USE DEF LanguageInv, StateOK, Paired, config
<1>1. CASE Startup
  BY <1>1 DEF Startup
<1>2. ASSUME NEW r \in Requests, DetectBlank(r) \/ Submit(r) PROVE Paired'
  BY <1>2 DEF DetectBlank, Submit
<1>3. ASSUME NEW r \in Requests, Withdraw(r) \/ LoopStep(r) PROVE Paired'
  BY <1>3 DEF Withdraw, LoopStep, DeliverResult, Resume, TimerFires, ForwardCancel, AnswerFallback
<1>4. CASE TakeJob
  BY <1>4, HeadOfQueue DEF TakeJob
<1>5. ASSUME NEW r \in Requests, Detecting(r) PROVE Paired'
  BY <1>5 DEF Detecting, BuildDetector, DetectNone, DetectLanguage, RateLanguage, Found, End
<1>6. CASE UNCHANGED vars
  BY <1>6 DEF vars
<1> QED
  BY <1>1, <1>2, <1>3, <1>4, <1>5, <1>6 DEF Next, ThreadStep, Quiet

LEMMA StepUsable == LanguageInv /\ [Next]_vars => Usable'
<1> SUFFICES ASSUME LanguageInv, [Next]_vars PROVE Usable'
  OBVIOUS
<1> USE DEF LanguageInv, StateOK, Paired, Usable, Over, config
<1>1. CASE Startup
  BY <1>1 DEF Startup, Served
<1>2. ASSUME NEW r \in Requests, DetectBlank(r) \/ AnswerFallback(r) PROVE Usable'
  <2>1. fallback \in supported
    BY <1>2 DEF DetectBlank, AnswerFallback, Served, ConfigValid
  <2>2. Fallback("none").language = fallback /\ Fallback("number").language = fallback
    BY DEF Fallback
  <2>3. CASE DetectBlank(r)
    BY <2>1, <2>2, <2>3 DEF DetectBlank
  <2>4. CASE AnswerFallback(r)
    BY <2>1, <2>2, <2>4 DEF AnswerFallback
  <2> QED
    BY <1>2, <2>3, <2>4
<1>3. ASSUME NEW r \in Requests, Resume(r) PROVE Usable'
  <2>1. fallback \in supported
    BY <1>3 DEF Resume, Served, ConfigValid
  <2>2. Fallback("number").language = fallback
    BY DEF Fallback
  <2> QED
    BY <1>3, <2>1, <2>2 DEF Resume
<1>4. ASSUME NEW r \in Requests,
             Submit(r) \/ Withdraw(r) \/ DeliverResult(r) \/ TimerFires(r) \/ ForwardCancel(r)
      PROVE  Usable'
  BY <1>4 DEF Submit, Withdraw, DeliverResult, TimerFires, ForwardCancel
<1>5. CASE TakeJob
  BY <1>5, HeadOfQueue DEF TakeJob
<1>6. ASSUME NEW r \in Requests, BuildDetector(r) PROVE Usable'
  BY <1>6 DEF BuildDetector
<1>7. ASSUME NEW r \in Requests, DetectNone(r) PROVE Usable'
  <2>1. call[r] \notin Over => fallback \in supported
    BY <1>7 DEF DetectNone, Served, ConfigValid
  <2>2. Fallback("number") \in Detection /\ Fallback("number").language = fallback
    BY FallbackIsDetection DEF Confidence
  <2> QED
    BY <1>7, <2>1, <2>2 DEF DetectNone, End, Found
<1>8. ASSUME NEW r \in Requests, DetectLanguage(r) PROVE Usable'
  <2>1. call[r] \notin Over => Detectable = supported
    BY <1>8, DetectsSupported DEF DetectLanguage, Served
  <2>2. \A l \in supported : /\ [ language |-> l, confidence |-> "unset" ] \in Unrated
                            /\ [ language |-> l, confidence |-> "unset" ].language = l
    BY DEF Unrated
  <2> QED
    BY <1>8, <2>1, <2>2 DEF DetectLanguage, Found
<1>9. ASSUME NEW r \in Requests, RateLanguage(r) PROVE Usable'
  <2>1. call[r] \notin Over =>
          \A c \in Confidence : /\ [ outcome[r] EXCEPT !.confidence = c ] \in Detection
                                /\ [ outcome[r] EXCEPT !.confidence = c ].language \in supported
    BY <1>9 DEF RateLanguage, Unrated, Detection
  <2> QED
    BY <1>9, <2>1 DEF RateLanguage, End, Found
<1>10. CASE UNCHANGED vars
  BY <1>10 DEF vars
<1> QED
  BY <1>1, <1>2, <1>3, <1>4, <1>5, <1>6, <1>7, <1>8, <1>9, <1>10
     DEF Next, LoopStep, ThreadStep, Detecting, Quiet

LEMMA StepQueueOK == LanguageInv /\ [Next]_vars => QueueOK'
<1> SUFFICES ASSUME LanguageInv, [Next]_vars PROVE QueueOK'
  OBVIOUS
<1> USE DEF LanguageInv, StateOK, QueueOK, config
<1>1. CASE Startup \/ UNCHANGED vars
  BY <1>1 DEF Startup, vars
<1>2. ASSUME NEW r \in Requests, Submit(r) PROVE QueueOK'
  <2>1. \A i \in DOMAIN queue : queue[i] # r
    BY <1>2 DEF Submit, Paired
  <2>2. /\ queue' \in Seq(Requests)
        /\ DOMAIN queue' = 1 .. (Len(queue) + 1) /\ DOMAIN queue = 1 .. Len(queue)
        /\ \A i \in 1 .. Len(queue) : queue'[i] = queue[i]
        /\ queue'[Len(queue) + 1] = r /\ Len(queue) \in Nat
    BY <1>2 DEF Submit
  <2>3. job'[r] = "queued" /\ \A q \in Requests : q # r => job'[q] = job[q]
    BY <1>2 DEF Submit
  <2>4. \A i \in 1 .. Len(queue) : queue[i] \in Requests /\ queue[i] # r
    BY <2>1, <2>2
  <2>5. \A i, j \in DOMAIN queue' : queue'[i] = queue'[j] => i = j
    BY <2>2, <2>4
  <2>6. \A i \in DOMAIN queue' : job'[queue'[i]] \in { "queued", "cancelled" }
    BY <2>2, <2>3, <2>4
  <2> QED
    BY <2>2, <2>5, <2>6
<1>3. ASSUME NEW r \in Requests, DetectBlank(r) \/ Withdraw(r) \/ LoopStep(r) PROVE QueueOK'
  BY <1>3 DEF DetectBlank, Withdraw, LoopStep, DeliverResult, Resume, TimerFires, ForwardCancel,
       AnswerFallback
<1>4. CASE TakeJob
  <2>1. job' = [ job EXCEPT ![Head(queue)] =
                   IF @ = "cancelled" THEN "cancelled"
                   ELSE IF detectors > 0 THEN "detecting" ELSE "building" ]
        /\ queue' = Tail(queue) /\ queue # << >>
    BY <1>4 DEF TakeJob
  <2>2. \A q \in Requests : q # Head(queue) => job'[q] = job[q]
    BY <2>1
  <2>3. \A i \in DOMAIN queue : queue[i] \in Requests
    OBVIOUS
  <2>4. Len(queue) \in Nat /\ DOMAIN queue = 1 .. Len(queue)
    OBVIOUS
  <2> HIDE DEF QueueOK
  <2>5. QueueOK
    OBVIOUS
  <2>6. \A i, j \in DOMAIN queue' : queue'[i] = queue'[j] => i = j
    BY <2>1, <2>4, <2>5, HeadOfQueue DEF QueueOK
  <2>7. \A i \in DOMAIN queue' : job'[queue'[i]] \in { "queued", "cancelled" }
    BY <2>1, <2>2, <2>3, <2>4, <2>5, HeadOfQueue DEF QueueOK
  <2> QED
    BY <2>1, <2>5, <2>6, <2>7, HeadOfQueue DEF QueueOK
<1>5. ASSUME NEW r \in Requests, Detecting(r) PROVE QueueOK'
  BY <1>5 DEF Detecting, BuildDetector, DetectNone, DetectLanguage, RateLanguage, Found, End
<1> QED
  BY <1>1, <1>2, <1>3, <1>4, <1>5 DEF Next, ThreadStep, Quiet

LEMMA LanguageInvariance == Spec => []LanguageInv
<1>1. LanguageInv /\ [Next]_vars => LanguageInv'
  BY StepStateOK, StepServed, StepPaired, StepUsable, StepQueueOK DEF LanguageInv
<1> QED
  BY <1>1, InitLanguageInv, PTL DEF Spec

-----------------------------------------------------------------------------
(* The detectors: a thread that builds one came before the first was built.  *)

Building == { r \in Requests : job[r] = "building" }

DetectorInv == detectors \in Nat /\ detectors + Cardinality(Building) <= Workers

LEMMA RequestSets ==
  ASSUME NEW S \in SUBSET Requests
  PROVE  IsFiniteSet(S) /\ Cardinality(S) \in Nat
BY RequestAssumption, FS_Subset, FS_CardinalityType

LEMMA StepDetectorInv == LanguageInv /\ DetectorInv /\ [Next]_vars => DetectorInv'
<1> SUFFICES ASSUME LanguageInv, DetectorInv, [Next]_vars PROVE DetectorInv'
  OBVIOUS
<1>1. IsFiniteSet(Building) /\ Cardinality(Building) \in Nat
  BY RequestSets DEF Building
<1>2. ASSUME Building' = Building, detectors' = detectors PROVE DetectorInv'
  BY <1>2 DEF DetectorInv
<1>3. CASE Startup \/ UNCHANGED vars
  BY <1>2, <1>3 DEF Startup, vars, Building
<1>4. ASSUME NEW r \in Requests, DetectBlank(r) \/ Submit(r) \/ Withdraw(r) \/ LoopStep(r)
      PROVE  DetectorInv'
  <2>1. job[r] # "building" \/ job' = job
    BY <1>4 DEF LanguageInv, StateOK, Paired, DetectBlank, Submit, Withdraw, LoopStep, DeliverResult, Resume,
         TimerFires, ForwardCancel, AnswerFallback
  <2>2. Building' = Building /\ detectors' = detectors
    BY <1>4, <2>1 DEF Building, LanguageInv, StateOK, DetectBlank, Submit, Withdraw, LoopStep, DeliverResult,
         Resume, TimerFires, ForwardCancel, AnswerFallback
  <2> QED
    BY <1>2, <2>2
<1>5. CASE TakeJob
  <2>1. Head(queue) \in Requests /\ job[Head(queue)] # "building"
    BY <1>5, HeadOfQueue DEF TakeJob, LanguageInv
  <2>2. detectors' = detectors /\ job \in [ Requests ->
         { "none", "queued", "building", "detecting", "rating", "ended", "cancelled" } ]
    BY <1>5 DEF TakeJob, LanguageInv, StateOK
  <2>3. CASE job'[Head(queue)] # "building"
    <3>1. Building' = Building
      BY <1>5, <2>1, <2>2, <2>3 DEF TakeJob, Building
    <3> QED
      BY <1>2, <2>2, <3>1
  <2>4. CASE job'[Head(queue)] = "building"
    <3>1. Building' = Building \cup { Head(queue) } /\ Head(queue) \notin Building
      BY <1>5, <2>1, <2>2, <2>4 DEF TakeJob, Building
    <3>2. Cardinality(Building') = Cardinality(Building) + 1
      BY <1>1, <3>1, FS_AddElement
    <3>3. detectors = 0
      BY <1>5, <2>1, <2>2, <2>4 DEF TakeJob, DetectorInv
    <3>4. Cardinality(Building) <= Cardinality(Busy)
      <4>1. Building \subseteq Busy
        BY DEF Building, Busy
      <4>2. IsFiniteSet(Busy)
        BY RequestSets DEF Busy
      <4> QED
        BY <4>1, <4>2, FS_Subset
    <3>5. Cardinality(Busy) \in Nat /\ Cardinality(Busy) < Workers
      BY <1>5, RequestSets DEF TakeJob, Busy
    <3> QED
      BY <1>1, <2>2, <3>2, <3>3, <3>4, <3>5, WorkerAssumption DEF DetectorInv
  <2> QED
    BY <2>3, <2>4
<1>6. ASSUME NEW r \in Requests, BuildDetector(r) PROVE DetectorInv'
  <2>1. Building' = Building \ { r } /\ r \in Building
    BY <1>6 DEF BuildDetector, Building, LanguageInv, StateOK
  <2>2. Cardinality(Building') = Cardinality(Building) - 1
    BY <1>1, <2>1, FS_RemoveElement
  <2>3. detectors' = detectors + 1
    BY <1>6 DEF BuildDetector
  <2> QED
    BY <1>1, <2>2, <2>3, WorkerAssumption DEF DetectorInv
<1>7. ASSUME NEW r \in Requests, DetectNone(r) \/ DetectLanguage(r) \/ RateLanguage(r) PROVE DetectorInv'
  <2>1. Building' = Building /\ detectors' = detectors
    BY <1>7 DEF Building, LanguageInv, StateOK, DetectNone, DetectLanguage, RateLanguage, Found, End
  <2> QED
    BY <1>2, <2>1
<1> QED
  BY <1>3, <1>4, <1>5, <1>6, <1>7 DEF Next, ThreadStep, Detecting, Quiet

LEMMA DetectorInvariance == Spec => []DetectorInv
<1>1. Init => DetectorInv
  <2> SUFFICES ASSUME Init PROVE DetectorInv
    OBVIOUS
  <2>1. Building = {}
    BY DEF Init, Building
  <2>2. Cardinality(Building) = 0
    BY <2>1, FS_EmptySet
  <2> QED
    BY <2>2, WorkerAssumption DEF Init, DetectorInv
<1> QED
  BY <1>1, StepDetectorInv, LanguageInvariance, PTL DEF Spec

-----------------------------------------------------------------------------
\* The variables keep their types; the executor's queue holds no call twice.
THEOREM LanguageTypes == Spec => []TypeOK
<1>1. LanguageInv /\ DetectorInv => TypeOK
  BY DEF LanguageInv, DetectorInv, StateOK, QueueOK, TypeOK
<1> QED
  BY <1>1, LanguageInvariance, DetectorInvariance, PTL

\* Every call of detect_language that returns does so with a supported language,
\* whatever the settings, the thread and the timer did.
THEOREM UsableAnswers == Spec => []AnswerUsable
<1>1. LanguageInv => AnswerUsable
  BY DEF LanguageInv, Usable, AnswerUsable
<1> QED
  BY <1>1, LanguageInvariance, PTL

\* lru_cache without a lock builds the detector once per thread at most.
THEOREM DetectorBound == Spec => []DetectorsBounded
<1>1. DetectorInv => DetectorsBounded
  <2> SUFFICES ASSUME DetectorInv PROVE DetectorsBounded
    OBVIOUS
  <2>1. Cardinality(Building) \in Nat
    BY RequestSets DEF Building
  <2> QED
    BY <2>1, WorkerAssumption DEF DetectorInv, DetectorsBounded
<1> QED
  BY <1>1, DetectorInvariance, PTL

\* A thread that takes a job takes it for a call that is not over: the cancellation
\* of the call cancels the job in the same step of the loop.
THEOREM NoLateWork == Spec => NoWorkForTheAnswered
<1>1. LanguageInv /\ [Next]_vars =>
        [\A r \in Requests :
           job[r] = "queued" /\ job'[r] \in { "building", "detecting" } =>
             call[r] \notin { "interrupted", "answered", "withdrawn" }]_vars
  BY DEF LanguageInv, Paired
<1> QED
  BY <1>1, LanguageInvariance, PTL DEF Spec, NoWorkForTheAnswered
=============================================================================
