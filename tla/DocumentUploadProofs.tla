------------------------ MODULE DocumentUploadProofs ------------------------
(***************************************************************************)
(* Proofs about DocumentUpload, for any number of uploads, slots, chunks.  *)
(*                                                                         *)
(* TypeOK is not inductive alone: that a release keeps the semaphore's     *)
(* value below MaxUploads follows from the account of its slots.           *)
(***************************************************************************)
EXTENDS DocumentUpload, FiniteSetTheorems, TLAPS

\* The steps of one upload: Next is a step of some upload.
StepOf(u) ==
  \/ RejectBusy(u)
  \/ RejectDocument(u)
  \/ AnswerEmpty(u)
  \/ StartDetection(u)
  \/ StartAnalysis(u)
  \/ LanguageDetected(u)
  \/ RejectTerms(u)
  \/ \E c \in Chunks : BeginCall(u, c)
  \/ \E c \in Chunks : EndCall(u, c)
  \/ GatherSettles(u)
  \/ TimerFires(u)
  \/ AnswerExpired(u)
  \/ AnswerFailure(u)
  \/ AnswerResult(u)

LEMMA HoldersFinite == IsFiniteSet(Holders) /\ Cardinality(Holders) \in Nat
<1>1. Holders \subseteq Uploads
  BY DEF Holders
<1>2. QED
  BY <1>1, UploadAssumption, FS_Subset, FS_CardinalityType

\* A request that leaves the set of holders and returns its slot keeps the account.
LEMMA Release ==
  ASSUME NEW u \in Uploads, u \in Holders, Holders' = Holders \ {u},
         free' = free + 1, SlotsAccounted, free \in 0 .. MaxUploads
  PROVE  SlotsAccounted' /\ free' \in 0 .. MaxUploads
<1>1. /\ Cardinality(Holders') = Cardinality(Holders) - 1
      /\ Cardinality(Holders') \in Nat
  BY HoldersFinite, FS_RemoveElement, FS_CardinalityType
<1>2. QED
  BY <1>1, HoldersFinite, LimitAssumption DEF SlotsAccounted

\* A request that joins them and takes a free slot keeps it too.
LEMMA Acquire ==
  ASSUME NEW u \in Uploads, u \notin Holders, Holders' = Holders \cup {u},
         free > 0, free' = free - 1, SlotsAccounted, free \in 0 .. MaxUploads
  PROVE  SlotsAccounted' /\ free' \in 0 .. MaxUploads
<1>1. Cardinality(Holders') = Cardinality(Holders) + 1
  BY HoldersFinite, FS_AddElement
<1>2. QED
  BY <1>1, HoldersFinite, LimitAssumption DEF SlotsAccounted

LEMMA AnsweredType ==
  ASSUME TypeOK, NEW u \in Uploads, NEW a \in Answers, NEW n \in Nat, Answered(u, a, n)
  PROVE  /\ stage' \in [ Uploads -> Stages ]
         /\ answer' \in [ Uploads -> Answers ]
         /\ audited' \in [ Uploads -> Nat ]
         /\ Holders' = Holders \ {u}
BY DEF TypeOK, Answered, Stages, Holders

LEMMA AnswerTypes ==
  ASSUME NEW u \in Uploads
  PROVE  /\ NoAnswer \in Answers
         /\ Delivery(u) \subseteq Answers
         /\ Busy(u) \in Answers
         /\ \A s \in { 400, 413, 422, 504 } : Refusal(u, s) \in Answers
         /\ \A cause \in Causes : Failure(u, cause) \in Answers
BY DEF NoAnswer, Delivery, Result, Unsent, Busy, Refusal, Failure, ApiStatus, WebStatus, Answers, Statuses

\* Type correctness and the account of the upload slots hold together.
THEOREM SlotSafety == SafeSpec => [](TypeOK /\ SlotsAccounted)
<1>1. Init => TypeOK /\ SlotsAccounted
  <2> SUFFICES ASSUME Init PROVE TypeOK /\ SlotsAccounted
    OBVIOUS
  <2>1. TypeOK
    BY LimitAssumption, UploadAssumption
    DEF Init, TypeOK, Stages, ChunkStates, Expiries, NoAnswer, Answers, Statuses
  <2>2. Holders = {}
    BY DEF Init, Holders
  <2>3. QED
    BY <2>1, <2>2, FS_EmptySet, LimitAssumption DEF Init, SlotsAccounted
<1>2. TypeOK /\ SlotsAccounted /\ [Next \/ Idle]_vars => (TypeOK /\ SlotsAccounted)'
  <2> SUFFICES ASSUME TypeOK, SlotsAccounted, [Next \/ Idle]_vars
               PROVE  TypeOK' /\ SlotsAccounted'
    OBVIOUS
  <2>0. CASE UNCHANGED vars
    BY <2>0 DEF vars, TypeOK, SlotsAccounted, Holders
  <2> SUFFICES ASSUME NEW u \in Uploads, StepOf(u)
               PROVE  TypeOK' /\ SlotsAccounted'
    BY <2>0 DEF Next, Idle, StepOf
  <2>1. CASE RejectBusy(u) \/ RejectDocument(u) \/ AnswerEmpty(u)
    <3>1. PICK a \in Answers, n \in Nat :
            Answered(u, a, n) /\ stage[u] = "reading" /\ UNCHANGED << free, chunk, outer, expiry >>
      BY <2>1, AnswerTypes DEF RejectBusy, RejectDocument, AnswerEmpty, Reply, Deliver
    <3>2. Holders' = Holders
      BY <3>1, AnsweredType DEF Holders
    <3>3. QED
      BY <3>1, <3>2, AnsweredType DEF TypeOK, SlotsAccounted
  <2>2. CASE StartDetection(u)
    <3>1. Holders' = Holders \cup {u} /\ u \notin Holders
      BY <2>2 DEF StartDetection, Holders, TypeOK
    <3>2. SlotsAccounted' /\ free' \in 0 .. MaxUploads
      BY <2>2, <3>1, Acquire DEF StartDetection, TypeOK
    <3>3. QED
      BY <2>2, <3>2 DEF StartDetection, TypeOK, Stages
  <2>3. CASE StartAnalysis(u)
    <3>1. Holders' = Holders \cup {u} /\ u \notin Holders
      BY <2>3 DEF StartAnalysis, StartTasks, Holders, TypeOK
    <3>2. SlotsAccounted' /\ free' \in 0 .. MaxUploads
      BY <2>3, <3>1, Acquire DEF StartAnalysis, TypeOK
    <3>3. stage' \in [ Uploads -> Stages ] /\ chunk' \in [ Uploads -> [ Chunks -> ChunkStates ] ]
      BY <2>3 DEF StartAnalysis, StartTasks, TypeOK, Stages, ChunkStates
    <3>4. QED
      BY <2>3, <3>2, <3>3 DEF StartAnalysis, TypeOK
  <2>4. CASE LanguageDetected(u)
    <3>1. Holders' = Holders
      BY <2>4 DEF LanguageDetected, StartTasks, Holders, TypeOK
    <3>2. stage' \in [ Uploads -> Stages ] /\ chunk' \in [ Uploads -> [ Chunks -> ChunkStates ] ]
      BY <2>4 DEF LanguageDetected, StartTasks, TypeOK, Stages, ChunkStates
    <3>3. QED
      BY <2>4, <3>1, <3>2 DEF LanguageDetected, TypeOK, SlotsAccounted
  <2>5. CASE RejectTerms(u) \/ AnswerExpired(u) \/ AnswerFailure(u) \/ AnswerResult(u)
    <3>1. PICK a \in Answers, n \in Nat :
            /\ Answered(u, a, n) /\ u \in Holders /\ free' = free + 1
            /\ UNCHANGED << chunk, outer, expiry >>
      BY <2>5, AnswerTypes
      DEF RejectTerms, AnswerExpired, AnswerFailure, AnswerResult, Resumes, Holders, Reply, Deliver
    <3>2. SlotsAccounted' /\ free' \in 0 .. MaxUploads
      BY <3>1, AnsweredType, Release DEF TypeOK
    <3>3. QED
      BY <3>1, <3>2, AnsweredType DEF TypeOK
  <2>6. CASE \E c \in Chunks : BeginCall(u, c)
    BY <2>6 DEF BeginCall, TypeOK, SlotsAccounted, Holders, ChunkStates
  <2>7. CASE \E c \in Chunks : EndCall(u, c)
    BY <2>7 DEF EndCall, TypeOK, SlotsAccounted, Holders, ChunkStates
  <2>8. CASE GatherSettles(u)
    BY <2>8 DEF GatherSettles, Tasks, TypeOK, SlotsAccounted, Holders
  <2>9. CASE TimerFires(u)
    <3>1. chunk' \in [ Uploads -> [ Chunks -> ChunkStates ] ] /\ expiry' \in [ Uploads -> Expiries ]
      <4>1. CASE stage[u] = "analyzing" /\ outer[u] = "pending" /\ Live(u) # {}
        <5>1. [ c \in Chunks |-> IF c \in Live(u) THEN "cancelled" ELSE chunk[u][c] ]
                \in [ Chunks -> ChunkStates ]
          BY DEF TypeOK, ChunkStates
        <5>2. QED
          BY <2>9, <4>1, <5>1 DEF TimerFires, TypeOK, Expiries
      <4>2. CASE ~ (stage[u] = "analyzing" /\ outer[u] = "pending" /\ Live(u) # {})
        BY <2>9, <4>2 DEF TimerFires, TypeOK, Expiries
      <4>3. QED
        BY <4>1, <4>2
    <3>2. QED
      BY <2>9, <3>1 DEF TimerFires, TypeOK, SlotsAccounted, Holders
  <2>10. QED
    BY <2>1, <2>2, <2>3, <2>4, <2>5, <2>6, <2>7, <2>8, <2>9 DEF StepOf
<1>3. QED
  BY <1>1, <1>2, PTL DEF SafeSpec

\* Every variable keeps its type: the slots stay between 0 and their number, whoever
\* answers and in whatever order.
THEOREM UploadTypes == SafeSpec => []TypeOK
BY SlotSafety, PTL

-----------------------------------------------------------------------------
\* A step of one upload leaves the others alone.
Untouched(v) ==
  /\ stage'[v] = stage[v] /\ chunk'[v] = chunk[v] /\ outer'[v] = outer[v]
  /\ expiry'[v] = expiry[v] /\ answer'[v] = answer[v] /\ audited'[v] = audited[v]

LEMMA OthersUntouched ==
  ASSUME TypeOK, NEW u \in Uploads, StepOf(u), NEW v \in Uploads, v # u
  PROVE  Untouched(v)
<1>1. CASE RejectBusy(u) \/ RejectDocument(u) \/ AnswerEmpty(u) \/ RejectTerms(u)
           \/ AnswerExpired(u) \/ AnswerFailure(u) \/ AnswerResult(u)
  BY <1>1 DEF RejectBusy, RejectDocument, AnswerEmpty, RejectTerms, AnswerExpired,
              AnswerFailure, AnswerResult, Reply, Deliver, Answered, Untouched, TypeOK
<1>2. CASE StartDetection(u) \/ StartAnalysis(u) \/ LanguageDetected(u)
  BY <1>2 DEF StartDetection, StartAnalysis, LanguageDetected, StartTasks, Untouched, TypeOK
<1>3. CASE (\E c \in Chunks : BeginCall(u, c)) \/ (\E c \in Chunks : EndCall(u, c))
  BY <1>3 DEF BeginCall, EndCall, Untouched, TypeOK
<1>4. CASE GatherSettles(u) \/ TimerFires(u)
  <2>1. CASE GatherSettles(u)
    BY <2>1 DEF GatherSettles, Untouched, TypeOK
  <2>2. CASE TimerFires(u)
    BY <2>2 DEF TimerFires, Untouched, TypeOK
  <2>3. QED
    BY <1>4, <2>1, <2>2
<1>5. QED
  BY <1>1, <1>2, <1>3, <1>4 DEF StepOf

\* The step of an upload keeps its tasks consistent with its gather and timeout.
LEMMA TaskStep ==
  ASSUME TypeOK, TypeOK', NEW u \in Uploads, StepOf(u), TasksConsistent(u)
  PROVE  TasksConsistent(u)'
<1> USE CauseAssumption
<1>1. CASE RejectBusy(u) \/ RejectDocument(u) \/ AnswerEmpty(u) \/ RejectTerms(u)
           \/ AnswerExpired(u) \/ AnswerFailure(u) \/ AnswerResult(u)
  <2>1. /\ stage'[u] = "answered"
        /\ UNCHANGED << chunk, outer, expiry >>
    BY <1>1 DEF RejectBusy, RejectDocument, AnswerEmpty, RejectTerms, AnswerExpired,
                AnswerFailure, AnswerResult, Reply, Deliver, Answered, TypeOK
  <2>2. QED
    BY <2>1 DEF TasksConsistent, Tasks, Live
<1>2. CASE StartDetection(u)
  BY <1>2 DEF StartDetection, TypeOK, TasksConsistent, Tasks, Live
<1>3. CASE StartAnalysis(u) \/ LanguageDetected(u)
  <2>1. /\ stage[u] \in { "reading", "language" }
        /\ stage'[u] = "analyzing"
        /\ expiry[u] = "none"
        /\ \A c \in Chunks : chunk'[u][c] \in { "queued", "absent" }
        /\ UNCHANGED << outer, expiry, answer >>
    BY <1>3 DEF StartAnalysis, LanguageDetected, StartTasks, TypeOK, TasksConsistent
  <2>2. QED
    BY <2>1 DEF TasksConsistent, Tasks, Live
<1>4. ASSUME NEW c \in Chunks, BeginCall(u, c)
      PROVE  TasksConsistent(u)'
  <2>1. /\ chunk[u][c] = "queued" /\ chunk'[u][c] = "calling"
        /\ \A d \in Chunks \ {c} : chunk'[u][d] = chunk[u][d]
        /\ UNCHANGED << stage, outer, expiry, answer >>
    BY <1>4 DEF BeginCall, TypeOK
  <2>2. QED
    BY <2>1 DEF TasksConsistent, Tasks, Live
<1>5. ASSUME NEW c \in Chunks, EndCall(u, c)
      PROVE  TasksConsistent(u)'
  <2>1. /\ chunk[u][c] = "calling" /\ chunk'[u][c] \in { "returned" } \cup Causes
        /\ \A d \in Chunks \ {c} : chunk'[u][d] = chunk[u][d]
        /\ UNCHANGED << stage, outer, expiry, answer >>
    BY <1>5 DEF EndCall, TypeOK
  <2>2. QED
    BY <2>1 DEF TasksConsistent, Tasks, Live
<1>6. CASE GatherSettles(u)
  <2>1. stage[u] = "analyzing" /\ UNCHANGED << stage, chunk, expiry, answer >>
    BY <1>6 DEF GatherSettles
  <2>2. \/ \E c \in Tasks(u) : /\ chunk[u][c] \in Causes \cup { "cancelled" }
                               /\ outer'[u] = chunk[u][c]
        \/ /\ \A c \in Tasks(u) : chunk[u][c] = "returned"
           /\ outer'[u] = "returned"
    BY <1>6 DEF GatherSettles, TypeOK
  <2>3. QED
    BY <2>1, <2>2 DEF TasksConsistent, Tasks, Live
<1>7. CASE TimerFires(u)
  <2>1. CASE stage[u] = "analyzing" /\ outer[u] = "pending" /\ Live(u) # {}
    <3>1. /\ expiry'[u] = "passed"
          /\ \A c \in Chunks : chunk'[u][c] = IF c \in Live(u) THEN "cancelled" ELSE chunk[u][c]
          /\ UNCHANGED << stage, outer, answer >>
      BY <1>7, <2>1 DEF TimerFires, TypeOK
    <3>2. QED
      BY <2>1, <3>1 DEF TasksConsistent, Tasks, Live
  <2>2. CASE ~ (stage[u] = "analyzing" /\ outer[u] = "pending" /\ Live(u) # {})
    <3>1. /\ expiry[u] = "none" /\ expiry'[u] = "pending"
          /\ stage[u] # "reading"
          /\ UNCHANGED << stage, outer, chunk, answer >>
      BY <1>7, <2>2 DEF TimerFires, TypeOK
    <3>2. QED
      BY <3>1 DEF TasksConsistent, Tasks, Live
  <2>3. QED
    BY <2>1, <2>2
<1>8. QED
  BY <1>1, <1>2, <1>3, <1>4, <1>5, <1>6, <1>7 DEF StepOf

THEOREM TaskSafety == SafeSpec => []TaskInvariant
<1>1. Init => TaskInvariant
  BY CauseAssumption DEF Init, TaskInvariant, TasksConsistent, Tasks, Live, NoAnswer
<1>2. TypeOK /\ TypeOK' /\ TaskInvariant /\ [Next \/ Idle]_vars => TaskInvariant'
  <2> SUFFICES ASSUME TypeOK, TypeOK', TaskInvariant, [Next \/ Idle]_vars
               PROVE  TaskInvariant'
    OBVIOUS
  <2>1. CASE UNCHANGED vars
    BY <2>1 DEF vars, TaskInvariant, TasksConsistent, Tasks, Live
  <2>2. ASSUME NEW u \in Uploads, StepOf(u), NEW v \in Uploads
        PROVE  TasksConsistent(v)'
    <3>1. CASE v = u
      BY <2>2, <3>1, TaskStep DEF TaskInvariant
    <3>2. CASE v # u
      <4>1. Untouched(v)
        BY <2>2, <3>2, OthersUntouched
      <4>2. QED
        BY <4>1 DEF Untouched, TaskInvariant, TasksConsistent, Tasks, Live
    <3>3. QED
      BY <3>1, <3>2
  <2>3. QED
    BY <2>1, <2>2 DEF Next, Idle, StepOf, TaskInvariant
<1>3. QED
  BY <1>1, <1>2, SlotSafety, PTL DEF SafeSpec

-----------------------------------------------------------------------------
(* The invariants the runs check follow from the two above, or step by step. *)

LEMMA ChunksFinite ==
  ASSUME NEW S, S \subseteq Chunks
  PROVE  IsFiniteSet(S) /\ Cardinality(S) \in Nat
<1>1. IsFiniteSet(Chunks)
  BY ChunkAssumption, FS_Interval DEF Chunks
<1>2. QED
  BY <1>1, FS_Subset, FS_CardinalityType

\* The semaphore of a document bounds its calls, its own answer given or not.
CallsBounded == \A u \in Uploads : Cardinality(Calling(u)) <= ChunkLimit

LEMMA ChunkConcurrency == SafeSpec => []CallsBounded
<1>1. Init => CallsBounded
  <2> SUFFICES ASSUME Init, NEW u \in Uploads PROVE Cardinality(Calling(u)) <= ChunkLimit
    BY DEF CallsBounded
  <2>1. Calling(u) = {}
    BY DEF Init, Calling
  <2>2. QED
    BY <2>1, FS_EmptySet, LimitAssumption
<1>2. TypeOK /\ TaskInvariant /\ CallsBounded /\ [Next \/ Idle]_vars => CallsBounded'
  <2> SUFFICES ASSUME TypeOK, TaskInvariant, CallsBounded, [Next \/ Idle]_vars
               PROVE  CallsBounded'
    OBVIOUS
  <2>1. CASE UNCHANGED vars
    BY <2>1 DEF vars, CallsBounded, Calling
  <2>2. ASSUME NEW u \in Uploads, StepOf(u), NEW v \in Uploads
        PROVE  Cardinality(Calling(v)') <= ChunkLimit
    <3> DEFINE Fewer == Calling(v)' \subseteq Calling(v)
    <3>1. CASE Fewer
      <4>1. Calling(v) \subseteq Chunks
        BY DEF Calling
      <4>2. Cardinality(Calling(v)') <= Cardinality(Calling(v)) /\ Cardinality(Calling(v)') \in Nat
        BY <3>1, <4>1, ChunksFinite, FS_Subset, FS_CardinalityType
      <4>3. QED
        BY <4>1, <4>2, ChunksFinite, LimitAssumption DEF CallsBounded
    <3>2. CASE v # u
      BY <2>2, <3>1, <3>2, OthersUntouched DEF Untouched, Calling
    <3>3. ASSUME v = u, NEW c \in Chunks, BeginCall(u, c)
          PROVE  Cardinality(Calling(v)') <= ChunkLimit
      <4>1. /\ Calling(v)' = Calling(v) \cup {c}
            /\ c \notin Calling(v)
            /\ Calling(v) \subseteq Chunks
        BY <3>3 DEF BeginCall, Calling, TypeOK
      <4>2. Cardinality(Calling(v)') = Cardinality(Calling(v)) + 1
        <5>1. IsFiniteSet(Calling(v))
          BY <4>1, ChunksFinite
        <5>2. QED
          BY <4>1, <5>1, FS_AddElement
      <4>3. Cardinality(Calling(v)) < ChunkLimit
        BY <3>3 DEF BeginCall
      <4>4. Cardinality(Calling(v)') \in Nat /\ Cardinality(Calling(v)) \in Nat
        BY <4>1, ChunksFinite
      <4>5. QED
        BY <4>2, <4>3, <4>4, LimitAssumption
    <3>4. CASE v = u /\ ~ \E c \in Chunks : BeginCall(u, c)
      <4>1. CASE StartAnalysis(u) \/ LanguageDetected(u)
        BY <3>1, <3>4, <4>1 DEF StartAnalysis, LanguageDetected, StartTasks, Calling, TypeOK
      <4>2. CASE \E c \in Chunks : EndCall(u, c)
        BY <3>1, <3>4, <4>2, CauseAssumption DEF EndCall, Calling, TypeOK
      <4>3. CASE TimerFires(u)
        <5>1. \A c \in Chunks : chunk'[u][c] \in { chunk[u][c], "cancelled" }
          <6>1. CASE stage[u] = "analyzing" /\ outer[u] = "pending" /\ Live(u) # {}
            BY <4>3, <6>1 DEF TimerFires, TypeOK
          <6>2. CASE ~ (stage[u] = "analyzing" /\ outer[u] = "pending" /\ Live(u) # {})
            BY <4>3, <6>2 DEF TimerFires
          <6>3. QED
            BY <6>1, <6>2
        <5>2. QED
          BY <3>1, <3>4, <5>1 DEF Calling
      <4>4. CASE UNCHANGED chunk
        BY <3>1, <4>4 DEF Calling
      <4>5. QED
        BY <2>2, <3>4, <4>1, <4>2, <4>3, <4>4
        DEF StepOf, RejectBusy, RejectDocument, AnswerEmpty, RejectTerms, StartDetection,
            GatherSettles, AnswerExpired, AnswerFailure, AnswerResult
    <3>5. QED
      BY <3>2, <3>3, <3>4
  <2>3. QED
    BY <2>1, <2>2 DEF Next, Idle, StepOf, CallsBounded
<1>3. QED
  BY <1>1, <1>2, SlotSafety, TaskSafety, PTL DEF SafeSpec

-----------------------------------------------------------------------------
\* What a step does to a document that is already answered, and how an answer
\* comes about: the two facts the remaining invariants rest on.
LEMMA AnsweredStep ==
  ASSUME TypeOK, NEW u \in Uploads, StepOf(u), stage[u] = "answered"
  PROVE  /\ UNCHANGED << stage, outer, expiry, answer, audited >>
         /\ \A c \in Chunks :
              \/ chunk'[u][c] = chunk[u][c]
              \/ chunk[u][c] = "queued" /\ chunk'[u][c] = "calling"
              \/ chunk[u][c] = "calling" /\ chunk'[u][c] \in { "returned" } \cup Causes
<1>1. \/ \E c \in Chunks : BeginCall(u, c)
      \/ \E c \in Chunks : EndCall(u, c)
  BY DEF StepOf, RejectBusy, RejectDocument, AnswerEmpty, StartDetection, StartAnalysis,
         LanguageDetected, RejectTerms, GatherSettles, TimerFires, AnswerExpired,
         AnswerFailure, AnswerResult, Resumes
<1>2. CASE \E c \in Chunks : BeginCall(u, c)
  BY <1>2 DEF BeginCall, TypeOK
<1>3. CASE \E c \in Chunks : EndCall(u, c)
  BY <1>3 DEF EndCall, TypeOK
<1>4. QED
  BY <1>1, <1>2, <1>3

\* How a document comes to be answered.
LEMMA AnsweringStep ==
  ASSUME TypeOK, NEW u \in Uploads, TasksConsistent(u), StepOf(u),
         stage[u] # "answered", stage'[u] = "answered"
  PROVE  /\ UNCHANGED << chunk, outer, expiry >>
         /\ \/ Reply(u, Busy(u)) /\ Tasks(u) = {}
            \/ Tasks(u) = {} /\ \E s \in { 400, 413, 422 } : Reply(u, Refusal(u, s))
            \/ Deliver(u) /\ \A c \in Tasks(u) : chunk[u][c] = "returned"
            \/ Reply(u, Refusal(u, 504)) /\ expiry[u] = "pending" /\ Tasks(u) = {}
            \/ Reply(u, Refusal(u, 504)) /\ expiry[u] # "none" /\ outer[u] # "pending"
            \/ outer[u] \in Causes /\ Reply(u, Failure(u, outer[u]))
<1>1. \/ RejectBusy(u) \/ RejectDocument(u) \/ AnswerEmpty(u) \/ RejectTerms(u)
      \/ AnswerExpired(u) \/ AnswerFailure(u) \/ AnswerResult(u)
  BY DEF StepOf, TypeOK, StartDetection, StartAnalysis, LanguageDetected, StartTasks,
         BeginCall, EndCall, GatherSettles, TimerFires
<1>2. CASE RejectBusy(u)
  BY <1>2 DEF RejectBusy, TasksConsistent
<1>3. CASE RejectDocument(u)
  BY <1>3 DEF RejectDocument, TasksConsistent
<1>4. CASE AnswerEmpty(u)
  BY <1>4 DEF AnswerEmpty, TasksConsistent
<1>5. CASE RejectTerms(u)
  BY <1>5 DEF RejectTerms, TasksConsistent
<1>6. CASE AnswerExpired(u)
  BY <1>6 DEF AnswerExpired, Resumes, TasksConsistent
<1>7. CASE AnswerFailure(u)
  BY <1>7 DEF AnswerFailure
<1>8. CASE AnswerResult(u)
  BY <1>8 DEF AnswerResult, TasksConsistent
<1>9. QED
  BY <1>1, <1>2, <1>3, <1>4, <1>5, <1>6, <1>7, <1>8

-----------------------------------------------------------------------------
\* The three invariants about answers, upload by upload.
AnswerSound(u) ==
  /\ stage[u] # "answered" => audited[u] = 0
  /\ answer[u].body = "result" => \A c \in Tasks(u) : chunk[u][c] = "returned"
  /\ audited[u] = (IF answer[u].body = "result" \/ LostResult(u) THEN 1 ELSE 0)

Explained(u) ==
  /\ answer[u].status = 502 => Failed(u, "server_error")
  /\ answer[u].status = 503 => Failed(u, "connect")
  /\ answer[u].status = 504 => Failed(u, "timeout") \/ expiry[u] # "none"
  /\ answer[u].status = 500 =>
       \/ audited[u] = 0 /\ (Failed(u, "client_error") \/ Failed(u, "other"))
       \/ audited[u] = 1 /\ LostResult(u)

Orphaned(u) ==
  stage[u] = "answered" /\ Live(u) # {} => \E c \in Chunks : chunk[u][c] \in Causes

AnswerInvariant(u) ==
  AnswerSound(u) /\ Orphaned(u) /\ (u \in Uploads \ WebUploads => Explained(u))

\* What the answers look like.
LEMMA AnswerShapes ==
  ASSUME NEW u \in Uploads
  PROVE  /\ Busy(u).body = "busy" /\ Busy(u).status \in { 200, 429 }
         /\ Result.body = "result" /\ Result.status = 200
         /\ Unsent.body = "error" /\ Unsent.status = 500
         /\ \A s : Refusal(u, s).body = "error" /\ Refusal(u, s).status \in { 200, s }
         /\ \A cause \in Causes :
              /\ Failure(u, cause).body = "error"
              /\ u \notin WebUploads => Failure(u, cause).status = ApiStatus(cause)
BY DEF Busy, Result, Unsent, Refusal, Failure

\* A chunk that failed keeps a document from having been processed.
LEMMA FailedIsNotLost ==
  ASSUME NEW u \in Uploads, NEW cause \in Causes, Failed(u, cause)
  PROVE  ~ \A c \in Tasks(u) : chunk[u][c] = "returned"
BY CauseAssumption DEF Failed, Tasks

\* Once answered, whether its result was lost does not change any more.
LEMMA LostForGood ==
  ASSUME NEW u \in Uploads, AnswerInvariant(u), UNCHANGED << answer, audited >>,
         \A c \in Chunks :
           \/ chunk'[u][c] = chunk[u][c]
           \/ chunk[u][c] = "queued" /\ chunk'[u][c] = "calling"
           \/ chunk[u][c] = "calling" /\ chunk'[u][c] \in { "returned" } \cup Causes
  PROVE  LostResult(u)' = LostResult(u)
<1>1. LostResult(u) => LostResult(u)'
  BY CauseAssumption DEF LostResult, Tasks
<1>2. ASSUME LostResult(u)', ~ LostResult(u)
      PROVE  FALSE
  <2>1. u \notin WebUploads /\ answer[u].status = 500
    BY <1>2, AnswerShapes DEF LostResult
  <2>2. PICK c \in Chunks : chunk[u][c] \in { "client_error", "other" }
    BY <2>1, <1>2 DEF AnswerInvariant, Explained, Failed
  <2>3. chunk'[u][c] = chunk[u][c]
    BY <2>2
  <2>4. QED
    BY <1>2, <2>2, <2>3 DEF LostResult, Tasks
<1>3. QED
  BY <1>1, <1>2 DEF LostResult

LEMMA AnswerStep ==
  ASSUME TypeOK, TypeOK', NEW u \in Uploads, StepOf(u), TasksConsistent(u), AnswerInvariant(u)
  PROVE  AnswerInvariant(u)'
<1> USE CauseAssumption
<1>1. CASE stage[u] = "answered"
  <2>1. /\ UNCHANGED << stage, outer, expiry, answer, audited >>
        /\ \A c \in Chunks :
             \/ chunk'[u][c] = chunk[u][c]
             \/ chunk[u][c] = "queued" /\ chunk'[u][c] = "calling"
             \/ chunk[u][c] = "calling" /\ chunk'[u][c] \in { "returned" } \cup Causes
    BY <1>1, AnsweredStep
  <2>2. LostResult(u)' = LostResult(u)
    BY <2>1, LostForGood
  <2>3. AnswerSound(u)'
    BY <1>1, <2>1, <2>2 DEF AnswerInvariant, AnswerSound, Tasks
  <2>4. Orphaned(u)'
    BY <1>1, <2>1 DEF AnswerInvariant, Orphaned, Live
  <2>5. Explained(u) => Explained(u)'
    <3>1. ASSUME NEW cause \in { "server_error", "connect", "timeout", "client_error", "other" },
                 Failed(u, cause)
          PROVE  Failed(u, cause)'
      BY <2>1, <3>1 DEF Failed
    <3>2. QED
      BY <2>1, <2>2, <3>1 DEF Explained
  <2>6. QED
    BY <2>3, <2>4, <2>5 DEF AnswerInvariant
<1>2. CASE stage[u] # "answered" /\ stage'[u] # "answered"
  <2>1. audited'[u] = audited[u] /\ answer'[u] = NoAnswer
    BY <1>2 DEF StepOf, TypeOK, RejectBusy, RejectDocument, AnswerEmpty, RejectTerms,
       AnswerExpired, AnswerFailure, AnswerResult, Reply, Deliver, Answered, StartDetection,
       StartAnalysis, LanguageDetected, BeginCall, EndCall, GatherSettles, TimerFires, TasksConsistent
  <2>2. ~ LostResult(u)'
    BY <2>1 DEF LostResult, NoAnswer, Unsent
  <2>3. QED
    BY <1>2, <2>1, <2>2 DEF AnswerInvariant, AnswerSound, Orphaned, Explained, NoAnswer
<1>3. CASE stage[u] # "answered" /\ stage'[u] = "answered"
  <2>0. /\ UNCHANGED << chunk, outer, expiry >>
        /\ \/ Reply(u, Busy(u)) /\ Tasks(u) = {}
           \/ Tasks(u) = {} /\ \E s \in { 400, 413, 422 } : Reply(u, Refusal(u, s))
           \/ Deliver(u) /\ \A c \in Tasks(u) : chunk[u][c] = "returned"
           \/ Reply(u, Refusal(u, 504)) /\ expiry[u] = "pending" /\ Tasks(u) = {}
           \/ Reply(u, Refusal(u, 504)) /\ expiry[u] # "none" /\ outer[u] # "pending"
           \/ outer[u] \in Causes /\ Reply(u, Failure(u, outer[u]))
    BY <1>3, AnsweringStep
  <2>1. audited[u] = 0
    BY <1>3 DEF AnswerInvariant, AnswerSound
  <2>2. ASSUME NEW a, NEW n \in { 0, 1 }, Answered(u, a, n)
        PROVE  answer'[u] = a /\ audited'[u] = n
    BY <2>1, <2>2 DEF Answered, TypeOK
  <2>3. /\ Failed(u, "client_error")' = Failed(u, "client_error")
        /\ Failed(u, "server_error")' = Failed(u, "server_error")
        /\ Failed(u, "connect")' = Failed(u, "connect")
        /\ Failed(u, "timeout")' = Failed(u, "timeout")
        /\ Failed(u, "other")' = Failed(u, "other")
        /\ (\A c \in Tasks(u) : chunk[u][c] = "returned")'
             = (\A c \in Tasks(u) : chunk[u][c] = "returned")
    BY <2>0 DEF Failed, Tasks
  <2>4. CASE Deliver(u) /\ \A c \in Tasks(u) : chunk[u][c] = "returned"
    <3>1. PICK a \in Delivery(u) : Answered(u, a, 1)
      BY <2>4 DEF Deliver
    <3>2. answer'[u] = a /\ audited'[u] = 1
      BY <2>2, <3>1
    <3>3. (\A c \in Tasks(u) : chunk[u][c] = "returned")'
      BY <2>3, <2>4
    <3>4. a = Result \/ (a = Unsent /\ u \notin WebUploads)
      BY <3>1 DEF Delivery
    <3>5. a = Unsent => LostResult(u)'
      BY <3>2, <3>3, <3>4, AnswerShapes DEF LostResult
    <3>6. AnswerSound(u)'
      BY <1>3, <3>2, <3>3, <3>4, <3>5, AnswerShapes DEF AnswerSound
    <3>7. Explained(u)'
      BY <3>2, <3>4, <3>5, AnswerShapes DEF Explained
    <3>8. Orphaned(u)'
      BY <3>3 DEF Orphaned, Live, Tasks
    <3>9. QED
      BY <3>6, <3>7, <3>8 DEF AnswerInvariant
  <2>5. ASSUME NEW a, Reply(u, a), a.body # "result",
               \/ u \in WebUploads
               \/ a.status \in { 200, 400, 413, 422, 429 }
               \/ a.status \in { 200, 504 } /\ expiry[u] # "none"
               \/ outer[u] \in Causes /\ a.status = ApiStatus(outer[u])
        PROVE  AnswerSound(u)' /\ (u \in Uploads \ WebUploads => Explained(u)')
    <3>1. answer'[u] = a /\ audited'[u] = 0
      BY <2>2, <2>5 DEF Reply
    <3>2. outer[u] \in Causes => Failed(u, outer[u])
      BY DEF TasksConsistent, Failed
    <3>3. ASSUME u \notin WebUploads, a.status = 500
          PROVE  Failed(u, "client_error") \/ Failed(u, "other")
      BY <2>5, <3>2, <3>3 DEF ApiStatus
    <3>4. ~ LostResult(u)'
      <4> SUFFICES ASSUME LostResult(u)' PROVE FALSE
        OBVIOUS
      <4>1. u \notin WebUploads /\ a.status = 500
        BY <3>1, AnswerShapes DEF LostResult
      <4>2. outer[u] \in Causes
        BY <2>5, <4>1
      <4>3. QED
        BY <2>3, <3>2, <4>2, FailedIsNotLost DEF LostResult
    <3>5. AnswerSound(u)'
      BY <1>3, <2>5, <3>1, <3>4 DEF AnswerSound
    <3>6. u \notin WebUploads => Explained(u)'
      BY <2>0, <2>3, <2>5, <3>1, <3>2, <3>3 DEF Explained, ApiStatus
    <3>7. QED
      BY <3>5, <3>6
  <2>6. CASE ~ (Deliver(u) /\ \A c \in Tasks(u) : chunk[u][c] = "returned")
    <3>1. AnswerSound(u)' /\ (u \in Uploads \ WebUploads => Explained(u)')
      <4>1. CASE Reply(u, Busy(u))
        BY <2>5, <4>1, AnswerShapes
      <4>2. ASSUME NEW s \in { 400, 413, 422 }, Reply(u, Refusal(u, s))
            PROVE  AnswerSound(u)' /\ (u \in Uploads \ WebUploads => Explained(u)')
        <5>1. Refusal(u, s).body # "result" /\ Refusal(u, s).status \in { 200, 400, 413, 422, 429 }
          BY AnswerShapes
        <5>2. QED
          BY <2>5, <4>2, <5>1
      <4>3. CASE Reply(u, Refusal(u, 504)) /\ expiry[u] # "none"
        <5>1. Refusal(u, 504).body # "result" /\ Refusal(u, 504).status \in { 200, 504 }
          BY AnswerShapes
        <5>2. QED
          BY <2>5, <4>3, <5>1
      <4>4. CASE outer[u] \in Causes /\ Reply(u, Failure(u, outer[u]))
        <5>1. /\ Failure(u, outer[u]).body # "result"
              /\ u \notin WebUploads => Failure(u, outer[u]).status = ApiStatus(outer[u])
          BY <4>4 DEF Failure
        <5>2. QED
          BY <2>5, <4>4, <5>1
      <4>5. QED
        BY <2>0, <2>6, <4>1, <4>2, <4>3, <4>4
    <3>2. Orphaned(u)'
      <4>1. outer[u] # "pending" => Live(u) = {} \/ \E c \in Chunks : chunk[u][c] \in Causes
        BY DEF TasksConsistent, Live, Tasks, TypeOK
      <4>2. Tasks(u) = {} \/ outer[u] # "pending"
        BY <2>0, <2>6
      <4>3. Live(u) = {} \/ \E c \in Chunks : chunk[u][c] \in Causes
        BY <4>1, <4>2 DEF Live, Tasks
      <4>4. QED
        BY <2>0, <4>3 DEF Orphaned, Live
    <3>3. QED
      BY <3>1, <3>2 DEF AnswerInvariant
  <2>7. QED
    BY <2>0, <2>4, <2>6
<1>4. QED
  BY <1>1, <1>2, <1>3

THEOREM AnswerSafety == SafeSpec => [](\A u \in Uploads : AnswerInvariant(u))
<1> DEFINE Inv == \A u \in Uploads : AnswerInvariant(u)
<1>1. Init => Inv
  BY DEF Init, AnswerInvariant, AnswerSound, Orphaned, Explained, LostResult, Unsent, NoAnswer
<1>2. TypeOK /\ TypeOK' /\ TaskInvariant /\ Inv /\ [Next \/ Idle]_vars => Inv'
  <2> SUFFICES ASSUME TypeOK, TypeOK', TaskInvariant, Inv, [Next \/ Idle]_vars,
                      NEW v \in Uploads
               PROVE  AnswerInvariant(v)'
    OBVIOUS
  <2>1. CASE UNCHANGED vars
    BY <2>1 DEF vars, AnswerInvariant, AnswerSound, Orphaned, Explained, LostResult, Failed, Tasks, Live
  <2>2. ASSUME NEW u \in Uploads, StepOf(u)
        PROVE  AnswerInvariant(v)'
    <3>1. CASE v = u
      BY <2>2, <3>1, AnswerStep DEF TaskInvariant
    <3>2. CASE v # u
      <4>1. Untouched(v)
        BY <2>2, <3>2, OthersUntouched
      <4>2. QED
        BY <4>1 DEF Untouched, AnswerInvariant, AnswerSound, Orphaned, Explained, LostResult, Failed,
                   Tasks, Live
    <3>3. QED
      BY <3>1, <3>2
  <2>3. QED
    BY <2>1, <2>2 DEF Next, Idle, StepOf
<1>3. QED
  BY <1>1, <1>2, SlotSafety, TaskSafety, PTL DEF SafeSpec

\* A result is never partial; a document is recorded exactly once when it was processed to its
\* end, though its response may be lost then, and never otherwise.
THEOREM ResultCompleteness == SafeSpec => []ResultsComplete
<1>1. (\A u \in Uploads : AnswerInvariant(u)) => ResultsComplete
  BY DEF AnswerInvariant, AnswerSound, ResultsComplete
<1>2. QED
  BY <1>1, AnswerSafety, PTL

\* The statuses 500, 502, 503 and 504 of the API name what really went wrong.
THEOREM StatusSoundness == SafeSpec => []StatusExplained
<1>1. (\A u \in Uploads : AnswerInvariant(u)) => StatusExplained
  BY DEF AnswerInvariant, Explained, StatusExplained
<1>2. QED
  BY <1>1, AnswerSafety, PTL

\* Tasks outlive their request only when one of them failed.
THEOREM OrphanCharacterisation == SafeSpec => []OrphansOnlyAfterFailure
<1>1. (\A u \in Uploads : AnswerInvariant(u)) => OrphansOnlyAfterFailure
  BY DEF AnswerInvariant, Orphaned, OrphansOnlyAfterFailure
<1>2. QED
  BY <1>1, AnswerSafety, PTL

-----------------------------------------------------------------------------
(* The load on the analyzer: who can have calls out, and how many.           *)

\* A set of at most n elements can be numbered from 1 to n.
LEMMA Numbered ==
  ASSUME NEW S, IsFiniteSet(S), NEW n \in Nat, Cardinality(S) <= n
  PROVE  \E f \in [ S -> 1 .. n ] : \A x, y \in S : f[x] = f[y] => x = y
<1> DEFINE m == Cardinality(S)
<1>1. PICK g \in Bijection(1 .. m, S) : TRUE
  BY FS_CardinalityType DEF ExistsBijection
<1>2. m \in Nat /\ 1 .. m \subseteq 1 .. n
  BY FS_CardinalityType
<1>3. /\ g \in [ 1 .. m -> S ]
      /\ \A x \in S : \E i \in 1 .. m : g[i] = x
  BY <1>1 DEF Bijection, Injection, Surjection
<1> DEFINE f == [ x \in S |-> CHOOSE i \in 1 .. m : g[i] = x ]
<1>4. \A x \in S : f[x] \in 1 .. m /\ g[f[x]] = x
  BY <1>3
<1>5. f \in [ S -> 1 .. n ]
  BY <1>2, <1>4
<1>6. \A x, y \in S : f[x] = f[y] => x = y
  BY <1>4
<1>7. QED
  BY <1>5, <1>6

\* A document that has calls out is in process or failed.
LEMMA CallersKnown ==
  ASSUME TypeOK, TaskInvariant, OrphansOnlyAfterFailure, NEW u \in Uploads, Calling(u) # {}
  PROVE  u \in Holders \cup FailedDocuments
<1>1. stage[u] # "reading"
  BY DEF TaskInvariant, TasksConsistent, Calling, Tasks
<1>2. stage[u] = "answered" => u \in FailedDocuments
  BY DEF OrphansOnlyAfterFailure, FailedDocuments, Failed, Live, Calling
<1>3. QED
  BY <1>1, <1>2 DEF Holders, TypeOK, Stages

LEMMA LoadIsBounded ==
  ASSUME TypeOK, SlotsAccounted, TaskInvariant, CallsBounded, OrphansOnlyAfterFailure
  PROVE  LoadBounded
<1> DEFINE D == Holders \cup FailedDocuments
           F == [ Uploads -> [ Chunks -> 1 .. ChunkLimit ] ]
           Apart(f) == \A x, y \in Calls : x[1] = y[1] /\ f[x[1]][x[2]] = f[y[1]][y[2]] => x = y
<1>1. /\ IsFiniteSet(FailedDocuments) /\ Cardinality(FailedDocuments) \in Nat
      /\ FailedDocuments \subseteq Uploads
  <2>1. FailedDocuments \subseteq Uploads
    BY DEF FailedDocuments
  <2>2. QED
    BY <2>1, UploadAssumption, FS_Subset, FS_CardinalityType
<1>2. /\ IsFiniteSet(D) /\ Cardinality(D) \in Nat
      /\ Cardinality(D) <= MaxUploads + Cardinality(FailedDocuments)
  <2>1. Holders \cap FailedDocuments = {}
    BY DEF Holders, FailedDocuments
  <2>2. /\ IsFiniteSet(D)
        /\ Cardinality(D) = Cardinality(Holders) + Cardinality(FailedDocuments)
    BY <1>1, <2>1, HoldersFinite, FS_Union, FS_EmptySet
  <2>3. Cardinality(Holders) <= MaxUploads
    BY HoldersFinite, LimitAssumption DEF SlotsAccounted, TypeOK
  <2>4. QED
    BY <1>1, <2>2, <2>3, HoldersFinite, LimitAssumption
<1>3. PICK f \in F : Apart(f)
  <2>1. \A u \in Uploads : \E g \in [ Calling(u) -> 1 .. ChunkLimit ] :
          \A c, d \in Calling(u) : g[c] = g[d] => c = d
    <3> SUFFICES ASSUME NEW u \in Uploads
                 PROVE  \E g \in [ Calling(u) -> 1 .. ChunkLimit ] :
                          \A c, d \in Calling(u) : g[c] = g[d] => c = d
      OBVIOUS
    <3>1. Calling(u) \subseteq Chunks /\ Cardinality(Calling(u)) <= ChunkLimit
      BY DEF Calling, CallsBounded
    <3>2. IsFiniteSet(Calling(u))
      BY <3>1, ChunksFinite
    <3>3. QED
      BY <3>1, <3>2, Numbered, LimitAssumption
  <2> DEFINE Number(u) == CHOOSE g \in [ Calling(u) -> 1 .. ChunkLimit ] :
                            \A c, d \in Calling(u) : g[c] = g[d] => c = d
             f == [ u \in Uploads |-> [ c \in Chunks |-> IF c \in Calling(u) THEN Number(u)[c] ELSE 1 ] ]
  <2>2. \A u \in Uploads : /\ Number(u) \in [ Calling(u) -> 1 .. ChunkLimit ]
                           /\ \A c, d \in Calling(u) : Number(u)[c] = Number(u)[d] => c = d
    BY <2>1
  <2> HIDE DEF Number
  <2>3. f \in F
    BY <2>2, LimitAssumption
  <2>4. \A x \in Calls : x[1] \in Uploads /\ x[2] \in Calling(x[1]) /\ x = << x[1], x[2] >>
    BY DEF Calls, Calling
  <2>5. \A x \in Calls : f[x[1]][x[2]] = Number(x[1])[x[2]]
    BY <2>4 DEF Calling
  <2>6. Apart(f)
    BY <2>2, <2>4, <2>5
  <2>7. QED
    BY <2>3, <2>6
<1> DEFINE place == [ x \in Calls |-> << x[1], f[x[1]][x[2]] >> ]
           Room  == D \X (1 .. ChunkLimit)
<1>4. place \in Injection(Calls, Room)
  <2>1. \A x \in Calls : /\ x[1] \in Uploads /\ x[2] \in Chunks /\ x = << x[1], x[2] >>
                         /\ Calling(x[1]) # {}
    BY DEF Calls, Calling
  <2>2. \A x \in Calls : x[1] \in D /\ f[x[1]][x[2]] \in 1 .. ChunkLimit
    BY <2>1, <1>3, CallersKnown
  <2>3. place \in [ Calls -> Room ]
    BY <2>2
  <2>4. \A x, y \in Calls : place[x] = place[y] => x = y
    BY <1>3
  <2>5. QED
    BY <2>3, <2>4 DEF Injection, IsInjective
<1>5. IsFiniteSet(1 .. ChunkLimit) /\ Cardinality(1 .. ChunkLimit) = ChunkLimit
  BY LimitAssumption, FS_Interval
<1> HIDE DEF D, place
<1>6. IsFiniteSet(Room) /\ Cardinality(Room) = Cardinality(D) * ChunkLimit
  BY <1>2, <1>5, FS_Product
<1>7. Cardinality(Calls) <= Cardinality(Room)
  BY <1>4, <1>6, FS_Injection
<1>8. /\ IsFiniteSet(Calls)
      /\ Cardinality(Calls) \in Nat
  BY <1>4, <1>6, FS_Injection, FS_CardinalityType
<1>9. Cardinality(D) * ChunkLimit <= ChunkLimit * (MaxUploads + Cardinality(FailedDocuments))
  <2>1. \A i, j, k \in Nat : i <= j => i * k <= k * j
    OBVIOUS
  <2>2. MaxUploads + Cardinality(FailedDocuments) \in Nat
    BY <1>1, LimitAssumption
  <2>3. QED
    BY <1>2, <2>1, <2>2, LimitAssumption
<1>10. QED
  BY <1>1, <1>2, <1>6, <1>7, <1>8, <1>9, LimitAssumption DEF LoadBounded

\* However many documents come and go, the analyzer has at most the calls of
\* MaxUploads documents out, and those left over from failed ones.
THEOREM AnalyzerLoad == SafeSpec => []LoadBounded
<1>1. TypeOK /\ SlotsAccounted /\ TaskInvariant /\ CallsBounded /\ OrphansOnlyAfterFailure
        => LoadBounded
  BY LoadIsBounded
<1>2. QED
  BY <1>1, SlotSafety, TaskSafety, ChunkConcurrency, OrphanCharacterisation, PTL

-----------------------------------------------------------------------------
(* The routes implement the gate: its steps are the answers and admissions,  *)
(* every other step stutters.                                                *)

PhaseOf(u) ==
  IF stage[u] = "reading" THEN "waiting"
  ELSE IF stage[u] # "answered" THEN "admitted"
  ELSE IF answer[u].body = "busy" THEN "refused"
  ELSE "served"

\* The semaphore has no slot exactly when the gate is full.
LEMMA GateFull ==
  ASSUME TypeOK, SlotsAccounted
  PROVE  Gate!Full <=> free = 0
<1>1. Gate!InProcess = Holders
  BY DEF Gate!InProcess, Holders, TypeOK, Stages
<1>2. Gate!Full <=> Cardinality(Holders) >= MaxUploads
  BY <1>1 DEF Gate!Full, Gate!Cardinality, Cardinality
<1>3. QED
  BY <1>2, HoldersFinite, LimitAssumption DEF SlotsAccounted, TypeOK

LEMMA GateStep ==
  ASSUME TypeOK, TypeOK', SlotsAccounted, TaskInvariant, NEW u \in Uploads, StepOf(u)
  PROVE  [Gate!Next]_([ v \in Uploads |-> PhaseOf(v) ])
<1> DEFINE phase == [ v \in Uploads |-> PhaseOf(v) ]
<1>1. ASSUME NEW v \in Uploads, v # u
      PROVE  PhaseOf(v)' = PhaseOf(v)
  BY <1>1, OthersUntouched DEF Untouched, PhaseOf
<1>2. phase' = [ phase EXCEPT ![u] = PhaseOf(u)' ]
  BY <1>1
<1>3. CASE PhaseOf(u)' = PhaseOf(u)
  BY <1>2, <1>3
<1>4. CASE RejectBusy(u)
  <2>1. PhaseOf(u) = "waiting" /\ PhaseOf(u)' = "refused" /\ free = 0
    BY <1>4, AnswerShapes DEF RejectBusy, Reply, Answered, PhaseOf, TypeOK
  <2>2. Gate!Refuse(u)
    BY <1>2, <2>1, GateFull DEF Gate!Refuse, PhaseOf
  <2>3. QED
    BY <2>2 DEF Gate!Next
<1>5. CASE RejectDocument(u) \/ AnswerEmpty(u)
  <2>1. PhaseOf(u) = "waiting" /\ PhaseOf(u)' = "served" /\ free # 0
    BY <1>5, AnswerShapes DEF RejectDocument, AnswerEmpty, Reply, Deliver,
       Delivery, Answered, PhaseOf, TypeOK
  <2>2. Gate!ServeAtOnce(u)
    BY <1>2, <2>1, GateFull DEF Gate!ServeAtOnce, PhaseOf
  <2>3. QED
    BY <2>2 DEF Gate!Next
<1>6. CASE StartDetection(u) \/ StartAnalysis(u)
  <2>1. PhaseOf(u) = "waiting" /\ PhaseOf(u)' = "admitted" /\ free # 0
    BY <1>6 DEF StartDetection, StartAnalysis, StartTasks, PhaseOf, TypeOK
  <2>2. Gate!Admit(u)
    BY <1>2, <2>1, GateFull DEF Gate!Admit, PhaseOf
  <2>3. QED
    BY <2>2 DEF Gate!Next
<1>7. CASE RejectTerms(u) \/ AnswerExpired(u) \/ AnswerFailure(u) \/ AnswerResult(u)
  <2>1. PhaseOf(u) = "admitted" /\ PhaseOf(u)' = "served"
    BY <1>7, AnswerShapes DEF RejectTerms, AnswerExpired, AnswerFailure, AnswerResult,
       Resumes, Reply, Deliver, Delivery, Answered, PhaseOf, TypeOK
  <2>2. Gate!Serve(u)
    BY <1>2, <2>1 DEF Gate!Serve, PhaseOf
  <2>3. QED
    BY <2>2 DEF Gate!Next
<1>8. CASE LanguageDetected(u)
  <2>1. PhaseOf(u)' = PhaseOf(u)
    BY <1>8 DEF LanguageDetected, StartTasks, PhaseOf, TypeOK
  <2>2. QED
    BY <1>3, <2>1
<1>9. CASE UNCHANGED << stage, answer >>
  BY <1>3, <1>9 DEF PhaseOf
<1>10. QED
  BY <1>4, <1>5, <1>6, <1>7, <1>8, <1>9
  DEF StepOf, BeginCall, EndCall, GatherSettles, TimerFires

\* Every behaviour of the routes is one of the gate, its liveness aside.
THEOREM GateRefinement == SafeSpec => Gate!Safe
<1>1. Init => Gate!Init
  BY DEF Init, Gate!Init
<1>2. TypeOK /\ TypeOK' /\ SlotsAccounted /\ TaskInvariant /\ [Next \/ Idle]_vars
        => [Gate!Next]_([ v \in Uploads |-> PhaseOf(v) ])
  <2> SUFFICES ASSUME TypeOK, TypeOK', SlotsAccounted, TaskInvariant, [Next \/ Idle]_vars
               PROVE  [Gate!Next]_([ v \in Uploads |-> PhaseOf(v) ])
    OBVIOUS
  <2>1. CASE UNCHANGED vars
    BY <2>1 DEF vars, PhaseOf
  <2>2. QED
    BY <2>1, GateStep DEF Next, Idle, StepOf
<1>3. TypeOK /\ TypeOK' /\ SlotsAccounted /\ TaskInvariant /\ [Next \/ Idle]_vars
        => [Gate!Next]_([ u \in Uploads |->
             IF stage[u] = "reading" THEN "waiting"
             ELSE IF stage[u] # "answered" THEN "admitted"
             ELSE IF answer[u].body = "busy" THEN "refused"
             ELSE "served" ])
  BY <1>2 DEF PhaseOf
<1>4. QED
  BY <1>1, <1>3, SlotSafety, TaskSafety, PTL DEF SafeSpec, Gate!Safe
=============================================================================
