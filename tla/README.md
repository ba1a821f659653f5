# Redakt: a verification development in TLA+

Redakt is a web service around an external analyzer of personal data (Microsoft Presidio): it
detects personal data in texts, replaces it by numbered placeholders such as `<PERSON_1>`, puts
the originals back, and does the same for uploaded documents. This directory holds TLA+ modules of
its own logic, TLC configurations that check them on small instances, and TLAPS proofs of the
properties that matter most. Paths below are relative to `src/src/redakt`.

## The system

One uvicorn process, one asyncio event loop, no database: all state is in memory, and a restart
forgets it. The analyzer is called over HTTP.

| component | code | state | operations | hard behaviour | what makes it correct |
|---|---|---|---|---|---|
| anonymizer | `services/anonymizer.py` | tables of one call | resolve overlaps, number, replace | order of three sorted loops, offsets that move | disjoint spans, one placeholder per (type, text), a text whose other symbols are untouched |
| document routes | `routers/documents.py`, `documents_submit` in `routers/pages.py` | upload semaphore | upload by API, by form | refusal without waiting, deadline, exception chain | every slot accounted for, one answer, honest status |
| document processor | `services/document_processor.py` | chunks, semaphore of ten, unified placeholder map | validate, extract, analyse chunks, number, assemble | tasks in any order, one failing, deadline | bounded calls, complete results, each cell its own |
| language detection | `services/language.py` | cached detector, executor threads | startup check, detect | thread against timer, several builds of the detector | an answer in time, in a supported language |
| deanonymization | `routers/deanonymize.py`, `static/deanonymize*.js` | mapping in the page | restore, clear | replacements on a text that already holds originals; late and lost answers in the page | what one pass over the text would restore; the mapping of the result on the page, nothing of one that was cleared |
| text routes | `routers/detect.py`, `routers/anonymize.py`, `routers/pages.py` | none of their own | detect, anonymize by API and form | error mapping, audit on success only, two ways to one operation | same result by both ways, a status with its cause, one audit entry each |
| allow lists, score floors | `utils.py` | settings | parse, validate, merge, filter | boundary values, repetition, two lists of two origins | order-preserving, every omission explained |
| audit log | `services/audit.py` | log handlers | set up, emit | set-up is repeated; emission fails after the work | one line per answer and log; the answer does not depend on it |
| analyzer client | `services/presidio.py` | HTTP client | analyze, health | every way to fail | - |
| extractors | `services/extractors.py` | - | one per format | references as strings, limits | unique references of chunks |
| start-up | `main.py`, `config.py` | settings | lifespan | a bad setting | refuse to start |

They interact by calls: a route takes an upload slot and awaits `process_document`, which awaits
`detect_language` (an executor thread under a timer) and one analyzer call per chunk, and uses the
anonymizer's `resolve_overlaps` and `replace_entities`; the routes write one audit record for a
result. `PROJECT.json` lists the hazards line by line.

## Modules

| module | models | a step is |
|---|---|---|
| `Anonymizer` | `anonymize_entities` and its three loops | one iteration |
| `AnonymizerContract` | the same from call to answer, without a loop | the call |
| `DocumentUpload` | both upload routes with the asynchronous part of `process_document` | what runs between two awaits of a task, or an event of the analyzer or the timer |
| `UploadGate` | what the routes promise: admit, refuse when full, serve | an admission or an answer |
| `DocumentPipeline` | the chunks of one document: extract, split, analyse in any order, gather, number, assemble | a stage, or an entity of the numbering loop |
| `Extractors` | the references under which texts are handed on, the limits of depth and cells | operators, used by `DocumentPipeline` |
| `LanguageDetection` | startup check, `detect_language`, `_detect_sync`, `_build_detector` | a callback of the loop, or a step of an executor thread |
| `Deanonymizer` | `apply_mappings` and its twin in the two scripts | one placeholder |
| `MappingPage` | the page that keeps a mapping: form, answers, copy, paste, restore, clear, reload | an event of the user or of htmx |
| `TextRequests` | detection and anonymization of a text by API and by form, from the request to the answer | what runs between two awaits of a handler |
| `AllowLists` | `utils.py`: lists of terms and score floors | operators, used by `TextRequests` |
| `AuditLog` | the handlers of the audit logger, set up and written to | part of a step of `TextRequests` |
| `AnonymizerProofs`, `DocumentUploadProofs`, `DocumentPipelineProofs`, `LanguageDetectionProofs`, `DeanonymizerProofs`, `MappingPageProofs`, `TextRequestsProofs` | theorems about seven of them | |
| `ListLemmas` | what proofs about lists share: least numbers, induction, loops and readings | |
| `MC*` | instances for TLC | |

Some correspondences that the code does not show at once:

* **Anonymizer.** A text is a sequence of symbols, a placeholder one symbol (a record of type and
  number). `for x in sorted(...)` is the set `todo` with a guard that picks the next of the sort
  order; `sorted` is stable under `reverse=True`, so equal ranks keep the analyzer's order.
  Spans are non-empty and inside the text, as the analyzer returns them.
* **DocumentUpload.** Nothing between `sem.locked()` and the first await of `process_document`
  can be interrupted, so an upload with nothing to await is answered in one step. An upload is at
  its language detection (`language`) or waits for `gather` (`analyzing`). `outer` is gather's
  future, which settles on the first exception and leaves the other tasks alone; a cancellation
  reaches the tasks only through a future that has not settled (`expiry`: "passed" or "pending").
  The `async with` gives the slot back in the step that answers. A processed document is recorded
  first and its response built afterwards (`Deliver`): by API it may be one that the response model
  does not take (`Unsent`). Which results those are is a matter of their type, which the chunks of
  this module do not have, so every processed document may be one (`Delivery`).
* **DocumentPipeline.** A chunk carries what `resolve_overlaps` leaves for it. A cell of the output
  says whose text it shows, in which form and with which placeholders. `Layouts` lists the places at
  which files have texts; `Extractors` makes references of them the way the code makes strings, so
  whether two references coincide is a matter of the model and not an assumption: columns have
  letters that carry (`Letters` of them), and a JSON path joins keys that may contain a dot. The
  depth limit of JSON counts every node; those that are no texts are known by the deepest only.
* **LanguageDetection.** A job is cancelled only while no thread has taken it; a thread past its
  deadline keeps running. The timer may win over a result the request was not resumed with.
  `Documents` are the calls that an upload's own deadline may cancel. A code is listed once in
  the settings.
* **MappingPage.** Requests are numbered as they leave the page; a mapping, a copied text and a
  restored text are known by the request they come from. htmx is modelled from how the forms use
  it: one request out, of the submissions meanwhile the last one leaves when the answer is there.
  `deanonymize-documents.js` is the same script on other elements.
* **TextRequests.** `run_detection` and `run_anonymization` are the same but for what they make of
  the results, so one set of actions has both, with the operation a variable. All requests of a
  behaviour carry one text, language and list of terms; API requests add a threshold and floors.
  `Ask` is what lies between the resolved language and the call of the analyzer. Forms answer the
  errors they handle with a page, status 200; what they do not handle is a 500.
* **AuditLog.** A failing handler does not raise: the logging library's `Handler.emit` reports by
  itself. A write fails or succeeds for each handler on its own.
* **Deanonymizer.** Equally long placeholders come in any order, which covers the order of a
  Python dict and of `Object.keys`. The empty placeholder, which nothing generates, is left out.

Definitions whose comment begins with "mutant" are variants with a plausible bug: each property
of a passing run is violated when the definition below it is replaced by one of them.

## Runs

| run | configuration | bounds | distinct states | shows |
|---|---|---|---|---|
| `anonymizer` | `MCAnonymizer.cfg` | texts over two symbols, two types, two scores, three results | 714 thousand | the properties below and the refinement of `AnonymizerContract` |
| `upload` | `MCDocumentUpload.cfg` | two uploads (API, form), one slot, three chunks, two calls | 5.3 million | slots, load on the analyzer, results, statuses, left-over tasks |
| `upload_liveness` | `MCUploadLiveness.cfg` | three uploads, two slots, two chunks, one call | 368 thousand | answers and tasks end; `UploadGate` with its fairness |
| `upload_orphans` | `MCUploadOrphans.cfg` | as `upload`, one cause | - | finding 1 |
| `pipeline` | `MCDocumentPipeline.cfg` | up to three texts with two entities, two types, two texts of entities, four formats; longer files without entities | 2.7 million | numbering and assembly |
| `oversized_text` | `MCOversizedText.cfg` | two JSON leaves | - | finding 2 |
| `json_paths` | `MCJsonPaths.cfg` | two JSON leaves, the keys `a.b` and `a`, `b` | - | finding 3 |
| `language` | `MCLanguageDetection.cfg` | three calls, two threads, three codes of which two are mapped | 459 thousand | languages, detector, late work, calls return, the queue drains |
| `language_timeout` | `MCLanguageTimeout.cfg` | three calls, one thread, two codes | - | finding 4 |
| `deanonymizer` | `MCDeanonymizer.cfg` | texts up to six symbols, up to two of four placeholders | 7.3 million | restored text and count |
| `page` | `MCMappingPage.cfg` | four requests | 663 | the mapping and what is left of it |
| `text_requests` | `MCTextRequests.cfg` | one API request and one form, seven lists of terms, two set-ups of logging | 847 thousand | results, statuses, lists, audit entries |

Why the bounds are enough: three results are the least with which a dropped entity could have
blocked a third, and with which a reused number comes between two new ones. One slot and two
uploads show refusal and reuse of a slot; three chunks and two calls show a queued task next to a
failing and a running one. Three chunks let a blank or oversized one stand before two others, or a
repeated entity span two chunks. Three calls on two threads put one behind two hung threads, and
two threads race for the detector. Four requests allow a copied text two results old, next to a
queued submission. Two text requests are what a comparison needs; the lists have repeated, blank,
padded, too many and too long terms, and the findings scores at, above and below each floor. The
alphabet of columns has two letters, so that the third column carries. Six symbols hold two complete placeholders.
The theorems remove the bounds for what they prove. The
deanonymizer's inputs are all texts, 20 thousand, with all mappings, 67.

What is checked, beyond one type invariant per module:

* `AcceptedDisjoint`, `DroppedForCause`: kept spans are disjoint, a dropped one overlaps a kept one
  that ranks no lower. `PlaceholdersConsistent`, `NumberedLeftToRight`: placeholders and
  (type, text) pairs correspond, numbers follow the text without a gap. `PendingSpansIntact`: what
  is still to be replaced is still where it was. `ImplementsContract`: the answer is the contract's, dropped entities,
  numbers and text.
* `SlotsAccounted`; `LoadBounded`: the calls of all documents together are bounded by the slots and
  the failed documents, whose left-over tasks come on top. `ResultsComplete`: no partial result, one
  audit record for a processed document, also for one whose response is lost, and none for a failed
  one. `StatusExplained`, `OrphansOnlyAfterFailure`, `AdmittedAreAnswered`, `TasksDrain`,
  `ImplementsGate`.
* `UnifiedPlaceholders`, `NumberedInDocumentOrder` (whatever the order of the analyses),
  `EachCellItsOwn` (each format), `RawTextOnlyWhereKnown`.
* `AnswerUsable`: a server that started answers only supported languages. `DetectorsBounded`,
  `NoWorkForTheAnswered`, `EveryCallReturns` (although threads hang), `QueueDrains`.
* `MappingIsOfShownResult`: what the user sees and what restores belong together, also after errors
  and answers that come late. `NothingLeftBehind`: clearing leaves no text and no mapping, and a
  mapping with entries can be used. `NeverAnOlderMapping`: no text is restored with a mapping older
  than itself; with a newer one it may be, which the page cannot tell.
* `SameByEveryRoute`, `EveryOmissionExplained` (what is found and not kept has one of five reasons,
  and nothing is kept against one), `MergedListsOrdered`, `StatusExplained`, `AuditedOnce`,
  `HandlersAccounted`.
* `RestoredInOnePass`, `ReplacementsCounted`: under one of two conditions, the loop gives what a
  single pass gives. `Bracketed` is what the anonymizer makes of texts without brackets; there the
  order of lengths is not even needed. `FreshOriginals` allows placeholders without a closing
  bracket, and needs the longest first. Outside both the loop may cascade: a text that already
  contains placeholder-like strings is the accepted limitation RISK-003 of SPEC-002.

## Fairness

`DocumentUpload`: weak fairness of the loop's own steps (starting a ready task, settling gather,
resuming the handler) and of the timer, because the loop runs every ready callback. None of the
analyzer's replies and none of the client's uploads: `AdmittedAreAnswered` holds without them.
`TasksDrain` assumes, in the property itself, that calls end, which the HTTP client's own timeout
provides. `LanguageDetection`: weak fairness of the loop and its timers, none of the threads;
`QueueDrains` assumes in the property that threads run and detections end. The synchronous modules
have safety properties only.

## What the violated runs show

1. `upload_orphans`: SPEC-003 FAIL-002 promises to cancel the other chunks when one fails;
   `gather` leaves them, and queued ones still call the analyzer after the error was returned.
   `OrphansOnlyAfterFailure` shows this is the only way tasks outlive their request, `LoadBounded`
   how far they add to the load on the analyzer, `TasksDrain` that they end.
2. `oversized_text`: SPEC-003 EDGE-013 promises that a skipped chunk's text is not in the output;
   JSON (and CSV, where the csv module's field limit does not reject the cell first) returns it.
3. `json_paths`: leaves of a JSON document with the same path string get one leaf's text.
4. `language_timeout`: SPEC-004 REQ-005 asks for the detected language with a null confidence when
   only the confidence is late; the code answers the fallback with 0.0.

## Proofs

TLAPS checks every theorem for all values of the constants, from the assumptions the modules name:
about `Anonymizer`, that texts are sequences of symbols, scores integers and the bound a natural
number; about `DocumentUpload`, that uploads are finitely many, the limits positive and causes
among the listed ones; about `DocumentPipeline`, that files have each place once; about
`TextRequests`, that lists are sequences of terms, words are not empty, scores and floors are natural
numbers; about `Deanonymizer`, that texts are sequences of symbols and no placeholder is empty. Every
safety property of a passing run is the property of a theorem; `CellsAreOwn` alone adds a
hypothesis.

What the code computes in a loop over a list, the models define as a recursive function or a fold.
The provers know nothing of such a definition but its equation, and have no induction rule for
data. `ListLemmas` has both from the well-foundedness of finite sets: a set of numbers has a least
one (`LeastExists`), so a set that holds the next number whenever it holds those before it holds
them all (`FromAllBelow`, `FromOneBefore`, `FromAllAbove`; the set is the parameter), and a function
that satisfies the equation of a loop exists (`LoopExists`, and `ReadingExists` for one that goes on
at a later place of the list, as a search does).

`AnonymizerProofs`: `TypeSafety`, `Disjointness`, `DropJustified`, `PlaceholderConsistency`,
`NumberingOrder`, `SplicesInPlace`. The table part of the type invariant is inductive alone.
`AcceptedDisjoint` and `DroppedForCause` need that what was visited ranks before what was not,
because an entity is dropped for one that was kept earlier (`ResolveInv`; `Ranking` shows the
order total and transitive). The placeholder properties need that the table `seen` and the
counters describe exactly the entities numbered so far (`NumberInv`, of `SeenSound` and
`Numbered`): otherwise a counter might give an old number again. The splices need that the text
left of what was replaced is still the original one, and that the spans to come lie there, which
is disjointness with the order of the loop (`SpliceInv`); `SpliceKeepsPrefix` is the fact about
sequences behind it. This also gives the type of `output`.

The three loops together implement the contract (`ContractRefinement`), whose variable `answers`
holds the one answer of the call once it is given. Three things are needed for it. What the loop
drops is dropped by the code's own order, ties included (`RankedOut`), and there is only one way to
decide that (`ContractDetermines`: the contract asks for `ResolutionUnique`). The number a loop
counts up is the rank of the pair by first appearance (`NumberIsRank`), by a bijection from the
pairs already numbered. And the output is at every step the contract's pieces for the entities
already replaced, all of which stand to the right of the others (`OutputInv`).

`DocumentUploadProofs`: `UploadTypes`, `SlotSafety`, `TaskSafety`, `ResultCompleteness`,
`StatusSoundness`, `OrphanCharacterisation`, `AnalyzerLoad`, `GateRefinement`. The slots need a
cardinality argument: each step adds or removes one holder or none. All the rest uses
`TaskInvariant`, which says when gather's future may be settled, that a cancelled chunk means that
the deadline was passed on, and that then no task is alive. What is said of an answer must outlast
it, because tasks go on: a chunk that failed or returned stays so, hence a lost result, all of whose
chunks returned, is never mistaken for a failure (`LostForGood`, `FailedIsNotLost`). `AnalyzerLoad`
puts the two semaphores together: the calls of each document can be numbered from 1 to `ChunkLimit`
(`ChunkConcurrency`, `Numbered`), a document with calls out holds a slot or failed (`CallersKnown`,
from `OrphansOnlyAfterFailure`), so the calls inject into pairs of such a document and a number.
`GateRefinement` maps each step to a step of `UploadGate` or to a stutter, using `SlotsAccounted`
for "full".

`DocumentPipelineProofs`: `PipelineTypes`, `PlaceholdersUnified`, `NumbersFollowDocument`,
`RawTextKnown`, `CellsAreOwn`. `NumberInv` says that what the loops have passed has exactly the
placeholder that `seen` holds for it, that no number in `seen` is above its counter, and that the
mapping leads back. The order of the numbers needs `LoopOK`: a chunk is begun only when those
before it are complete, so a text without a placeholder stands behind everything that was passed
(`NewComesLater`). The cells need that `valid` runs through the chunks that fit once and in order
(`InOrderFacts`), hence that the count of such chunks up to one is its index there (`Rank`).
`CellsAreOwn` has the hypothesis `UniqueReferences`, which is what `json_paths` shows to fail for
JSON; text formats do not need it, and for CSV and XLSX it is about the encoding in `Extractors`.

`LanguageDetectionProofs`, for any finite number of calls: `LanguageTypes`, `UsableAnswers`,
`DetectorBound`, `NoLateWork`. `LanguageInv` says how far the thread of a call can be where the call
stands, that what a thread leaves for a call is fit to be answered, and that the queue holds each
call once. The bound on detectors counts those that are built together with those being built
(`DetectorInv`).

`DeanonymizerProofs`, for any texts and mappings: `RestoredOnce`, `CountIsRight`. The invariant
(`DeanonymizerInv`) says that the text is at every step what one pass over the text of the request
makes of it when it restores only the placeholders done so far, and that the counter has how many
such a pass restores (`PassOK`); and that what is left is sorted and no longer than what is done
(`OrderOK`). The step is `StepPass`: putting the next placeholder back in the result of the one
pass gives the result of the next. It reads the text of the request from its end and has three
cases at a place. Where a longer placeholder was restored the search goes over its original, which
has no opening bracket (`SearchSkips`). Where the placeholder stands, nothing inside it was
touched, because it has no second opening bracket (`UntakenInside`). Elsewhere it must not be
found: `PassShows` follows a supposed occurrence character by character to the first original put
back inside it, and `NoOverlap` refutes that one with either condition of the properties, the
freshness of originals or the closing brackets. Both conditions are used nowhere else but for the
shape of placeholders (`ScopeFacts`). At the end every placeholder is done and the pass is the
reference (`ReferencePass`, `ReferenceCount`).

`MappingPageProofs`: `PageTypes`, `MappingMatchesPage`, `NothingRemains`, `MappingNotOlder`, from one
invariant (`PageInv`) whose strengthening is `TakenBeforeAsked`: the request that is out is newer
than everything the user has taken from the page.

`TextRequestsProofs`, for any lists, floors, findings and starts: `StatusSoundness`,
`AuditExactness`, `HandlerAccounting`, `RequestTypes`, `MergedListSoundness`, `OmissionSoundness`,
`RouteAgreement`. `QueriesOK` bounds what the analyzer is asked; `RequestInv` says what is known of a
request on its way; `LogInv` that entries are those of answered requests, each once per log, and
handlers those of the last set-up. The last three rest on `AnswerInv`: what the analyzer was
asked and what was answered are functions of the request alone. From there they are facts about the
operators of `AllowLists`: merging keeps the first of equal terms and the order, and the two filters
leave out what a reason accounts for. That the two routes agree needs that the form's text, split
at its separators, is the list the API was given, up to blanks.

Only model-checked: liveness and fairness (`AdmittedAreAnswered`, `TasksDrain`, the fairness of
`ImplementsGate`, `EveryCallReturns`, `QueueDrains`), which the prover does not handle. The
violated runs are checked on their instances only.

## Not modelled

* Parsing of the formats (encodings, CSV dialects, workbooks, PDF, RTF, HTML, XML): library work;
  `DocumentPipeline` starts from the texts that come out of it. Warnings, metadata and delimiters of the
  output, rendering, log formats, health checks: no state, or layout. Of the request and response
  models, all but the one that may refuse a document's result.
* Time: only the order of events counts, so the blocking of the loop by an extraction is left out.
* Of the text routes: the list of entity types a request may ask for, and the source field of an
  entry. Of the audit log: rotation. Of the pages: that of
  detection, which keeps no state.
* The calibration report, an offline tool.

Differences between documents and code that were met and have no run, because a run would only
repeat an assignment: the audit log's `StreamHandler()` writes to standard error where its comment, the
repository's README and the feature specification say standard output; SPEC-006 FAIL-001 and FAIL-002 expect
an exception of a failing handler to reach `_emit_audit`, which the logging library prevents; a reply
of the analyzer that is not JSON is answered as a 422, because it raises the same exception as a
refused allow list (`StatusExplained` names it); blank terms of an API allow list are sent to the
analyzer, those of a form are not (`MergedListsOrdered` names it); documents never apply score floors;
SPEC-003 REQ-020's limit of concurrent calls is one per document, not of the service.

One more is a bug: `process_document` promises "a dict suitable for DocumentUploadResponse construction" (line 194), but that model's
`anonymized_structured` is an object, a list or null: by API a JSON file that is one bare string,
number or boolean is processed and recorded, and answered with a 500, where the form shows the
result. `ResultsComplete` and `StatusExplained` say that this is the only 500 with a record.
