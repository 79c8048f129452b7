# Verification of the loan agent

TLA+ models of the loan agent under `src/app`, the TLC runs that check them on
small instances, and proofs checked by TLAPS that hold for every instance.

A borrower sends SMS or e-mail messages with attachments. A webhook stores each
message and queues a run of an agent pipeline, which reads the documents, asks a
language model for facts, compares what the borrower stated with what the
documents show, and writes back to the borrower: either a list of what is
missing or the news that the application is ready. An officer exports a ready
application to the bank's loan system.

What makes this hard is concurrency without locks. There is no lock, no
`SELECT ... FOR UPDATE`, no version column and no queue that serialises the runs
of one application: every webhook starts its own run as a background task, with
its own database session, and the database runs at READ COMMITTED. Most of the
properties below are about what still holds when runs and deliveries overlap,
and, where something may go wrong, which runs can be to blame for it.

## 1. The system's parts

| Component | Source (`src/app/`) | State it keeps | Operations | Module |
| --- | --- | --- | --- | --- |
| Webhook handler | `api/routes/webhooks.py`, `schemas/webhook.py` | the request; the queued task | reject, answer from cache, ingest, cache, queue the run | `Intake` |
| Idempotency cache | `services/idempotency.py`, `core/redis.py` | answers in Redis with a time to live | look up, store, both best effort | `Intake` |
| Intake transaction | `services/intake.py` | `Application`, `Communication`, `Document` rows | resolve or create the application, build documents, commit, replay on a key conflict | `Intake` |
| Object store | `services/object_store.py` | payloads and exports on disk | persist (temporary file, then rename), path checks | `Intake` (payloads), `LosExport` (outbox) |
| Pipeline | `services/pipeline.py`, `graph/builder.py`, `db/session.py` | a session per run with the application loaded once | load, claim, run the four nodes | `Pipeline`, `RunOrder` |
| ingest_route | `graph/nodes/ingest_route.py` | `Document.raw_text`, audit rows | read and parse documents, collect messages, commit | `Pipeline` |
| extract_trace | `graph/nodes/extract_trace.py` | `ExtractedFact` rows, audit rows | call the model, validate quotes, replace the facts, or degrade | `Pipeline`, `FactValues`, `ModelClient`, `SourceTrace` |
| reconcile | `graph/nodes/reconcile.py` | anomaly audit rows | compare stated with documented facts | `Pipeline`, `FactValues` |
| chase | `graph/nodes/chase.py` | outbound `Communication` rows, `Application.status` | find what is missing, skip identical messages, send, set the outcome | `Pipeline` |
| Parsing and OCR | `services/document_parser.py`, `services/ocr.py` | none | text or a typed error | an outcome in `Pipeline` |
| Model client | `services/llm_client.py`, `core/exceptions.py` | none | call with retries, parse the answer, or raise a typed error; the mock | an outcome in `Pipeline`, in detail in `ModelClient` |
| Loan-system export | `api/routes/applications.py`, `services/los_export.py`, `services/audit_service.py` | archived XML, audit rows | check the status, build the memo, archive, deliver, audit | `LosExport` |
| Audit trail | `api/routes/applications.py` | none (read only) | page through facts, list anomalies | `AuditTrail` |
| Rate limiter, signatures, logging, redaction, configuration | `core/`, `api/deps/` | windows in Redis (library) | allow or refuse a request | not modelled |

How they interact:

- **Webhook → intake → database.** A function call; the unique index on
  `communications.idempotency_key` is the only thing that arbitrates between
  concurrent duplicates. Redis is a shortcut in front of it and may be absent.
- **Webhook → pipeline.** A background task in the memory of the worker, started
  after the response is sent. It is lost if the worker stops, and nothing
  restarts it.
- **Pipeline ↔ pipeline.** Runs of one application share its rows and nothing
  else. A run reads `Application` once and keeps the object (`expire_on_commit=
  False`), so its idea of `status` ages while other runs commit.
- **Pipeline ↔ intake.** A delivery finds an application open and commits its
  message a moment later, by which time a run may have moved the status.
- **Run → model provider.** A network call inside a run. The provider may carry
  out, and bill, a request whose caller has given up.
- **Pipeline → export, audit trail.** Only through rows: both read status, facts
  and anomalies with several statements, and write no row a run reads.
- **Export → outbox → bank.** A file per application, then an HTTP request, then
  the audit row: three steps with no transaction around them.

What makes each part correct (where the code can go wrong is listed, line by
line, under `hazards` in `PROJECT.json`):

- *Webhook, cache and intake*: an answer names only what is committed
  (`AckedIsDurable`); a scope enters once, and every accepted delivery is told so
  (`ImplementsInbox`); no run is queued on another borrower's application
  (`QueuedIsOwn`); every request ends and every message gets a run
  (`RequestsEnd`, `MessagesGetRun`).
- *Object store*: no document row without its payload (`DocumentHasFile`).
- *Pipeline*: `processing` has someone responsible for it (`ProcessingHasOwner`)
  and ends (`ProcessingEnds`); every text reaches a run (`MessagesAreRead`).
- *ingest_route*: a bad attachment blocks nothing (`BadAttachmentNeverBlocks`,
  violated); later messages are not left out, unless runs overlap
  (`FactsCoverMessages`).
- *extract_trace*: facts lead to sources that were read (`FactsTraceable`); an
  extraction is replaced as a whole (`GenerationsAtomic`), and nothing older than
  the run that replaced it is left (`NoStaleFacts`); a failed call is visible in
  the status (`FailureFlipsToReview` and `CaughtFailureFlips`, both violated;
  `LoneFailureFlips`).
- *reconcile*: contradicting facts are reported (`NoSilentMismatch`).
- *chase*: the borrower is told the outcome (`OutcomeAnnounced`), and once
  (`NoDuplicateChase`, violated; `NoRepeatAfterEnd`); an application that is ready
  is complete, or a race took its facts away (`ReadyIsCompleteOrRaced`).
- *Export*: the bank hears only of applications whose borrower was told
  (`DeliveredWasAnnounced`); the outbox never shows part of a memo
  (`OutboxIsWhole`); audit rows and deliveries match (`AuditMatchesDelivery`); a
  memo is the whole of one extraction, and complete, unless runs raced
  (`MemoIsOneExtraction`, `MemoLacksOnlyByRace`); a ready application can be
  exported (`ReadyExportSucceeds`, violated).
- *Audit trail*: whoever sees a contradiction sees its anomaly
  (`TrailShowsMismatch`).
- *Model client*: a run pays once (`PaidOnce`); the loop ends with an answer or a
  typed error (`ResponsePresent`); the audited code names what happened
  (`CodeNamesCause`); a fact's quote is a passage of its source
  (`FactsHavePassage`); and all of it is an outcome `Pipeline` allows
  (`ImplementsPipeline`).

## 2. Modules

    FactValues ◄── Pipeline ◄── MCPipeline                          (TLC)
                      ▲
                      ├── RunOrder ◄── MCRunOrder                    (TLC)
                      │       ▲
                      │       └── LosExport ◄── MCLosExport          (TLC)
                      ├── AuditTrail ◄── MCAuditTrail                (TLC)
       SourceTrace ◄──┴── ModelClient ◄── MCModelClient              (TLC)
    Inbox ◄──INSTANCE── Intake ◄── MCIntake                          (TLC)

`A ◄── B` means that `B` extends `A`; `MCRunOrder` also extends `MCPipeline`. The
proof modules (TLAPS) follow the same lines: `PipelineProofs`; `RunOrderProofs`,
`AuditTrailProofs` and `ModelClientProofs`, each of which extends its component
and `PipelineProofs` (the last also `SourceTraceProofs`); `LosExportProofs`,
which extends `LosExport` and `RunOrderProofs`; and `IntakeProofs`.

**`FactValues`**: values of facts and the pure functions on them: `Coerce`
(`_coerce_value`), `AsNumber` (`_as_number`), `Listed`, `Differs` and `Conflict`
(`reconcile`, `_compare`). A value is a record `[kind, n]`: a JSON number, a
string that reads as a number once blanks, commas and a leading `$` are gone,
any other string, or null. The 5% tolerance is exact integer arithmetic.

**`Pipeline`**: one application. Runs of different applications share no row, so
one application is the whole story. Variables are the rows (`status`, `msg`,
`rawText`, `facts`, `sent`, `anomalies`, `audit`) and each run's locals (`pc`,
`mem`, `parsed`, ...). A step of a run is what it does between two points at
which other runs can change what it has read:

| Action | Code |
| --- | --- |
| `Resolve`, `Store`, `Redeliver` | the intake as one application sees it: found open, then committed to, then a run is queued |
| `Load`, `Claim` | `run_pipeline`: load the application; `pending_docs` becomes `processing` |
| `ReadDocuments`, `CommitIngest`, `IngestRefused` | `ingest_route`: parse, then read the messages and commit everything, or the commit raises |
| `SkipExtract`, `Degrade`, `Escape` | no source; the model call failed with an error the node catches; with one it does not |
| `DeleteFacts`, `CommitFacts` | model answer, validation, `DELETE`; then `INSERT`s and commit |
| `ReconcileFacts` | one `SELECT`, comparison, anomaly rows, commit |
| `ReadFacts`, `CheckDuplicate`, `CommitChase` | missing keys; channel and identical-message query; message, status, audit row, commit |
| `Abort` | the worker stops, or an error nobody has foreseen ends the run, anywhere |

`Escape` and `Abort` differ in who may take them. Any run whose sources are not
empty may take `Escape` (the place of the run is then `escaped`), since the
errors it stands for are raised by the code itself on answers that come
(`services/llm_client.py:107`, `:158`, `:169`, `:192`). `Abort` (`aborted`) is a
killed worker, and limited to the runs `Fragile`.

Three details of the code that the model keeps because properties depend on them:

- *The unit of work.* `mem[r]` is the status in the run's session. Assigning the
  value it already holds emits no `UPDATE` (`Flushed`), whatever is in the row.
- *READ COMMITTED.* `DeleteFacts` fixes the rows its `DELETE` sees (`doomed`);
  rows another run commits between then and `CommitFacts` survive.
- *The wording of a chase* depends on the channel only while something is
  missing (`Wording`), which decides when two messages are identical.

An answer holds any of the constant `Entities`, including ones whose quote is in
no source (`quoted = FALSE`), but no more than `MaxEntities` of them: an
`ExtractionResult` has at most 50 facts (`schemas/extraction.py:17`), and an
answer with more fails validation like any other malformed one (`AnswersFrom`).

**`RunOrder`**: the runs of `Pipeline` with a history variable, `before`: the runs
that had ended when a run was queued. Nothing keeps two runs of an application
apart, so no property may assume that they do not overlap. What a run does
promise is an order in real time: it answers for everything that had ended
before it was queued. `Overlapped(q, r)` says that neither had; the properties of
this module allow a wrong result only if such a pair (or a run that died) is
there to be blamed. `LosExport` adds a history of its own, `beside`: the runs at
work between the two `SELECT`s of a request.

**`Intake`**: the webhook from the request to the queued run, for several
borrowers and applications. A delivery that creates an application or a message
gives it its own name, as the generated identifiers do. `Find`/`Create` include
the building of documents, since nothing is awaited between; `Commit`,
`Conflict`, `Replay`, `ReplayDenied` and `Refused` are the outcomes of the
transaction; `Miss` is also what an outage of Redis looks like; `StoreAnswer`
may fail; `Expire` is the end of an answer's life; `Crash` stops the worker.
`RunMoves` lets a started run set any of the statuses `Outcomes`: it stands for
`Pipeline`, of which `Intake` needs no more.

**`Inbox`**: the abstract specification of the webhook. A scope (`user:key`) is
admitted at most once; a delivery is accepted by naming the admitted message of
its scope, or refused, once. `Intake` implements it under the mapping
`inbox <- comms`, `reply <- Reply`.

**`LosExport`**: `POST /applications/{id}/export-los` next to the runs of
`RunOrder`. A
request's `place` is named for its next step: `Refuse`/`Admit` (the application
and its status), `SelectFacts`, then `MemoFails` or `OpenTemp`, `WriteTemp`,
`Rename` (the memo and the outbox: nothing is awaited between, so `OutboxFree`
lets one request of the process in at a time, but the process may stop between
any two), `Deliver` or `DeliveryFails` (which leaves open whether the bank took
the memo), `CommitExport` (the audit row), and `Stop`. `Kept` is the cap of 50
facts. `MemoFails` is what a fact with a document does: the `SELECT` did not load
`fact.document`, and an asynchronous session cannot load it later.

**`AuditTrail`**: `GET /applications/{id}/audit-trail` next to the pipeline:
`RefuseTrail`, `FindApplication`, `ReadPage`, `ReadAnomalies`. The rows of one
transaction have one `created_at`, so the order of a page is not determined and
`Pages` leaves the choice of rows open.

**`ModelClient`**: the runs of `Pipeline` with the model call in detail. `Ask`
sends an attempt; `Execute` is the provider carrying it out, then, later or after
nobody waits any more; `RateLimited` ends an attempt and sleeps or gives up;
`Wake` ends the pause; `Break` is every other error, with its code; `Answer` and
`ParseFails` read the reply; `Accept` is `_validate_entities`;
`CatchAndDegrade` is the `except` of the node. `MockRaises` and `MockFinds` are
the mock extractor. Either may come by what it cannot handle (`Unusable`: a
response without choices; in the mock an amount without digits, a quote longer
than an entity may have, too many finds), and `AnswerEscapes` is the error of no
type the node catches. `Pipeline`'s `Degrade`, `Escape` and `DeleteFacts` are what
the call looks like from outside; `ImplementsPipeline` says that it looks like nothing
else. A provider that refuses a request (rate limit, credentials, malformed) has
not carried it out; that is the one assumption about it.

**`SourceTrace`**: `_contains` on sequences of characters: `Normalised` (lower
case, every gap one blank), `Occurs` (substring). The normal form is the
characters of the text at some positions (`Pick`, `Leads`), counted by their rank
and not by recursion, which is what makes it possible to prove about all texts.
`HasPassage` is what a match is meant to be, without the normal form: a passage
of the text with the quote's letters, in order, and gaps before the same letters.

**`MCPipeline`, `MCRunOrder`, `MCIntake`, `MCLosExport`, `MCAuditTrail`, `MCModelClient`**:
constants for TLC.

Operators whose comment starts with "Fault:" are plausible bugs of the code. No
specification uses them; substituting one for the definition below it breaks the
property it is listed with in `PROJECT.json`, which shows that the property
depends on that line.

## 3. Runs

| Run | Configuration | What it shows |
| --- | --- | --- |
| `pipeline_overlap` | `MCRunOrder.cfg` | Three runs in any interleaving, each of which may die anywhere: typing, `ProcessingHasOwner`, `NoSilentMismatch`, `GenerationsAtomic`, `FactsTraceable`, `OutcomeAnnounced`; and the real-time order: `NoStaleFacts`, `NoRepeatAfterEnd`, `ReadyIsCompleteOrRaced`, `FactsCoverMessages`, `LoneFailureFlips`. About 2.4 million states. |
| `pipeline_progress` | `MCAuditTrail.cfg` | With fairness and overlap, and a document that may fail to parse: `ProcessingEnds`, `MessagesAreRead`; and an officer who reads the audit trail meanwhile: typing, `TrailShowsMismatch`. About 220 000 states. |
| `intake` | `MCIntake.cfg` | A message, its retry and another message of the borrower, Redis failing, a crash: also an over-long key and a bad attachment of another borrower: typing, `AckedIsDurable`, `DocumentHasFile`, `ImplementsInbox`. About 500 000 states. |
| `intake_progress` | `MCIntakeProgress.cfg` | Two messages of one borrower, one of another whose scope collides, and one the database refuses: `QueuedIsOwn`, `RequestsEnd`, `MessagesGetRun`. |
| `failure_not_flipped` | `MCPipelineStale.cfg` | violated, finding 1 |
| `failure_escapes` | `MCPipelineEscape.cfg` | violated, finding 2 |
| `duplicate_chase` | `MCPipelineDuplicate.cfg` | violated, finding 3 |
| `bad_attachment` | `MCPipelineRefused.cfg` | violated, finding 4 |
| `export` | `MCLosExport.cfg` | Two export requests next to two runs that may overlap and die anywhere, one delivery failing or its worker stopping anywhere: typing, `DeliveredWasAnnounced`, `OutboxIsWhole`, `AuditMatchesDelivery`, `MemoIsOneExtraction`, `MemoLacksOnlyByRace`. About 1.2 million states. |
| `model_client` | `MCModelClient.cfg` | Two overlapping runs, one of which may die, that call the model with up to three attempts, or the mock, and answers the client cannot handle: typing, `PaidOnce`, `ResponsePresent`, `CodeNamesCause`, `FactsHavePassage`, and, with fairness, `ImplementsPipeline` (safety and liveness). About 185 000 states. |
| `replayed_ack` | `MCIntakeReplay.cfg` | violated, finding 5 |
| `ready_export` | `MCLosExportReady.cfg` | violated, finding 6 |

What a careless reader expects of runs that follow one another (a single
extraction in the table, a ready application complete, every text covered, every
message sent once, every failure visible) fails when they overlap, and nothing in
the code keeps them apart. The properties of `RunOrder` say what is left of it in
every interleaving; findings 1 and 3 are the two of these expectations that the
repository states without a condition.

### Bounds, and why they are enough

- *Runs*: three. Every hazard of the pipeline needs two runs (one that reads, one
  that changes what was read); the third is the one that has died in between, or
  comes after the damage. `Runs` bounds the redeliveries as well.
- *Messages*: two, which may arrive in either order, one with a text and one, sent
  later, with a document only, so that the "latest message" and a late message
  matter. In `pipeline_overlap` they have one channel, so that the same words can
  come from runs that saw different messages; in `pipeline_progress` the document
  may fail to parse (then a run may have no source at all), and the channels
  differ. A document that is refused is `model_client`'s.
- *Entities*: a stated income of 6000 and a documented one of "5,200" (a
  mismatch beyond 5%, of two kinds of value) in the runs of the pipeline: they can
  conflict, and either can be missing. The export has one more without a value,
  which counts as missing; quotes that are in no source are `model_client`'s.
- *Deliveries*: five where crashes are explored; four, without crashes, for the
  liveness run. Two deliveries of one scope and one of another are what the key
  conflict, the replay and the shared application need; the rest end early.
- *Outcomes*: the statuses a run may give an application in `Intake` are one open
  status and the one that is not. The intake asks no more of a status than
  whether it is open.
- *Export*: two requests, so that one can find what the other left in the outbox,
  one of them unlucky. The cap is the number of entities an answer can hold
  (`MaxFacts = MaxEntities = 2`, one less than there are entities, so that both
  limits are met), as 50 is both in the code. Two runs suffice for a memo that
  lacks a value: one that decides and one that takes the facts away.
- *Audit trail*: one reader with a page of two facts, enough for a contradiction
  and too short for the facts of two extractions.
- *Model client*: `MaxRetries = 2`, the default of `llm_max_retries`, so that a
  first, a middle and a last attempt exist. Answers are subsets of three
  entities, of two at most: one quoting a document with a gap the document has, one quoting the
  chat in other case and punctuation, one whose quote ("52") is in the letters of
  the chat but in no passage of it.
- Symmetry: in `pipeline_overlap` and `export` the runs are interchangeable; both
  have safety properties only.
- `CHECK_DEADLOCK FALSE` everywhere: the finite supply of deliveries and runs is
  used up and the system rests.

### Fairness, and why the code justifies it

`Pipeline!FairSpec` and `Intake!FairSpec` assume weak fairness of each run's and
each delivery's own steps (`Step(r)`, `Handle(d)`), and of nothing else: the
event loop schedules every ready task, the model call has a timeout and a bounded
number of attempts, and the database answers or raises. No message is assumed to
arrive, no retry to be made, no cached answer to expire, and neither outcome of
a choice (a model call failing, Redis answering) is assumed to occur
eventually. `LosExport` is checked for safety only. `ModelClient` has the steps of a run with
its call (`RunStep(r)`: every attempt has `llm_timeout_seconds` and every pause
an end); the provider's `Execute` is not fair. `AuditTrail` asks nothing of its
readers. `ProcessingEnds`, `MessagesAreRead` and the liveness of the intake are
checked only where no run or worker is killed (`Fragile = {}`): with a crash they
are false, since queued tasks live in memory. An uncaught error of the model call
is not assumed away: `ProcessingEnds` excepts the run it ended, and
`FailureFlipsToReview` (finding 2) is what that exception costs.

## 4. What is proved

Every invariant and action property that a passing run checks is a theorem, and
so is the refinement of `Inbox`; only liveness is left to the runs.

### The pipeline, and what reads it

`PipelineProofs` proves for every set of runs, messages, documents and entities,
with any overlap and any runs dying, from the named assumptions on the
constants in `Pipeline` (types of the functions, `Texts \subseteq Messages`,
documents are not messages, `RequiredKeys \subseteq KnownKeys`,
`Fragile \subseteq Runs`, `MaxEntities \in Nat`). That `Runs` is finite is not
assumed.

| Theorem | Property | Argument |
| --- | --- | --- |
| `TypeCorrect` | `TypeOK` | Inductive by itself. Lemmas `ValuesClosed`, `RowType`, `ReportType`: coercion and listing stay in the value type, so rows do. |
| `ProcessingOwned` | `ProcessingHasOwner` | Inductive with `TypeOK`. A run's `mem` changes only as it moves (`QuietSteps`); the step that leaves `processing` to others would have to change `mem` without writing the row, which `Flushed` excludes. |
| `GenerationsStandTogether` | `GenerationsAtomic` | Not inductive: it needs that a run past its commit no longer changes its draft, and that each `doomed` set holds whole generations too (`GenerationsInv`), because the `DELETE` saw a committed state. |
| `FactsAlwaysTraceable` | `FactsTraceable` | Strengthened to `TraceInv`: the drafts are traceable too, from validation on; and texts once stored stay stored. |
| `OutcomeAlwaysAnnounced` | `OutcomeAnnounced` | Strengthened to `AnnouncedInv`: a run about to skip its message (`dup`) has an identical one in the table, because messages are never deleted. |
| `MismatchNeverSilent` | `NoSilentMismatch` | With `RowsWritten` (every fact in the table belongs to a run past its commit): of two contradicting rows, the run that committed later has still to reconcile, and then sees both. |

The modules about the components that extend `Pipeline` prove under the
assumptions above and those named in the component (`ExportAssumption`,
`TrailAssumption`, `ClientAssumption`). Each first proves that its specification
implements `Pipeline`'s, by a lemma that every step is a step of `Pipeline` or a
stutter; all theorems of `PipelineProofs` then hold in it as well.

| Theorem | Property | Argument |
| --- | --- | --- |
| `ExportKeepsPipeline`, `TrailKeepsPipeline` | `Spec` of `Pipeline` | Requests write no variable of the pipeline. |
| `ClientKeepsPipeline` | `Spec` of `Pipeline` | `Accept` is `DeleteFacts`: what `_validate_entities` lets through is a set of entities with a source the run has read (`AcceptedAreValidated`, `AcceptIsDelete`); an error the node catches is `Degrade`, one it does not is `Escape` (`AnswerEscapes`); the rest of the call is a stutter. |
| `ExportTyped`, `ClientTyped`, `TrailTyped` | `ExportTypeOK`, `ClientTypeOK`, `TrailTypeOK` | Inductive, the second as part of `CallInv`; the third needs that the table of facts is finite (`FiniteFacts`), for a page to be a choice of at most `PageSize` rows of it. |
| `DeliveredAlwaysAnnounced` | `DeliveredWasAnnounced` | `AdmittedTold`: no request is admitted before the borrower is told, by `OutcomeAlwaysAnnounced` at the look at the status; messages are never deleted, so it still holds at the delivery. |
| `OutboxAlwaysWhole` | `OutboxIsWhole` | `OutboxInv`: at most one request is at the outbox, what it renames is what it wrote, and a request past the outbox has left a file there. |
| `AuditAlwaysMatches` | `AuditMatchesDelivery` | Strengthened by the request at `audit` being in the bank's set. |
| `MismatchAlwaysShown` | `TrailShowsMismatch` | `ShownInv`: the page's contradictions are reported when it is read (`MismatchNeverSilent`), and reports stay (`ReportsStay`). |
| `AlwaysPaidOnce`, `ResponseAlwaysPresent`, `CodeAlwaysNamesCause` | `PaidOnce`, `ResponsePresent`, `CodeNamesCause` | `CallInv`: while the loop goes on every attempt so far was refused, so the provider has at most the one under way (`InLoop`); once it is left the last outcome is an answer or the cause of the code (`AfterLoop`, `Cause`). For every `MaxRetries`. |
| `FactsAlwaysQuoted` | `FactsHavePassage` | `QuotedInv`: a draft is made of entities of the reply whose quotes the check has found, and a reply stands once the call has returned (`ReturnedStays`). That a quote which is found is a passage is `MatchIsPassage`. |
| `MatchIsPassage` (in `SourceTraceProofs`) | | For all texts and quotes: equal normal forms make the positions the quote keeps correspond, in order, to those of a passage (`Corresponds`); corresponding positions have equal ranks, since the positions before them are in bijection (`SameCount`), so letters and gaps agree (`SameShape`). Its one assumption is that a blank is no word character (`TraceAssumption`). |

`Frames` is the common lemma: what a run's locals may do in one step, stated once
so that each invariant looks only at the few actions that can disturb it.

### The order of runs

`RunOrderProofs` proves the properties of `RunOrder` for any number of messages
and runs, overlapping and dying as they like. No theorem assumes anything about
who overlaps whom: overlap is in the conclusion, as the only excuse.

| Theorem | Property | Argument |
| --- | --- | --- |
| `FactsNeverStale` | `NoStaleFacts` | `FreshInv`: a run that had ended before `r` was queued commits no more, so its rows are in the table when `r` begins its `DELETE`, and in `doomed[r]` until it commits. |
| `NeverRepeatsAfterEnd` | `NoRepeatAfterEnd` | `RepeatInv`: a run at `send` with the words of a run that had ended before it has found them (`dup`), since that message was in the table at the check. |
| `FactsAlwaysCover` | `FactsCoverMessages` | `CoverInv`: every stored text has a reader, one to come, or one that died; and a run reads all that the runs before it have read. If the reader had replaced the facts and not overlapped the fact's writer, one of the two was before the other: either the writer knew the text, or its fact was replaced (`NoStaleFacts`). |
| `LoneFailuresFlip` | `LoneFailureFlips` | `LoneInv`: if the status in a session is not the row's, a run that overlapped it wrote the row. So a failing run that writes nothing although the row says something else has such a run beside it. |
| `ReadyAlwaysCompleteOrRaced` | `ReadyIsCompleteOrRaced` | `ReadyInv`: the status is ready by the word of a run that found nothing missing and for which the facts still vouch (`Vouched`), or were replaced next to it or after it; a run queued after it that comes to its end sets its own status (`VouchedStays`). |

`OrderInv` is their common base: types, the history (`OrderOK`: who had ended has
ended), and what a run leaves behind at each place (`Past`); `HistoryOf` says that
two runs which overlapped stay so. The memos rest on it (`LosExportProofs`):

| Theorem | Property | Argument |
| --- | --- | --- |
| `MemosHoldOneExtraction` | `MemoIsOneExtraction` | `MemoInv`: the rows in the table are of runs that overlapped (`NoStaleFacts`) or the whole draft of one (`GenerationsAtomic`, lemma `FactsWhole`); no draft exceeds `MaxEntities` (`DraftsBounded`), so the cap drops nothing (`KeptWhole`). It assumes `MaxEntities <= MaxFacts`: the cap of `los_export.py:17` is there "to align with" the schema's. |
| `MemosLackOnlyByRace` | `MemoLacksOnlyByRace` | `LackInv`: what `ReadyInv` says at the look at the status is carried to the reading of the facts; a run that takes them away in between is at work beside the request (`TakenAway`), and its decision stands (`DecidedStays`). |

### The intake

`IntakeProofs` proves for every set of deliveries, borrowers, scopes and
documents, with any worker stopping, from the assumptions named in `Intake`.

| Theorem | Property | Argument |
| --- | --- | --- |
| `IntakeTyped` | `TypeOK` | Not inductive by itself: the rows a reply lists must exist. `TypeInv` adds that every message is in an application that exists and a delivery at its commit has one of its own borrower (`Housed`), and that whoever is past the transaction has an answer (`Answered`). |
| `AckedAlwaysDurable` | `AckedIsDurable` | `DurableInv`: with the documents of a message in the table by the time it is (`DocsOfMessages`); rows are never deleted (`RowsStay`), and the cache is filled with answers that were given (`CacheFills`). |
| `DocumentAlwaysHasFile` | `DocumentHasFile` | `FilesInv`: a delivery between the writing of payloads and the commit has its files on disk (`PayloadsWritten`). |
| `QueuedAlwaysOwn` | `QueuedIsOwn` | `OwnInv`: whoever goes on to queue a run has an answer that names an application of its own borrower. A commit has it by `Housed`, a replay by the check of `Replayable`; a cached answer may be another borrower's, but queues nothing. |
| `IntakeImplementsInbox` | `ImplementsInbox` | `InboxStep`: the commit that inserts a message is the step of the inbox that enters its scope; a replay or a cached answer replies with the message that is in the scope already (`InScope`, `AnswersCome`, `OneReply`); everything else is a stutter. |

Only model-checked: liveness (`ProcessingEnds`, `MessagesAreRead`,
`RequestsEnd`, `MessagesGetRun`, and the fairness half of
`ImplementsPipeline`, whose safety half is `ClientKeepsPipeline`). It needs
`ENABLED` and weak fairness, which the prover does not reason about.

## 5. Findings

1. **A failed model call may not flip the status.** `README.md:124` says failures
   flip the application to `manual_review`. A run that loaded `manual_review`
   assigns the value it already has and writes nothing
   (`graph/nodes/extract_trace.py:55`); if another run has set another status
   since, it stays. This violates `CaughtFailureFlips`; `LoneFailureFlips`, which
   is proved, says that it takes another run.
2. **A failure that is not caught flips nothing and logs no code.** The same
   sentence of the README covers every failure. `extract_trace` catches five error
   types; a response without choices raises an `IndexError`
   (`services/llm_client.py:107`), and the mock a `ValueError` for an amount
   without digits (`:158`) and a `ValidationError` for a quote over 2000
   characters (`:169`) or more than 50 finds (`:192`). A single run that meets one
   ends with the application in `processing` (`FailureFlipsToReview`).
3. **Identical messages.** `tests/test_integration.py:47` says re-runs must not
   send identical messages. The query and the insert are not one step and no
   constraint backs them (`graph/nodes/chase.py:35`): two overlapping runs send
   both.
4. **One attachment can block an application.** `README.md:97` says it never
   does. Text that decodes but that the database refuses (a NUL character) makes
   the ingest commit raise (`graph/nodes/ingest_route.py:68`), outside the caught
   errors; the application stays in `processing`, and every later run ends there.
5. **The replayed answer is not the original one.** `services/intake.py:60` says
   "Replay the original ack". The replay lists all documents of the application
   (`services/intake.py:95`), including those of later messages.
6. **A ready application with a documented fact cannot be exported.**
   `tests/test_applications.py:77` names the test "that export succeeds when
   application is ready_for_los" (it is skipped). `build_credit_memo_xml` reads
   `fact.document` (`services/los_export.py:45`), which the `SELECT` of the
   export does not load (`api/routes/applications.py:105`), unlike that of the
   audit trail (`:42`). In an asynchronous session the late load raises, nothing
   catches it, and the request ends as an internal error before anything is
   archived.

## 6. Not modelled, and why

- Confidence scores, snippets, prompts, costs, log lines: no decision of the code
  modelled here depends on them.
- Text extraction and OCR: external libraries; only the outcome matters (text, an
  error that is caught, a text the database refuses).
- The rate limiter (a library's windows in Redis), webhook signatures (a pure
  check of one request), logging and redaction (text), migrations.
- The text of the prompt. It is cut at 80,000 characters, so late sources may
  never reach the model; `FactsCoverMessages` counts what a run hands to the
  client.
- Several worker processes writing one outbox: `OutboxFree` holds in one
  process, which is how the repository starts the server. With several, the one
  temporary name per application is shared.
- Columns of audit rows other than the action, the code and what an anomaly says.
  So nothing is said of `README.md:124`'s prompt and raw response for a call that
  fails.
- A cached answer of another borrower whose scoped key coincides: `QueuedIsOwn`
  covers the replay and the queue, not what the answer tells.
- That the bank's API answers within its timeout: a fact about the HTTP client.
- Several pages of one reader of the audit trail: see `Pages`.
- Two applications of one borrower: `Intake` reaches states where two first
  messages create two applications. The code has no constraint against it and
  promises none, so no property speaks of it yet.

## 7. Plan

Done: `FactValues`, `Pipeline`, `RunOrder`, `Inbox`, `Intake`, `LosExport`,
`AuditTrail`, `SourceTrace`, `ModelClient`, and theorems for every safety property
of theirs that a passing run checks. Left:

1. An abstract life cycle of an application (which statuses follow which, who may
   change them) refined by `RunOrder`, as a theorem.
2. That `LosExport`, with its outbox and bank, is an abstract ledger of memos
   delivered and audited.
