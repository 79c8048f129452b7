------------------------------ MODULE Pipeline ------------------------------
(***************************************************************************)
(* The agent pipeline on ONE application: run_pipeline (services/          *)
(* pipeline.py) and the four graph nodes it drives - ingest_route,         *)
(* extract_trace, reconcile and chase.                                     *)
(*                                                                         *)
(* Every accepted webhook queues a run as a background task, so several    *)
(* runs of one application execute at once, in one or several workers.     *)
(* Each run has its own database session.  A step of a run is what it does *)
(* between two awaits on which other runs can change what it has read: a   *)
(* SELECT that is used later, or a commit.  Runs on different applications *)
(* share no row, so one application is the whole story.                    *)
(*                                                                         *)
(* The database runs at PostgreSQL's default isolation, READ COMMITTED:    *)
(* every statement sees what is committed when the statement starts.       *)
(***************************************************************************)
EXTENDS FactValues, FiniteSets

CONSTANTS
  Runs,          \* runs of the pipeline, each started at most once
  Messages,      \* inbound messages, each one a webhook delivery
  Texts,         \* the messages that carry text
  Docs,          \* attachments
  DocOf,         \* the message an attachment came with
  ChannelOf,     \* sms or email
  SentAt,        \* the timestamp of a message
  Unreadable,    \* documents no parser accepts
  Flaky,         \* documents whose parsing may fail (OCR down, file missing)
  Unstorable,    \* documents whose text the database refuses
  Entities,      \* what the language model may return
  MaxEntities,   \* the entities an answer holds at most
  KnownKeys,     \* KNOWN_FACT_KEYS
  RequiredKeys,  \* REQUIRED_FACT_KEYS
  Fragile        \* the runs that may be killed or raise on the way

Channels == {"sms", "email"}
Sources == Docs \cup Texts

ASSUME SourcesAssumption ==
  /\ Texts \subseteq Messages
  /\ Docs \cap Messages = {}
  /\ DocOf \in [Docs -> Messages]
  /\ ChannelOf \in [Messages -> Channels]
  /\ SentAt \in [Messages -> Nat]
  /\ Unreadable \subseteq Docs /\ Flaky \subseteq Docs /\ Unstorable \subseteq Docs

ASSUME EntitiesAssumption ==
  Entities \subseteq [key : STRING, src : Sources, val : Value, quoted : BOOLEAN]

ASSUME AnswerAssumption == MaxEntities \in Nat

ASSUME KeysAssumption == RequiredKeys \subseteq KnownKeys

ASSUME EnvironmentAssumption == Fragile \subseteq Runs

Statuses == {"pending_docs", "processing", "manual_review", "ready_for_los"}
OpenStatuses == {"pending_docs", "processing", "manual_review"}

\* A run's place is named for the step it takes next.
Working == {"load", "claim", "read", "ingest", "extract", "persist",
            "reconcile", "chase", "dedupe", "send"}
Ended == {"done", "degraded", "escaped", "aborted"}
Places == {"idle"} \cup Working \cup Ended

VARIABLES
  \* rows of the database
  status,     \* Application.status
  msg,        \* how far the intake of a message is: new, resolved or stored
  rawText,    \* the documents whose raw_text is committed
  facts,      \* ExtractedFact rows, each tagged with the run that wrote it
  sent,       \* outbound Communication rows
  anomalies,  \* AuditLog rows of action reconcile.anomaly
  audit,      \* the other AuditLog rows
  \* the local variables of each run
  pc,         \* where the run is
  mem,        \* application.status in the run's session, never refreshed
  parsed,     \* the documents in parsed_documents
  failed,     \* the documents whose parsing raised
  chats,      \* the messages in stated_messages
  draft,      \* the fact rows the run inserts
  doomed,     \* the fact rows its DELETE found
  missing,    \* the required keys it found no value for
  channel,    \* the channel it picked for its outbound message
  dup         \* did it find its outbound message already sent?

dbVars == <<status, msg, rawText, facts, sent, anomalies, audit>>
localVars == <<mem, parsed, failed, chats, draft, doomed, missing, channel, dup>>
vars == <<dbVars, pc, localVars>>

Fact == [run : Runs, key : KnownKeys, val : Value, src : Sources]
Content == [missing : SUBSET RequiredKeys, form : Channels \cup {"any"}]
Outbound == [run : Runs, channel : Channels, content : Content]
Anomaly == [run : Runs, key : KnownKeys, stated : Value, documented : Value, document : Docs]
NoDoc == "none"
AuditRow == [run : Runs, action : {"ingest.parse_failed"}, doc : Docs]
       \cup [run : Runs, action : {"extract.trace", "extract.degraded", "chase.sent"},
             doc : {NoDoc}]

Init ==
  /\ status = "pending_docs"
  /\ msg = [m \in Messages |-> "new"]
  /\ rawText = {} /\ facts = {} /\ sent = {} /\ anomalies = {} /\ audit = {}
  /\ pc = [r \in Runs |-> "idle"]
  /\ mem = [r \in Runs |-> "pending_docs"]
  /\ parsed = [r \in Runs |-> {}] /\ failed = [r \in Runs |-> {}]
  /\ chats = [r \in Runs |-> {}]
  /\ draft = [r \in Runs |-> {}] /\ doomed = [r \in Runs |-> {}]
  /\ missing = [r \in Runs |-> {}]
  /\ channel = [r \in Runs |-> "sms"] /\ dup = [r \in Runs |-> FALSE]

Stored(ms) == {m \in ms : msg[m] = "stored"}
StoredDocs == {d \in Docs : msg[DocOf[d]] = "stored"}
Quiet == \A r \in Runs : pc[r] \notin Working

Undecided == \E m \in Messages : msg[m] = "resolved"

Goto(r, place) == pc' = [pc EXCEPT ![r] = place]
-----------------------------------------------------------------------------
(***************************************************************************)
(* The intake, as far as one application sees it.  The first message       *)
(* creates the application in its own transaction; later ones find it once *)
(* that is committed, while it is open, and are committed to it whatever   *)
(* its status has become by then.  A delivery whose key is already in the  *)
(* database queues one more run and stores nothing.                        *)
(***************************************************************************)
Created == \E m \in Messages : msg[m] = "stored"

Resolve(m) ==
  /\ msg[m] = "new" /\ status \in OpenStatuses
  /\ Created \/ ~Undecided
  /\ msg' = [msg EXCEPT ![m] = "resolved"]
  /\ UNCHANGED <<status, rawText, facts, sent, anomalies, audit, pc, localVars>>

Store(m, r) ==
  /\ msg[m] = "resolved" /\ pc[r] = "idle"
  /\ msg' = [msg EXCEPT ![m] = "stored"]
  /\ Goto(r, "load")
  /\ UNCHANGED <<status, rawText, facts, sent, anomalies, audit, localVars>>

Redeliver(m, r) ==
  /\ msg[m] = "stored" /\ pc[r] = "idle"
  /\ Goto(r, "load")
  /\ UNCHANGED <<dbVars, localVars>>
-----------------------------------------------------------------------------
(***************************************************************************)
(* run_pipeline.  The session keeps the status it loaded or last set: the  *)
(* session factory turns off expiry, and no node reads the row again.  A   *)
(* flush writes a column only if its value in the session changed, so      *)
(* assigning the status the session already holds writes nothing.          *)
(***************************************************************************)
\* Fault: a run does not take an application back from ready_for_los.
FlushedUnlessReady(r, new) == IF status = "ready_for_los" THEN status ELSE new

Flushed(r, new) == IF mem[r] = new THEN status ELSE new

Assign(r, new) ==
  /\ status' = Flushed(r, new)
  /\ mem' = [mem EXCEPT ![r] = new]

Load(r) ==
  /\ pc[r] = "load"
  /\ mem' = [mem EXCEPT ![r] = status]
  /\ Goto(r, IF status = "pending_docs" THEN "claim" ELSE "read")
  /\ UNCHANGED <<dbVars, parsed, failed, chats, draft, doomed, missing, channel, dup>>

Claim(r) ==
  /\ pc[r] = "claim"
  /\ Assign(r, "processing")
  /\ Goto(r, "read")
  /\ UNCHANGED <<msg, rawText, facts, sent, anomalies, audit, parsed, failed, chats,
                 draft, doomed, missing, channel, dup>>
-----------------------------------------------------------------------------
(***************************************************************************)
(* ingest_route.  A document whose text is already stored is not parsed    *)
(* again; one that cannot be parsed is audited and left out.  The commit   *)
(* writes all new texts at once, and fails as a whole if the database      *)
(* refuses one of them.                                                    *)
(***************************************************************************)
Unparsable(bad) ==
  /\ Unreadable \cap (StoredDocs \ rawText) \subseteq bad
  /\ bad \subseteq (Unreadable \cup Flaky) \cap (StoredDocs \ rawText)

ReadDocuments(r) ==
  /\ pc[r] = "read"
  /\ \E bad \in SUBSET (Unreadable \cup Flaky) :
       /\ Unparsable(bad)
       /\ failed' = [failed EXCEPT ![r] = bad]
       /\ parsed' = [parsed EXCEPT ![r] = StoredDocs \ bad]
  /\ Goto(r, "ingest")
  /\ UNCHANGED <<dbVars, mem, chats, draft, doomed, missing, channel, dup>>

\* Fault: only the latest message is read, and its text, if it has one.
LatestText ==
  {m \in Stored(Texts) : \A n \in Stored(Messages) : SentAt[n] <= SentAt[m]}

InboundTexts == Stored(Texts)

CommitIngest(r) ==
  /\ pc[r] = "ingest"
  /\ parsed[r] \cap Unstorable = {}
  /\ chats' = [chats EXCEPT ![r] = InboundTexts]
  /\ rawText' = rawText \cup parsed[r]
  /\ audit' = audit \cup [run : {r}, action : {"ingest.parse_failed"}, doc : failed[r]]
  /\ Goto(r, "extract")
  /\ UNCHANGED <<status, msg, facts, sent, anomalies, mem, parsed, failed, draft, doomed,
                 missing, channel, dup>>

\* The commit raises, nothing catches it, and the run ends.
IngestRefused(r) ==
  /\ pc[r] = "ingest"
  /\ parsed[r] \cap Unstorable # {}
  /\ Goto(r, "aborted")
  /\ UNCHANGED <<dbVars, localVars>>
-----------------------------------------------------------------------------
(***************************************************************************)
(* extract_trace.  Without a source the model is not called.  If the call  *)
(* fails with an error the node catches, the application is set to         *)
(* manual_review and the graph ends; any other error ends the run there.   *)
(* Otherwise the entities whose quote is found in the source they name     *)
(* replace all facts of the application: one DELETE, which sees the facts  *)
(* committed when it starts, then the INSERTs and one commit.              *)
(***************************************************************************)
\* The answers about S that pass validation: one that is too long is a failed call.
AnswersFrom(S) == {T \in SUBSET S : IsFiniteSet(T) /\ Cardinality(T) <= MaxEntities}

NoSources(r) == parsed[r] \cup chats[r] = {}

\* Fault: a quote is accepted whatever source it names.
ValidatedUntraced(r, e) == e.key \in KnownKeys /\ e.quoted

Validated(r, e) ==
  /\ e.key \in KnownKeys
  /\ e.quoted
  /\ e.src \in parsed[r] \cup chats[r]

Row(r, e) == [run |-> r, key |-> e.key, val |-> Coerce(e.key, e.val), src |-> e.src]

SkipExtract(r) ==
  /\ pc[r] = "extract" /\ NoSources(r)
  /\ Goto(r, "reconcile")
  /\ UNCHANGED <<dbVars, localVars>>

Degrade(r) ==
  /\ pc[r] = "extract" /\ ~NoSources(r)
  /\ Assign(r, "manual_review")
  /\ audit' = audit \cup {[run |-> r, action |-> "extract.degraded", doc |-> NoDoc]}
  /\ Goto(r, "degraded")
  /\ UNCHANGED <<msg, rawText, facts, sent, anomalies, parsed, failed, chats, draft, doomed,
                 missing, channel, dup>>

\* An error of the call that is none of the five the node catches: the run ends
\* as it stands, with no code in the audit and no status.
Escape(r) ==
  /\ pc[r] = "extract" /\ ~NoSources(r)
  /\ Goto(r, "escaped")
  /\ UNCHANGED <<dbVars, localVars>>

DeleteFacts(r) ==
  /\ pc[r] = "extract" /\ ~NoSources(r)
  /\ \E returned \in AnswersFrom(Entities) :
       draft' = [draft EXCEPT ![r] = {Row(r, e) : e \in {x \in returned : Validated(r, x)}}]
  /\ doomed' = [doomed EXCEPT ![r] = facts]
  /\ Goto(r, "persist")
  /\ UNCHANGED <<dbVars, mem, parsed, failed, chats, missing, channel, dup>>

\* Fault: a fact replaces only the earlier fact of its key and source.
ReplacedBySource(r) ==
  {f \in facts : \A g \in draft[r] : <<g.key, g.src>> # <<f.key, f.src>>} \cup draft[r]

\* Fault: nothing is deleted.
ReplacedNone(r) == facts \cup draft[r]

Replaced(r) == (facts \ doomed[r]) \cup draft[r]

CommitFacts(r) ==
  /\ pc[r] = "persist"
  /\ facts' = Replaced(r)
  /\ audit' = audit \cup {[run |-> r, action |-> "extract.trace", doc |-> NoDoc]}
  /\ Goto(r, "reconcile")
  /\ UNCHANGED <<status, msg, rawText, sent, anomalies, localVars>>
-----------------------------------------------------------------------------
(***************************************************************************)
(* reconcile: every stated fact against every documented fact of its key.  *)
(***************************************************************************)
Conflicting(f, g) ==
  /\ f.key = g.key
  /\ f.src \in Messages /\ g.src \in Docs
  /\ Conflict(f.key, f.val, g.val)

Report(r, f, g) ==
  [run |-> r, key |-> f.key, stated |-> Listed(f.key, f.val),
   documented |-> Listed(g.key, g.val), document |-> g.src]

\* Fault: a run compares only the facts it wrote itself.
ReportsOfOwn(r) ==
  {Report(r, p[1], p[2]) : p \in {q \in draft[r] \X draft[r] : Conflicting(q[1], q[2])}}

Reports(r) ==
  {Report(r, p[1], p[2]) : p \in {q \in facts \X facts : Conflicting(q[1], q[2])}}

ReconcileFacts(r) ==
  /\ pc[r] = "reconcile"
  /\ anomalies' = anomalies \cup Reports(r)
  /\ Goto(r, "chase")
  /\ UNCHANGED <<status, msg, rawText, facts, sent, audit, localVars>>
-----------------------------------------------------------------------------
(***************************************************************************)
(* chase.  The wording depends on the channel only while something is      *)
(* missing.                                                                *)
(***************************************************************************)
Missing == RequiredKeys \ {f.key : f \in {g \in facts : g.val # Null}}

LastChannels ==
  LET inbound == Stored(Messages)
  IN  IF inbound = {} THEN {"sms"}
      ELSE {ChannelOf[m] : m \in {n \in inbound : \A k \in inbound : SentAt[k] <= SentAt[n]}}

Wording(gaps, ch) == [missing |-> gaps, form |-> IF gaps = {} THEN "any" ELSE ch]

\* Fault: any earlier message counts as the same one.
SentAnything(content) == sent # {}

\* Fault: the table is not asked.
SentNever(content) == FALSE

AlreadySent(content) == \E s \in sent : s.content = content

ReadFacts(r) ==
  /\ pc[r] = "chase"
  /\ missing' = [missing EXCEPT ![r] = Missing]
  /\ Goto(r, "dedupe")
  /\ UNCHANGED <<dbVars, mem, parsed, failed, chats, draft, doomed, channel, dup>>

CheckDuplicate(r) ==
  /\ pc[r] = "dedupe"
  /\ \E ch \in LastChannels :
       /\ channel' = [channel EXCEPT ![r] = ch]
       /\ dup' = [dup EXCEPT ![r] = AlreadySent(Wording(missing[r], ch))]
  /\ Goto(r, "send")
  /\ UNCHANGED <<dbVars, mem, parsed, failed, chats, draft, doomed, missing>>

\* Fault: the graph's outcome is stored in place of the status.
OutcomeAsLabel(gaps) == IF gaps = {} THEN "ready_for_los" ELSE "chasing"

\* Fault: an incomplete application is not given back.
OutcomeKept(gaps) == IF gaps = {} THEN "ready_for_los" ELSE "processing"

Outcome(gaps) == IF gaps = {} THEN "ready_for_los" ELSE "pending_docs"

CommitChase(r) ==
  /\ pc[r] = "send"
  /\ Assign(r, Outcome(missing[r]))
  /\ IF dup[r]
     THEN UNCHANGED <<sent, audit>>
     ELSE /\ sent' = sent \cup {[run |-> r, channel |-> channel[r],
                                 content |-> Wording(missing[r], channel[r])]}
          /\ audit' = audit \cup {[run |-> r, action |-> "chase.sent", doc |-> NoDoc]}
  /\ Goto(r, "done")
  /\ UNCHANGED <<msg, rawText, facts, anomalies, parsed, failed, chats, draft, doomed,
                 missing, channel, dup>>
-----------------------------------------------------------------------------
\* The worker stops, or a statement raises: the open transaction rolls back
\* and nothing restarts the run.
Abort(r) ==
  /\ r \in Fragile /\ pc[r] \in Working
  /\ Goto(r, "aborted")
  /\ UNCHANGED <<dbVars, localVars>>

Step(r) ==
  \/ Load(r) \/ Claim(r)
  \/ ReadDocuments(r) \/ CommitIngest(r) \/ IngestRefused(r)
  \/ SkipExtract(r) \/ Degrade(r) \/ Escape(r) \/ DeleteFacts(r) \/ CommitFacts(r)
  \/ ReconcileFacts(r)
  \/ ReadFacts(r) \/ CheckDuplicate(r) \/ CommitChase(r)

Intake == \/ \E m \in Messages : Resolve(m)
          \/ \E m \in Messages, r \in Runs : Store(m, r) \/ Redeliver(m, r)

Next == \/ Intake
        \/ \E r \in Runs : Step(r) \/ Abort(r)

Spec == Init /\ [][Next]_vars

\* A queued background task is scheduled, and a scheduled task goes on: the
\* event loop is fair to its tasks and every await in a node returns or raises.
FairSpec == Spec /\ \A r \in Runs : WF_vars(Step(r))
-----------------------------------------------------------------------------
\* Every variable keeps its type: rows carry values of their columns, run
\* variables what the nodes put into them.
TypeOK ==
  /\ status \in Statuses
  /\ msg \in [Messages -> {"new", "resolved", "stored"}]
  /\ rawText \subseteq Docs
  /\ facts \subseteq Fact
  /\ sent \subseteq Outbound
  /\ anomalies \subseteq Anomaly
  /\ audit \subseteq AuditRow
  /\ pc \in [Runs -> Places]
  /\ mem \in [Runs -> Statuses]
  /\ parsed \in [Runs -> SUBSET Docs] /\ failed \in [Runs -> SUBSET Docs]
  /\ chats \in [Runs -> SUBSET Texts]
  /\ draft \in [Runs -> SUBSET Fact] /\ doomed \in [Runs -> SUBSET Fact]
  /\ missing \in [Runs -> SUBSET RequiredKeys]
  /\ channel \in [Runs -> Channels] /\ dup \in [Runs -> BOOLEAN]

\* An application is in processing only on behalf of a run that took it there
\* or found it there, and that is still on its way or died on it (killed, or
\* ended by an error nothing catches): a run that finished or degraded never
\* leaves that status behind, however runs overlap.
ProcessingHasOwner ==
  status = "processing" =>
    \E r \in Runs :
      mem[r] = "processing" /\ pc[r] \in Working \cup {"escaped", "aborted"}

\* A stated fact and a documented fact that contradict each other and stand
\* in the table together are reported, or one of the two runs that wrote them
\* has yet to reconcile (or died before): also when the two rows come from
\* different runs, neither of which saw both.
NoSilentMismatch ==
  \A f, g \in facts :
    Conflicting(f, g) =>
      \/ \E r \in Runs : Report(r, f, g) \in anomalies
      \/ \E r \in {f.run, g.run} : pc[r] \in {"reconcile", "aborted"}

Generation(r) == {f \in facts : f.run = r}

\* The facts of one extraction stand or go together: no overlap of DELETEs and
\* INSERTs leaves a part of a run's facts in the table.
GenerationsAtomic == \A r \in Runs : Generation(r) \in {{}, draft[r]}

\* Every fact can be traced: its document's text is stored, or its message is,
\* and the run that wrote it had read that source.
FactsTraceable ==
  \A f \in facts :
    \/ f.src \in rawText /\ f.src \in parsed[f.run] /\ msg[DocOf[f.src]] = "stored"
    \/ f.src \in chats[f.run] /\ msg[f.src] = "stored"

\* The borrower has been told the outcome of every completed run, by this run
\* or by an earlier one that sent the same words, and no application is ready
\* for the loan system without the message that says so.
OutcomeAnnounced ==
  /\ \A r \in Runs : pc[r] = "done" => \E s \in sent : s.content = Wording(missing[r], channel[r])
  /\ status = "ready_for_los" => \E s \in sent : s.content.missing = {}

\* "Failures log an error_code and flip the application to manual_review"
\* (README, of the model calls): every failed call, whatever it fails with.
FailureFlipsToReview ==
  [][\A r \in Runs :
       (pc[r] = "extract" /\ pc'[r] \in {"degraded", "escaped"}) =>
         /\ status' = "manual_review"
         /\ [run |-> r, action |-> "extract.degraded", doc |-> NoDoc] \in audit']_vars

\* The same of the errors the node catches.
CaughtFailureFlips ==
  [][\A r \in Runs : (pc[r] = "extract" /\ pc'[r] = "degraded")
                        => status' = "manual_review"]_vars

\* "The chase node must not spam borrowers with identical messages across
\* re-runs" (tests/test_integration.py).
NoDuplicateChase == \A s, t \in sent : s.content = t.content => s = t

\* "one bad attachment never blocks an application" (README): when all runs
\* have ended, and none was killed or met an error of the model call that
\* nothing catches, the application is not left in processing.
BadAttachmentNeverBlocks ==
  (Quiet /\ \A r \in Runs : pc[r] # "escaped") => status # "processing"

\* Processing ends: with no run killed and no text refused, an application in
\* processing gets another status, or a run that held it there was ended by an
\* error of the model call that nothing catches.
ProcessingEnds ==
  (status = "processing") ~>
    (status # "processing" \/ \E r \in Runs : mem[r] = "processing" /\ pc[r] = "escaped")

\* Every stored text is handed to the model by a run that comes to its end.
MessagesAreRead ==
  \A m \in Texts :
    (msg[m] = "stored") ~>
      (\E r \in Runs : m \in chats[r] /\ pc[r] \in {"done", "degraded", "escaped"})
=============================================================================
