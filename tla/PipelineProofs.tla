--------------------------- MODULE PipelineProofs ---------------------------
(***************************************************************************)
(* Theorems about Pipeline, for every set of runs, messages, documents and *)
(* entities, and for every choice of the runs that may die.                *)
(***************************************************************************)
EXTENDS Pipeline, FiniteSetTheorems, TLAPS

USE DEF Channels, Statuses, OpenStatuses

\* The values _coerce_value and the reconcile dictionaries produce are values.
LEMMA ValuesClosed ==
  ASSUME NEW v \in Value, NEW key
  PROVE  Coerce(key, v) \in Value /\ Listed(key, v) \in Value
BY DEF Value, Kinds, Coerce, Listed, AsNumber, IsNumeric, Number, Null

\* A function has at most as many values as arguments.
LEMMA ValuesBounded ==
  ASSUME NEW S, IsFiniteSet(S), NEW f, DOMAIN f = S
  PROVE  /\ IsFiniteSet({f[x] : x \in S})
         /\ Cardinality({f[x] : x \in S}) <= Cardinality(S)
<1> DEFINE T == {f[x] : x \in S}
           g == [x \in S |-> f[x]]
<1>1. g \in Surjection(S, T)
  BY DEF Surjection
<1> QED BY <1>1, FS_Surjection

\* A validated entity becomes a row of the facts table.
LEMMA RowType ==
  ASSUME NEW r \in Runs, NEW e \in Entities, Validated(r, e)
  PROVE  Row(r, e) \in Fact
<1>1. e.val \in Value /\ e.src \in Sources /\ e.key \in KnownKeys
  BY EntitiesAssumption DEF Validated
<1>2. Coerce(e.key, e.val) \in Value
  BY <1>1, ValuesClosed
<1> QED BY <1>1, <1>2 DEF Row, Fact

\* A reported pair becomes an anomaly row.
LEMMA ReportType ==
  ASSUME NEW r \in Runs, facts \subseteq Fact
  PROVE  Reports(r) \subseteq Anomaly
<1> SUFFICES ASSUME NEW p \in facts \X facts, Conflicting(p[1], p[2])
             PROVE  Report(r, p[1], p[2]) \in Anomaly
  BY DEF Reports
<1>1. p[1] \in Fact /\ p[2] \in Fact
  OBVIOUS
<1>2. /\ p[1].key \in KnownKeys /\ p[2].key \in KnownKeys
      /\ p[1].val \in Value /\ p[2].val \in Value
  BY <1>1 DEF Fact
<1>3. p[2].src \in Docs
  BY DEF Conflicting
<1>4. /\ Listed(p[1].key, p[1].val) \in Value
      /\ Listed(p[2].key, p[2].val) \in Value
  BY <1>2, ValuesClosed
<1> QED BY <1>2, <1>3, <1>4 DEF Report, Anomaly

LEMMA TypeInit == Init => TypeOK
BY DEF Init, TypeOK, Places, Working, Ended

\* Each step keeps the types of all variables.
LEMMA TypeStep == TypeOK /\ [Next]_vars => TypeOK'
<1> SUFFICES ASSUME TypeOK, [Next]_vars PROVE TypeOK'
  OBVIOUS
<1> USE DEF TypeOK, Places, Working, Ended, Goto
<1>1. ASSUME NEW m \in Messages, Resolve(m) PROVE TypeOK'
  BY <1>1 DEF Resolve, localVars
<1>2. ASSUME NEW m \in Messages, NEW r \in Runs, Store(m, r) PROVE TypeOK'
  BY <1>2 DEF Store, localVars
<1>3. ASSUME NEW m \in Messages, NEW r \in Runs, Redeliver(m, r) PROVE TypeOK'
  BY <1>3 DEF Redeliver, localVars, dbVars
<1>4. ASSUME NEW r \in Runs, Load(r) PROVE TypeOK'
  BY <1>4 DEF Load, dbVars
<1>5. ASSUME NEW r \in Runs, Claim(r) PROVE TypeOK'
  BY <1>5 DEF Claim, Assign, Flushed
<1>6. ASSUME NEW r \in Runs, ReadDocuments(r) PROVE TypeOK'
  BY <1>6, SourcesAssumption DEF ReadDocuments, StoredDocs, dbVars
<1>7. ASSUME NEW r \in Runs, CommitIngest(r) PROVE TypeOK'
  <2>1. [run : {r}, action : {"ingest.parse_failed"}, doc : failed[r]] \subseteq AuditRow
    BY DEF AuditRow
  <2>2. InboundTexts \in SUBSET Texts
    BY DEF InboundTexts, Stored
  <2> QED BY <1>7, <2>1, <2>2 DEF CommitIngest
<1>8. ASSUME NEW r \in Runs, IngestRefused(r) PROVE TypeOK'
  BY <1>8 DEF IngestRefused, dbVars, localVars
<1>9. ASSUME NEW r \in Runs, SkipExtract(r) PROVE TypeOK'
  BY <1>9 DEF SkipExtract, dbVars, localVars
<1>10. ASSUME NEW r \in Runs, Degrade(r) PROVE TypeOK'
  <2>1. [run |-> r, action |-> "extract.degraded", doc |-> NoDoc] \in AuditRow
    BY DEF AuditRow
  <2> QED BY <1>10, <2>1 DEF Degrade, Assign, Flushed
<1>11. ASSUME NEW r \in Runs, DeleteFacts(r) PROVE TypeOK'
  <2>1. PICK returned \in AnswersFrom(Entities) :
          draft' = [draft EXCEPT ![r] = {Row(r, e) : e \in {x \in returned : Validated(r, x)}}]
    BY <1>11 DEF DeleteFacts
  <2>2. {Row(r, e) : e \in {x \in returned : Validated(r, x)}} \subseteq Fact
    BY RowType DEF AnswersFrom
  <2>3. draft' \in [Runs -> SUBSET Fact]
    BY <2>1, <2>2
  <2> QED BY <1>11, <2>3 DEF DeleteFacts, dbVars
<1>12. ASSUME NEW r \in Runs, CommitFacts(r) PROVE TypeOK'
  <2>1. [run |-> r, action |-> "extract.trace", doc |-> NoDoc] \in AuditRow
    BY DEF AuditRow
  <2> QED BY <1>12, <2>1 DEF CommitFacts, Replaced, localVars
<1>13. ASSUME NEW r \in Runs, ReconcileFacts(r) PROVE TypeOK'
  BY <1>13, ReportType DEF ReconcileFacts, localVars
<1>14. ASSUME NEW r \in Runs, ReadFacts(r) PROVE TypeOK'
  BY <1>14 DEF ReadFacts, Missing, dbVars
<1>15. ASSUME NEW r \in Runs, CheckDuplicate(r) PROVE TypeOK'
  <2>1. LastChannels \subseteq Channels
    BY SourcesAssumption DEF LastChannels, Stored
  <2>2. \A c : AlreadySent(c) \in BOOLEAN
    BY DEF AlreadySent
  <2> QED BY <1>15, <2>1, <2>2 DEF CheckDuplicate, dbVars
<1>16. ASSUME NEW r \in Runs, CommitChase(r) PROVE TypeOK'
  <2>1. [run |-> r, action |-> "chase.sent", doc |-> NoDoc] \in AuditRow
    BY DEF AuditRow
  <2>2. [run |-> r, channel |-> channel[r], content |-> Wording(missing[r], channel[r])]
          \in Outbound
    BY DEF Outbound, Content, Wording
  <2>3. Outcome(missing[r]) \in Statuses
    BY DEF Outcome
  <2> QED BY <1>16, <2>1, <2>2, <2>3 DEF CommitChase, Assign, Flushed
<1>17. ASSUME NEW r \in Runs, Abort(r) \/ Escape(r) PROVE TypeOK'
  BY <1>17 DEF Abort, Escape, dbVars, localVars
<1>18. CASE UNCHANGED vars
  BY <1>18 DEF vars, dbVars, localVars
<1> QED
  BY <1>1, <1>2, <1>3, <1>4, <1>5, <1>6, <1>7, <1>8, <1>9, <1>10, <1>11, <1>12, <1>13,
     <1>14, <1>15, <1>16, <1>17, <1>18 DEF Next, Intake, Step

\* Every reachable state is well typed: no node writes a status, a fact, a
\* message or an audit row the tables and the run's variables cannot hold.
THEOREM TypeCorrect == Spec => []TypeOK
BY TypeInit, TypeStep, PTL DEF Spec
-----------------------------------------------------------------------------
(***************************************************************************)
(* ProcessingHasOwner is inductive together with TypeOK.  Only four steps  *)
(* touch the status or a session's copy of it; every other one moves at    *)
(* most one run, from a working place to a working place or to its death.  *)
(***************************************************************************)
Holding == Working \cup {"escaped", "aborted"}

\* Steps that leave status and the sessions' copies alone never make a run
\* that is on its way finish or degrade.
LEMMA QuietSteps ==
  ASSUME TypeOK, [Next]_vars,
         \A r \in Runs : ~Load(r) /\ ~Claim(r) /\ ~Degrade(r) /\ ~CommitChase(r)
  PROVE  /\ UNCHANGED <<status, mem>>
         /\ \A r \in Runs : pc[r] \in Holding => pc'[r] \in Holding
<1> USE DEF TypeOK, Goto, Holding, Working, localVars, dbVars
<1>1. ASSUME NEW m \in Messages, Resolve(m) PROVE UNCHANGED <<status, mem, pc>>
  BY <1>1 DEF Resolve
<1>2. ASSUME NEW m \in Messages, NEW q \in Runs, Store(m, q) \/ Redeliver(m, q)
      PROVE  UNCHANGED <<status, mem>> /\ pc[q] = "idle" /\ pc' = [pc EXCEPT ![q] = "load"]
  BY <1>2 DEF Store, Redeliver
<1>3. ASSUME NEW q \in Runs, Step(q) \/ Abort(q)
      PROVE  /\ UNCHANGED <<status, mem>>
             /\ \E place \in Holding : pc' = [pc EXCEPT ![q] = place]
  <2>1. CASE Abort(q) \/ IngestRefused(q) \/ Escape(q)
    BY <2>1 DEF Abort, IngestRefused, Escape
  <2>2. CASE ReadDocuments(q) \/ CommitIngest(q)
    BY <2>2 DEF ReadDocuments, CommitIngest
  <2>3. CASE SkipExtract(q) \/ DeleteFacts(q) \/ CommitFacts(q)
    BY <2>3 DEF SkipExtract, DeleteFacts, CommitFacts
  <2>4. CASE ReconcileFacts(q) \/ ReadFacts(q) \/ CheckDuplicate(q)
    BY <2>4 DEF ReconcileFacts, ReadFacts, CheckDuplicate
  <2> QED BY <1>3, <2>1, <2>2, <2>3, <2>4 DEF Step
<1>4. CASE UNCHANGED vars
  BY <1>4 DEF vars
<1> QED
  BY <1>1, <1>2, <1>3, <1>4 DEF Next, Intake

LEMMA OwnerStep == TypeOK /\ ProcessingHasOwner /\ [Next]_vars => ProcessingHasOwner'
<1> SUFFICES ASSUME TypeOK, ProcessingHasOwner, [Next]_vars, status' = "processing"
             PROVE  \E r \in Runs : mem'[r] = "processing" /\ pc'[r] \in Holding
  BY DEF ProcessingHasOwner, Holding
<1> USE DEF TypeOK, Goto, Holding, Working
<1>1. ASSUME NEW q \in Runs, Load(q) PROVE \E r \in Runs : mem'[r] = "processing" /\ pc'[r] \in Holding
  BY <1>1 DEF Load, dbVars
<1>2. ASSUME NEW q \in Runs, Claim(q) PROVE \E r \in Runs : mem'[r] = "processing" /\ pc'[r] \in Holding
  BY <1>2 DEF Claim, Assign
<1>3. ASSUME NEW q \in Runs, Degrade(q) \/ CommitChase(q)
      PROVE  \E r \in Runs : mem'[r] = "processing" /\ pc'[r] \in Holding
  <2>1. PICK new \in {"manual_review", "ready_for_los", "pending_docs"} : Assign(q, new)
    BY <1>3 DEF Degrade, CommitChase, Outcome
  <2>2. mem[q] = new /\ status = "processing"
    BY <2>1 DEF Assign, Flushed
  <2>3. PICK o \in Runs : mem[o] = "processing" /\ pc[o] \in Holding
    BY <2>2 DEF ProcessingHasOwner
  <2>4. o # q
    BY <2>2, <2>3
  <2>5. mem'[o] = mem[o] /\ pc'[o] = pc[o]
    BY <1>3, <2>1, <2>4 DEF Degrade, CommitChase, Assign
  <2> QED BY <2>3, <2>5
<1>4. CASE \A r \in Runs : ~Load(r) /\ ~Claim(r) /\ ~Degrade(r) /\ ~CommitChase(r)
  <2>1. UNCHANGED <<status, mem>> /\ \A r \in Runs : pc[r] \in Holding => pc'[r] \in Holding
    BY <1>4, QuietSteps
  <2> QED BY <2>1 DEF ProcessingHasOwner
<1> QED BY <1>1, <1>2, <1>3, <1>4

\* An application in processing always has a run that is responsible for it:
\* however many runs overlap, the last of them to end gives the status back,
\* unless it died.
THEOREM ProcessingOwned == Spec => []ProcessingHasOwner
<1>1. Init => ProcessingHasOwner
  BY DEF Init, ProcessingHasOwner
<1> QED
  BY <1>1, TypeCorrect, OwnerStep, PTL DEF Spec
-----------------------------------------------------------------------------
(***************************************************************************)
(* What a step leaves alone.  Rows of messages, texts, messages sent and   *)
(* anomalies are only ever added; facts change in CommitFacts alone; what  *)
(* a run has read, drafted or decided stays as it is once it has moved on. *)
(***************************************************************************)
Written == {"reconcile", "chase", "dedupe", "send", "done", "aborted"}

Frame ==
  /\ \A r \in Runs : pc[r] \in Written => pc'[r] \in Written
  /\ \A r \in Runs : pc[r] \in {"reconcile", "aborted"} =>
        pc'[r] \in {"reconcile", "aborted"} \/ ReconcileFacts(r)
  /\ \A r \in Runs : pc[r] = "done" => pc'[r] = "done"
  /\ \A r \in Runs : pc'[r] = "send" => pc[r] = "send" \/ CheckDuplicate(r)
  /\ \A r \in Runs : pc'[r] = "done" => pc[r] = "done" \/ CommitChase(r)
  /\ \A r \in Runs : pc'[r] \in {"extract", "persist"} =>
        pc[r] \in {"extract", "persist"} \/ CommitIngest(r)
  /\ \A r \in Runs : pc'[r] = "ingest" =>
        (pc[r] = "ingest" /\ parsed'[r] = parsed[r]) \/ ReadDocuments(r)
  /\ \A r \in Runs : pc'[r] = "persist" =>
        (pc[r] = "persist" /\ draft'[r] = draft[r]) \/ DeleteFacts(r)
  /\ \A m \in Messages : msg[m] = "stored" => msg'[m] = "stored"
  /\ rawText \subseteq rawText' /\ sent \subseteq sent' /\ anomalies \subseteq anomalies'
  /\ \A r \in Runs : pc[r] \in {"extract", "persist"} \cup Written =>
        parsed'[r] = parsed[r] /\ chats'[r] = chats[r]
  /\ \A r \in Runs : pc[r] \in {"send", "done"} =>
        missing'[r] = missing[r] /\ channel'[r] = channel[r] /\ dup'[r] = dup[r]
  /\ facts' # facts => \E r \in Runs : CommitFacts(r)
  /\ draft' # draft \/ doomed' # doomed => \E r \in Runs : DeleteFacts(r)
  /\ status' = "ready_for_los" => status = "ready_for_los" \/ \E r \in Runs : CommitChase(r)

LEMMA Frames == TypeOK /\ [Next]_vars => Frame
<1> SUFFICES ASSUME TypeOK, [Next]_vars PROVE Frame
  OBVIOUS
<1> USE DEF TypeOK, Goto, Frame, Written
<1>1. ASSUME NEW m \in Messages, Resolve(m) PROVE Frame
  BY <1>1 DEF Resolve, localVars
<1>2. ASSUME NEW m \in Messages, NEW q \in Runs, Store(m, q) PROVE Frame
  BY <1>2 DEF Store, localVars
<1>3. ASSUME NEW m \in Messages, NEW q \in Runs, Redeliver(m, q) PROVE Frame
  BY <1>3 DEF Redeliver, localVars, dbVars
<1>4. ASSUME NEW q \in Runs, Load(q) PROVE Frame
  BY <1>4 DEF Load, dbVars
<1>5. ASSUME NEW q \in Runs, Claim(q) PROVE Frame
  BY <1>5 DEF Claim, Assign, Flushed
<1>6. ASSUME NEW q \in Runs, ReadDocuments(q) PROVE Frame
  BY <1>6 DEF ReadDocuments, dbVars
<1>7. ASSUME NEW q \in Runs, CommitIngest(q) PROVE Frame
  BY <1>7 DEF CommitIngest
<1>8. ASSUME NEW q \in Runs, IngestRefused(q) \/ Escape(q) \/ Abort(q) PROVE Frame
  BY <1>8 DEF IngestRefused, Escape, Abort, Working, dbVars, localVars
<1>9. ASSUME NEW q \in Runs, SkipExtract(q) PROVE Frame
  BY <1>9 DEF SkipExtract, dbVars, localVars
<1>10. ASSUME NEW q \in Runs, Degrade(q) PROVE Frame
  BY <1>10 DEF Degrade, Assign, Flushed
<1>11. ASSUME NEW q \in Runs, DeleteFacts(q) PROVE Frame
  <2>1. UNCHANGED <<dbVars, mem, parsed, failed, chats, missing, channel, dup>>
    BY <1>11 DEF DeleteFacts
  <2>2. pc[q] = "extract" /\ pc' = [pc EXCEPT ![q] = "persist"]
    BY <1>11 DEF DeleteFacts
  <2>3. \A o \in Runs : o # q => draft'[o] = draft[o]
    BY <1>11 DEF DeleteFacts
  <2> QED BY <1>11, <2>1, <2>2, <2>3 DEF dbVars
<1>12. ASSUME NEW q \in Runs, CommitFacts(q) PROVE Frame
  BY <1>12 DEF CommitFacts, localVars
<1>13. ASSUME NEW q \in Runs, ReconcileFacts(q) PROVE Frame
  BY <1>13 DEF ReconcileFacts, localVars
<1>14. ASSUME NEW q \in Runs, ReadFacts(q) PROVE Frame
  BY <1>14 DEF ReadFacts, dbVars
<1>15. ASSUME NEW q \in Runs, CheckDuplicate(q) PROVE Frame
  BY <1>15 DEF CheckDuplicate, dbVars
<1>16. ASSUME NEW q \in Runs, CommitChase(q) PROVE Frame
  BY <1>16 DEF CommitChase, Assign
<1>17. CASE UNCHANGED vars
  BY <1>17 DEF vars, dbVars, localVars
<1> QED
  BY <1>1, <1>2, <1>3, <1>4, <1>5, <1>6, <1>7, <1>8, <1>9, <1>10, <1>11, <1>12, <1>13,
     <1>14, <1>15, <1>16, <1>17 DEF Next, Intake, Step
-----------------------------------------------------------------------------
(***************************************************************************)
(* Rows: a row stands in the table, or in what a run's DELETE found, only  *)
(* after the run that wrote it has committed it; drafts carry their run.   *)
(***************************************************************************)
RowsWritten ==
  /\ \A f \in facts : pc[f.run] \in Written
  /\ \A q \in Runs : \A f \in doomed[q] : pc[f.run] \in Written
  /\ \A q \in Runs : \A f \in draft[q] : f.run = q

LEMMA RowsWrittenStep == TypeOK /\ RowsWritten /\ [Next]_vars => RowsWritten'
<1> SUFFICES ASSUME TypeOK, RowsWritten, [Next]_vars PROVE RowsWritten'
  OBVIOUS
<1>1. Frame
  BY Frames
<1>2. \A f \in Fact : f.run \in Runs
  BY DEF Fact
<1>3. ASSUME NEW r \in Runs, CommitFacts(r) PROVE RowsWritten'
  <2>1. facts' = Replaced(r) /\ UNCHANGED <<draft, doomed>> /\ pc'[r] = "reconcile"
    BY <1>3 DEF CommitFacts, localVars, Goto, TypeOK
  <2>2. \A f \in facts' : f \in facts \/ f.run = r
    BY <2>1 DEF Replaced, RowsWritten
  <2> QED BY <1>1, <1>2, <2>1, <2>2 DEF RowsWritten, Frame, Written, TypeOK
<1>4. ASSUME NEW r \in Runs, DeleteFacts(r) PROVE RowsWritten'
  <2>1. PICK returned \in AnswersFrom(Entities) :
          draft' = [draft EXCEPT ![r] = {Row(r, e) : e \in {x \in returned : Validated(r, x)}}]
    BY <1>4 DEF DeleteFacts
  <2>2. \A f \in draft'[r] : f.run = r
    BY <2>1 DEF Row, TypeOK
  <2>3. \A p \in Runs : p # r => draft'[p] = draft[p]
    BY <2>1 DEF TypeOK
  <2>4. doomed' = [doomed EXCEPT ![r] = facts] /\ facts' = facts
    BY <1>4 DEF DeleteFacts, dbVars
  <2> QED BY <1>1, <1>2, <2>2, <2>3, <2>4 DEF RowsWritten, Frame, TypeOK
<1>5. CASE UNCHANGED <<facts, draft, doomed>>
  BY <1>1, <1>2, <1>5 DEF RowsWritten, Frame, TypeOK
<1> QED
  BY <1>1, <1>3, <1>4, <1>5 DEF Frame

(***************************************************************************)
(* GenerationsAtomic.  The strengthening says the same of the rows that    *)
(* each run's DELETE found: all rows of a run or none.                     *)
(***************************************************************************)
GenerationsInv ==
  /\ RowsWritten
  /\ GenerationsAtomic
  /\ \A q, r \in Runs : {f \in doomed[q] : f.run = r} \in {{}, draft[r]}

LEMMA GenerationsStep == TypeOK /\ GenerationsInv /\ [Next]_vars => GenerationsInv'
<1> SUFFICES ASSUME TypeOK, GenerationsInv, [Next]_vars PROVE GenerationsInv'
  OBVIOUS
<1>1. RowsWritten'
  BY RowsWrittenStep DEF GenerationsInv
<1>2. ASSUME NEW q \in Runs, CommitFacts(q) PROVE GenerationsInv'
  <2>1. facts' = Replaced(q) /\ UNCHANGED <<draft, doomed>> /\ pc[q] = "persist"
    BY <1>2 DEF CommitFacts, localVars
  <2>2. ASSUME NEW r \in Runs PROVE Generation(r)' \in {{}, draft[r]}
    <3>1. CASE r = q
      <4>1. Generation(q) = {}
        BY <2>1 DEF GenerationsInv, RowsWritten, Written, Generation
      <4>2. Generation(q)' = draft[q]
        BY <2>1, <4>1 DEF Generation, Replaced, GenerationsInv, RowsWritten
      <4> QED BY <3>1, <4>2
    <3>2. CASE r # q
      <4>1. Generation(r)' = Generation(r) \ {f \in doomed[q] : f.run = r}
        BY <2>1, <3>2 DEF Generation, Replaced, GenerationsInv, RowsWritten
      <4> QED BY <4>1 DEF GenerationsInv, GenerationsAtomic
    <3> QED BY <3>1, <3>2
  <2> QED BY <1>1, <2>1, <2>2 DEF GenerationsInv, GenerationsAtomic
<1>3. ASSUME NEW q \in Runs, DeleteFacts(q) PROVE GenerationsInv'
  <2>1. /\ doomed' = [doomed EXCEPT ![q] = facts] /\ facts' = facts /\ pc[q] = "extract"
        /\ \A r \in Runs : r # q => draft'[r] = draft[r]
    BY <1>3 DEF DeleteFacts, dbVars, TypeOK
  <2>2. /\ \A f \in facts : f.run # q
        /\ \A p \in Runs : \A f \in doomed[p] : f.run # q
    BY <2>1 DEF GenerationsInv, RowsWritten, Written
  <2>3. ASSUME NEW r \in Runs PROVE Generation(r)' \in {{}, draft'[r]}
    BY <2>1, <2>2 DEF Generation, GenerationsInv, GenerationsAtomic
  <2>4. ASSUME NEW p \in Runs, NEW r \in Runs
        PROVE  {f \in doomed'[p] : f.run = r} \in {{}, draft'[r]}
    <3>1. CASE p = q
      BY <2>1, <2>3, <3>1 DEF Generation, TypeOK
    <3>2. CASE p # q
      <4>1. doomed'[p] = doomed[p]
        BY <2>1, <3>2 DEF TypeOK
      <4> QED BY <2>1, <2>2, <4>1 DEF GenerationsInv
    <3> QED BY <3>1, <3>2
  <2> QED BY <1>1, <2>3, <2>4 DEF GenerationsInv, GenerationsAtomic
<1>4. CASE UNCHANGED <<facts, draft, doomed>>
  BY <1>1, <1>4 DEF GenerationsInv, GenerationsAtomic, Generation
<1> QED
  BY <1>2, <1>3, <1>4, Frames DEF Frame

\* The facts of one extraction stand or go together, whatever the overlap of
\* the DELETE statements and commits of the runs.
THEOREM GenerationsStandTogether == Spec => []GenerationsAtomic
<1>1. Init => GenerationsInv
  BY DEF Init, GenerationsInv, GenerationsAtomic, Generation, RowsWritten
<1>2. GenerationsInv => GenerationsAtomic
  BY DEF GenerationsInv
<1> QED
  BY <1>1, <1>2, TypeCorrect, GenerationsStep, PTL DEF Spec
-----------------------------------------------------------------------------
(***************************************************************************)
(* FactsTraceable.  What a run read is stored from its ingest commit on,   *)
(* and a drafted row names something its run read.                         *)
(***************************************************************************)
Traceable(f) ==
  \/ f.src \in rawText /\ f.src \in parsed[f.run] /\ msg[DocOf[f.src]] = "stored"
  \/ f.src \in chats[f.run] /\ msg[f.src] = "stored"

TraceInv ==
  /\ RowsWritten
  /\ FactsTraceable
  /\ \A r \in Runs : pc[r] = "ingest" => \A d \in parsed[r] : msg[DocOf[d]] = "stored"
  /\ \A r \in Runs : pc[r] \in {"extract", "persist"} =>
        /\ \A d \in parsed[r] : d \in rawText /\ msg[DocOf[d]] = "stored"
        /\ \A m \in chats[r] : msg[m] = "stored"
  /\ \A r \in Runs : pc[r] = "persist" => \A f \in draft[r] : Traceable(f)

\* The documents a run is about to commit are those of stored messages.
LEMMA IngestStep ==
  TypeOK /\ TraceInv /\ [Next]_vars =>
    \A r \in Runs : pc'[r] = "ingest" => \A d \in parsed'[r] : msg'[DocOf[d]] = "stored"
<1> SUFFICES ASSUME TypeOK, TraceInv, [Next]_vars, NEW r \in Runs, pc'[r] = "ingest",
                    NEW d \in parsed'[r]
             PROVE  msg'[DocOf[d]] = "stored"
  OBVIOUS
<1>1. CASE ReadDocuments(r)
  BY <1>1 DEF ReadDocuments, StoredDocs, dbVars, TypeOK
<1>2. CASE ~ReadDocuments(r)
  <2>1. pc[r] = "ingest" /\ parsed'[r] = parsed[r]
    BY <1>2, Frames DEF Frame
  <2>2. DocOf[d] \in Messages
    BY <2>1, SourcesAssumption DEF TypeOK
  <2> QED BY <2>1, <2>2, Frames DEF Frame, TraceInv
<1> QED BY <1>1, <1>2

LEMMA TraceStep == TypeOK /\ TraceInv /\ [Next]_vars => TraceInv'
<1> SUFFICES ASSUME TypeOK, TraceInv, [Next]_vars PROVE TraceInv'
  OBVIOUS
<1> USE SourcesAssumption
<1>1. Frame
  BY Frames
<1>2. RowsWritten'
  BY RowsWrittenStep DEF TraceInv
<1>3. \A r \in Runs : pc'[r] = "ingest" => \A d \in parsed'[r] : msg'[DocOf[d]] = "stored"
  BY IngestStep
<1>4. ASSUME NEW r \in Runs, pc'[r] \in {"extract", "persist"}
      PROVE  /\ \A d \in parsed'[r] : d \in rawText' /\ msg'[DocOf[d]] = "stored"
             /\ \A m \in chats'[r] : msg'[m] = "stored"
  <2>1. CASE CommitIngest(r)
    <3>1. /\ pc[r] = "ingest" /\ UNCHANGED <<msg, parsed>>
          /\ rawText' = rawText \cup parsed[r] /\ chats'[r] = InboundTexts
      BY <2>1 DEF CommitIngest, TypeOK
    <3> QED BY <3>1 DEF TraceInv, InboundTexts, Stored
  <2>2. CASE pc[r] \in {"extract", "persist"}
    <3>1. parsed'[r] = parsed[r] /\ chats'[r] = chats[r]
      BY <1>1, <2>2 DEF Frame
    <3>2. parsed[r] \subseteq Docs /\ chats[r] \subseteq Messages
      BY DEF TypeOK
    <3>3. \A d \in Docs : DocOf[d] \in Messages
      OBVIOUS
    <3> QED BY <1>1, <2>2, <3>1, <3>2, <3>3 DEF Frame, TraceInv
  <2> QED BY <1>1, <1>4, <2>1, <2>2 DEF Frame
<1>5. ASSUME NEW f \in Fact, Traceable(f), pc[f.run] \in {"extract", "persist"} \cup Written
      PROVE  Traceable(f)'
  <2>1. f.run \in Runs
    BY DEF Fact
  <2>2. parsed'[f.run] = parsed[f.run] /\ chats'[f.run] = chats[f.run]
    BY <1>1, <1>5, <2>1 DEF Frame
  <2>3. f.src \in rawText => DocOf[f.src] \in Messages
    BY DEF TypeOK
  <2>4. f.src \in chats[f.run] => f.src \in Messages
    BY <2>1 DEF TypeOK
  <2> QED BY <1>1, <1>5, <2>2, <2>3, <2>4 DEF Traceable, Frame
<1>6. ASSUME NEW r \in Runs, pc'[r] = "persist" PROVE \A f \in draft'[r] : Traceable(f)'
  <2>1. CASE DeleteFacts(r)
    <3>1. PICK returned \in AnswersFrom(Entities) :
            draft' = [draft EXCEPT ![r] = {Row(r, e) : e \in {x \in returned : Validated(r, x)}}]
      BY <2>1 DEF DeleteFacts
    <3>2. draft'[r] = {Row(r, e) : e \in {x \in returned : Validated(r, x)}}
      BY <3>1 DEF TypeOK
    <3>3. pc[r] = "extract" /\ UNCHANGED <<rawText, msg, parsed, chats>>
      BY <2>1 DEF DeleteFacts, dbVars
    <3>4. ASSUME NEW e \in returned, Validated(r, e) PROVE Traceable(Row(r, e))'
      <4>1. e.src \in parsed[r] \/ e.src \in chats[r]
        BY <3>4 DEF Validated
      <4>2. Row(r, e).run = r /\ Row(r, e).src = e.src
        BY DEF Row
      <4> QED BY <3>3, <4>1, <4>2 DEF Traceable, TraceInv
    <3> QED BY <3>2, <3>4
  <2>2. CASE ~DeleteFacts(r)
    <3>1. pc[r] = "persist" /\ draft'[r] = draft[r]
      BY <1>1, <1>6, <2>2 DEF Frame
    <3>2. \A f \in draft[r] : f \in Fact /\ f.run = r /\ Traceable(f)
      BY <3>1 DEF TraceInv, RowsWritten, TypeOK
    <3> QED BY <1>5, <3>1, <3>2
  <2> QED BY <2>1, <2>2
<1>7. ASSUME NEW f \in facts' PROVE Traceable(f)'
  <2>1. CASE f \in facts
    <3>1. f \in Fact /\ Traceable(f) /\ pc[f.run] \in Written
      BY <2>1 DEF TypeOK, TraceInv, FactsTraceable, Traceable, RowsWritten
    <3> QED BY <1>5, <3>1
  <2>2. CASE f \notin facts
    <3>1. PICK r \in Runs : CommitFacts(r)
      BY <1>1, <2>2 DEF Frame
    <3>2. f \in draft[r] /\ pc[r] = "persist"
      BY <2>2, <3>1 DEF CommitFacts, Replaced
    <3>3. f \in Fact /\ f.run = r /\ Traceable(f)
      BY <3>2 DEF TypeOK, TraceInv, RowsWritten
    <3> QED BY <1>5, <3>2, <3>3
  <2> QED BY <2>1, <2>2
<1> QED BY <1>2, <1>3, <1>4, <1>6, <1>7 DEF TraceInv, FactsTraceable, Traceable

\* Every fact in the table leads back to a stored source that the run which
\* wrote the fact had read.
THEOREM FactsAlwaysTraceable == Spec => []FactsTraceable
<1>1. Init => TraceInv
  BY DEF Init, TraceInv, FactsTraceable, RowsWritten
<1>2. TraceInv => FactsTraceable
  BY DEF TraceInv
<1> QED
  BY <1>1, <1>2, TypeCorrect, TraceStep, PTL DEF Spec
-----------------------------------------------------------------------------
(***************************************************************************)
(* OutcomeAnnounced.  Between the check for an identical message and the   *)
(* commit no message disappears, so what the check found still stands.     *)
(***************************************************************************)
Announced(r) == \E s \in sent : s.content = Wording(missing[r], channel[r])

AnnouncedInv ==
  /\ OutcomeAnnounced
  /\ \A r \in Runs : pc[r] = "send" /\ dup[r] => Announced(r)

LEMMA AnnouncedStep == TypeOK /\ AnnouncedInv /\ [Next]_vars => AnnouncedInv'
<1> SUFFICES ASSUME TypeOK, AnnouncedInv, [Next]_vars PROVE AnnouncedInv'
  OBVIOUS
<1>1. Frame
  BY Frames
<1>2. ASSUME NEW r \in Runs, CommitChase(r) PROVE Announced(r)'
  <2>1. pc[r] = "send" /\ UNCHANGED <<missing, channel>>
    BY <1>2 DEF CommitChase
  <2>2. CASE dup[r]
    BY <1>1, <2>1, <2>2 DEF AnnouncedInv, Announced, Frame
  <2>3. CASE ~dup[r]
    <3>1. [run |-> r, channel |-> channel[r], content |-> Wording(missing[r], channel[r])]
            \in sent'
      BY <1>2, <2>3 DEF CommitChase
    <3> QED BY <2>1, <3>1 DEF Announced
  <2> QED BY <2>2, <2>3
<1>3. ASSUME NEW r \in Runs, pc[r] \in {"send", "done"}, Announced(r) PROVE Announced(r)'
  BY <1>1, <1>3 DEF Announced, Frame
<1>4. ASSUME NEW r \in Runs, pc'[r] = "done" PROVE Announced(r)'
  BY <1>1, <1>2, <1>3, <1>4 DEF Frame, AnnouncedInv, OutcomeAnnounced, Announced
<1>5. ASSUME NEW r \in Runs, pc'[r] = "send", dup'[r] PROVE Announced(r)'
  <2>1. CASE CheckDuplicate(r)
    <3>1. PICK ch \in LastChannels :
            /\ channel' = [channel EXCEPT ![r] = ch]
            /\ dup' = [dup EXCEPT ![r] = AlreadySent(Wording(missing[r], ch))]
      BY <2>1 DEF CheckDuplicate
    <3>2. channel'[r] = ch /\ AlreadySent(Wording(missing[r], ch))
      BY <1>5, <3>1 DEF TypeOK
    <3>3. missing' = missing /\ sent' = sent
      BY <2>1 DEF CheckDuplicate, dbVars
    <3> QED BY <3>2, <3>3 DEF AlreadySent, Announced
  <2>2. CASE pc[r] = "send"
    BY <1>1, <1>3, <1>5, <2>2 DEF Frame, AnnouncedInv
  <2> QED BY <1>1, <1>5, <2>1, <2>2 DEF Frame
<1>6. ASSUME status' = "ready_for_los" PROVE \E s \in sent' : s.content.missing = {}
  <2>1. CASE status = "ready_for_los"
    BY <1>1, <2>1 DEF Frame, AnnouncedInv, OutcomeAnnounced
  <2>2. CASE status # "ready_for_los"
    <3>1. PICK r \in Runs : CommitChase(r)
      BY <1>1, <1>6, <2>2 DEF Frame
    <3>2. status' = status \/ status' = Outcome(missing[r])
      BY <3>1 DEF CommitChase, Assign, Flushed
    <3>3. missing'[r] = {}
      BY <1>6, <2>2, <3>1, <3>2 DEF Outcome, CommitChase
    <3>4. PICK s \in sent' : s.content = Wording({}, channel'[r])
      BY <1>2, <3>1, <3>3 DEF Announced
    <3>5. s.content.missing = {}
      BY <3>4 DEF Wording
    <3> QED BY <3>5
  <2> QED BY <2>1, <2>2
<1> QED BY <1>4, <1>5, <1>6 DEF AnnouncedInv, OutcomeAnnounced, Announced

\* The borrower is told the outcome of every completed run, and never finds
\* the application ready for the loan system untold.
THEOREM OutcomeAlwaysAnnounced == Spec => []OutcomeAnnounced
<1>1. Init => AnnouncedInv
  BY DEF Init, AnnouncedInv, OutcomeAnnounced
<1>2. AnnouncedInv => OutcomeAnnounced
  BY DEF AnnouncedInv
<1> QED
  BY <1>1, <1>2, TypeCorrect, AnnouncedStep, PTL DEF Spec
-----------------------------------------------------------------------------
(***************************************************************************)
(* NoSilentMismatch.  A contradicting pair appears when the later of its   *)
(* two runs commits, and that run reconciles afterwards: it then sees both *)
(* rows, or one of them is gone.                                           *)
(***************************************************************************)
MismatchInv == RowsWritten /\ NoSilentMismatch

LEMMA MismatchStep == TypeOK /\ MismatchInv /\ [Next]_vars => MismatchInv'
<1> SUFFICES ASSUME TypeOK, MismatchInv, [Next]_vars PROVE MismatchInv'
  OBVIOUS
<1>1. Frame
  BY Frames
<1>2. RowsWritten'
  BY RowsWrittenStep DEF MismatchInv
<1>3. ASSUME NEW f \in facts', NEW g \in facts', Conflicting(f, g)
      PROVE  \/ \E r \in Runs : Report(r, f, g) \in anomalies'
             \/ \E r \in {f.run, g.run} : pc'[r] \in {"reconcile", "aborted"}
  <2>1. CASE f \notin facts \/ g \notin facts
    <3>1. PICK r \in Runs : CommitFacts(r)
      BY <1>1, <2>1 DEF Frame
    <3>2. f \in draft[r] \/ g \in draft[r]
      BY <2>1, <3>1 DEF CommitFacts, Replaced
    <3>3. r \in {f.run, g.run}
      BY <3>2 DEF MismatchInv, RowsWritten
    <3>4. pc'[r] = "reconcile"
      BY <3>1 DEF CommitFacts, Goto, TypeOK
    <3> QED BY <3>3, <3>4
  <2>2. CASE f \in facts /\ g \in facts
    <3>1. CASE \E r \in Runs : Report(r, f, g) \in anomalies
      BY <1>1, <3>1 DEF Frame
    <3>2. CASE \E r \in {f.run, g.run} : pc[r] \in {"reconcile", "aborted"}
      <4>1. PICK r \in {f.run, g.run} : pc[r] \in {"reconcile", "aborted"}
        BY <3>2
      <4>2. r \in Runs
        BY <2>2 DEF TypeOK, Fact
      <4>3. CASE ReconcileFacts(r)
        <5>1. Report(r, f, g) \in Reports(r)
          <6>1. <<f, g>> \in {q \in facts \X facts : Conflicting(q[1], q[2])}
            BY <1>3, <2>2
          <6> QED BY <6>1 DEF Reports
        <5> QED BY <4>2, <4>3, <5>1 DEF ReconcileFacts
      <4>4. CASE ~ReconcileFacts(r)
        BY <1>1, <4>1, <4>2, <4>4 DEF Frame
      <4> QED BY <4>3, <4>4
    <3> QED BY <1>3, <2>2, <3>1, <3>2 DEF MismatchInv, NoSilentMismatch
  <2> QED BY <2>1, <2>2
<1> QED BY <1>2, <1>3 DEF MismatchInv, NoSilentMismatch, Conflicting, Report

\* A contradiction between what the borrower says and what a document shows
\* never stands unreported once the runs that wrote the two facts have moved on.
THEOREM MismatchNeverSilent == Spec => []NoSilentMismatch
<1>1. Init => MismatchInv
  BY DEF Init, MismatchInv, NoSilentMismatch, RowsWritten
<1>2. MismatchInv => NoSilentMismatch
  BY DEF MismatchInv
<1> QED
  BY <1>1, <1>2, TypeCorrect, MismatchStep, PTL DEF Spec
-----------------------------------------------------------------------------
(***************************************************************************)
(* A draft holds at most as many facts as an answer, and the table has a   *)
(* finite number of rows.                                                  *)
(***************************************************************************)
DraftsBounded == \A r \in Runs : IsFiniteSet(draft[r]) /\ Cardinality(draft[r]) <= MaxEntities

LEMMA DraftBounded ==
  ASSUME TypeOK, NEW r \in Runs, DeleteFacts(r)
  PROVE  IsFiniteSet(draft'[r]) /\ Cardinality(draft'[r]) <= MaxEntities
<1>1. PICK returned \in AnswersFrom(Entities) :
        draft' = [draft EXCEPT ![r] = {Row(r, e) : e \in {x \in returned : Validated(r, x)}}]
  BY DEF DeleteFacts
<1> DEFINE valid == {x \in returned : Validated(r, x)}
           f == [e \in valid |-> Row(r, e)]
           rows == {f[e] : e \in valid}
<1>2. draft'[r] = rows /\ DOMAIN f = valid
  BY <1>1 DEF TypeOK
<1>3. IsFiniteSet(returned) /\ Cardinality(returned) <= MaxEntities /\ valid \in SUBSET returned
  BY DEF AnswersFrom
<1> HIDE DEF valid, f
<1>4. IsFiniteSet(valid) /\ Cardinality(valid) <= Cardinality(returned)
  BY <1>3, FS_Subset
<1>5. IsFiniteSet(rows) /\ Cardinality(rows) <= Cardinality(valid)
  BY <1>2, <1>4, ValuesBounded
<1>6. Cardinality(returned) \in Nat /\ Cardinality(valid) \in Nat /\ Cardinality(rows) \in Nat
  BY <1>3, <1>4, <1>5, FS_CardinalityType
<1> QED BY <1>2, <1>3, <1>4, <1>5, <1>6, AnswerAssumption

LEMMA BoundedDrafts == Spec => []DraftsBounded
<1>1. Init => DraftsBounded
  BY FS_EmptySet, AnswerAssumption DEF Init, DraftsBounded
<1>2. ASSUME TypeOK, DraftsBounded, [Next]_vars PROVE DraftsBounded'
  <2>1. ASSUME NEW r \in Runs, DeleteFacts(r), NEW q \in Runs
        PROVE  IsFiniteSet(draft'[q]) /\ Cardinality(draft'[q]) <= MaxEntities
    <3>1. CASE q = r
      BY <1>2, <2>1, <3>1, DraftBounded
    <3>2. CASE q # r
      BY <1>2, <2>1, <3>2 DEF DeleteFacts, TypeOK, DraftsBounded
    <3> QED BY <3>1, <3>2
  <2>2. CASE draft' = draft
    BY <1>2, <2>2 DEF DraftsBounded
  <2> QED BY <1>2, <2>1, <2>2, Frames DEF Frame, DraftsBounded
<1> QED BY <1>1, <1>2, TypeCorrect, PTL DEF Spec

LEMMA FiniteFacts == Spec => []IsFiniteSet(facts)
<1>1. Init => IsFiniteSet(facts)
  BY FS_EmptySet DEF Init
<1>2. ASSUME IsFiniteSet(facts), DraftsBounded, TypeOK, [Next]_vars PROVE IsFiniteSet(facts)'
  <2>1. ASSUME NEW r \in Runs, CommitFacts(r) PROVE IsFiniteSet(facts')
    <3>1. facts' = (facts \ doomed[r]) \cup draft[r]
      BY <2>1 DEF CommitFacts, Replaced
    <3>2. IsFiniteSet(facts \ doomed[r]) /\ IsFiniteSet(draft[r])
      BY <1>2, FS_Subset DEF DraftsBounded
    <3> QED BY <3>1, <3>2, FS_Union
  <2> QED BY <1>2, <2>1, Frames DEF Frame
<1> QED BY <1>1, <1>2, TypeCorrect, BoundedDrafts, PTL DEF Spec
=============================================================================
