--------------------------- MODULE LosExportProofs ---------------------------
(***************************************************************************)
(* Theorems about LosExport, for every set of requests and runs, which may *)
(* overlap and die in any way.  The runs next to an export are the runs of *)
(* RunOrder, so what is proved of Pipeline and RunOrder holds here too.    *)
(***************************************************************************)
EXTENDS LosExport, RunOrderProofs

\* Requests read the rows of the pipeline and write none of them.
LEMMA ExportStepsAreSteps ==
  [ExportNext]_<<vars, before, exportVars>> => [OrderedNext]_<<vars, before>> /\ [Next]_vars
<1> SUFFICES ASSUME [ExportNext]_<<vars, before, exportVars>>
             PROVE  [OrderedNext]_<<vars, before>> /\ [Next]_vars
  OBVIOUS
<1>1. CASE PipelineStep
  BY <1>1 DEF PipelineStep, OrderedNext
<1>2. ASSUME NEW x \in Exports, Refuse(x) \/ Admit(x) \/ Export(x) \/ Stop(x)
      PROVE  UNCHANGED <<vars, before>>
  BY <1>2 DEF Refuse, Admit, Export, Stop, SelectFacts, MemoFails, OpenTemp, WriteTemp,
              Rename, Deliver, DeliveryFails, CommitExport
<1>3. CASE UNCHANGED <<vars, before, exportVars>>
  BY <1>3
<1> QED BY <1>1, <1>2, <1>3 DEF ExportNext

\* The runs next to exports are runs in their order.
LEMMA ExportKeepsOrder == ExportSpec => OrderedSpec
<1>1. ExportInit => OrderedInit
  BY DEF ExportInit
<1> QED BY <1>1, ExportStepsAreSteps, PTL DEF ExportSpec, OrderedSpec

\* A pipeline with exports next to it is a pipeline.
THEOREM ExportKeepsPipeline == ExportSpec => Spec
BY ExportKeepsOrder, OrderedKeepsPipeline, PTL

THEOREM ExportKeepsTypes == ExportSpec => []TypeOK
BY ExportKeepsPipeline, TypeCorrect, PTL
-----------------------------------------------------------------------------
LEMMA ExportTypeInit == ExportInit => ExportTypeOK
BY DEF ExportInit, ExportTypeOK, ExportPlaces

\* Each step keeps the types of the export's variables.
LEMMA ExportTypeStep ==
  TypeOK /\ ExportTypeOK /\ [ExportNext]_<<vars, before, exportVars>> => ExportTypeOK'
<1> SUFFICES ASSUME TypeOK, ExportTypeOK, [ExportNext]_<<vars, before, exportVars>>
             PROVE  ExportTypeOK'
  OBVIOUS
<1> USE DEF ExportTypeOK, ExportPlaces, Underway, Proceed
<1>1. CASE PipelineStep
  BY <1>1 DEF PipelineStep
<1>2. ASSUME NEW x \in Exports, Refuse(x) PROVE ExportTypeOK'
  BY <1>2 DEF Refuse
<1>3. ASSUME NEW x \in Exports, Admit(x) PROVE ExportTypeOK'
  BY <1>3 DEF Admit
<1>4. ASSUME NEW x \in Exports, SelectFacts(x) PROVE ExportTypeOK'
  BY <1>4 DEF SelectFacts, TypeOK
<1>5. ASSUME NEW x \in Exports, MemoFails(x) PROVE ExportTypeOK'
  BY <1>5 DEF MemoFails
<1>6. ASSUME NEW x \in Exports, OpenTemp(x) PROVE ExportTypeOK'
  <2>1. PICK S \in Kept(read[x]) : memo' = [memo EXCEPT ![x] = S]
    BY <1>6 DEF OpenTemp
  <2>2. S \in SUBSET Fact
    BY <2>1 DEF Kept
  <2> QED BY <1>6, <2>1, <2>2 DEF OpenTemp
<1>7. ASSUME NEW x \in Exports, WriteTemp(x) PROVE ExportTypeOK'
  BY <1>7 DEF WriteTemp
<1>8. ASSUME NEW x \in Exports, Rename(x) PROVE ExportTypeOK'
  BY <1>8 DEF Rename
<1>9. ASSUME NEW x \in Exports, Deliver(x) PROVE ExportTypeOK'
  BY <1>9 DEF Deliver, Taken
<1>10. ASSUME NEW x \in Exports, DeliveryFails(x) PROVE ExportTypeOK'
  BY <1>10 DEF DeliveryFails
<1>11. ASSUME NEW x \in Exports, CommitExport(x) PROVE ExportTypeOK'
  BY <1>11 DEF CommitExport, Recorded
<1>12. ASSUME NEW x \in Exports, Stop(x) PROVE ExportTypeOK'
  BY <1>12 DEF Stop, Taken
<1>13. CASE UNCHANGED <<vars, before, exportVars>>
  BY <1>13 DEF exportVars
<1> QED
  BY <1>1, <1>2, <1>3, <1>4, <1>5, <1>6, <1>7, <1>8, <1>9, <1>10, <1>11, <1>12, <1>13
     DEF ExportNext, Export

\* Every reachable state of the export is well typed.
THEOREM ExportTyped == ExportSpec => []ExportTypeOK
BY ExportTypeInit, ExportTypeStep, ExportKeepsTypes, PTL DEF ExportSpec
-----------------------------------------------------------------------------
(***************************************************************************)
(* DeliveredWasAnnounced.  A request is admitted only while the status is  *)
(* ready_for_los, which Pipeline never sets unannounced; messages are not  *)
(* deleted, so the announcement outlives the status.                       *)
(***************************************************************************)
Told == \E s \in sent : s.content.missing = {}

AdmittedTold ==
  /\ DeliveredWasAnnounced
  /\ \A x \in Exports : place[x] \notin {"new", "refused"} => Told

LEMMA AdmittedToldStep ==
  TypeOK /\ ExportTypeOK /\ OutcomeAnnounced /\ AdmittedTold
    /\ [ExportNext]_<<vars, before, exportVars>> => AdmittedTold'
<1> SUFFICES ASSUME TypeOK, ExportTypeOK, OutcomeAnnounced, AdmittedTold,
                    [ExportNext]_<<vars, before, exportVars>>
             PROVE  AdmittedTold'
  OBVIOUS
<1>1. sent \subseteq sent'
  BY Frames, ExportStepsAreSteps DEF Frame
<1>2. Told => Told'
  BY <1>1 DEF Told
<1>3. CASE Told
  BY <1>2, <1>3 DEF AdmittedTold, DeliveredWasAnnounced, Told
<1>4. CASE ~Told
  <2>1. \A x \in Exports : place[x] \in {"new", "refused"}
    BY <1>4 DEF AdmittedTold
  <2>2. bank = {} /\ status # "ready_for_los"
    BY <1>4 DEF AdmittedTold, DeliveredWasAnnounced, OutcomeAnnounced, Told
  <2>3. ASSUME NEW x \in Exports, Admit(x) \/ Export(x) \/ Stop(x) PROVE FALSE
    BY <2>1, <2>2, <2>3 DEF Admit, Exportable, Export, Stop, Underway, SelectFacts, MemoFails,
       OpenTemp, WriteTemp, Rename, Deliver, DeliveryFails, CommitExport, Recorded
  <2>4. ASSUME NEW x \in Exports, Refuse(x)
        PROVE  bank' = {} /\ \A y \in Exports : place'[y] \in {"new", "refused"}
    BY <2>1, <2>2, <2>4 DEF Refuse, Proceed, ExportTypeOK
  <2>5. CASE PipelineStep \/ UNCHANGED <<vars, before, exportVars>>
    BY <2>1, <2>2, <2>5 DEF PipelineStep, exportVars, AdmittedTold, DeliveredWasAnnounced
  <2> QED BY <2>3, <2>4, <2>5 DEF ExportNext, AdmittedTold, DeliveredWasAnnounced
<1> QED BY <1>3, <1>4

\* The bank never hears of an application its borrower was not told of.
THEOREM DeliveredAlwaysAnnounced == ExportSpec => []DeliveredWasAnnounced
<1>1. ExportInit => AdmittedTold
  BY DEF ExportInit, AdmittedTold, DeliveredWasAnnounced
<1>2. AdmittedTold => DeliveredWasAnnounced
  BY DEF AdmittedTold
<1>3. ExportSpec => []OutcomeAnnounced
  BY ExportKeepsPipeline, OutcomeAlwaysAnnounced, PTL
<1> QED
  BY <1>1, <1>2, <1>3, AdmittedToldStep, ExportKeepsTypes, ExportTyped, PTL DEF ExportSpec
-----------------------------------------------------------------------------
(***************************************************************************)
(* OutboxIsWhole.  Not inductive: it needs that one request at a time is   *)
(* at the outbox, and that the file it renames is the one it has written.  *)
(***************************************************************************)
AtOutbox == {"write", "rename"}
Early == {"new", "refused", "select", "build", "write"}
Later == {"deliver", "audit", "done"}

OutboxInv ==
  /\ OutboxIsWhole
  /\ \A x, y \in Exports : place[x] \in AtOutbox /\ place[y] \in AtOutbox => x = y
  /\ \A x \in Exports : place[x] = "rename" => temp = x
  /\ \A x \in Exports : place[x] \in Later => outbox \in Exports

LEMMA OutboxStep ==
  ExportTypeOK /\ OutboxInv /\ [ExportNext]_<<vars, before, exportVars>> => OutboxInv'
<1> SUFFICES ASSUME ExportTypeOK, OutboxInv, [ExportNext]_<<vars, before, exportVars>>
             PROVE  OutboxInv'
  OBVIOUS
<1> USE ExportAssumption
    DEF OutboxInv, OutboxIsWhole, ExportTypeOK, AtOutbox, Later, Underway, Proceed
<1>1. CASE PipelineStep \/ UNCHANGED <<vars, before, exportVars>>
  BY <1>1 DEF PipelineStep, exportVars
<1>2. ASSUME NEW x \in Exports, Refuse(x) PROVE OutboxInv'
  BY <1>2 DEF Refuse
<1>3. ASSUME NEW x \in Exports, Admit(x) PROVE OutboxInv'
  BY <1>3 DEF Admit
<1>4. ASSUME NEW x \in Exports, SelectFacts(x) PROVE OutboxInv'
  BY <1>4 DEF SelectFacts
<1>5. ASSUME NEW x \in Exports, MemoFails(x) PROVE OutboxInv'
  BY <1>5 DEF MemoFails
<1>6. ASSUME NEW x \in Exports, OpenTemp(x) PROVE OutboxInv'
  BY <1>6 DEF OpenTemp, OutboxFree
<1>7. ASSUME NEW x \in Exports, WriteTemp(x) PROVE OutboxInv'
  BY <1>7 DEF WriteTemp
<1>8. ASSUME NEW x \in Exports, Rename(x) PROVE OutboxInv'
  BY <1>8 DEF Rename
<1>9. ASSUME NEW x \in Exports, Deliver(x) PROVE OutboxInv'
  BY <1>9 DEF Deliver, Taken
<1>10. ASSUME NEW x \in Exports, DeliveryFails(x) PROVE OutboxInv'
  BY <1>10 DEF DeliveryFails
<1>11. ASSUME NEW x \in Exports, CommitExport(x) PROVE OutboxInv'
  BY <1>11 DEF CommitExport, Recorded
<1>12. ASSUME NEW x \in Exports, Stop(x) PROVE OutboxInv'
  BY <1>12 DEF Stop, Taken
<1> QED
  BY <1>1, <1>2, <1>3, <1>4, <1>5, <1>6, <1>7, <1>8, <1>9, <1>10, <1>11, <1>12
     DEF ExportNext, Export

\* The outbox never shows a part of a memo, wherever a worker stops.
THEOREM OutboxAlwaysWhole == ExportSpec => []OutboxIsWhole
<1>1. ExportInit => OutboxInv
  BY ExportAssumption DEF ExportInit, OutboxInv, OutboxIsWhole, AtOutbox, Later
<1>2. OutboxInv => OutboxIsWhole
  BY DEF OutboxInv
<1> QED BY <1>1, <1>2, OutboxStep, ExportTyped, PTL DEF ExportSpec
-----------------------------------------------------------------------------
(***************************************************************************)
(* AuditMatchesDelivery.  Not inductive: a request that has delivered and  *)
(* has yet to commit must be known to have delivered.                      *)
(***************************************************************************)
DeliveryInv ==
  /\ AuditMatchesDelivery
  /\ CoreBankingUrl => \A x \in Exports : place[x] = "audit" => x \in bank

LEMMA DeliveryStep ==
  ExportTypeOK /\ DeliveryInv /\ [ExportNext]_<<vars, before, exportVars>> => DeliveryInv'
<1> SUFFICES ASSUME ExportTypeOK, DeliveryInv, [ExportNext]_<<vars, before, exportVars>>
             PROVE  DeliveryInv'
  OBVIOUS
<1> USE ExportAssumption
    DEF DeliveryInv, AuditMatchesDelivery, ExportTypeOK, Underway, Proceed
<1>1. CASE PipelineStep \/ UNCHANGED <<vars, before, exportVars>>
  BY <1>1 DEF PipelineStep, exportVars
<1>2. ASSUME NEW x \in Exports,
             \/ Refuse(x) \/ Admit(x) \/ SelectFacts(x) \/ MemoFails(x)
             \/ OpenTemp(x) \/ WriteTemp(x) \/ Rename(x)
      PROVE  DeliveryInv'
  BY <1>2 DEF Refuse, Admit, SelectFacts, MemoFails, OpenTemp, WriteTemp, Rename
<1>3. ASSUME NEW x \in Exports, Deliver(x) PROVE DeliveryInv'
  BY <1>3 DEF Deliver, Taken
<1>4. ASSUME NEW x \in Exports, DeliveryFails(x) PROVE DeliveryInv'
  BY <1>4 DEF DeliveryFails
<1>5. ASSUME NEW x \in Exports, CommitExport(x) PROVE DeliveryInv'
  BY <1>5 DEF CommitExport, Recorded
<1>6. ASSUME NEW x \in Exports, Stop(x) PROVE DeliveryInv'
  BY <1>6 DEF Stop, Taken
<1> QED BY <1>1, <1>2, <1>3, <1>4, <1>5, <1>6 DEF ExportNext, Export

\* Every audited export was delivered, and every answered one was audited.
THEOREM AuditAlwaysMatches == ExportSpec => []AuditMatchesDelivery
<1>1. ExportInit => DeliveryInv
  BY DEF ExportInit, DeliveryInv, AuditMatchesDelivery
<1>2. DeliveryInv => AuditMatchesDelivery
  BY DEF DeliveryInv
<1> QED BY <1>1, <1>2, DeliveryStep, ExportTyped, PTL DEF ExportSpec
-----------------------------------------------------------------------------
(***************************************************************************)
(* What a step does to one request.                                        *)
(***************************************************************************)
Memoed == {"write", "rename", "deliver", "audit", "done"}

LEMMA RequestSteps ==
  ASSUME ExportTypeOK, [ExportNext]_<<vars, before, exportVars>>, NEW x \in Exports
  PROVE  /\ place'[x] = "select" =>
              \/ Admit(x)
              \/ place[x] = "select" /\ UNCHANGED vars /\ beside'[x] = beside[x]
              \/ place[x] = "select" /\ \A r \in Runs : pc'[r] \in Working => r \in beside'[x]
         /\ place'[x] \in {"build"} \cup Memoed =>
              SelectFacts(x) \/ (place[x] \in {"build"} \cup Memoed /\ read'[x] = read[x])
         /\ place'[x] \in Memoed => OpenTemp(x) \/ (place[x] \in Memoed /\ memo'[x] = memo[x])
         /\ read'[x] = read[x] \/ SelectFacts(x)
         /\ beside[x] \subseteq beside'[x] \/ Admit(x)
<1> USE DEF ExportTypeOK, Proceed, Memoed, Underway
<1>1. CASE PipelineStep
  BY <1>1 DEF PipelineStep
<1>2. ASSUME NEW y \in Exports, Refuse(y) \/ Admit(y) \/ SelectFacts(y) \/ MemoFails(y)
      PROVE  y # x => UNCHANGED <<vars, place[x], read[x], memo[x], beside[x]>>
  BY <1>2 DEF Refuse, Admit, SelectFacts, MemoFails
<1>3. ASSUME NEW y \in Exports,
             \/ OpenTemp(y) \/ WriteTemp(y) \/ Rename(y) \/ Deliver(y) \/ DeliveryFails(y)
             \/ CommitExport(y) \/ Stop(y)
      PROVE  y # x => UNCHANGED <<vars, place[x], read[x], memo[x], beside[x]>>
  BY <1>3 DEF OpenTemp, WriteTemp, Rename, Deliver, DeliveryFails, CommitExport, Stop
<1>4. CASE UNCHANGED <<vars, place[x], read[x], memo[x], beside[x]>>
  BY <1>4
<1>5. CASE Refuse(x) \/ MemoFails(x) \/ DeliveryFails(x) \/ Stop(x)
  BY <1>5 DEF Refuse, MemoFails, DeliveryFails, Stop
<1>6. CASE WriteTemp(x) \/ Rename(x) \/ Deliver(x) \/ CommitExport(x)
  BY <1>6 DEF WriteTemp, Rename, Deliver, CommitExport
<1>7. CASE Admit(x)
  <2>1. place'[x] = "select" /\ UNCHANGED <<read, memo>>
    BY <1>7 DEF Admit
  <2> QED BY <1>7, <2>1
<1>8. CASE SelectFacts(x)
  <2>1. place'[x] = "build" /\ beside' = beside
    BY <1>8 DEF SelectFacts
  <2> QED BY <1>8, <2>1
<1>9. CASE OpenTemp(x)
  <2>1. place[x] = "build" /\ place'[x] = "write" /\ UNCHANGED <<read, beside>>
    BY <1>9 DEF OpenTemp
  <2> QED BY <1>9, <2>1
<1>10. CASE UNCHANGED <<vars, before, exportVars>>
  BY <1>10 DEF exportVars
<1> QED
  BY <1>1, <1>2, <1>3, <1>4, <1>5, <1>6, <1>7, <1>8, <1>9, <1>10 DEF ExportNext, Export
-----------------------------------------------------------------------------
(***************************************************************************)
(* MemoIsOneExtraction.  Rows of two runs stand together only if the runs  *)
(* overlapped (NoStaleFacts), and those of one run are all it drafted      *)
(* (GenerationsAtomic); a draft is no longer than an answer.               *)
(***************************************************************************)
Writers(S) == {f.run : f \in S}
Raced(S) == \E q, r \in Writers(S) : Overlapped(q, r)
Whole(S) == \A r \in Writers(S) : S = draft[r]

LEMMA FactsWhole ==
  ASSUME OrderInv, NoStaleFacts, GenerationsAtomic
  PROVE  Raced(facts) \/ Whole(facts)
<1>1. TypeOK /\ OrderOK /\ Past
  BY DEF OrderInv
<1>2. \A r \in Writers(facts) : r \in Runs /\ Extracted(r) /\ pc[r] # "idle"
  BY <1>1 DEF Writers, TypeOK, Fact, Past, Written
<1>3. ASSUME NEW q \in Writers(facts), NEW r \in Writers(facts), q # r PROVE Overlapped(q, r)
  <2>1. q \notin before[r] /\ r \notin before[q]
    BY <1>2 DEF NoStaleFacts, Writers
  <2> QED BY <1>2, <1>3, <2>1 DEF Overlapped
<1>4. ASSUME NEW r \in Writers(facts), \A q \in Writers(facts) : q = r PROVE facts = draft[r]
  <2>1. facts = Generation(r) /\ facts # {}
    BY <1>4 DEF Writers, Generation
  <2> QED BY <1>2, <2>1 DEF GenerationsAtomic
<1> QED BY <1>3, <1>4 DEF Raced, Whole

\* The cap drops nothing of a draft.
LEMMA KeptWhole ==
  ASSUME MaxEntities <= MaxFacts, DraftsBounded, NEW S, Writers(S) \subseteq Runs, Whole(S)
  PROVE  Kept(S) = {S}
<1>1. IsFiniteSet(S) /\ Cardinality(S) <= MaxEntities
  <2>1. CASE S = {}
    BY <2>1, FS_EmptySet, AnswerAssumption
  <2>2. CASE S # {}
    BY <2>2 DEF Whole, Writers, DraftsBounded
  <2> QED BY <2>1, <2>2
<1>2. Cardinality(S) <= MaxFacts
  BY <1>1, FS_CardinalityType, AnswerAssumption, ExportAssumption
<1> QED BY <1>2 DEF Kept

MemoInv ==
  \A x \in Exports :
    /\ \A r \in Writers(read[x]) : r \in Runs /\ pc[r] \in Written
    /\ place[x] \in {"build"} \cup Memoed => Raced(read[x]) \/ Whole(read[x])
    /\ place[x] \in Memoed => Raced(read[x]) \/ memo[x] = read[x]

LEMMA MemoStep ==
  ASSUME MaxEntities <= MaxFacts, OrderInv, NoStaleFacts, GenerationsAtomic, DraftsBounded,
         ExportTypeOK, MemoInv, [ExportNext]_<<vars, before, exportVars>>
  PROVE  MemoInv'
<1>1. OrderStepHolds /\ TypeOK /\ RowsWritten
  BY ExportStepsAreSteps DEF OrderStepHolds, OrderInv
<1>2. Frame /\ \A q, r \in Runs : Overlapped(q, r) => Overlapped(q, r)'
  BY <1>1, HistoryOf
<1>3. \A r \in Runs : pc[r] \in Written => draft'[r] = draft[r]
  <2>1. ASSUME NEW r \in Runs, pc[r] \in Written, NEW q \in Runs, DeleteFacts(q)
        PROVE  draft'[r] = draft[r]
    BY <1>1, <2>1 DEF DeleteFacts, Written, TypeOK
  <2> QED BY <1>2, <2>1 DEF Frame
<1>4. ASSUME NEW S, \A r \in Writers(S) : r \in Runs /\ pc[r] \in Written
      PROVE  /\ \A r \in Writers(S) : pc'[r] \in Written
             /\ Raced(S) => \E q, r \in Writers(S) : Overlapped(q, r)'
             /\ Whole(S) => \A r \in Writers(S) : S = draft'[r]
  BY <1>2, <1>3, <1>4 DEF Frame, Raced, Whole
<1>5. \A r \in Writers(facts) : r \in Runs /\ pc[r] \in Written
  BY <1>1 DEF Writers, RowsWritten, TypeOK, Fact
<1> SUFFICES ASSUME NEW x \in Exports
             PROVE  /\ \A r \in Writers(read'[x]) : r \in Runs /\ pc'[r] \in Written
                    /\ place'[x] \in {"build"} \cup Memoed =>
                         \/ \E q, r \in Writers(read'[x]) : Overlapped(q, r)'
                         \/ \A r \in Writers(read'[x]) : read'[x] = draft'[r]
                    /\ place'[x] \in Memoed =>
                         \/ \E q, r \in Writers(read'[x]) : Overlapped(q, r)'
                         \/ memo'[x] = read'[x]
  BY DEF MemoInv, Raced, Whole, Writers
<1>6. CASE SelectFacts(x)
  <2>1. read'[x] = facts /\ place'[x] = "build"
    BY <1>6 DEF SelectFacts, ExportTypeOK, Proceed
  <2>2. Raced(facts) \/ Whole(facts)
    BY FactsWhole
  <2> QED BY <1>4, <1>5, <2>1, <2>2 DEF Memoed
<1>7. CASE ~SelectFacts(x)
  <2>1. read'[x] = read[x] /\ \A r \in Writers(read[x]) : r \in Runs /\ pc[r] \in Written
    BY <1>7, RequestSteps DEF MemoInv
  <2>2. place'[x] \in {"build"} \cup Memoed => Raced(read[x]) \/ Whole(read[x])
    BY <1>7, RequestSteps DEF MemoInv
  <2>3. ASSUME place'[x] \in Memoed PROVE Raced(read[x]) \/ memo'[x] = read[x]
    <3>1. CASE OpenTemp(x)
      <4>1. memo'[x] \in Kept(read[x]) /\ (Raced(read[x]) \/ Whole(read[x]))
        BY <2>2, <2>3, <3>1 DEF OpenTemp, ExportTypeOK
      <4>2. Writers(read[x]) \subseteq Runs
        BY <2>1
      <4> QED BY <4>1, <4>2, KeptWhole
    <3>2. CASE place[x] \in Memoed /\ memo'[x] = memo[x]
      BY <3>2 DEF MemoInv
    <3> QED BY <2>3, <3>1, <3>2, RequestSteps
  <2> QED BY <1>4, <2>1, <2>2, <2>3
<1> QED BY <1>6, <1>7

\* A memo is the whole of one extraction, unless the runs that wrote what it
\* reads overlapped: whenever its cap is at least that of an answer, as in the
\* code, where both are 50.
THEOREM MemosHoldOneExtraction ==
  ASSUME MaxEntities <= MaxFacts
  PROVE  ExportSpec => []MemoIsOneExtraction
<1>1. ExportInit => MemoInv
  BY DEF ExportInit, MemoInv, Memoed, Writers
<1>2. ExportSpec => [](OrderInv /\ NoStaleFacts)
  BY ExportKeepsOrder, OrderKept, FactsNeverStale, PTL
<1>3. ExportSpec => [](GenerationsAtomic /\ DraftsBounded)
  BY ExportKeepsPipeline, GenerationsStandTogether, BoundedDrafts, PTL
<1>4. MemoInv => MemoIsOneExtraction
  BY DEF MemoInv, MemoIsOneExtraction, Archived, Memoed, Raced, Whole, Writers
<1> QED BY <1>1, <1>2, <1>3, <1>4, MemoStep, ExportTyped, PTL DEF ExportSpec
-----------------------------------------------------------------------------
(***************************************************************************)
(* MemoLacksOnlyByRace.  What ReadyInv says of the status is carried from  *)
(* the first SELECT to the second: a run that takes the facts away between *)
(* the two is at work beside the request.                                  *)
(***************************************************************************)
\* Some run took the facts away: next to r, or after it and beside the request.
TakenAway(x, r) ==
  \E q \in Runs :
    /\ Extracted(q)
    /\ Overlapped(q, r) \/ (r \in before[q] /\ (q \in beside[x] \/ pc[q] = "aborted"))

Decided(r) == pc[r] = "done" /\ missing[r] = {}

LackInv ==
  \A x \in Exports :
    /\ place[x] = "select" => \E r \in Runs : Decided(r) /\ (Complete(facts) \/ TakenAway(x, r))
    /\ place[x] \in {"build"} \cup Memoed =>
         \E r \in Runs : Decided(r) /\ (Complete(read[x]) \/ TakenAway(x, r))

\* A decision stands, and so does what took its facts away.
LEMMA DecidedStays ==
  ASSUME OrderStepHolds, NEW x \in Exports, beside[x] \subseteq beside'[x],
         NEW r \in Runs, Decided(r)
  PROVE  Decided(r)' /\ (TakenAway(x, r) => TakenAway(x, r)')
<1>1. /\ Moves /\ Frame
      /\ \A q \in Runs : pc[q] # "idle" => before'[q] = before[q]
      /\ \A q, o \in Runs : Overlapped(q, o) => Overlapped(q, o)'
  BY HistoryOf
<1>2. Past
  BY DEF OrderStepHolds, OrderInv
<1>3. Decided(r)'
  BY <1>1 DEF Decided, Frame
<1>4. ASSUME NEW q \in Runs, Extracted(q),
             Overlapped(q, r) \/ (r \in before[q] /\ (q \in beside[x] \/ pc[q] = "aborted"))
      PROVE  TakenAway(x, r)'
  <2>1. Extracted(q)' /\ pc[q] # "idle"
    BY <1>1, <1>2, <1>4 DEF Moves, Past, Written
  <2>2. before'[q] = before[q] /\ (pc[q] = "aborted" => pc'[q] = "aborted")
    BY <1>1, <2>1 DEF Moves, Ended
  <2> QED BY <1>1, <1>4, <2>1, <2>2 DEF TakenAway
<1> QED BY <1>3, <1>4 DEF TakenAway

LEMMA LackStep ==
  ASSUME OrderInv, ReadyInv, ExportTypeOK, LackInv, [ExportNext]_<<vars, before, exportVars>>
  PROVE  LackInv'
<1>1. OrderStepHolds /\ TypeOK /\ OrderOK
  BY ExportStepsAreSteps DEF OrderStepHolds, OrderInv
<1>2. /\ Frame
      /\ \A q \in Runs : pc[q] # "idle" => before'[q] = before[q]
      /\ \A q, o \in Runs : Overlapped(q, o) => Overlapped(q, o)'
  BY <1>1, HistoryOf
<1> SUFFICES ASSUME NEW x \in Exports
             PROVE  /\ place'[x] = "select" =>
                         \E r \in Runs : Decided(r)' /\ (Complete(facts)' \/ TakenAway(x, r)')
                    /\ place'[x] \in {"build"} \cup Memoed =>
                         \E r \in Runs : Decided(r)' /\ (Complete(read[x])' \/ TakenAway(x, r)')
  BY DEF LackInv
<1>3. ASSUME place'[x] = "select"
      PROVE  \E r \in Runs : Decided(r)' /\ (Complete(facts)' \/ TakenAway(x, r)')
  <2>1. CASE Admit(x)
    <3>1. /\ UNCHANGED <<vars, before>>
          /\ \A r \in Runs : pc[r] \in Working => r \in beside'[x]
      BY <2>1 DEF Admit, ExportTypeOK
    <3>2. PICK r \in Runs : Decided(r) /\ Vouched(r)
      BY <2>1 DEF Admit, Exportable, ReadyInv, Decided
    <3>3. UNCHANGED <<pc, missing, facts, audit, before>>
      BY <3>1 DEF vars, dbVars, localVars
    <3> QED
      BY <3>1, <3>2, <3>3 DEF Vouched, Decided, TakenAway, Complete, Extracted, Overlapped
  <2>2. CASE place[x] = "select" /\ ~Admit(x)
    <3>1. beside[x] \subseteq beside'[x]
      BY <2>2, RequestSteps
    <3>2. PICK r \in Runs : Decided(r) /\ (Complete(facts) \/ TakenAway(x, r))
      BY <2>2 DEF LackInv
    <3>3. Decided(r)' /\ (TakenAway(x, r) => TakenAway(x, r)')
      BY <1>1, <3>1, <3>2, DecidedStays
    <3>4. CASE facts' = facts
      BY <3>2, <3>3, <3>4 DEF Complete
    <3>5. ASSUME NEW q \in Runs, CommitFacts(q) PROVE TakenAway(x, r)'
      <4>1. /\ pc[q] = "persist" /\ pc'[q] = "reconcile" /\ pc' # pc
            /\ [run |-> q, action |-> "extract.trace", doc |-> NoDoc] \in audit'
        BY <1>1, <3>5 DEF CommitFacts, Goto, TypeOK
      <4>2. q \in beside'[x]
        BY <1>3, <2>2, <4>1, RequestSteps DEF Working, vars
      <4>3. Overlapped(q, r) \/ r \in before[q]
        <5>1. q \notin before[r] /\ q # r /\ pc[r] = "done"
          BY <1>1, <3>2, <4>1 DEF OrderOK, EndedRuns, Ended, Decided
        <5> QED BY <4>1, <5>1 DEF Overlapped
      <4>4. Overlapped(q, r)' \/ r \in before'[q]
        BY <1>2, <4>1, <4>3
      <4> QED BY <4>1, <4>2, <4>4 DEF TakenAway, Extracted
    <3> QED BY <1>2, <3>3, <3>4, <3>5 DEF Frame
  <2> QED BY <1>3, <2>1, <2>2, RequestSteps
<1>4. ASSUME place'[x] \in {"build"} \cup Memoed
      PROVE  \E r \in Runs : Decided(r)' /\ (Complete(read[x])' \/ TakenAway(x, r)')
  <2>1. CASE SelectFacts(x)
    <3>1. read'[x] = facts /\ place[x] = "select" /\ beside' = beside
      BY <2>1 DEF SelectFacts, ExportTypeOK
    <3>2. PICK r \in Runs : Decided(r) /\ (Complete(facts) \/ TakenAway(x, r))
      BY <3>1 DEF LackInv
    <3>3. Decided(r)' /\ (TakenAway(x, r) => TakenAway(x, r)')
      BY <1>1, <3>1, <3>2, DecidedStays
    <3> QED BY <3>1, <3>2, <3>3 DEF Complete
  <2>2. CASE place[x] \in {"build"} \cup Memoed /\ read'[x] = read[x]
    <3>1. PICK r \in Runs : Decided(r) /\ (Complete(read[x]) \/ TakenAway(x, r))
      BY <2>2 DEF LackInv
    <3>2. beside[x] \subseteq beside'[x]
      BY <2>2, RequestSteps DEF Admit, Memoed
    <3>3. Decided(r)' /\ (TakenAway(x, r) => TakenAway(x, r)')
      BY <1>1, <3>1, <3>2, DecidedStays
    <3> QED BY <2>2, <3>1, <3>3 DEF Complete
  <2> QED BY <1>4, <2>1, <2>2, RequestSteps
<1> QED BY <1>3, <1>4

\* A memo that the cap has not cut lacks a required key only because a run
\* replaced the facts next to the run that made the application ready, or after
\* it and beside the request, or after it and died.
THEOREM MemosLackOnlyByRace == ExportSpec => []MemoLacksOnlyByRace
<1>1. ExportInit => LackInv
  BY DEF ExportInit, LackInv, Memoed
<1>2. ExportSpec => [](OrderInv /\ ReadyInv)
  BY ExportKeepsOrder, OrderKept, ReadyKept, PTL
<1>3. LackInv => MemoLacksOnlyByRace
  BY DEF LackInv, Decided, TakenAway, MemoLacksOnlyByRace, Archived, Memoed
<1> QED BY <1>1, <1>2, <1>3, LackStep, ExportTyped, PTL DEF ExportSpec
=============================================================================
