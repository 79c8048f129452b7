--------------------------- MODULE RunOrderProofs ---------------------------
(***************************************************************************)
(* Theorems about the order of runs, for every set of runs that overlap in *)
(* any way, any of which may die anywhere.  Each invariant has a section:  *)
(* what makes it inductive, one lemma that steps keep it, the theorem.     *)
(***************************************************************************)
EXTENDS RunOrder, PipelineProofs

\* The runs in their order are runs of the pipeline.
LEMMA OrderedKeepsPipeline == OrderedSpec => Spec
<1>1. OrderedInit => Init
  BY DEF OrderedInit
<1>2. [OrderedNext]_<<vars, before>> => [Next]_vars
  BY DEF OrderedNext
<1> QED BY <1>1, <1>2, PTL DEF OrderedSpec, Spec

LEMMA OrderedTyped == OrderedSpec => []TypeOK
BY OrderedKeepsPipeline, TypeCorrect, PTL
-----------------------------------------------------------------------------
(***************************************************************************)
(* What a step of the pipeline does to the places of the runs, and which   *)
(* step alone may change what.                                             *)
(***************************************************************************)
Moves ==
  /\ \A r \in Runs : pc[r] \in Ended => pc'[r] = pc[r]
  /\ \A r \in Runs : pc[r] # "idle" => pc'[r] # "idle"
  /\ \A r \in Runs : pc[r] = "idle" => pc'[r] \in {"idle", "load"}
  /\ \A r \in Runs : pc[r] \in Unread =>
        pc'[r] \in Unread \/ CommitIngest(r) \/ (pc'[r] = "aborted" /\ chats'[r] = chats[r])
  /\ \A r \in Runs : pc'[r] \in Unread => pc[r] \in Unread \cup {"idle"}
  /\ \A r \in Runs : pc'[r] = "claim" => pc[r] = "claim" \/ Load(r)
  /\ \A r \in Runs : pc'[r] \in Working \ {"load", "claim"} =>
        pc[r] \in Working \ {"load", "claim"} \/ Load(r) \/ Claim(r)
  /\ \A r \in Runs : pc'[r] = "degraded" => pc[r] = "degraded" \/ Degrade(r)
  /\ \A r \in Runs : chats'[r] = chats[r] \/ CommitIngest(r)
  /\ \A r \in Runs : pc'[r] \in {"dedupe", "send"} =>
        (pc[r] \in {"dedupe", "send"} /\ missing'[r] = missing[r]) \/ ReadFacts(r)
  /\ \A r \in Runs : Extracted(r) => Extracted(r)'
  /\ \A r \in Runs : Extracted(r)' => Extracted(r) \/ CommitFacts(r)
  /\ \A m \in Messages : msg'[m] = "stored" =>
        msg[m] = "stored" \/ \E r \in Runs : pc'[r] = "load"
  /\ sent' # sent => \E r \in Runs : CommitChase(r)

LEMMA MovesOf == TypeOK /\ [Next]_vars => Moves
<1> SUFFICES ASSUME TypeOK, [Next]_vars PROVE Moves
  OBVIOUS
<1> USE DEF TypeOK, Goto, Moves, Extracted, Unread, Ended, Working, NoDoc
<1>1. ASSUME NEW m \in Messages, Resolve(m) PROVE Moves
  BY <1>1 DEF Resolve, localVars
<1>2. ASSUME NEW m \in Messages, NEW q \in Runs, Store(m, q) PROVE Moves
  BY <1>2 DEF Store, localVars
<1>3. ASSUME NEW m \in Messages, NEW q \in Runs, Redeliver(m, q) PROVE Moves
  BY <1>3 DEF Redeliver, localVars, dbVars
<1>4. ASSUME NEW q \in Runs, Load(q) PROVE Moves
  <2>1. /\ pc[q] = "load" /\ pc'[q] \in {"claim", "read"}
        /\ \A r \in Runs : r # q => pc'[r] = pc[r]
        /\ UNCHANGED <<msg, sent, audit, chats, missing>>
    BY <1>4 DEF Load, dbVars
  <2> QED BY <1>4, <2>1
<1>5. ASSUME NEW q \in Runs, Claim(q) PROVE Moves
  <2>1. /\ pc[q] = "claim" /\ pc' = [pc EXCEPT ![q] = "read"]
        /\ UNCHANGED <<msg, sent, audit, chats, missing>>
    BY <1>5 DEF Claim
  <2> QED BY <1>5, <2>1
<1>6. ASSUME NEW q \in Runs, ReadDocuments(q) PROVE Moves
  BY <1>6 DEF ReadDocuments, dbVars
<1>7. ASSUME NEW q \in Runs, CommitIngest(q) PROVE Moves
  BY <1>7 DEF CommitIngest
<1>8. ASSUME NEW q \in Runs, IngestRefused(q) \/ Escape(q) \/ Abort(q) PROVE Moves
  BY <1>8 DEF IngestRefused, Escape, Abort, dbVars, localVars
<1>9. ASSUME NEW q \in Runs, SkipExtract(q) PROVE Moves
  BY <1>9 DEF SkipExtract, dbVars, localVars
<1>10. ASSUME NEW q \in Runs, Degrade(q) PROVE Moves
  BY <1>10 DEF Degrade, Assign, Flushed
<1>11. ASSUME NEW q \in Runs, DeleteFacts(q) PROVE Moves
  BY <1>11 DEF DeleteFacts, dbVars
<1>12. ASSUME NEW q \in Runs, CommitFacts(q) PROVE Moves
  BY <1>12 DEF CommitFacts, localVars
<1>13. ASSUME NEW q \in Runs, ReconcileFacts(q) PROVE Moves
  BY <1>13 DEF ReconcileFacts, localVars
<1>14. ASSUME NEW q \in Runs, ReadFacts(q) PROVE Moves
  BY <1>14 DEF ReadFacts, dbVars
<1>15. ASSUME NEW q \in Runs, CheckDuplicate(q) PROVE Moves
  BY <1>15 DEF CheckDuplicate, dbVars
<1>16. ASSUME NEW q \in Runs, CommitChase(q) PROVE Moves
  <2>1. /\ pc[q] = "send" /\ pc' = [pc EXCEPT ![q] = "done"]
        /\ UNCHANGED <<msg, chats, missing>>
    BY <1>16 DEF CommitChase
  <2>2. audit \subseteq audit' /\ \A row \in audit' \ audit : row.action = "chase.sent"
    BY <1>16 DEF CommitChase
  <2>3. \A r \in Runs : Extracted(r)' = Extracted(r)
    BY <2>2
  <2> QED BY <1>16, <2>1, <2>3
<1>17. CASE UNCHANGED vars
  BY <1>17 DEF vars, dbVars, localVars
<1> QED
  BY <1>1, <1>2, <1>3, <1>4, <1>5, <1>6, <1>7, <1>8, <1>9, <1>10, <1>11, <1>12, <1>13,
     <1>14, <1>15, <1>16, <1>17 DEF Next, Intake, Step
-----------------------------------------------------------------------------
(***************************************************************************)
(* What every section rests on: the history, and what a run leaves behind  *)
(* at each place.                                                          *)
(***************************************************************************)
\* A run that had ended has ended, and a run that is not queued has none before it.
OrderOK ==
  /\ before \in [Runs -> SUBSET Runs]
  /\ \A r \in Runs : before[r] \subseteq EndedRuns /\ (pc[r] = "idle" => before[r] = {})

\* A run that has replaced the facts is past that; one that has yet to commit
\* its ingest holds no message; what is in the table was put there, and what a
\* run has read is stored.
Past ==
  /\ \A r \in Runs : Extracted(r) => pc[r] \in Written
  /\ \A r \in Runs : pc[r] \in Unread \cup {"idle"} => chats[r] = {}
  /\ \A f \in facts : Extracted(f.run)
  /\ \A r \in Runs : \A m \in chats[r] : msg[m] = "stored"

OrderInv == TypeOK /\ RowsWritten /\ OrderOK /\ Past

OrderStepHolds == OrderInv /\ [OrderedNext]_<<vars, before>>

\* What a step does to the history, and that two runs stay overlapped.
LEMMA HistoryOf ==
  ASSUME OrderStepHolds
  PROVE  /\ Moves /\ Frame /\ [Next]_vars
         /\ \A r \in Runs : pc[r] # "idle" => before'[r] = before[r]
         /\ \A r \in Runs : before'[r] = before[r] \/ (Queued(r) /\ before'[r] = EndedRuns)
         /\ \A q, r \in Runs : Overlapped(q, r) => Overlapped(q, r)'
<1>1. Moves /\ Frame /\ [Next]_vars
  BY MovesOf, Frames DEF OrderStepHolds, OrderInv, OrderedNext
<1>2. \A r \in Runs : before'[r] = before[r] \/ (Queued(r) /\ before'[r] = EndedRuns)
  BY DEF OrderStepHolds, OrderedNext
<1>3. \A r \in Runs : pc[r] # "idle" => before'[r] = before[r]
  BY <1>2 DEF Queued
<1> QED BY <1>1, <1>2, <1>3 DEF Overlapped, Moves

\* Two different runs on their way have overlapped.
LEMMA BothUnderway ==
  ASSUME OrderInv, NEW q \in Runs, NEW r \in Runs, q # r,
         pc[q] \notin Ended \cup {"idle"}, pc[r] \notin Ended \cup {"idle"}
  PROVE  Overlapped(q, r)
BY DEF OrderInv, OrderOK, EndedRuns, Overlapped

LEMMA OrderStep == OrderStepHolds => OrderInv'
<1> SUFFICES ASSUME OrderStepHolds PROVE OrderInv'
  OBVIOUS
<1>1. /\ Moves /\ Frame /\ [Next]_vars
      /\ \A r \in Runs : before'[r] = before[r] \/ (Queued(r) /\ before'[r] = EndedRuns)
  BY HistoryOf
<1>2. TypeOK /\ RowsWritten /\ OrderOK /\ Past
  BY DEF OrderStepHolds, OrderInv
<1>3. TypeOK' /\ RowsWritten'
  BY <1>1, <1>2, TypeStep, RowsWrittenStep
<1>4. OrderOK'
  <2>1. EndedRuns \subseteq EndedRuns'
    BY <1>1 DEF Moves, EndedRuns
  <2>2. before' \in [Runs -> SUBSET Runs]
    BY <1>2 DEF OrderStepHolds, OrderedNext, OrderOK, EndedRuns
  <2>3. ASSUME NEW r \in Runs PROVE before'[r] \subseteq EndedRuns' /\ (pc'[r] = "idle" => before'[r] = {})
    BY <1>1, <1>2, <2>1 DEF OrderOK, Moves, Queued
  <2> QED BY <2>2, <2>3 DEF OrderOK
<1>5. ASSUME NEW r \in Runs, Extracted(r)' PROVE pc'[r] \in Written
  <2>1. CASE Extracted(r)
    BY <1>1, <1>2, <2>1 DEF Past, Frame
  <2>2. CASE CommitFacts(r)
    BY <1>2, <2>2 DEF CommitFacts, Goto, TypeOK, Written
  <2> QED BY <1>1, <1>5, <2>1, <2>2 DEF Moves
<1>6. ASSUME NEW r \in Runs, pc'[r] \in Unread \cup {"idle"} PROVE chats'[r] = {}
  <2>1. pc[r] \in Unread \cup {"idle"}
    BY <1>1, <1>6 DEF Moves, Unread
  <2>2. ~CommitIngest(r)
    BY <1>2, <1>6 DEF CommitIngest, Goto, TypeOK, Unread
  <2> QED BY <1>1, <1>2, <2>1, <2>2 DEF Moves, Past
<1>7. ASSUME NEW f \in facts' PROVE Extracted(f.run)'
  <2>1. f.run \in Runs
    BY <1>3 DEF TypeOK, Fact
  <2>2. CASE f \in facts
    BY <1>1, <1>2, <2>1, <2>2 DEF Moves, Past
  <2>3. CASE f \notin facts
    <3>1. PICK q \in Runs : CommitFacts(q)
      BY <1>1, <2>3 DEF Frame
    <3>2. f \in draft[q] /\ [run |-> q, action |-> "extract.trace", doc |-> NoDoc] \in audit'
      BY <2>3, <3>1 DEF CommitFacts, Replaced
    <3> QED BY <1>2, <3>2 DEF RowsWritten, Extracted
  <2> QED BY <2>2, <2>3
<1>8. ASSUME NEW r \in Runs, NEW m \in chats'[r] PROVE msg'[m] = "stored"
  <2>1. CASE CommitIngest(r)
    <3>1. chats'[r] = Stored(Texts) /\ msg' = msg
      BY <1>2, <2>1 DEF CommitIngest, InboundTexts, TypeOK
    <3> QED BY <3>1 DEF Stored
  <2>2. CASE chats'[r] = chats[r]
    <3>1. m \in Messages
      BY <1>2, <2>2, SourcesAssumption DEF TypeOK
    <3> QED BY <1>1, <1>2, <2>2, <3>1 DEF Past, Frame
  <2> QED BY <1>1, <2>1, <2>2 DEF Moves
<1>9. Past'
  BY <1>5, <1>6, <1>7, <1>8 DEF Past
<1> QED BY <1>3, <1>4, <1>9 DEF OrderInv

LEMMA OrderInit == OrderedInit => OrderInv
<1> SUFFICES ASSUME OrderedInit PROVE OrderInv
  OBVIOUS
<1>1. TypeOK
  BY TypeInit DEF OrderedInit
<1> QED
  BY <1>1 DEF OrderedInit, Init, OrderInv, RowsWritten, OrderOK, Past, EndedRuns, Extracted, Unread

LEMMA OrderKept == OrderedSpec => []OrderInv
BY OrderInit, OrderStep, PTL DEF OrderedSpec, OrderStepHolds
-----------------------------------------------------------------------------
(***************************************************************************)
(* NoStaleFacts.  A run's DELETE has found every row of a run that had     *)
(* ended before it was queued, and such a run commits no more.             *)
(***************************************************************************)
FreshInv ==
  /\ NoStaleFacts
  /\ \A f \in facts, r \in Runs :
       f.run \in before[r] /\ pc[r] = "persist" => f \in doomed[r]

LEMMA FreshStep == OrderStepHolds /\ FreshInv => FreshInv'
<1> SUFFICES ASSUME OrderStepHolds, FreshInv,
                    NEW f \in facts', NEW r \in Runs, f.run \in before'[r]
             PROVE  ~Extracted(r)' /\ (pc'[r] = "persist" => f \in doomed'[r])
  BY DEF FreshInv, NoStaleFacts
<1>1. /\ Moves /\ Frame
      /\ \A q \in Runs : pc[q] # "idle" => before'[q] = before[q]
  BY HistoryOf
<1>2. TypeOK /\ RowsWritten /\ OrderOK /\ Past
  BY DEF OrderStepHolds, OrderInv
<1>3. CASE pc[r] = "idle"
  BY <1>1, <1>2, <1>3 DEF Moves, Past, Written, CommitFacts
<1>4. CASE pc[r] # "idle"
  <2>1. f.run \in before[r] /\ f.run \in EndedRuns
    BY <1>1, <1>2, <1>4 DEF OrderOK
  <2>2. f \in facts
    <3>1. SUFFICES ASSUME NEW q \in Runs, CommitFacts(q), f \notin facts PROVE FALSE
      BY <1>1 DEF Frame
    <3>2. f.run = q /\ pc[q] = "persist"
      BY <1>2, <3>1 DEF CommitFacts, Replaced, RowsWritten
    <3> QED BY <2>1, <3>2 DEF EndedRuns, Ended
  <2>3. ~Extracted(r)'
    <3>1. SUFFICES ASSUME CommitFacts(r) PROVE FALSE
      BY <1>1, <2>1, <2>2 DEF Moves, FreshInv, NoStaleFacts
    <3>2. f \in doomed[r]
      BY <2>1, <2>2, <3>1 DEF FreshInv, CommitFacts
    <3>3. f \in draft[r]
      BY <3>1, <3>2 DEF CommitFacts, Replaced
    <3>4. f.run = r /\ pc[r] = "persist"
      BY <1>2, <3>1, <3>3 DEF RowsWritten, CommitFacts
    <3> QED BY <2>1, <3>4 DEF EndedRuns, Ended
  <2>4. ASSUME pc'[r] = "persist" PROVE f \in doomed'[r]
    <3>1. CASE DeleteFacts(r)
      BY <1>2, <2>2, <3>1 DEF DeleteFacts, TypeOK
    <3>2. CASE ~DeleteFacts(r)
      <4>1. pc[r] = "persist" /\ f \in doomed[r]
        BY <1>1, <2>1, <2>2, <2>4, <3>2 DEF Frame, FreshInv
      <4>2. doomed'[r] = doomed[r]
        <5>1. SUFFICES ASSUME NEW q \in Runs, DeleteFacts(q) PROVE doomed'[r] = doomed[r]
          BY <1>1 DEF Frame
        <5>2. q # r
          BY <3>2, <5>1
        <5> QED BY <1>2, <5>1, <5>2 DEF DeleteFacts, TypeOK
      <4> QED BY <4>1, <4>2
    <3> QED BY <3>1, <3>2
  <2> QED BY <2>3, <2>4
<1> QED BY <1>3, <1>4

\* No run that has replaced the facts leaves any of a run that had ended before
\* it was queued, whatever other runs replace at the same time.
THEOREM FactsNeverStale == OrderedSpec => []NoStaleFacts
<1>1. OrderedInit => FreshInv
  BY DEF OrderedInit, Init, FreshInv, NoStaleFacts
<1>2. FreshInv => NoStaleFacts
  BY DEF FreshInv
<1> QED BY <1>1, <1>2, FreshStep, OrderKept, PTL DEF OrderedSpec, OrderStepHolds
-----------------------------------------------------------------------------
(***************************************************************************)
(* NoRepeatAfterEnd.  What a run that had ended before has sent, the check *)
(* of a later run finds.                                                   *)
(***************************************************************************)
RepeatInv ==
  /\ NoRepeatAfterEnd
  /\ \A s \in sent : pc[s.run] = "done"
  /\ \A r \in Runs, s \in sent :
       (pc[r] = "send" /\ s.run \in before[r] /\ s.content = Wording(missing[r], channel[r]))
         => dup[r]

LEMMA RepeatStep == OrderStepHolds /\ RepeatInv => RepeatInv'
<1> SUFFICES ASSUME OrderStepHolds, RepeatInv PROVE RepeatInv'
  OBVIOUS
<1>1. /\ Moves /\ Frame
      /\ \A q \in Runs : pc[q] # "idle" => before'[q] = before[q]
  BY HistoryOf
<1>2. TypeOK /\ TypeOK' /\ OrderOK
  BY OrderStep DEF OrderStepHolds, OrderInv
<1>3. \A s \in sent' : s.run \in Runs
  BY <1>2 DEF TypeOK, Outbound
<1>4. ASSUME NEW s \in sent', s \notin sent
      PROVE  /\ pc[s.run] = "send" /\ pc'[s.run] = "done" /\ ~dup[s.run]
             /\ s.content = Wording(missing[s.run], channel[s.run])
             /\ \A r \in Runs : s.run \notin before'[r] /\ before'[s.run] = before[s.run]
  <2>1. PICK q \in Runs : CommitChase(q)
    BY <1>1, <1>4 DEF Moves
  <2>2. /\ ~dup[q] /\ pc[q] = "send" /\ pc'[q] = "done" /\ s.run = q
        /\ s.content = Wording(missing[q], channel[q])
    BY <1>2, <1>4, <2>1 DEF CommitChase, Goto, TypeOK
  <2>3. ASSUME NEW r \in Runs PROVE q \notin before'[r]
    <3>1. q \notin EndedRuns
      BY <2>2 DEF EndedRuns, Ended
    <3> QED BY <1>2, <3>1, HistoryOf DEF OrderOK
  <2> QED BY <1>1, <2>2, <2>3
<1>5. ASSUME NEW s \in sent' PROVE pc'[s.run] = "done"
  BY <1>1, <1>3, <1>4, <1>5 DEF RepeatInv, Frame
<1>6. ASSUME NEW s \in sent', NEW t \in sent', s.content = t.content
      PROVE  s.run \notin before'[t.run]
  <2>1. CASE s \notin sent
    BY <1>3, <1>4, <2>1
  <2>2. CASE s \in sent /\ t \notin sent
    BY <1>3, <1>4, <1>6, <2>2 DEF RepeatInv
  <2>3. CASE s \in sent /\ t \in sent
    BY <1>1, <1>3, <1>6, <2>3 DEF RepeatInv, NoRepeatAfterEnd
  <2> QED BY <2>1, <2>2, <2>3
<1>7. ASSUME NEW r \in Runs, NEW s \in sent', pc'[r] = "send", s.run \in before'[r],
             s.content = Wording(missing'[r], channel'[r])
      PROVE  dup'[r]
  <2>1. s \in sent
    BY <1>4, <1>7
  <2>2. CASE CheckDuplicate(r)
    <3>1. PICK ch \in LastChannels :
            /\ channel' = [channel EXCEPT ![r] = ch]
            /\ dup' = [dup EXCEPT ![r] = AlreadySent(Wording(missing[r], ch))]
      BY <2>2 DEF CheckDuplicate
    <3>2. channel'[r] = ch /\ dup'[r] = AlreadySent(Wording(missing[r], ch)) /\ missing' = missing
      BY <1>2, <2>2, <3>1 DEF TypeOK, CheckDuplicate
    <3> QED BY <1>7, <2>1, <3>2 DEF AlreadySent
  <2>3. CASE pc[r] = "send"
    BY <1>1, <1>7, <2>1, <2>3 DEF Frame, RepeatInv
  <2> QED BY <1>1, <1>7, <2>2, <2>3 DEF Frame
<1> QED
  <2>1. NoRepeatAfterEnd'
    BY <1>6 DEF NoRepeatAfterEnd
  <2> QED BY <1>5, <1>7, <2>1 DEF RepeatInv, Wording

\* The borrower never gets the same words again from a run that was queued
\* after the run that sent them had ended.
THEOREM NeverRepeatsAfterEnd == OrderedSpec => []NoRepeatAfterEnd
<1>1. OrderedInit => RepeatInv
  BY DEF OrderedInit, Init, RepeatInv, NoRepeatAfterEnd
<1>2. RepeatInv => NoRepeatAfterEnd
  BY DEF RepeatInv
<1> QED BY <1>1, <1>2, RepeatStep, OrderKept, PTL DEF OrderedSpec, OrderStepHolds
-----------------------------------------------------------------------------
(***************************************************************************)
(* FactsCoverMessages.  A run reads everything that runs which had ended   *)
(* before it was queued have read; with NoStaleFacts, the reader of a text *)
(* a fact does not know of either overlapped the fact's run or has not     *)
(* replaced the facts.                                                     *)
(***************************************************************************)
ReaderOf(m, q) ==
  \/ pc[q] \in Unread
  \/ pc[q] = "aborted" /\ chats[q] = {}
  \/ m \in chats[q]

CoverInv ==
  /\ \A m \in Texts : msg[m] = "stored" => \E q \in Runs : ReaderOf(m, q)
  /\ \A r \in Runs : \A q \in before[r] :
       pc[r] \in {"extract", "persist"} \/ Extracted(r) => chats[q] \subseteq chats[r]

LEMMA CoverStep == OrderStepHolds /\ CoverInv => CoverInv'
<1> SUFFICES ASSUME OrderStepHolds, CoverInv PROVE CoverInv'
  OBVIOUS
<1>1. /\ Moves /\ Frame
      /\ \A q \in Runs : pc[q] # "idle" => before'[q] = before[q]
  BY HistoryOf
<1>2. TypeOK /\ OrderOK /\ Past
  BY DEF OrderStepHolds, OrderInv
<1>3. ASSUME NEW r \in Runs, CommitIngest(r)
      PROVE  /\ chats'[r] = Stored(Texts) /\ msg' = msg
             /\ \A q \in Runs : q # r => chats'[q] = chats[q]
  BY <1>2, <1>3 DEF CommitIngest, InboundTexts, TypeOK
<1>4. ASSUME NEW m \in Texts, msg'[m] = "stored" PROVE \E q \in Runs : ReaderOf(m, q)'
  <2>1. m \in Messages
    BY SourcesAssumption
  <2>2. CASE \E q \in Runs : pc'[q] = "load"
    BY <2>2 DEF ReaderOf, Unread
  <2>3. CASE msg[m] = "stored"
    <3>1. PICK q \in Runs : ReaderOf(m, q)
      BY <2>3 DEF CoverInv
    <3>2. CASE CommitIngest(q)
      BY <1>3, <2>3, <3>2 DEF ReaderOf, Stored
    <3>3. CASE ~CommitIngest(q)
      <4>1. chats'[q] = chats[q]
        BY <1>1, <3>3 DEF Moves
      <4>2. pc[q] \in Unread => pc'[q] \in Unread \/ (pc'[q] = "aborted" /\ chats[q] = {})
        BY <1>1, <1>2, <3>3 DEF Moves, Past
      <4>3. pc[q] = "aborted" => pc'[q] = "aborted"
        BY <1>1 DEF Moves, Ended
      <4> QED BY <3>1, <4>1, <4>2, <4>3 DEF ReaderOf
    <3> QED BY <3>2, <3>3
  <2> QED BY <1>1, <1>4, <2>1, <2>2, <2>3 DEF Moves
<1>5. ASSUME NEW r \in Runs, NEW q \in before'[r],
             pc'[r] \in {"extract", "persist"} \/ Extracted(r)'
      PROVE  chats'[q] \subseteq chats'[r]
  <2>1. pc[r] # "idle" /\ before'[r] = before[r]
    BY <1>1, <1>2, <1>5 DEF Moves, Past, Written, CommitFacts
  <2>2. q \in Runs /\ pc[q] \in Ended /\ chats'[q] = chats[q]
    <3>1. q \in Runs /\ pc[q] \in Ended
      BY <1>2, <1>5, <2>1 DEF OrderOK, EndedRuns
    <3> QED BY <1>1, <3>1 DEF Moves, CommitIngest, Ended
  <2>3. CASE CommitIngest(r)
    <3>1. chats[q] \subseteq Stored(Texts)
      BY <1>2, <2>2 DEF Past, Stored, TypeOK
    <3> QED BY <1>3, <2>2, <2>3, <3>1
  <2>4. CASE ~CommitIngest(r)
    <3>1. chats'[r] = chats[r]
      BY <1>1, <2>4 DEF Moves
    <3>2. pc[r] \in {"extract", "persist"} \/ Extracted(r)
      BY <1>1, <1>5, <2>4 DEF Moves, Frame, CommitFacts
    <3> QED BY <1>5, <2>1, <2>2, <3>1, <3>2 DEF CoverInv
  <2> QED BY <2>3, <2>4
<1> QED BY <1>4, <1>5 DEF CoverInv

LEMMA CoverOf == OrderInv /\ CoverInv /\ NoStaleFacts => FactsCoverMessages
<1> SUFFICES ASSUME OrderInv, CoverInv, NoStaleFacts, NEW f \in facts, NEW m \in Texts,
                    msg[m] = "stored", m \notin chats[f.run]
             PROVE  \E q \in Runs :
                      \/ pc[q] \in Unread
                      \/ pc[q] = "aborted" /\ chats[q] = {}
                      \/ m \in chats[q] /\ (Extracted(q) => Overlapped(q, f.run))
  BY DEF FactsCoverMessages
<1>1. TypeOK /\ OrderOK /\ Past
  BY DEF OrderInv
<1>2. PICK q \in Runs : ReaderOf(m, q)
  BY DEF CoverInv
<1>3. ASSUME m \in chats[q], Extracted(q) PROVE Overlapped(q, f.run)
  <2>1. f.run \in Runs /\ Extracted(f.run) /\ q # f.run
    BY <1>1, <1>3 DEF TypeOK, Fact, Past
  <2>2. pc[q] # "idle" /\ pc[f.run] # "idle"
    BY <1>1, <1>3, <2>1 DEF Past, Written
  <2>3. f.run \notin before[q]
    BY <1>3 DEF NoStaleFacts
  <2>4. q \notin before[f.run]
    BY <1>3, <2>1 DEF CoverInv
  <2> QED BY <2>1, <2>2, <2>3, <2>4 DEF Overlapped
<1> QED BY <1>2, <1>3 DEF ReaderOf

\* The facts in the table never miss a stored text silently: some run has yet to
\* read it, died, read it without replacing the facts, or raced their writer.
THEOREM FactsAlwaysCover == OrderedSpec => []FactsCoverMessages
<1>1. OrderedInit => CoverInv
  BY SourcesAssumption DEF OrderedInit, Init, CoverInv
<1> QED
  BY <1>1, CoverStep, CoverOf, OrderKept, FactsNeverStale, PTL DEF OrderedSpec, OrderStepHolds
-----------------------------------------------------------------------------
(***************************************************************************)
(* LoneFailureFlips.  The status that a run's session holds is the one in  *)
(* the table, unless a run that overlapped it has written the table.       *)
(***************************************************************************)
LoneInv ==
  \A r \in Runs :
    /\ pc[r] = "claim" => mem[r] = "pending_docs"
    /\ pc[r] \in Working \ {"load"} /\ mem[r] # status => \E q \in Runs : Overlapped(q, r)

\* A step that writes the status, or a session's copy of it.
Assigns(q) == Claim(q) \/ Degrade(q) \/ CommitChase(q)

LEMMA LoneStep == OrderStepHolds /\ LoneInv => LoneInv'
<1> SUFFICES ASSUME OrderStepHolds, LoneInv, NEW r \in Runs
             PROVE  /\ pc'[r] = "claim" => mem'[r] = "pending_docs"
                    /\ pc'[r] \in Working \ {"load"} /\ mem'[r] # status' =>
                         \E q \in Runs : Overlapped(q, r)'
  BY DEF LoneInv
<1>1. /\ Moves /\ Frame /\ [Next]_vars
      /\ \A q, o \in Runs : Overlapped(q, o) => Overlapped(q, o)'
  BY HistoryOf
<1>2. TypeOK /\ OrderInv
  BY DEF OrderStepHolds, OrderInv
<1>3. ASSUME NEW q \in Runs, Load(q)
      PROVE  /\ pc'[r] = "claim" => mem'[r] = "pending_docs"
             /\ pc'[r] \in Working \ {"load"} /\ mem'[r] # status' =>
                  \E o \in Runs : Overlapped(o, r)'
  <2>1. /\ status' = status /\ mem' = [mem EXCEPT ![q] = status]
        /\ pc' = [pc EXCEPT ![q] = IF status = "pending_docs" THEN "claim" ELSE "read"]
    BY <1>3 DEF Load, Goto, dbVars
  <2>2. CASE r = q
    BY <1>2, <2>1, <2>2 DEF TypeOK
  <2>3. CASE r # q
    <3>1. pc'[r] = pc[r] /\ mem'[r] = mem[r]
      BY <1>2, <2>1, <2>3 DEF TypeOK
    <3> QED BY <1>1, <2>1, <3>1 DEF LoneInv
  <2> QED BY <2>2, <2>3
<1>4. ASSUME NEW q \in Runs, Assigns(q)
      PROVE  /\ pc'[r] = "claim" => mem'[r] = "pending_docs"
             /\ pc'[r] \in Working \ {"load"} /\ mem'[r] # status' =>
                  \E o \in Runs : Overlapped(o, r)'
  <2>1. /\ pc[q] \in {"claim", "extract", "send"} /\ pc'[q] \in {"read", "degraded", "done"}
        /\ \A o \in Runs \ {q} : pc'[o] = pc[o] /\ mem'[o] = mem[o]
    BY <1>2, <1>4 DEF Assigns, Claim, Degrade, CommitChase, Assign, Goto, TypeOK
  <2>2. CASE r # q
    <3>1. CASE pc[r] \in Working
      BY <1>1, <1>2, <2>1, <2>2, <3>1, BothUnderway DEF LoneInv, Working, Ended
    <3>2. CASE pc[r] \notin Working
      BY <2>1, <2>2, <3>2 DEF Working
    <3> QED BY <3>1, <3>2
  <2>3. CASE r = q /\ Claim(q)
    <3>1. mem[q] = "pending_docs"
      BY <2>3 DEF LoneInv, Claim
    <3>2. status' = "processing" /\ mem'[q] = "processing"
      BY <1>2, <2>3, <3>1 DEF Claim, Assign, Flushed, TypeOK
    <3> QED BY <2>1, <2>3, <3>2
  <2>4. CASE r = q /\ ~Claim(q)
    <3>1. pc'[q] \in {"degraded", "done"}
      BY <1>2, <1>4, <2>4 DEF Assigns, Degrade, CommitChase, Goto, TypeOK
    <3> QED BY <2>4, <3>1 DEF Working
  <2> QED BY <2>2, <2>3, <2>4
<1>5. CASE \A q \in Runs : ~Load(q) /\ ~Assigns(q)
  <2>1. UNCHANGED <<status, mem>>
    BY <1>1, <1>2, <1>5, QuietSteps DEF Assigns
  <2>2. /\ pc'[r] = "claim" => pc[r] = "claim"
        /\ pc'[r] \in Working \ {"load"} => pc[r] \in Working \ {"load"}
    BY <1>1, <1>5 DEF Moves, Assigns
  <2> QED BY <1>1, <2>1, <2>2 DEF LoneInv
<1> QED BY <1>3, <1>4, <1>5

\* A failed call that the node catches flips the application to manual_review,
\* whatever the run's session remembers, unless another run overlapped the run.
THEOREM LoneFailuresFlip == OrderedSpec => LoneFailureFlips
<1>1. OrderedInit => LoneInv
  BY DEF OrderedInit, Init, LoneInv, Working
<1>2. ASSUME OrderStepHolds, LoneInv
      PROVE  [\A r \in Runs :
                (pc[r] = "extract" /\ pc'[r] = "degraded" /\ status' # "manual_review") =>
                  \E q \in Runs : Overlapped(q, r)]_<<vars, before>>
  <2>1. SUFFICES ASSUME NEW r \in Runs, pc[r] = "extract", pc'[r] = "degraded",
                        status' # "manual_review"
                 PROVE  \E q \in Runs : Overlapped(q, r)
    OBVIOUS
  <2>2. Degrade(r)
    BY <1>2, <2>1, HistoryOf DEF Moves
  <2>3. mem[r] = "manual_review" /\ status' = status
    BY <2>1, <2>2 DEF Degrade, Assign, Flushed
  <2> QED BY <1>2, <2>1, <2>3 DEF LoneInv, Working
<1>3. OrderedSpec => []LoneInv
  BY <1>1, LoneStep, OrderKept, PTL DEF OrderedSpec, OrderStepHolds
<1> QED BY <1>2, <1>3, OrderKept, PTL DEF OrderedSpec, OrderStepHolds, LoneFailureFlips
-----------------------------------------------------------------------------
(***************************************************************************)
(* ReadyIsCompleteOrRaced.  An application is ready by the word of a run   *)
(* that found nothing missing, and nobody but a run that replaces the      *)
(* facts while that run is on its way, or is queued after it, changes what *)
(* it found; the latter takes the word back when it ends.                  *)
(***************************************************************************)
\* The facts are complete, or were replaced next to the run or after it.
Vouched(r) ==
  \/ Complete(facts)
  \/ \E q \in Runs :
       /\ Extracted(q)
       /\ Overlapped(q, r) \/ (r \in before[q] /\ pc[q] \in Working \cup {"aborted"})

ReadyInv ==
  /\ status = "ready_for_los" =>
       \E r \in Runs : pc[r] = "done" /\ missing[r] = {} /\ Vouched(r)
  /\ \A r \in Runs : pc[r] \in {"dedupe", "send"} /\ missing[r] = {} => Vouched(r)
  /\ \A r \in Runs : pc[r] \in Working \ {"load", "claim"} => mem[r] # "pending_docs"

\* What a run vouched for stays vouched for until a run queued after it, which
\* has replaced the facts, comes to its end.
LEMMA VouchedStays ==
  ASSUME OrderStepHolds, NEW r \in Runs, Vouched(r), pc[r] \in {"dedupe", "send", "done"},
         \A q \in Runs : r \in before[q] => ~CommitChase(q)
  PROVE  Vouched(r)'
<1>1. /\ Moves /\ Frame
      /\ \A q \in Runs : pc[q] # "idle" => before'[q] = before[q]
      /\ \A q, o \in Runs : Overlapped(q, o) => Overlapped(q, o)'
  BY HistoryOf
<1>2. TypeOK /\ OrderInv /\ Past /\ OrderInv'
  BY OrderStep DEF OrderStepHolds, OrderInv
<1>3. ASSUME NEW q \in Runs, Extracted(q),
             Overlapped(q, r) \/ (r \in before[q] /\ pc[q] \in Working \cup {"aborted"})
      PROVE  Vouched(r)'
  <2>1. Extracted(q)' /\ pc[q] \in Written
    BY <1>1, <1>2, <1>3 DEF Moves, Past
  <2>2. pc'[q] \in Written
    BY <1>1, <2>1 DEF Frame
  <2>3. r \in before[q] => pc'[q] # "done" \/ pc[q] = "done"
    BY <1>1 DEF Frame
  <2> QED BY <1>1, <1>3, <2>1, <2>2, <2>3 DEF Vouched, Written, Working
<1>4. ASSUME NEW q \in Runs, CommitFacts(q), r # q PROVE Vouched(r)'
  <2>1. /\ pc[q] = "persist" /\ pc'[q] = "reconcile"
        /\ [run |-> q, action |-> "extract.trace", doc |-> NoDoc] \in audit'
    BY <1>2, <1>4 DEF CommitFacts, Goto, TypeOK
  <2>2. Overlapped(q, r) \/ r \in before[q]
    <3>1. q \notin before[r] /\ pc[r] # "idle" /\ pc[q] # "idle"
      BY <1>2, <2>1 DEF OrderInv, OrderOK, EndedRuns, Ended, Working
    <3> QED BY <1>4, <3>1 DEF Overlapped
  <2>3. before'[q] = before[q]
    BY <1>1, <2>1
  <2> QED BY <1>1, <2>1, <2>2, <2>3 DEF Vouched, Extracted, Working
<1>5. ASSUME Complete(facts) PROVE Vouched(r)'
  <2>1. CASE facts' = facts
    BY <1>5, <2>1 DEF Vouched, Complete
  <2>2. \A q \in Runs : CommitFacts(q) => r # q
    BY DEF CommitFacts
  <2> QED BY <1>1, <1>4, <2>1, <2>2 DEF Frame
<1> QED BY <1>3, <1>5 DEF Vouched

LEMMA ReadyStep == OrderStepHolds /\ ReadyInv => ReadyInv'
<1> SUFFICES ASSUME OrderStepHolds, ReadyInv PROVE ReadyInv'
  OBVIOUS
<1>1. /\ Moves /\ Frame /\ [Next]_vars
      /\ \A q \in Runs : pc[q] # "idle" => before'[q] = before[q]
  BY HistoryOf
<1>2. TypeOK /\ TypeOK' /\ OrderOK /\ Past
  BY OrderStep DEF OrderStepHolds, OrderInv
<1>3. ASSUME NEW r \in Runs, pc'[r] \in {"dedupe", "send"}, missing'[r] = {} PROVE Vouched(r)'
  <2>1. CASE ReadFacts(r)
    <3>1. Missing = {} /\ facts' = facts
      BY <1>2, <1>3, <2>1 DEF ReadFacts, dbVars, TypeOK
    <3> QED BY <3>1 DEF Missing, Complete, Vouched
  <2>2. CASE pc[r] \in {"dedupe", "send"} /\ missing'[r] = missing[r]
    <3>1. Vouched(r)
      BY <1>3, <2>2 DEF ReadyInv
    <3>2. \A q \in Runs : r \notin before[q]
      BY <1>2, <2>2 DEF OrderOK, EndedRuns, Ended
    <3> QED BY <2>2, <3>1, <3>2, VouchedStays
  <2> QED BY <1>1, <1>3, <2>1, <2>2 DEF Moves
<1>4. ASSUME NEW r \in Runs, pc'[r] \in Working \ {"load", "claim"} PROVE mem'[r] # "pending_docs"
  <2>1. CASE Load(r)
    BY <1>2, <1>4, <2>1 DEF Load, Goto, TypeOK
  <2>2. CASE Claim(r)
    BY <1>2, <2>2 DEF Claim, Assign, TypeOK
  <2>3. CASE ~Load(r) /\ ~Claim(r)
    <3>1. pc[r] \in Working \ {"load", "claim"}
      BY <1>1, <1>4, <2>3 DEF Moves
    <3>2. mem'[r] = mem[r]
      <4>1. CASE \E q \in Runs : Load(q) \/ Claim(q) \/ Degrade(q) \/ CommitChase(q)
        <5>1. PICK q \in Runs : Load(q) \/ Claim(q) \/ Degrade(q) \/ CommitChase(q)
          BY <4>1
        <5>2. q # r \/ pc'[r] \in {"degraded", "done"}
          BY <1>2, <2>3, <5>1 DEF Degrade, CommitChase, Goto, TypeOK
        <5>3. q # r
          BY <1>4, <5>2 DEF Working
        <5> QED BY <1>2, <5>1, <5>3 DEF Load, Claim, Degrade, CommitChase, Assign, TypeOK
      <4>2. CASE \A q \in Runs : ~Load(q) /\ ~Claim(q) /\ ~Degrade(q) /\ ~CommitChase(q)
        BY <1>1, <1>2, <4>2, QuietSteps
      <4> QED BY <4>1, <4>2
    <3> QED BY <3>1, <3>2 DEF ReadyInv
  <2> QED BY <2>1, <2>2, <2>3
<1>5. ASSUME status' = "ready_for_los"
      PROVE  \E r \in Runs : pc'[r] = "done" /\ missing'[r] = {} /\ Vouched(r)'
  <2>1. ASSUME NEW q \in Runs, CommitChase(q)
        PROVE  /\ pc'[q] = "done" /\ missing'[q] = {} /\ pc[q] = "send" /\ missing[q] = {}
    <3>1. /\ pc[q] = "send" /\ pc'[q] = "done" /\ missing' = missing
          /\ status' = Flushed(q, Outcome(missing[q]))
      BY <1>2, <2>1 DEF CommitChase, Assign, Goto, TypeOK
    <3>2. mem[q] # "pending_docs"
      BY <3>1 DEF ReadyInv, Working
    <3> QED BY <1>5, <3>1, <3>2 DEF Flushed, Outcome
  <2>2. CASE \E q \in Runs : CommitChase(q)
    <3>1. PICK q \in Runs : CommitChase(q)
      BY <2>2
    <3>2. Vouched(q) /\ pc[q] = "send" /\ pc'[q] = "done" /\ missing'[q] = {}
      BY <2>1, <3>1 DEF ReadyInv
    <3>3. \A o \in Runs : q \notin before[o]
      BY <1>2, <3>2 DEF OrderOK, EndedRuns, Ended
    <3> QED BY <3>2, <3>3, VouchedStays
  <2>3. CASE \A q \in Runs : ~CommitChase(q)
    <3>1. status = "ready_for_los"
      BY <1>1, <1>5, <2>3 DEF Frame
    <3>2. PICK r \in Runs : pc[r] = "done" /\ missing[r] = {} /\ Vouched(r)
      BY <3>1 DEF ReadyInv
    <3>3. Vouched(r)'
      BY <2>3, <3>2, VouchedStays
    <3> QED BY <1>1, <3>2, <3>3 DEF Frame
  <2> QED BY <2>2, <2>3
<1> QED BY <1>3, <1>4, <1>5 DEF ReadyInv

LEMMA ReadyKept == OrderedSpec => []ReadyInv
<1>1. OrderedInit => ReadyInv
  BY DEF OrderedInit, Init, ReadyInv, Working
<1> QED BY <1>1, ReadyStep, OrderKept, PTL DEF OrderedSpec, OrderStepHolds

\* An application that is ready lacks a required key only because a run replaced
\* the facts next to the run that decided it, or after it, and has yet to decide
\* or has died.
THEOREM ReadyAlwaysCompleteOrRaced == OrderedSpec => []ReadyIsCompleteOrRaced
<1>1. ReadyInv => ReadyIsCompleteOrRaced
  BY DEF ReadyInv, ReadyIsCompleteOrRaced, Vouched
<1> QED BY <1>1, ReadyKept, PTL
=============================================================================
