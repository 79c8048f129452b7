------------------------------ MODULE LosExport ------------------------------
(***************************************************************************)
(* POST /applications/{id}/export-los (api/routes/applications.py,         *)
(* services/los_export.py, persist_export of services/object_store.py,     *)
(* services/audit_service.py), next to the runs of the pipeline: a request *)
(* reads the status and the facts that the runs of Pipeline write.  The    *)
(* order of the runs is RunOrder's.                                        *)
(*                                                                         *)
(* The steps of a request are what it does between two awaits: the SELECT  *)
(* of the application, the SELECT of the facts, the delivery, the commit.  *)
(* The memo is built and written to the outbox without an await, so the    *)
(* requests of the one process that serves the outbox take turns there;    *)
(* only the end of the process comes between.                              *)
(***************************************************************************)
EXTENDS RunOrder

CONSTANTS
  Exports,         \* requests for an export of the application
  MaxFacts,        \* the facts a memo holds at most
  CoreBankingUrl,  \* is core_banking_url set?
  Unlucky          \* requests whose delivery may fail or whose worker may stop

ASSUME ExportAssumption ==
  /\ MaxFacts \in Nat /\ CoreBankingUrl \in BOOLEAN /\ Unlucky \subseteq Exports
  /\ Exports \cap {"nothing", "torn"} = {}

\* A request's place is named for the step it takes next.
Underway == {"select", "build", "write", "rename", "deliver", "audit"}
ExportPlaces == {"new"} \cup Underway \cup {"refused", "failed", "dead", "done"}

VARIABLES
  place,      \* where the request is
  read,       \* the facts it selected
  memo,       \* the facts in its memo
  temp,       \* outbox/<id>.xml.tmp: nothing, torn, or the request whose memo it is
  outbox,     \* outbox/<id>.xml, likewise
  bank,       \* the requests whose memo the core banking API has taken
  exported,   \* the requests with a los.export row in AuditLog
  beside      \* history: the runs at work between the two SELECTs of a request

exportVars == <<place, read, memo, temp, outbox, bank, exported, beside>>

ExportInit ==
  /\ OrderedInit
  /\ place = [x \in Exports |-> "new"]
  /\ read = [x \in Exports |-> {}] /\ memo = [x \in Exports |-> {}]
  /\ temp = "nothing" /\ outbox = "nothing"
  /\ bank = {} /\ exported = {}
  /\ beside = [x \in Exports |-> {}]

Proceed(x, next) == place' = [place EXCEPT ![x] = next]
-----------------------------------------------------------------------------
(***************************************************************************)
(* The two SELECTs.  The application is looked at once; the facts are      *)
(* those of another statement, and of a later moment.                      *)
(***************************************************************************)
\* Fault: an application in manual review may be exported.
ExportableOnReview == status \in {"ready_for_los", "manual_review"}

Exportable == status = "ready_for_los"

\* No such application, or not in the state that permits an export.
Refuse(x) ==
  /\ place[x] = "new" /\ (~Created \/ ~Exportable)
  /\ Proceed(x, "refused")
  /\ UNCHANGED <<vars, before, read, memo, temp, outbox, bank, exported, beside>>

Admit(x) ==
  /\ place[x] = "new" /\ Created /\ Exportable
  /\ beside' = [beside EXCEPT ![x] = {r \in Runs : pc[r] \in Working}]
  /\ Proceed(x, "select")
  /\ UNCHANGED <<vars, before, read, memo, temp, outbox, bank, exported>>

SelectFacts(x) ==
  /\ place[x] = "select"
  /\ read' = [read EXCEPT ![x] = facts]
  /\ Proceed(x, "build")
  /\ UNCHANGED <<vars, before, memo, temp, outbox, bank, exported, beside>>
-----------------------------------------------------------------------------
(***************************************************************************)
(* The memo and the outbox.  Facts beyond the cap are left out: the order  *)
(* of keys and times decides which, here any of them.  A fact with a       *)
(* document asks for a row the SELECT did not load; an asynchronous        *)
(* session cannot load it there, and the request ends with that error.     *)
(***************************************************************************)
Kept(S) ==
  IF Cardinality(S) <= MaxFacts THEN {S} ELSE {T \in SUBSET S : Cardinality(T) = MaxFacts}

Documented(S) == {f \in S : f.src \in Docs}

OutboxFree == \A y \in Exports : place[y] \notin {"write", "rename"}

MemoFails(x) ==
  /\ place[x] = "build"
  /\ \E S \in Kept(read[x]) : Documented(S) # {}
  /\ Proceed(x, "failed")
  /\ UNCHANGED <<vars, before, read, memo, temp, outbox, bank, exported, beside>>

\* Fault: the outbox file itself is opened and written.
OpenInPlace(x) ==
  /\ place[x] = "build" /\ OutboxFree
  /\ \E S \in Kept(read[x]) : Documented(S) = {} /\ memo' = [memo EXCEPT ![x] = S]
  /\ temp' = "torn" /\ outbox' = "torn"
  /\ Proceed(x, "write")
  /\ UNCHANGED <<vars, before, read, bank, exported, beside>>

\* The memo is built, and its temporary file opened: what was there is gone.
OpenTemp(x) ==
  /\ place[x] = "build" /\ OutboxFree
  /\ \E S \in Kept(read[x]) : Documented(S) = {} /\ memo' = [memo EXCEPT ![x] = S]
  /\ temp' = "torn"
  /\ Proceed(x, "write")
  /\ UNCHANGED <<vars, before, read, outbox, bank, exported, beside>>

WriteTemp(x) ==
  /\ place[x] = "write"
  /\ temp' = x
  /\ Proceed(x, "rename")
  /\ UNCHANGED <<vars, before, read, memo, outbox, bank, exported, beside>>

Rename(x) ==
  /\ place[x] = "rename"
  /\ outbox' = temp /\ temp' = "nothing"
  /\ Proceed(x, "deliver")
  /\ UNCHANGED <<vars, before, read, memo, bank, exported, beside>>
-----------------------------------------------------------------------------
(***************************************************************************)
(* Delivery and audit.  Without a URL the delivery is simulated.  A        *)
(* timeout, a broken connection and an error status all end the request    *)
(* with an error and no audit row, whether the bank has taken the memo or  *)
(* not; so does the end of the worker.                                     *)
(***************************************************************************)
Taken(x) == IF CoreBankingUrl THEN bank \cup {x} ELSE bank

Deliver(x) ==
  /\ place[x] = "deliver"
  /\ bank' = Taken(x)
  /\ Proceed(x, "audit")
  /\ UNCHANGED <<vars, before, read, memo, temp, outbox, exported, beside>>

\* Fault: a failed delivery is recorded like any other.
DeliverySwallowed(x) ==
  /\ place[x] = "deliver" /\ x \in Unlucky /\ CoreBankingUrl
  /\ bank' \in {bank, bank \cup {x}}
  /\ Proceed(x, "audit")
  /\ UNCHANGED <<vars, before, read, memo, temp, outbox, exported, beside>>

DeliveryFails(x) ==
  /\ place[x] = "deliver" /\ x \in Unlucky /\ CoreBankingUrl
  /\ bank' \in {bank, bank \cup {x}}
  /\ Proceed(x, "failed")
  /\ UNCHANGED <<vars, before, read, memo, temp, outbox, exported, beside>>

\* The audit row of the request; its columns are left out.
Recorded(x) == exported \cup {x}

\* Fault: the row names the temporary file, which the rename has taken away.
CommitTempName(x) ==
  /\ place[x] = "audit"
  /\ exported' = exported \cup {temp}
  /\ Proceed(x, "done")
  /\ UNCHANGED <<vars, before, read, memo, temp, outbox, bank, beside>>

CommitExport(x) ==
  /\ place[x] = "audit"
  /\ exported' = Recorded(x)
  /\ Proceed(x, "done")
  /\ UNCHANGED <<vars, before, read, memo, temp, outbox, bank, beside>>

\* The worker stops, or a statement raises.
Stop(x) ==
  /\ x \in Unlucky /\ place[x] \in Underway
  /\ bank' \in IF place[x] = "deliver" THEN {bank, Taken(x)} ELSE {bank}
  /\ Proceed(x, "dead")
  /\ UNCHANGED <<vars, before, read, memo, temp, outbox, exported, beside>>

Export(x) ==
  \/ SelectFacts(x) \/ MemoFails(x) \/ OpenTemp(x) \/ WriteTemp(x) \/ Rename(x)
  \/ Deliver(x) \/ DeliveryFails(x) \/ CommitExport(x)

\* A step of the pipeline or of the intake.
PipelineStep ==
  /\ OrderedNext
  /\ beside' = [x \in Exports |->
                  IF place[x] = "select" THEN beside[x] \cup {r \in Runs : pc'[r] \in Working}
                  ELSE beside[x]]
  /\ UNCHANGED <<place, read, memo, temp, outbox, bank, exported>>

ExportNext ==
  \/ PipelineStep
  \/ \E x \in Exports : Refuse(x) \/ Admit(x) \/ Export(x) \/ Stop(x)

ExportSpec == ExportInit /\ [][ExportNext]_<<vars, before, exportVars>>
-----------------------------------------------------------------------------
\* Every variable of the export keeps its type.
ExportTypeOK ==
  /\ place \in [Exports -> ExportPlaces]
  /\ read \in [Exports -> SUBSET Fact] /\ memo \in [Exports -> SUBSET Fact]
  /\ temp \in {"nothing", "torn"} \cup Exports
  /\ outbox \in {"nothing", "torn"} \cup Exports
  /\ bank \subseteq Exports /\ exported \subseteq Exports
  /\ beside \in [Exports -> SUBSET Runs]

\* The bank never hears of an application whose borrower has not been told
\* that nothing is missing, whatever runs do between the two.
DeliveredWasAnnounced == bank # {} => \E s \in sent : s.content.missing = {}

\* "Atomic write via temp file + rename to avoid partial files on crash"
\* (object_store.py): the outbox never shows a part of a memo, and once the bank
\* has a memo there is one in the outbox, of a request that was admitted.
OutboxIsWhole ==
  /\ outbox # "torn"
  /\ bank \cup exported # {} => outbox \in Exports
  /\ outbox \in Exports => place[outbox] \notin {"new", "refused", "select", "build", "write"}

\* A los.export row stands for a memo the bank has taken.  The bank may have
\* taken one without a row, but only if its request has yet to commit or ended
\* with an error: a caller that was answered has both.
AuditMatchesDelivery ==
  /\ CoreBankingUrl => exported \subseteq bank
  /\ \A x \in Exports : place[x] = "done" => x \in exported
  /\ \A x \in bank \ exported : place[x] \in {"audit", "failed", "dead"}

Archived(x) == place[x] \in {"deliver", "audit", "done"}

\* A memo holds one extraction and the whole of it: the cap of facts, which
\* "aligns with ExtractionResult max_length" (los_export.py), drops none, and no
\* request sees the facts half replaced.  Only runs that overlapped can make it
\* a part of more than one.
MemoIsOneExtraction ==
  \A x \in Exports : Archived(x) =>
    LET writers == {f.run : f \in read[x]} IN
    \/ \E q, r \in writers : Overlapped(q, r)
    \/ memo[x] = read[x] /\ \A r \in writers : memo[x] = draft[r]

\* A memo has a value for every required key, although the look at the status
\* and the look at the facts are two statements; or the cap has dropped facts,
\* or a run replaced the facts that the status vouched for: while the run that
\* decided it was on its way, or after it and between the two statements, or it
\* died before it could decide itself.
MemoLacksOnlyByRace ==
  \A x \in Exports :
    (Archived(x) /\ memo[x] = read[x] /\ ~Complete(memo[x])) =>
      \E r, q \in Runs :
        /\ pc[r] = "done" /\ missing[r] = {} /\ Extracted(q)
        /\ \/ Overlapped(q, r)
           \/ r \in before[q] /\ (q \in beside[x] \/ pc[q] = "aborted")

\* "Test that export succeeds when application is ready_for_los"
\* (test_applications.py): a request that found the application ready does not
\* fail, if the bank takes the memo and no worker stops.
ReadyExportSucceeds == \A x \in Exports : place[x] # "failed"
=============================================================================
