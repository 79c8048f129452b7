------------------------------ MODULE RunOrder ------------------------------
(***************************************************************************)
(* The runs of Pipeline with a history of who had ended when a run was     *)
(* queued.  Nothing in the code keeps two runs of one application apart,   *)
(* so what a run finds and what it overwrites depends on the others.  What *)
(* can be promised is an order in real time: a run answers for everything  *)
(* that had ended before it was queued, and only a run that overlapped it  *)
(* can be to blame for what is wrong afterwards.                           *)
(***************************************************************************)
EXTENDS Pipeline

VARIABLE
  before  \* history: the runs that had ended when a run was queued

OrderedInit == Init /\ before = [r \in Runs |-> {}]

EndedRuns == {q \in Runs : pc[q] \in Ended}

Queued(r) == pc[r] = "idle" /\ pc'[r] = "load"

OrderedNext ==
  /\ Next
  /\ before' = [r \in Runs |-> IF Queued(r) THEN EndedRuns ELSE before[r]]

OrderedSpec == OrderedInit /\ [][OrderedNext]_<<vars, before>>

\* Neither run had ended when the other was queued.
Overlapped(q, r) ==
  /\ q # r /\ pc[q] # "idle" /\ pc[r] # "idle"
  /\ q \notin before[r] /\ r \notin before[q]

\* The run has replaced the facts.
Extracted(r) == [run |-> r, action |-> "extract.trace", doc |-> NoDoc] \in audit

Complete(S) == \A k \in RequiredKeys : \E f \in S : f.key = k /\ f.val # Null
-----------------------------------------------------------------------------
\* A run that replaces the facts leaves none of a run that had ended before it
\* was queued, not even if another run replaced them meanwhile: rows of two
\* extractions stand together only if their runs overlapped.
NoStaleFacts == \A f \in facts, r \in Runs : Extracted(r) => f.run \notin before[r]

\* The borrower does not get the same words again from a run that was queued
\* after the run that sent them had ended.
NoRepeatAfterEnd ==
  \A s, t \in sent : s.content = t.content => s.run \notin before[t.run]

\* An application that is ready has every required key, or some run replaced
\* the facts that its readiness was decided from: while the run that decided
\* it was on its way, or after it, and then it has yet to decide itself or has
\* died before it could.
ReadyIsCompleteOrRaced ==
  (status = "ready_for_los" /\ ~Complete(facts)) =>
    \E r, q \in Runs :
      /\ pc[r] = "done" /\ missing[r] = {} /\ Extracted(q)
      /\ \/ Overlapped(q, r)
         \/ r \in before[q] /\ pc[q] \in Working \cup {"aborted"}

Unread == {"load", "claim", "read", "ingest"}

\* A fact in the table comes from an extraction that had read every stored
\* text; or the text's reader has yet to read it, died before it could, read
\* it but did not replace the facts (yet), or replaced them while the run that
\* wrote the fact was on its way.
FactsCoverMessages ==
  \A f \in facts, m \in Texts :
    (msg[m] = "stored" /\ m \notin chats[f.run]) =>
      \E q \in Runs :
        \/ pc[q] \in Unread
        \/ pc[q] = "aborted" /\ chats[q] = {}
        \/ m \in chats[q] /\ (Extracted(q) => Overlapped(q, f.run))

\* A failed model call the node catches flips the application to manual_review,
\* unless another run overlapped the failing one: the status its session holds
\* is stale only by the doing of a run that was on its way at the same time.
LoneFailureFlips ==
  [][\A r \in Runs :
       (pc[r] = "extract" /\ pc'[r] = "degraded" /\ status' # "manual_review") =>
         \E q \in Runs : Overlapped(q, r)]_<<vars, before>>
=============================================================================
