----------------------------- MODULE AuditTrail -----------------------------
(***************************************************************************)
(* GET /applications/{id}/audit-trail (api/routes/applications.py), next   *)
(* to the runs of the pipeline.  The answer is put together from three     *)
(* SELECTs - the application, a page of its facts, all its anomalies - and *)
(* runs may replace the facts and report anomalies between them.           *)
(***************************************************************************)
EXTENDS Pipeline

CONSTANTS
  Trails,  \* requests for the audit trail of the application
  AskOf    \* limit and offset of a request

ASSUME TrailAssumption == AskOf \in [Trails -> [limit : Int, offset : Int]]

VARIABLES
  stage,        \* where the request is
  page,         \* the facts of its answer
  listed,       \* the anomalies of its answer
  unreconciled  \* history: the runs yet to reconcile, or dead, when it read the page

trailVars == <<stage, page, listed, unreconciled>>

TrailInit ==
  /\ Init
  /\ stage = [t \in Trails |-> "new"]
  /\ page = [t \in Trails |-> {}] /\ listed = [t \in Trails |-> {}]
  /\ unreconciled = [t \in Trails |-> {}]

Advance(t, next) == stage' = [stage EXCEPT ![t] = next]

Permitted(ask) == ask.limit \in 1..500 /\ ask.offset >= 0

RefuseTrail(t) ==
  /\ stage[t] = "new" /\ (~Permitted(AskOf[t]) \/ ~Created)
  /\ Advance(t, "refused")
  /\ UNCHANGED <<vars, page, listed, unreconciled>>

FindApplication(t) ==
  /\ stage[t] = "new" /\ Permitted(AskOf[t]) /\ Created
  /\ Advance(t, "facts")
  /\ UNCHANGED <<vars, page, listed, unreconciled>>

\* Fault: the limit is not passed on.
PagesFrom(ask, S) == {T \in SUBSET S : Cardinality(T) >= Cardinality(S) - ask.offset}

\* The rows the statement may return.  It orders by key and time, and the rows
\* of one transaction have one time: which rows are on a page is left open.
Pages(ask, S) ==
  LET left == Cardinality(S) - ask.offset
      size == IF left < 0 THEN 0 ELSE IF left < ask.limit THEN left ELSE ask.limit
  IN  {T \in SUBSET S : Cardinality(T) = size}

Unreconciled == {r \in Runs : pc[r] \in {"reconcile", "aborted"}}

ReadPage(t) ==
  /\ stage[t] = "facts"
  /\ \E T \in Pages(AskOf[t], facts) : page' = [page EXCEPT ![t] = T]
  /\ unreconciled' = [unreconciled EXCEPT ![t] = Unreconciled]
  /\ Advance(t, "anomalies")
  /\ UNCHANGED <<vars, listed>>

\* Fault: anomalies whose document no longer has a fact are left out.
ReadStandingAnomalies(t) ==
  /\ stage[t] = "anomalies"
  /\ listed' = [listed EXCEPT ![t] = {a \in anomalies : \E f \in facts : f.src = a.document}]
  /\ Advance(t, "answered")
  /\ UNCHANGED <<vars, page, unreconciled>>

\* The anomalies are those of all runs, and have no page.
ReadAnomalies(t) ==
  /\ stage[t] = "anomalies"
  /\ listed' = [listed EXCEPT ![t] = anomalies]
  /\ Advance(t, "answered")
  /\ UNCHANGED <<vars, page, unreconciled>>

TrailNext ==
  \/ Next /\ UNCHANGED trailVars
  \/ \E t \in Trails : RefuseTrail(t) \/ FindApplication(t) \/ ReadPage(t) \/ ReadAnomalies(t)

TrailSpec == TrailInit /\ [][TrailNext]_<<vars, trailVars>>

\* The runs are scheduled as in Pipeline; nothing is asked of the readers.
FairTrailSpec == TrailSpec /\ \A r \in Runs : WF_vars(Step(r))
-----------------------------------------------------------------------------
\* Every variable of a request keeps its type, and no answer is longer than its
\* caller's limit, nor than 500 facts.
TrailTypeOK ==
  /\ stage \in [Trails -> {"new", "facts", "anomalies", "answered", "refused"}]
  /\ page \in [Trails -> SUBSET Fact] /\ listed \in [Trails -> SUBSET Anomaly]
  /\ unreconciled \in [Trails -> SUBSET Runs]
  /\ \A t \in Trails :
       page[t] # {} => Cardinality(page[t]) <= AskOf[t].limit /\ AskOf[t].limit <= 500

\* An officer who sees a stated and a documented fact that contradict each other
\* sees the anomaly too, also when the facts are gone by the time the anomalies
\* are read - unless one of the two runs had yet to reconcile, or was dead, when
\* the facts were read.
TrailShowsMismatch ==
  \A t \in Trails : stage[t] = "answered" =>
    \A f, g \in page[t] :
      Conflicting(f, g) =>
        \/ \E r \in Runs : Report(r, f, g) \in listed[t]
        \/ {f.run, g.run} \cap unreconciled[t] # {}
=============================================================================
