-------------------------- MODULE AuditTrailProofs --------------------------
(***************************************************************************)
(* Theorems about AuditTrail, for every set of readers and of overlapping  *)
(* runs.  The runs next to a reader are the runs of Pipeline.              *)
(***************************************************************************)
EXTENDS AuditTrail, PipelineProofs

LEMMA TrailStepsAreSteps == [TrailNext]_<<vars, trailVars>> => [Next]_vars
BY DEF TrailNext, RefuseTrail, FindApplication, ReadPage, ReadAnomalies

\* A pipeline with readers next to it is a pipeline.
THEOREM TrailKeepsPipeline == TrailSpec => Spec
<1>1. TrailInit => Init
  BY DEF TrailInit
<1> QED BY <1>1, TrailStepsAreSteps, PTL DEF TrailSpec, Spec
-----------------------------------------------------------------------------
(***************************************************************************)
(* The contradictions on a page are reported from the moment it is read,   *)
(* and reports are never taken back: what is reported of the page when the *)
(* anomalies are read includes what was when the facts were.               *)
(***************************************************************************)
ShownBy(t, reports) ==
  \A f, g \in page[t] :
    Conflicting(f, g) =>
      \/ \E r \in Runs : Report(r, f, g) \in reports
      \/ {f.run, g.run} \cap unreconciled[t] # {}

ShownInv ==
  /\ stage \in [Trails -> {"new", "facts", "anomalies", "answered", "refused"}]
  /\ page \in [Trails -> SUBSET Fact] /\ listed \in [Trails -> SUBSET Anomaly]
  /\ unreconciled \in [Trails -> SUBSET Runs]
  /\ \A t \in Trails :
       /\ stage[t] = "anomalies" => ShownBy(t, anomalies)
       /\ stage[t] = "answered" => ShownBy(t, listed[t])

LEMMA ReportsStay == [Next]_vars => anomalies \subseteq anomalies'
<1> SUFFICES ASSUME [Next]_vars PROVE anomalies \subseteq anomalies'
  OBVIOUS
<1>1. ASSUME NEW r \in Runs, ReconcileFacts(r) PROVE anomalies \subseteq anomalies'
  BY <1>1 DEF ReconcileFacts
<1>2. ASSUME NEW r \in Runs, Step(r), ~ReconcileFacts(r) PROVE anomalies' = anomalies
  BY <1>2 DEF Step, Load, Claim, ReadDocuments, CommitIngest, IngestRefused, SkipExtract,
              Degrade, Escape, DeleteFacts, CommitFacts, ReadFacts, CheckDuplicate, CommitChase, dbVars
<1>3. ASSUME NEW r \in Runs, Abort(r) PROVE anomalies' = anomalies
  BY <1>3 DEF Abort, dbVars
<1>4. CASE Intake
  BY <1>4 DEF Intake, Resolve, Store, Redeliver, dbVars
<1>5. CASE UNCHANGED vars
  BY <1>5 DEF vars, dbVars
<1> QED BY <1>1, <1>2, <1>3, <1>4, <1>5 DEF Next

LEMMA ShownStep ==
  TypeOK /\ NoSilentMismatch /\ ShownInv /\ [TrailNext]_<<vars, trailVars>> => ShownInv'
<1> SUFFICES ASSUME TypeOK, NoSilentMismatch, ShownInv, [TrailNext]_<<vars, trailVars>>
             PROVE  ShownInv'
  OBVIOUS
<1> USE DEF Advance
<1>1. ASSUME [Next]_vars, UNCHANGED trailVars PROVE ShownInv'
  <2>1. anomalies \subseteq anomalies'
    BY <1>1, ReportsStay
  <2>2. UNCHANGED <<stage, page, listed, unreconciled>>
    BY <1>1 DEF trailVars
  <2>3. \A f, g : Conflicting(f, g)' = Conflicting(f, g)
    BY DEF Conflicting
  <2>4. ASSUME NEW t \in Trails, stage[t] = "anomalies" PROVE ShownBy(t, anomalies)'
    BY <2>1, <2>2, <2>4 DEF ShownInv, ShownBy
  <2>5. ASSUME NEW t \in Trails, stage[t] = "answered" PROVE ShownBy(t, listed[t])'
    BY <2>2, <2>5 DEF ShownInv, ShownBy
  <2> QED BY <2>2, <2>4, <2>5 DEF ShownInv
<1>2. ASSUME NEW t \in Trails, RefuseTrail(t) \/ FindApplication(t) PROVE ShownInv'
  <2>1. /\ UNCHANGED <<vars, page, listed, unreconciled>>
        /\ stage' = [stage EXCEPT ![t] = "refused"] \/ stage' = [stage EXCEPT ![t] = "facts"]
    BY <1>2 DEF RefuseTrail, FindApplication
  <2> QED BY <2>1 DEF ShownInv, ShownBy, vars, dbVars
<1>3. ASSUME NEW t \in Trails, ReadPage(t) PROVE ShownInv'
  <2>1. PICK T \in Pages(AskOf[t], facts) : page' = [page EXCEPT ![t] = T]
    BY <1>3 DEF ReadPage
  <2>2. /\ stage' = [stage EXCEPT ![t] = "anomalies"]
        /\ unreconciled' = [unreconciled EXCEPT ![t] = Unreconciled]
        /\ listed' = listed /\ anomalies' = anomalies
    BY <1>3 DEF ReadPage, vars, dbVars
  <2>3. T \subseteq facts /\ facts \subseteq Fact
    BY <2>1 DEF Pages, TypeOK
  <2>4. /\ stage' \in [Trails -> {"new", "facts", "anomalies", "answered", "refused"}]
        /\ page' \in [Trails -> SUBSET Fact] /\ listed' \in [Trails -> SUBSET Anomaly]
        /\ unreconciled' \in [Trails -> SUBSET Runs]
    BY <2>1, <2>2, <2>3 DEF ShownInv, Unreconciled
  <2>5. ShownBy(t, anomalies)'
    <3>1. page'[t] = T /\ unreconciled'[t] = Unreconciled
      BY <2>1, <2>2 DEF ShownInv
    <3>2. ASSUME NEW f \in T, NEW g \in T, Conflicting(f, g)
          PROVE  \/ \E r \in Runs : Report(r, f, g) \in anomalies
                 \/ {f.run, g.run} \cap Unreconciled # {}
      <4>1. f.run \in Runs /\ g.run \in Runs
        BY <2>3 DEF Fact
      <4> QED BY <2>3, <3>2, <4>1 DEF NoSilentMismatch, Unreconciled
    <3> QED BY <2>2, <3>1, <3>2 DEF ShownBy
  <2>6. ASSUME NEW u \in Trails \ {t}
        PROVE  /\ stage'[u] = "anomalies" => ShownBy(u, anomalies)'
               /\ stage'[u] = "answered" => ShownBy(u, listed[u])'
    <3>1. /\ stage'[u] = stage[u] /\ page'[u] = page[u]
          /\ unreconciled'[u] = unreconciled[u]
      BY <2>1, <2>2 DEF ShownInv
    <3> QED BY <2>2, <3>1 DEF ShownInv, ShownBy
  <2>7. stage'[t] = "anomalies"
    BY <2>2 DEF ShownInv
  <2> QED BY <2>4, <2>5, <2>6, <2>7 DEF ShownInv
<1>4. ASSUME NEW t \in Trails, ReadAnomalies(t) PROVE ShownInv'
  <2>1. /\ stage[t] = "anomalies" /\ stage' = [stage EXCEPT ![t] = "answered"]
        /\ listed' = [listed EXCEPT ![t] = anomalies]
        /\ UNCHANGED <<page, unreconciled, anomalies>>
    BY <1>4 DEF ReadAnomalies, vars, dbVars
  <2>2. /\ stage' \in [Trails -> {"new", "facts", "anomalies", "answered", "refused"}]
        /\ listed' \in [Trails -> SUBSET Anomaly]
    BY <2>1 DEF ShownInv, TypeOK
  <2>3. ShownBy(t, listed[t])'
    <3>1. listed'[t] = anomalies /\ ShownBy(t, anomalies)
      BY <2>1 DEF ShownInv
    <3> QED BY <2>1, <3>1 DEF ShownBy
  <2>4. ASSUME NEW u \in Trails \ {t}
        PROVE  /\ stage'[u] = "anomalies" => ShownBy(u, anomalies)'
               /\ stage'[u] = "answered" => ShownBy(u, listed[u])'
    <3>1. stage'[u] = stage[u] /\ listed'[u] = listed[u]
      BY <2>1 DEF ShownInv
    <3> QED BY <2>1, <3>1 DEF ShownInv, ShownBy
  <2>5. stage'[t] = "answered"
    BY <2>1 DEF ShownInv
  <2> QED BY <2>1, <2>2, <2>3, <2>4, <2>5 DEF ShownInv
<1> QED BY <1>1, <1>2, <1>3, <1>4 DEF TrailNext

\* Whoever reads two contradicting facts reads the anomaly, or read the facts
\* before one of the two runs had reconciled.
THEOREM MismatchAlwaysShown == TrailSpec => []TrailShowsMismatch
<1>1. TrailInit => ShownInv
  BY DEF TrailInit, ShownInv
<1>2. TrailSpec => [](TypeOK /\ NoSilentMismatch)
  BY TrailKeepsPipeline, TypeCorrect, MismatchNeverSilent, PTL
<1>3. ShownInv => TrailShowsMismatch
  BY DEF ShownInv, ShownBy, TrailShowsMismatch
<1> QED BY <1>1, <1>2, <1>3, ShownStep, PTL DEF TrailSpec
-----------------------------------------------------------------------------
(***************************************************************************)
(* TrailTypeOK.  What a page holds is bounded by the request's limit, and  *)
(* only a permitted limit gets as far as the facts.                        *)
(***************************************************************************)
TrailInv ==
  /\ TrailTypeOK
  /\ \A t \in Trails : stage[t] = "facts" => Permitted(AskOf[t])

LEMMA PageBounded ==
  ASSUME NEW ask \in [limit : Int, offset : Int], Permitted(ask), NEW S, IsFiniteSet(S),
         NEW T \in Pages(ask, S)
  PROVE  Cardinality(T) <= ask.limit /\ ask.limit <= 500
<1>1. Cardinality(S) \in Nat
  BY FS_CardinalityType
<1> QED BY <1>1 DEF Pages, Permitted

LEMMA TrailStep ==
  ASSUME TypeOK, IsFiniteSet(facts), TrailInv, [TrailNext]_<<vars, trailVars>>
  PROVE  TrailInv'
<1> USE DEF TrailInv, TrailTypeOK, Advance
<1>1. ASSUME NEW t \in Trails, RefuseTrail(t) \/ FindApplication(t) PROVE TrailInv'
  BY <1>1 DEF RefuseTrail, FindApplication
<1>2. ASSUME NEW t \in Trails, ReadPage(t) PROVE TrailInv'
  <2>1. PICK T \in Pages(AskOf[t], facts) : page' = [page EXCEPT ![t] = T]
    BY <1>2 DEF ReadPage
  <2>2. Cardinality(T) <= AskOf[t].limit /\ AskOf[t].limit <= 500
    BY <1>2, PageBounded, TrailAssumption DEF ReadPage
  <2>3. T \subseteq Fact /\ Unreconciled \subseteq Runs
    BY DEF Pages, TypeOK, Unreconciled
  <2> QED BY <1>2, <2>1, <2>2, <2>3 DEF ReadPage
<1>3. ASSUME NEW t \in Trails, ReadAnomalies(t) PROVE TrailInv'
  BY <1>3 DEF ReadAnomalies, TypeOK
<1>4. CASE UNCHANGED trailVars
  BY <1>4 DEF trailVars
<1> QED BY <1>1, <1>2, <1>3, <1>4 DEF TrailNext

\* No answer is longer than its caller's limit, nor than 500 facts, whatever
\* the runs write meanwhile.
THEOREM TrailTyped == TrailSpec => []TrailTypeOK
<1>1. TrailInit => TrailInv
  BY DEF TrailInit, TrailInv, TrailTypeOK
<1>2. TrailSpec => [](TypeOK /\ IsFiniteSet(facts))
  BY TrailKeepsPipeline, TypeCorrect, FiniteFacts, PTL
<1>3. TrailInv => TrailTypeOK
  BY DEF TrailInv
<1> QED BY <1>1, <1>2, <1>3, TrailStep, PTL DEF TrailSpec
=============================================================================
