-------------------------- MODULE ModelClientProofs --------------------------
(***************************************************************************)
(* Theorems about ModelClient, for every number of retries, every answer   *)
(* the model may give and every set of runs.                               *)
(***************************************************************************)
EXTENDS ModelClient, PipelineProofs, SourceTraceProofs

Results == Refusals \cup Breaks \cup {"answer"}

LEMMA AppendFacts ==
  ASSUME NEW S, NEW s \in Seq(S), NEW e \in S
  PROVE  /\ Append(s, e) \in Seq(S)
         /\ Len(Append(s, e)) = Len(s) + 1
         /\ \A i \in 1..Len(s) : Append(s, e)[i] = s[i]
         /\ Append(s, e)[Len(s) + 1] = e
OBVIOUS

\* What an attempt that ends adds to the outcomes of its run.
LEMMA EndAttemptFacts ==
  ASSUME ClientTypeOK, NEW r \in Runs, NEW o \in Results, EndAttempt(r, o)
  PROVE  /\ outcomes' \in [Runs -> Seq(Results)]
         /\ \A q \in Runs \ {r} : outcomes'[q] = outcomes[q]
         /\ Attempt(r)' = Attempt(r) + 1
         /\ \A i \in 1..Attempt(r) : outcomes'[r][i] = outcomes[r][i]
         /\ outcomes'[r][Attempt(r) + 1] = o
         /\ Attempt(r) \in Nat
<1>1. outcomes \in [Runs -> Seq(Results)]
  BY DEF ClientTypeOK, Results
<1>2. outcomes' = [outcomes EXCEPT ![r] = Append(outcomes[r], o)]
  BY DEF EndAttempt
<1> QED BY <1>1, <1>2, AppendFacts DEF Attempt
-----------------------------------------------------------------------------
(***************************************************************************)
(* What the loop keeps.  While it goes on, every attempt so far was        *)
(* refused, so the provider has at most the one that is under way; once it *)
(* is left, its last outcome is an answer or the cause of the error.       *)
(***************************************************************************)
LimitedTo(r, n) == \A i \in 1..n : outcomes[r][i] = "rate_limit"
LastOutcome(r) == outcomes[r][Attempt(r)]

Cause(r) ==
  /\ code[r] = "llm_rate_limited" =>
       Attempt(r) = MaxRetries + 1 /\ LastOutcome(r) = "rate_limit" /\ received[r] = {}
  /\ code[r] = "llm_output_unparseable" =>
       LastOutcome(r) = "answer" /\ executed[r] = {Attempt(r) - 1}
  /\ code[r] = "llm_timeout" => LastOutcome(r) = "timeout"
  /\ code[r] = "llm_misconfigured" =>
       LastOutcome(r) \in {"auth", "bad_request"} /\ received[r] = {}
  /\ code[r] = "llm_provider_error" => LastOutcome(r) \in {"connection", "other"}

InLoop(r) ==
  at[r] \in {"ready", "waiting", "asleep"} =>
    /\ Attempt(r) <= MaxRetries /\ LimitedTo(r, Attempt(r)) /\ code[r] = NoCode
    /\ received[r] = IF at[r] = "waiting" THEN {Attempt(r)} ELSE {}

AfterLoop(r) ==
  at[r] \in {"parse", "raised", "returned"} /\ mode = "provider" =>
    /\ Attempt(r) > 0 /\ LimitedTo(r, Attempt(r) - 1)
    /\ code[r] = NoCode =>
         at[r] # "raised" /\ LastOutcome(r) = "answer" /\ executed[r] = {Attempt(r) - 1}
    /\ Cause(r)

CallInvOf(r) ==
  /\ executed[r] \subseteq received[r]
  /\ \A j, k \in received[r] : j = k
  /\ at[r] = "parse" => code[r] = NoCode
  /\ InLoop(r) /\ AfterLoop(r)

CallInv == ClientTypeOK /\ \A r \in Runs : CallInvOf(r)

LEMMA CallInit == ClientInit => CallInv
<1>1. {} \in AnswersFrom(RawEntities)
  BY FS_EmptySet, AnswerAssumption DEF AnswersFrom
<1> QED
  BY <1>1, ClientAssumption
     DEF ClientInit, CallInv, ClientTypeOK, CallInvOf, InLoop, AfterLoop, LimitedTo, Attempt, NoCode

LEMMA CallUnchanged == CallInv /\ UNCHANGED clientVars => CallInv'
BY DEF CallInv, ClientTypeOK, CallInvOf, InLoop, AfterLoop, Cause, LimitedTo, LastOutcome,
       Attempt, clientVars

\* A step of one run's call leaves the calls of the others as they are.
LEMMA OtherCalls ==
  ASSUME CallInv, NEW r \in Runs, NEW q \in Runs, mode' = mode,
         at'[q] = at[q], outcomes'[q] = outcomes[q], received'[q] = received[q],
         executed'[q] = executed[q], code'[q] = code[q]
  PROVE  CallInvOf(q)'
<1>1. CallInvOf(q)
  BY DEF CallInv
<1>2. InLoop(q)' /\ Cause(q)' = Cause(q)
  BY <1>1 DEF CallInvOf, InLoop, Cause, LimitedTo, LastOutcome, Attempt, NoCode
<1>3. AfterLoop(q)'
  BY <1>1, <1>2 DEF CallInvOf, AfterLoop, LimitedTo, LastOutcome, Attempt, NoCode
<1> QED BY <1>1, <1>2, <1>3 DEF CallInvOf, NoCode

LEMMA CallStep == CallInv /\ [ClientNext]_allVars => CallInv'
<1> SUFFICES ASSUME CallInv, [ClientNext]_allVars PROVE CallInv'
  OBVIOUS
<1> USE ClientAssumption DEF Calling, Move, Raise
<1>0. ClientTypeOK
  BY DEF CallInv
<1>1. ASSUME NEW r \in Runs, Ask(r) PROVE CallInv'
  <2>1. /\ at[r] = "ready" /\ at' = [at EXCEPT ![r] = "waiting"]
        /\ received' = [received EXCEPT ![r] = @ \cup {Attempt(r)}]
        /\ UNCHANGED <<mode, outcomes, executed, reply, code>>
    BY <1>1 DEF Ask
  <2>2. /\ CallInvOf(r) /\ received[r] = {} /\ executed[r] = {}
        /\ Attempt(r) <= MaxRetries /\ LimitedTo(r, Attempt(r)) /\ code[r] = NoCode
    BY <2>1 DEF CallInv, CallInvOf, InLoop
  <2>3. ClientTypeOK'
    <3>1. outcomes[r] \in Seq(Refusals \cup Breaks \cup {"answer"})
      BY <1>0 DEF ClientTypeOK
    <3>2. Attempt(r) \in 0..MaxRetries
      BY <2>2, <3>1 DEF Attempt
    <3> QED BY <1>0, <2>1, <3>2 DEF ClientTypeOK
  <2>4. CallInvOf(r)'
    <3>1. at'[r] = "waiting" /\ received'[r] = {Attempt(r)}
      BY <1>0, <2>1, <2>2 DEF ClientTypeOK
    <3>2. Attempt(r)' = Attempt(r) /\ LimitedTo(r, Attempt(r))'
      BY <2>1, <2>2 DEF Attempt, LimitedTo
    <3>3. InLoop(r)' /\ AfterLoop(r)'
      BY <2>1, <2>2, <3>1, <3>2 DEF InLoop, AfterLoop, NoCode
    <3> QED BY <2>1, <2>2, <3>1, <3>3 DEF CallInvOf
  <2>5. \A q \in Runs \ {r} : CallInvOf(q)'
    BY <1>0, <2>1, OtherCalls DEF ClientTypeOK
  <2> QED BY <2>3, <2>4, <2>5 DEF CallInv
<1>2. ASSUME NEW r \in Runs, Execute(r) PROVE CallInv'
  <2>1. PICK k \in received[r] \ executed[r] : executed' = [executed EXCEPT ![r] = @ \cup {k}]
    BY <1>2 DEF Execute
  <2>2. UNCHANGED <<mode, at, outcomes, received, reply, code>>
    BY <1>2 DEF Execute
  <2>3. ClientTypeOK'
    BY <1>0, <2>1, <2>2 DEF ClientTypeOK
  <2>4. CallInvOf(r)'
    <3>1. received[r] = {k} /\ executed[r] = {} /\ CallInvOf(r)
      BY <2>1 DEF CallInv, CallInvOf
    <3> QED BY <1>0, <2>1, <2>2, <3>1
            DEF CallInvOf, InLoop, AfterLoop, Cause, LimitedTo, LastOutcome, Attempt, ClientTypeOK
  <2>5. \A q \in Runs \ {r} : CallInvOf(q)'
    BY <1>0, <2>1, <2>2, OtherCalls DEF ClientTypeOK
  <2> QED BY <2>3, <2>4, <2>5 DEF CallInv
<1>3. ASSUME NEW r \in Runs, RateLimited(r) PROVE CallInv'
  <2>1. /\ at[r] = "waiting" /\ Attempt(r) \notin executed[r]
        /\ received' = [received EXCEPT ![r] = @ \ {Attempt(r)}]
        /\ EndAttempt(r, "rate_limit")
        /\ UNCHANGED <<mode, executed, reply>>
    BY <1>3 DEF RateLimited, Refused
  <2>2. \/ /\ Attempt(r) >= MaxRetries
           /\ at' = [at EXCEPT ![r] = "raised"]
           /\ code' = [code EXCEPT ![r] = "llm_rate_limited"]
        \/ /\ ~(Attempt(r) >= MaxRetries)
           /\ at' = [at EXCEPT ![r] = "asleep"] /\ code' = code
    BY <1>3 DEF RateLimited, GivesUp, CodeOf
  <2>3. /\ received[r] = {Attempt(r)} /\ executed[r] = {} /\ LimitedTo(r, Attempt(r))
        /\ Attempt(r) <= MaxRetries /\ code[r] = NoCode
    <3>1. executed[r] \subseteq received[r] /\ InLoop(r)
      BY DEF CallInv, CallInvOf
    <3>2. /\ received[r] = {Attempt(r)} /\ LimitedTo(r, Attempt(r))
          /\ Attempt(r) <= MaxRetries /\ code[r] = NoCode
      BY <2>1, <3>1 DEF InLoop
    <3> QED BY <2>1, <3>1, <3>2
  <2>4. /\ outcomes' \in [Runs -> Seq(Results)]
        /\ \A q \in Runs \ {r} : outcomes'[q] = outcomes[q]
        /\ Attempt(r)' = Attempt(r) + 1 /\ Attempt(r) \in Nat
        /\ \A i \in 1..Attempt(r) : outcomes'[r][i] = outcomes[r][i]
        /\ outcomes'[r][Attempt(r) + 1] = "rate_limit"
    BY <1>0, <2>1, EndAttemptFacts DEF Results, Refusals
  <2>5. ClientTypeOK'
    <3>1. /\ at' \in [Runs -> {"ready", "waiting", "asleep", "parse", "raised", "returned"}]
          /\ code' \in [Runs -> Codes \cup {NoCode}]
      BY <1>0, <2>2 DEF ClientTypeOK, Codes
    <3> QED BY <1>0, <2>1, <2>4, <3>1 DEF ClientTypeOK, Results
  <2>6. received'[r] = {} /\ executed'[r] = {} /\ LimitedTo(r, Attempt(r))'
    <3>1. received'[r] = {} /\ executed'[r] = {}
      BY <1>0, <2>1, <2>3 DEF ClientTypeOK
    <3>2. LimitedTo(r, Attempt(r))'
      BY <2>3, <2>4 DEF LimitedTo
    <3> QED BY <3>1, <3>2
  <2>7. CallInvOf(r)'
    <3>1. CASE Attempt(r) >= MaxRetries
      <4>1. at'[r] = "raised" /\ code'[r] = "llm_rate_limited"
        BY <1>0, <2>2, <3>1 DEF ClientTypeOK
      <4>2. Attempt(r)' = MaxRetries + 1 /\ LastOutcome(r)' = "rate_limit"
        BY <2>3, <2>4, <3>1 DEF LastOutcome
      <4>3. LimitedTo(r, Attempt(r) - 1)'
        BY <2>4, <2>6 DEF LimitedTo
      <4> QED BY <2>4, <2>6, <4>1, <4>2, <4>3 DEF CallInvOf, InLoop, AfterLoop, Cause, NoCode
    <3>2. CASE ~(Attempt(r) >= MaxRetries)
      <4>1. at'[r] = "asleep" /\ code'[r] = NoCode
        BY <1>0, <2>2, <2>3, <3>2 DEF ClientTypeOK
      <4> QED BY <2>4, <2>6, <3>2, <4>1 DEF CallInvOf, InLoop, AfterLoop
    <3> QED BY <3>1, <3>2
  <2>8. \A q \in Runs \ {r} : CallInvOf(q)'
    BY <1>0, <2>1, <2>2, <2>4, OtherCalls DEF ClientTypeOK
  <2> QED BY <2>5, <2>7, <2>8 DEF CallInv
<1>4. ASSUME NEW r \in Runs, Wake(r) PROVE CallInv'
  <2>1. at[r] = "asleep" /\ UNCHANGED <<mode, outcomes, received, executed, reply, code>>
    BY <1>4 DEF Wake
  <2>2. CallInvOf(r) /\ Attempt(r) <= MaxRetries
    BY <2>1 DEF CallInv, CallInvOf, InLoop
  <2>3. at' = [at EXCEPT ![r] = "ready"]
    BY <1>4, <2>2 DEF Wake
  <2>4. ClientTypeOK'
    BY <1>0, <2>1, <2>3 DEF ClientTypeOK
  <2>5. CallInvOf(r)'
    BY <1>0, <2>1, <2>2, <2>3
       DEF CallInvOf, InLoop, AfterLoop, LimitedTo, Attempt, ClientTypeOK
  <2>6. \A q \in Runs \ {r} : CallInvOf(q)'
    BY <1>0, <2>1, <2>3, OtherCalls DEF ClientTypeOK
  <2> QED BY <2>4, <2>5, <2>6 DEF CallInv
<1>5. ASSUME NEW r \in Runs, Break(r) PROVE CallInv'
  <2>1. PICK o \in (Refusals \cup Breaks) \ {"rate_limit"} :
          /\ EndAttempt(r, o)
          /\ at' = [at EXCEPT ![r] = "raised"] /\ code' = [code EXCEPT ![r] = CodeOf(o)]
          /\ \/ o \in {"auth", "bad_request"} /\ Refused(r)
             \/ o \in Breaks /\ received' = received
    <3>1. CASE \E o \in Refusals \ {"rate_limit"} :
                  Refused(r) /\ EndAttempt(r, o) /\ Fails(r, o)
      BY <3>1 DEF Fails, Refusals
    <3>2. CASE \E o \in Breaks : EndAttempt(r, o) /\ Fails(r, o) /\ UNCHANGED received
      BY <3>2 DEF Fails, Breaks
    <3> QED BY <1>5, <3>1, <3>2 DEF Break
  <2>2. at[r] = "waiting" /\ UNCHANGED <<mode, executed, reply>>
    BY <1>5 DEF Break
  <2>3. /\ received[r] = {Attempt(r)} /\ executed[r] \subseteq {Attempt(r)}
        /\ LimitedTo(r, Attempt(r)) /\ Attempt(r) <= MaxRetries
    BY <2>2 DEF CallInv, CallInvOf, InLoop
  <2>4. /\ outcomes' \in [Runs -> Seq(Results)]
        /\ \A q \in Runs \ {r} : outcomes'[q] = outcomes[q]
        /\ Attempt(r)' = Attempt(r) + 1 /\ Attempt(r) \in Nat
        /\ \A i \in 1..Attempt(r) : outcomes'[r][i] = outcomes[r][i]
        /\ outcomes'[r][Attempt(r) + 1] = o
    BY <1>0, <2>1, EndAttemptFacts DEF Results
  <2>5. CodeOf(o) \in Codes
    BY DEF CodeOf, Codes
  <2>6. ClientTypeOK'
    <3>1. /\ at' \in [Runs -> {"ready", "waiting", "asleep", "parse", "raised", "returned"}]
          /\ code' \in [Runs -> Codes \cup {NoCode}]
      BY <1>0, <2>1, <2>5 DEF ClientTypeOK
    <3>2. received' = received \/ received' = [received EXCEPT ![r] = @ \ {Attempt(r)}]
      BY <2>1 DEF Refused
    <3>3. received' \in [Runs -> SUBSET (0..MaxRetries)]
      <4>1. received \in [Runs -> SUBSET (0..MaxRetries)]
        BY <1>0 DEF ClientTypeOK
      <4> QED BY <3>2, <4>1
    <3> QED BY <1>0, <2>2, <2>4, <3>1, <3>3 DEF ClientTypeOK, Results
  <2>7. CallInvOf(r)'
    <3>1. at'[r] = "raised" /\ code'[r] = CodeOf(o)
      BY <1>0, <2>1 DEF ClientTypeOK
    <3>2. LastOutcome(r)' = o /\ Attempt(r)' > 0 /\ LimitedTo(r, Attempt(r) - 1)'
      <4>1. LastOutcome(r)' = o /\ Attempt(r)' > 0
        BY <2>4 DEF LastOutcome
      <4>2. (Attempt(r) - 1)' = Attempt(r)
        BY <2>4
      <4>3. LimitedTo(r, Attempt(r) - 1)'
        BY <2>3, <2>4, <4>2 DEF LimitedTo
      <4> QED BY <4>1, <4>3
    <3>3. /\ executed'[r] \subseteq received'[r] /\ received'[r] \subseteq {Attempt(r)}
          /\ o \in {"auth", "bad_request"} => received'[r] = {}
      <4>1. CASE o \in {"auth", "bad_request"} /\ Refused(r)
        <5>1. received'[r] = received[r] \ {Attempt(r)} /\ Attempt(r) \notin executed[r]
          BY <1>0, <4>1 DEF Refused, ClientTypeOK
        <5> QED BY <2>2, <2>3, <5>1
      <4>2. CASE o \in Breaks /\ received' = received
        BY <2>2, <2>3, <4>2 DEF Breaks
      <4> QED BY <2>1, <4>1, <4>2
    <3>4. /\ o = "timeout" => CodeOf(o) = "llm_timeout"
          /\ o \in {"auth", "bad_request"} => CodeOf(o) = "llm_misconfigured"
          /\ o \in {"connection", "other"} => CodeOf(o) = "llm_provider_error"
      BY DEF CodeOf
    <3>5. o \in {"timeout", "auth", "bad_request", "connection", "other"}
      BY DEF Refusals, Breaks
    <3>6. Cause(r)'
      BY <3>1, <3>2, <3>3, <3>4, <3>5 DEF Cause
    <3>7. code'[r] # NoCode
      BY <2>5, <3>1 DEF Codes, NoCode
    <3> QED BY <3>1, <3>2, <3>3, <3>6, <3>7 DEF CallInvOf, InLoop, AfterLoop
  <2>8. \A q \in Runs \ {r} : CallInvOf(q)'
    BY <1>0, <2>1, <2>2, <2>4, OtherCalls DEF ClientTypeOK, Refused
  <2> QED BY <2>6, <2>7, <2>8 DEF CallInv
<1>6. ASSUME NEW r \in Runs, Answer(r) PROVE CallInv'
  <2>1. /\ at[r] = "waiting" /\ Attempt(r) \in executed[r] /\ EndAttempt(r, "answer")
        /\ at' = [at EXCEPT ![r] = "parse"]
        /\ UNCHANGED <<mode, received, executed, code>>
    BY <1>6 DEF Answer
  <2>2. PICK a \in AnswersFrom(RawEntities) \cup {Garbled, Unusable} : reply' = [reply EXCEPT ![r] = a]
    BY <1>6 DEF Answer
  <2>3. /\ received[r] = {Attempt(r)} /\ executed[r] = {Attempt(r)}
        /\ LimitedTo(r, Attempt(r)) /\ code[r] = NoCode
    <3>1. executed[r] \subseteq received[r] /\ InLoop(r)
      BY DEF CallInv, CallInvOf
    <3>2. /\ received[r] = {Attempt(r)} /\ LimitedTo(r, Attempt(r)) /\ code[r] = NoCode
      BY <2>1, <3>1 DEF InLoop
    <3> QED BY <2>1, <3>1, <3>2
  <2>4. /\ outcomes' \in [Runs -> Seq(Results)]
        /\ \A q \in Runs \ {r} : outcomes'[q] = outcomes[q]
        /\ Attempt(r)' = Attempt(r) + 1 /\ Attempt(r) \in Nat
        /\ \A i \in 1..Attempt(r) : outcomes'[r][i] = outcomes[r][i]
        /\ outcomes'[r][Attempt(r) + 1] = "answer"
    BY <1>0, <2>1, EndAttemptFacts DEF Results
  <2>5. ClientTypeOK'
    BY <1>0, <2>1, <2>2, <2>4 DEF ClientTypeOK, Results
  <2>6. CallInvOf(r)'
    <3>1. at'[r] = "parse" /\ code'[r] = NoCode
      BY <1>0, <2>1, <2>3 DEF ClientTypeOK
    <3>2. /\ LastOutcome(r)' = "answer" /\ Attempt(r)' > 0
          /\ LimitedTo(r, Attempt(r) - 1)'
      <4>1. LastOutcome(r)' = "answer" /\ Attempt(r)' > 0
        BY <2>4 DEF LastOutcome
      <4>2. (Attempt(r) - 1)' = Attempt(r)
        BY <2>4
      <4>3. LimitedTo(r, Attempt(r) - 1)'
        BY <2>3, <2>4, <4>2 DEF LimitedTo
      <4> QED BY <4>1, <4>3
    <3>3. executed'[r] = {Attempt(r)' - 1} /\ received'[r] = {Attempt(r)}
      BY <2>1, <2>3, <2>4
    <3>4. InLoop(r)' /\ Cause(r)'
      BY <3>1 DEF InLoop, Cause, NoCode
    <3>5. AfterLoop(r)'
      BY <3>1, <3>2, <3>3, <3>4 DEF AfterLoop
    <3>6. executed'[r] \subseteq received'[r]
      BY <2>1, <2>3
    <3> QED BY <3>1, <3>3, <3>4, <3>5, <3>6 DEF CallInvOf
  <2>7. \A q \in Runs \ {r} : CallInvOf(q)'
    BY <1>0, <2>1, <2>4, OtherCalls DEF ClientTypeOK
  <2> QED BY <2>5, <2>6, <2>7 DEF CallInv
<1>7. ASSUME NEW r \in Runs, ParseFails(r) PROVE CallInv'
  <2>1. /\ at[r] = "parse" /\ at' = [at EXCEPT ![r] = "raised"]
        /\ code' = [code EXCEPT ![r] = "llm_output_unparseable"]
        /\ UNCHANGED <<mode, outcomes, received, executed, reply>>
    BY <1>7 DEF ParseFails
  <2>2. ClientTypeOK'
    BY <1>0, <2>1 DEF ClientTypeOK, Codes
  <2>3. CallInvOf(r)'
    <3>1. CallInvOf(r) /\ code[r] = NoCode
      BY <2>1 DEF CallInv, CallInvOf
    <3>2. at'[r] = "raised" /\ code'[r] = "llm_output_unparseable"
      BY <1>0, <2>1 DEF ClientTypeOK
    <3>3. /\ Attempt(r)' = Attempt(r) /\ LastOutcome(r)' = LastOutcome(r)
          /\ LimitedTo(r, Attempt(r) - 1)' = LimitedTo(r, Attempt(r) - 1)
      BY <2>1 DEF Attempt, LastOutcome, LimitedTo
    <3>4. InLoop(r)'
      BY <3>2 DEF InLoop
    <3>5. AfterLoop(r)'
      <4>1. SUFFICES ASSUME mode = "provider"
                     PROVE  Attempt(r)' > 0 /\ LimitedTo(r, Attempt(r) - 1)' /\ Cause(r)'
        BY <2>1, <3>2 DEF AfterLoop, NoCode
      <4>2. /\ Attempt(r) > 0 /\ LimitedTo(r, Attempt(r) - 1)
            /\ LastOutcome(r) = "answer" /\ executed[r] = {Attempt(r) - 1}
        BY <2>1, <3>1, <4>1 DEF CallInvOf, AfterLoop
      <4> QED BY <2>1, <3>2, <3>3, <4>2 DEF Cause
    <3> QED BY <2>1, <3>1, <3>2, <3>4, <3>5 DEF CallInvOf
  <2>4. \A q \in Runs \ {r} : CallInvOf(q)'
    BY <1>0, <2>1, OtherCalls DEF ClientTypeOK
  <2> QED BY <2>2, <2>3, <2>4 DEF CallInv
<1>8. ASSUME NEW r \in Runs, Accept(r) \/ AnswerEscapes(r) \/ CatchAndDegrade(r) PROVE CallInv'
  <2>1. /\ at[r] = "parse" \/ (at[r] = "raised" /\ code[r] \in Codes)
        /\ at' = [at EXCEPT ![r] = "returned"]
        /\ UNCHANGED <<mode, outcomes, received, executed, reply, code>>
    BY <1>8 DEF Accept, AnswerEscapes, CatchAndDegrade
  <2>2. ClientTypeOK'
    BY <1>0, <2>1 DEF ClientTypeOK
  <2>3. CallInvOf(r)'
    BY <1>0, <2>1 DEF CallInv, CallInvOf, InLoop, AfterLoop, Cause, LimitedTo, LastOutcome,
       Attempt, ClientTypeOK
  <2>4. \A q \in Runs \ {r} : CallInvOf(q)'
    BY <1>0, <2>1, OtherCalls DEF ClientTypeOK
  <2> QED BY <2>2, <2>3, <2>4 DEF CallInv
<1>9. ASSUME NEW r \in Runs, MockRaises(r) PROVE CallInv'
  <2>1. PICK c \in Codes : at' = [at EXCEPT ![r] = "raised"] /\ code' = [code EXCEPT ![r] = c]
    BY <1>9 DEF MockRaises, Codes
  <2>2. mode = "mock" /\ UNCHANGED <<mode, outcomes, received, executed, reply>>
    BY <1>9 DEF MockRaises
  <2>3. ClientTypeOK'
    BY <1>0, <2>1, <2>2 DEF ClientTypeOK
  <2>4. CallInvOf(r)'
    BY <1>0, <2>1, <2>2 DEF CallInv, CallInvOf, InLoop, AfterLoop, ClientTypeOK
  <2>5. \A q \in Runs \ {r} : CallInvOf(q)'
    BY <1>0, <2>1, <2>2, OtherCalls DEF ClientTypeOK
  <2> QED BY <2>3, <2>4, <2>5 DEF CallInv
<1>10. ASSUME NEW r \in Runs, MockFinds(r) PROVE CallInv'
  <2>1. PICK a \in AnswersFrom(RawEntities) \cup {Unusable} : reply' = [reply EXCEPT ![r] = a]
    BY <1>10 DEF MockFinds, AnswersFrom
  <2>2. /\ mode = "mock" /\ at[r] = "ready" /\ at' = [at EXCEPT ![r] = "parse"]
        /\ UNCHANGED <<mode, outcomes, received, executed, code>>
    BY <1>10 DEF MockFinds
  <2>3. ClientTypeOK'
    BY <1>0, <2>1, <2>2 DEF ClientTypeOK
  <2>4. CallInvOf(r)'
    BY <1>0, <2>2 DEF CallInv, CallInvOf, InLoop, AfterLoop, ClientTypeOK
  <2>5. \A q \in Runs \ {r} : CallInvOf(q)'
    BY <1>0, <2>2, OtherCalls DEF ClientTypeOK
  <2> QED BY <2>3, <2>4, <2>5 DEF CallInv
<1>11. CASE UNCHANGED clientVars
  BY <1>11, CallUnchanged
<1>12. CASE UNCHANGED allVars
  BY <1>12, CallUnchanged DEF allVars
<1> QED
  BY <1>1, <1>2, <1>3, <1>4, <1>5, <1>6, <1>7, <1>8, <1>9, <1>10, <1>11, <1>12
     DEF ClientNext, RunStep, Call, Elsewhere

LEMMA CallKept == ClientSpec => []CallInv
BY CallInit, CallStep, PTL DEF ClientSpec

\* Every reachable state of the call is well typed.
THEOREM ClientTyped == ClientSpec => []ClientTypeOK
<1>1. CallInv => ClientTypeOK
  BY DEF CallInv
<1> QED BY <1>1, CallKept, PTL

\* The provider carries out at most one request of a run.
THEOREM AlwaysPaidOnce == ClientSpec => []PaidOnce
<1>1. CallInv => PaidOnce
  BY DEF CallInv, CallInvOf, PaidOnce
<1> QED BY <1>1, CallKept, PTL

\* The assertion after the loop never fails, whatever llm_max_retries is.
THEOREM ResponseAlwaysPresent == ClientSpec => []ResponsePresent
<1>1. CallInv => ResponsePresent
  BY DEF CallInv, CallInvOf, AfterLoop, ResponsePresent, LastOutcome, Attempt
<1> QED BY <1>1, CallKept, PTL

\* The code that is audited names what the last attempt ended with, and the
\* attempts before it were all refused.
THEOREM CodeAlwaysNamesCause == ClientSpec => []CodeNamesCause
<1>1. CallInv => CodeNamesCause
  <2> SUFFICES ASSUME CallInv, mode = "provider", NEW r \in Runs
               PROVE  LET last == Len(outcomes[r]) IN
                        /\ code[r] = "llm_rate_limited" =>
                             Limited(r) = 1..(MaxRetries + 1) /\ executed[r] = {}
                        /\ code[r] \notin {NoCode, "llm_rate_limited"} =>
                             Limited(r) = 1..(last - 1)
                        /\ (last > 0 /\ outcomes[r][last] = "timeout") =>
                             code[r] = "llm_timeout"
                        /\ code[r] = "llm_misconfigured" => executed[r] = {}
                        /\ code[r] = "llm_output_unparseable" => executed[r] = {last - 1}
    BY DEF CodeNamesCause
  <2> DEFINE last == Len(outcomes[r])
  <2>1. /\ CallInvOf(r) /\ Attempt(r) = last /\ last \in Nat /\ DOMAIN outcomes[r] = 1..last
        /\ code[r] \in Codes \cup {NoCode}
        /\ at[r] \in {"ready", "waiting", "asleep", "parse", "raised", "returned"}
    BY DEF CallInv, ClientTypeOK, Attempt
  <2>2. CASE code[r] = NoCode
    BY <2>1, <2>2 DEF CallInvOf, InLoop, AfterLoop, LimitedTo, LastOutcome, NoCode
  <2>3. CASE code[r] # NoCode
    <3>1. last > 0 /\ LimitedTo(r, last - 1) /\ Cause(r) /\ executed[r] \subseteq received[r]
      BY <2>1, <2>3 DEF CallInvOf, InLoop, AfterLoop
    <3>2. Limited(r) = IF LastOutcome(r) = "rate_limit" THEN 1..last ELSE 1..(last - 1)
      BY <2>1, <3>1 DEF Limited, LimitedTo, LastOutcome
    <3> QED BY <2>1, <2>3, <3>1, <3>2, ClientAssumption DEF Cause, LastOutcome, Codes, NoCode
  <2> QED BY <2>2, <2>3
<1> QED BY <1>1, CallKept, PTL
-----------------------------------------------------------------------------
\* The origin of an accepted entity is a source the run has read, with the quote.
LEMMA OriginFound ==
  ASSUME ClientTypeOK, NEW r \in Runs, reply[r] \notin {Garbled, Unusable}, NEW raw \in Accepted(r)
  PROVE  /\ raw \in RawEntities /\ raw \in reply[r] /\ raw.key \in KnownKeys
         /\ OriginOf(r, raw) \in Origins(r, raw)
<1>1. raw \in reply[r] /\ raw.key \in KnownKeys /\ Origins(r, raw) # {}
  BY DEF Accepted
<1>2. reply[r] \in SUBSET RawEntities
  BY DEF ClientTypeOK, AnswersFrom
<1>3. CASE raw.doc = NoDoc
  BY <1>1, <1>2, <1>3 DEF OriginOf
<1>4. CASE raw.doc # NoDoc
  BY <1>1, <1>2, <1>4 DEF OriginOf, Origins
<1> QED BY <1>3, <1>4

\* A fact is accepted with a source the run has read and the quote is in.
LEMMA AcceptedAreValidated ==
  ASSUME ClientTypeOK, NEW r \in Runs, reply[r] \notin {Garbled, Unusable}, NEW raw \in Accepted(r)
  PROVE  /\ Seen(raw, OriginOf(r, raw)) \in Entities
         /\ Validated(r, Seen(raw, OriginOf(r, raw)))
<1> DEFINE s == OriginOf(r, raw)
<1>1. raw \in RawEntities /\ raw.key \in KnownKeys
  BY OriginFound
<1>2. s \in FoundIn[raw] /\ s \in parsed[r] \cup chats[r]
  BY OriginFound DEF Origins
<1>3. s \in Sources
  BY <1>1, <1>2 DEF FoundIn
<1>4. Seen(raw, s) \in Entities
  BY <1>1, <1>3, ClientAssumption
<1>5. Validated(r, Seen(raw, s))
  BY <1>1, <1>2 DEF Seen, Validated
<1> QED BY <1>4, <1>5

\* Accepting an answer is one of the outcomes Pipeline gives the call.
LEMMA AcceptIsDelete ==
  ASSUME ClientTypeOK, NEW r \in Runs, Accept(r)
  PROVE  DeleteFacts(r)
<1> DEFINE returned == {Seen(raw, OriginOf(r, raw)) : raw \in Accepted(r)}
           rows == {Row(r, Seen(raw, OriginOf(r, raw))) : raw \in Accepted(r)}
<1>1. reply[r] \notin {Garbled, Unusable}
  BY DEF Accept
<1>2. /\ returned \in AnswersFrom(Entities)
      /\ \A e \in returned : Validated(r, e)
  <2>1. returned \in SUBSET Entities /\ \A e \in returned : Validated(r, e)
    BY <1>1, AcceptedAreValidated
  <2>2. IsFiniteSet(reply[r]) /\ Cardinality(reply[r]) <= MaxEntities
    BY <1>1 DEF ClientTypeOK, AnswersFrom
  <2>3. /\ IsFiniteSet(Accepted(r)) /\ Cardinality(Accepted(r)) <= Cardinality(reply[r])
    BY <2>2, FS_Subset DEF Accepted
  <2>4. IsFiniteSet(returned) /\ Cardinality(returned) <= Cardinality(Accepted(r))
    <3> DEFINE f == [raw \in Accepted(r) |-> Seen(raw, OriginOf(r, raw))]
    <3>1. returned = {f[raw] : raw \in Accepted(r)} /\ DOMAIN f = Accepted(r)
      OBVIOUS
    <3> HIDE DEF f, returned
    <3> QED BY <2>3, <3>1, ValuesBounded
  <2>5. /\ Cardinality(returned) \in Nat /\ Cardinality(Accepted(r)) \in Nat
        /\ Cardinality(reply[r]) \in Nat
    BY <2>2, <2>3, <2>4, FS_CardinalityType
  <2>6. Cardinality(returned) <= MaxEntities
    BY <2>2, <2>3, <2>4, <2>5, AnswerAssumption
  <2> QED BY <2>1, <2>4, <2>6 DEF AnswersFrom
<1>3. {Row(r, e) : e \in {x \in returned : Validated(r, x)}} = rows
  <2>1. {x \in returned : Validated(r, x)} = returned
    BY <1>2
  <2>2. {Row(r, e) : e \in returned} = rows
    OBVIOUS
  <2> QED BY <2>1, <2>2
<1>4. draft' = [draft EXCEPT ![r] = rows]
  BY DEF Accept
<1>5. \E R \in AnswersFrom(Entities) :
        draft' = [draft EXCEPT ![r] = {Row(r, e) : e \in {x \in R : Validated(r, x)}}]
  BY <1>2, <1>3, <1>4
<1>6. pc[r] = "extract" /\ ~NoSources(r)
  BY DEF Accept, Calling
<1> QED BY <1>5, <1>6 DEF Accept, DeleteFacts

LEMMA ClientStepsAreSteps == ClientTypeOK /\ [ClientNext]_allVars => [Next]_vars
<1> SUFFICES ASSUME ClientTypeOK, [ClientNext]_allVars PROVE [Next]_vars
  OBVIOUS
<1>1. ASSUME NEW r \in Runs, Accept(r) PROVE Next
  BY <1>1, AcceptIsDelete DEF Next, Step
<1>2. ASSUME NEW r \in Runs, CatchAndDegrade(r) \/ AnswerEscapes(r) PROVE Next
  BY <1>2 DEF CatchAndDegrade, AnswerEscapes, Next, Step
<1>3. ASSUME NEW r \in Runs, Elsewhere(r) PROVE Next
  BY <1>3 DEF Elsewhere, Next, Step
<1>4. ASSUME NEW r \in Runs, Abort(r) PROVE Next
  BY <1>4 DEF Next
<1>5. CASE Intake
  BY <1>5 DEF Next
<1>6. ASSUME NEW r \in Runs,
             Ask(r) \/ Execute(r) \/ RateLimited(r) \/ Wake(r) \/ Break(r) \/ Answer(r)
               \/ ParseFails(r) \/ MockRaises(r) \/ MockFinds(r)
      PROVE  UNCHANGED vars
  BY <1>6 DEF Ask, Execute, RateLimited, Wake, Break, Answer, ParseFails, MockRaises, MockFinds
<1>7. CASE UNCHANGED allVars
  BY <1>7 DEF allVars
<1> QED BY <1>1, <1>2, <1>3, <1>4, <1>5, <1>6, <1>7 DEF ClientNext, RunStep, Call

\* The runs with the call in detail are runs of Pipeline: whatever the retry
\* loop, the provider and the check of the quotes do is an outcome of its one step.
THEOREM ClientKeepsPipeline == ClientSpec => Spec
<1>1. ClientInit => Init
  BY DEF ClientInit
<1> QED BY <1>1, ClientTyped, ClientStepsAreSteps, PTL DEF ClientSpec, Spec

\* So what is proved of Pipeline holds with the call in detail.
THEOREM ClientKeepsTraces == ClientSpec => []FactsTraceable
BY ClientKeepsPipeline, FactsAlwaysTraceable, PTL
-----------------------------------------------------------------------------
\* A draft has the quotes of the reply it was made from, which stays as it is.
Quoted(r, f) ==
  \E raw \in reply[r] :
    /\ raw \in RawEntities
    /\ raw.key = f.key /\ f.val = Coerce(raw.key, raw.val)
    /\ (raw.doc = NoDoc) <=> (f.src \in Texts)
    /\ f.src \in FoundIn[raw]

QuotedInv ==
  \A r \in Runs :
    /\ at[r] # "returned" => draft[r] = {}
    /\ \A f \in draft[r] : Quoted(r, f)

\* Once a call has returned, its reply stands; only Accept drafts.
LEMMA ReturnedStays ==
  ASSUME ClientTypeOK, [ClientNext]_allVars
  PROVE  /\ \A q \in Runs : at[q] = "returned" => at'[q] = "returned" /\ reply'[q] = reply[q]
         /\ draft' = draft \/ \E r \in Runs : Accept(r)
<1> DEFINE Stays == \A q \in Runs : at[q] = "returned" => at'[q] = "returned" /\ reply'[q] = reply[q]
<1> USE DEF ClientTypeOK, Calling, Move, Raise, Fails
<1>1. ASSUME NEW r \in Runs, Ask(r) \/ Execute(r) \/ RateLimited(r) \/ Wake(r) \/ ParseFails(r)
                               \/ MockRaises(r)
      PROVE  Stays /\ draft' = draft
  BY <1>1 DEF Ask, Execute, RateLimited, Wake, ParseFails, MockRaises, vars, localVars
<1>2. ASSUME NEW r \in Runs, Break(r) PROVE Stays /\ draft' = draft
  BY <1>2 DEF Break, vars, localVars
<1>3. ASSUME NEW r \in Runs, Answer(r) \/ MockFinds(r) PROVE Stays /\ draft' = draft
  BY <1>3 DEF Answer, MockFinds, vars, localVars
<1>4. ASSUME NEW r \in Runs, CatchAndDegrade(r) \/ AnswerEscapes(r) PROVE Stays /\ draft' = draft
  BY <1>4 DEF CatchAndDegrade, Degrade, AnswerEscapes, Escape, localVars
<1>5. ASSUME NEW r \in Runs, Accept(r) PROVE Stays
  BY <1>5 DEF Accept
<1>6. ASSUME NEW r \in Runs, Elsewhere(r) \/ (Abort(r) /\ UNCHANGED clientVars)
      PROVE  Stays /\ draft' = draft
  BY <1>6 DEF Elsewhere, Abort, Load, Claim, ReadDocuments, CommitIngest, IngestRefused,
     SkipExtract, CommitFacts, ReconcileFacts, ReadFacts, CheckDuplicate, CommitChase,
     clientVars, localVars, dbVars
<1>7. CASE (Intake /\ UNCHANGED clientVars) \/ UNCHANGED allVars
  BY <1>7 DEF Intake, Resolve, Store, Redeliver, clientVars, allVars, vars, localVars, dbVars
<1> QED BY <1>1, <1>2, <1>3, <1>4, <1>5, <1>6, <1>7 DEF ClientNext, RunStep, Call

\* What an accepted answer drafts has its quote in its source.
LEMMA AcceptQuotes ==
  ASSUME TypeOK, ClientTypeOK, NEW r \in Runs, Accept(r), NEW f \in draft'[r]
  PROVE  Quoted(r, f)
<1>1. draft'[r] = {Row(r, Seen(raw, OriginOf(r, raw))) : raw \in Accepted(r)} /\ reply[r] \notin {Garbled, Unusable}
  BY DEF Accept, TypeOK
<1>2. PICK raw \in Accepted(r) : f = Row(r, Seen(raw, OriginOf(r, raw)))
  BY <1>1
<1> DEFINE s == OriginOf(r, raw)
<1>3. raw \in RawEntities /\ raw \in reply[r] /\ s \in Origins(r, raw)
  BY <1>1, OriginFound
<1>4. f.key = raw.key /\ f.val = Coerce(raw.key, raw.val) /\ f.src = s
  BY <1>2 DEF Row, Seen
<1>5. (raw.doc = NoDoc) <=> (s \in Texts)
  <2>1. CASE raw.doc = NoDoc
    BY <1>3, <2>1 DEF Origins, TypeOK
  <2>2. CASE raw.doc # NoDoc
    <3>1. s \in Docs
      BY <1>3, <2>2, ClientAssumption DEF OriginOf, RawEntity
    <3> QED BY <2>2, <3>1, SourcesAssumption
  <2> QED BY <2>1, <2>2
<1> QED BY <1>3, <1>4, <1>5 DEF Quoted, Origins

LEMMA QuotedStep ==
  ASSUME TypeOK, ClientTypeOK, QuotedInv, [ClientNext]_allVars
  PROVE  QuotedInv'
<1>1. CASE draft' = draft
  BY <1>1, ReturnedStays DEF QuotedInv, Quoted
<1>2. ASSUME NEW r \in Runs, Accept(r) PROVE QuotedInv'
  <2>1. /\ reply' = reply /\ at'[r] = "returned"
        /\ \A q \in Runs \ {r} : at'[q] = at[q] /\ draft'[q] = draft[q]
    BY <1>2 DEF Accept, Move, ClientTypeOK, TypeOK
  <2>2. \A f \in draft'[r] : Quoted(r, f)
    BY <1>2, AcceptQuotes
  <2> QED BY <2>1, <2>2 DEF QuotedInv, Quoted
<1> QED BY <1>1, <1>2, ReturnedStays

\* Every row a run drafts has its quote in the source it names: the draft is
\* made of quotes the check has found, and a match is a passage.
THEOREM FactsAlwaysQuoted == ClientSpec => []FactsHavePassage
<1>1. ClientInit => QuotedInv
  BY DEF ClientInit, Init, QuotedInv
<1>2. QuotedInv => FactsHavePassage
  <2>1. ASSUME NEW raw \in RawEntities, NEW s \in FoundIn[raw] PROVE s \in PassageIn[raw]
    <3>1. s \in Sources /\ Contains(TextOf[s], raw.quote)
      BY DEF FoundIn
    <3>2. TextOf[s] \in Seq(STRING) /\ raw.quote \in Seq(STRING)
      BY <3>1, ClientAssumption DEF RawEntity
    <3> QED BY <3>1, <3>2, MatchIsPassage DEF PassageIn
  <2> QED BY <2>1 DEF QuotedInv, Quoted, FactsHavePassage
<1>3. ClientSpec => []TypeOK
  BY ClientKeepsPipeline, TypeCorrect, PTL
<1> QED BY <1>1, <1>2, <1>3, ClientTyped, QuotedStep, PTL DEF ClientSpec
=============================================================================
