----------------------------- MODULE ModelClient -----------------------------
(***************************************************************************)
(* The call of the language model inside the runs of Pipeline: the retry   *)
(* loop of extract_facts (services/llm_client.py), the provider at the     *)
(* other end, which may carry out a request whose answer nobody waits for, *)
(* the errors extract_trace catches and those it does not, and the check   *)
(* of every quote.                                                         *)
(*                                                                         *)
(* Pipeline takes the call as one step with any outcome.  Here the same    *)
(* runs go through it attempt by attempt; everything else they do is       *)
(* Pipeline's.                                                             *)
(***************************************************************************)
EXTENDS Pipeline, SourceTrace

CONSTANTS
  MaxRetries,    \* llm_max_retries
  Modes,         \* the settings of llm_mock: "provider", "mock"
  RawEntities,   \* the entities an answer may hold
  TextOf         \* the text of a source

\* An entity as the model returns it names a document, or none for the chat.
RawEntity == [key : STRING, val : Value, doc : Docs \cup {NoDoc}, quote : Seq(STRING)]

\* The sources in which an entity's quote is found.
FoundIn == [raw \in RawEntities |-> {s \in Sources : Contains(TextOf[s], raw.quote)}]

\* What Pipeline calls an entity: one with a source, and whether its quote is there.
Seen(raw, s) ==
  [key |-> raw.key, val |-> raw.val, src |-> s, quoted |-> s \in FoundIn[raw]]

ASSUME ClientAssumption ==
  /\ MaxRetries \in Nat /\ Modes \subseteq {"provider", "mock"}
  /\ TextOf \in [Sources -> Seq(STRING)]
  /\ RawEntities \subseteq RawEntity
  /\ \A raw \in RawEntities, s \in Sources : Seen(raw, s) \in Entities
  /\ NoDoc \notin Sources

\* What an attempt may end with; the provider has not carried out a request it refuses.
Refusals == {"rate_limit", "auth", "bad_request"}
Breaks == {"timeout", "connection", "other"}
Codes == {"llm_rate_limited", "llm_timeout", "llm_misconfigured", "llm_provider_error",
          "llm_output_unparseable"}
NoCode == "none"

\* An answer that is no ExtractionResult.
Garbled == {[doc |-> "garbled"]}

\* What the client cannot handle, and raises an error of no type of its own for:
\* a response without choices; in the mock, an amount without digits, a quote
\* longer than an entity may have, more finds than an answer may have.
Unusable == {[doc |-> "unusable"]}

VARIABLES
  mode,      \* llm_mock of the process
  at,        \* where a run is in the call
  outcomes,  \* what its attempts ended with so far
  received,  \* the attempts the provider has not refused
  executed,  \* history: the attempts it has carried out
  reply,     \* the answer
  code       \* error_code of the run's extract.degraded row, or of the error on its way

clientVars == <<mode, at, outcomes, received, executed, reply, code>>
allVars == <<vars, clientVars>>

ClientInit ==
  /\ Init
  /\ mode \in Modes
  /\ at = [r \in Runs |-> "ready"]
  /\ outcomes = [r \in Runs |-> <<>>]
  /\ received = [r \in Runs |-> {}] /\ executed = [r \in Runs |-> {}]
  /\ reply = [r \in Runs |-> {}]
  /\ code = [r \in Runs |-> NoCode]

Calling(r, place) == pc[r] = "extract" /\ ~NoSources(r) /\ at[r] = place
Attempt(r) == Len(outcomes[r])
Move(r, place) == at' = [at EXCEPT ![r] = place]
EndAttempt(r, outcome) == outcomes' = [outcomes EXCEPT ![r] = Append(@, outcome)]
-----------------------------------------------------------------------------
(***************************************************************************)
(* The retry loop.  Only a rate limit is tried again, after a pause.       *)
(***************************************************************************)
\* Fault: one attempt too many before giving up.
GivesUpLate(r) == Attempt(r) > MaxRetries

GivesUp(r) == Attempt(r) >= MaxRetries

\* Fault: the provider's own name of the error is kept.
CodeAsGiven(outcome) == outcome

\* Fault: a broken connection is looked for before a timeout, which is one too.
CodeByBase(outcome) ==
  CASE outcome = "rate_limit" -> "llm_rate_limited"
    [] outcome \in {"auth", "bad_request"} -> "llm_misconfigured"
    [] OTHER -> "llm_provider_error"

CodeOf(outcome) ==
  CASE outcome = "rate_limit" -> "llm_rate_limited"
    [] outcome = "timeout" -> "llm_timeout"
    [] outcome \in {"auth", "bad_request"} -> "llm_misconfigured"
    [] OTHER -> "llm_provider_error"

Raise(r, c) == code' = [code EXCEPT ![r] = c] /\ Move(r, "raised")

\* The provider has the request; with it, or later, it may carry it out.
Ask(r) ==
  /\ Calling(r, "ready") /\ mode = "provider"
  /\ received' = [received EXCEPT ![r] = @ \cup {Attempt(r)}]
  /\ Move(r, "waiting")
  /\ UNCHANGED <<vars, mode, outcomes, executed, reply, code>>

Execute(r) ==
  /\ \E k \in received[r] \ executed[r] : executed' = [executed EXCEPT ![r] = @ \cup {k}]
  /\ UNCHANGED <<vars, mode, at, outcomes, received, reply, code>>

Refused(r) ==
  /\ Attempt(r) \notin executed[r]
  /\ received' = [received EXCEPT ![r] = @ \ {Attempt(r)}]

RateLimited(r) ==
  /\ Calling(r, "waiting") /\ Refused(r)
  /\ EndAttempt(r, "rate_limit")
  /\ IF GivesUp(r) THEN Raise(r, CodeOf("rate_limit")) ELSE Move(r, "asleep") /\ UNCHANGED code
  /\ UNCHANGED <<vars, mode, executed, reply>>

\* The pause is over.  The loop ends without an answer if it is exhausted.
Wake(r) ==
  /\ Calling(r, "asleep")
  /\ Move(r, IF Attempt(r) <= MaxRetries THEN "ready" ELSE "parse")
  /\ UNCHANGED <<vars, mode, outcomes, received, executed, reply, code>>

\* Fault: a timeout is tried again like a rate limit.
BreaksOrRetries(r, outcome) ==
  IF outcome = "timeout" /\ ~GivesUp(r) THEN Move(r, "asleep") /\ UNCHANGED code
  ELSE Raise(r, CodeOf(outcome))

Fails(r, outcome) == Raise(r, CodeOf(outcome))

Break(r) ==
  /\ Calling(r, "waiting")
  /\ \/ \E o \in Refusals \ {"rate_limit"} : Refused(r) /\ EndAttempt(r, o) /\ Fails(r, o)
     \/ \E o \in Breaks : EndAttempt(r, o) /\ Fails(r, o) /\ UNCHANGED received
  /\ UNCHANGED <<vars, mode, executed, reply>>

Answer(r) ==
  /\ Calling(r, "waiting") /\ Attempt(r) \in executed[r]
  /\ EndAttempt(r, "answer")
  /\ \E a \in AnswersFrom(RawEntities) \cup {Garbled, Unusable} :
       reply' = [reply EXCEPT ![r] = a]
  /\ Move(r, "parse")
  /\ UNCHANGED <<vars, mode, received, executed, code>>
-----------------------------------------------------------------------------
(***************************************************************************)
(* What becomes of an answer: _validate_entities.  A quote must be in the  *)
(* document it names, or in some message if it names none.                 *)
(***************************************************************************)
Origins(r, raw) ==
  FoundIn[raw] \cap (IF raw.doc = NoDoc THEN chats[r] ELSE {raw.doc} \cap parsed[r])

Accepted(r) == {raw \in reply[r] : raw.key \in KnownKeys /\ Origins(r, raw) # {}}

\* A row has the document the entity names; that a stated fact leads to one
\* message is Pipeline's way to say that some message has its quote.
OriginOf(r, raw) == IF raw.doc = NoDoc THEN CHOOSE s \in Origins(r, raw) : TRUE ELSE raw.doc

\* No row is written in one step with the DELETE: see CommitFacts of Pipeline.
Accept(r) ==
  /\ Calling(r, "parse") /\ reply[r] \notin {Garbled, Unusable}
  /\ draft' = [draft EXCEPT ![r] = {Row(r, Seen(raw, OriginOf(r, raw))) : raw \in Accepted(r)}]
  /\ doomed' = [doomed EXCEPT ![r] = facts]
  /\ Goto(r, "persist") /\ Move(r, "returned")
  /\ UNCHANGED <<dbVars, mem, parsed, failed, chats, missing, channel, dup>>
  /\ UNCHANGED <<mode, outcomes, received, executed, reply, code>>

ParseFails(r) ==
  /\ Calling(r, "parse") /\ reply[r] = Garbled
  /\ Raise(r, "llm_output_unparseable")
  /\ UNCHANGED <<vars, mode, outcomes, received, executed, reply>>

\* Nothing catches the error of an answer the client cannot handle.
AnswerEscapes(r) ==
  /\ Calling(r, "parse") /\ reply[r] = Unusable
  /\ Escape(r)
  /\ Move(r, "returned")
  /\ UNCHANGED <<mode, outcomes, received, executed, reply, code>>

\* Fault: the flag that ends the graph is lost, and the run goes on to reconcile.
CatchAndCarryOn(r) ==
  /\ at[r] = "raised" /\ code[r] \in Codes
  /\ pc[r] = "extract"
  /\ Assign(r, "manual_review")
  /\ audit' = audit \cup {[run |-> r, action |-> "extract.degraded", doc |-> NoDoc]}
  /\ Goto(r, "reconcile")
  /\ Move(r, "returned")
  /\ UNCHANGED <<msg, rawText, facts, sent, anomalies, parsed, failed, chats, draft, doomed,
                 missing, channel, dup>>
  /\ UNCHANGED <<mode, outcomes, received, executed, reply, code>>

\* The five typed errors are caught, and no other.
CatchAndDegrade(r) ==
  /\ at[r] = "raised" /\ code[r] \in Codes
  /\ Degrade(r)
  /\ Move(r, "returned")
  /\ UNCHANGED <<mode, outcomes, received, executed, reply, code>>

\* The mock has no await: words in a source make it raise, and what it finds
\* it quotes from the source it searched.
MockRaises(r) ==
  /\ Calling(r, "ready") /\ mode = "mock"
  /\ \E c \in {"llm_timeout", "llm_rate_limited", "llm_output_unparseable"} : Raise(r, c)
  /\ UNCHANGED <<vars, mode, outcomes, received, executed, reply>>

MockFinds(r) ==
  /\ Calling(r, "ready") /\ mode = "mock"
  /\ \E a \in AnswersFrom({raw \in RawEntities : Origins(r, raw) # {}}) \cup {Unusable} :
       reply' = [reply EXCEPT ![r] = a]
  /\ Move(r, "parse")
  /\ UNCHANGED <<vars, mode, outcomes, received, executed, code>>
-----------------------------------------------------------------------------
Call(r) ==
  \/ Ask(r) \/ RateLimited(r) \/ Wake(r) \/ Break(r) \/ Answer(r)
  \/ ParseFails(r) \/ Accept(r) \/ AnswerEscapes(r) \/ CatchAndDegrade(r)
  \/ MockRaises(r) \/ MockFinds(r)

\* The steps of a run outside the call.
Elsewhere(r) ==
  /\ \/ Load(r) \/ Claim(r)
     \/ ReadDocuments(r) \/ CommitIngest(r) \/ IngestRefused(r)
     \/ SkipExtract(r) \/ CommitFacts(r)
     \/ ReconcileFacts(r)
     \/ ReadFacts(r) \/ CheckDuplicate(r) \/ CommitChase(r)
  /\ UNCHANGED clientVars

RunStep(r) == Call(r) \/ Elsewhere(r)

ClientNext ==
  \/ Intake /\ UNCHANGED clientVars
  \/ \E r \in Runs : RunStep(r) \/ Execute(r) \/ (Abort(r) /\ UNCHANGED clientVars)

ClientSpec == ClientInit /\ [][ClientNext]_allVars

\* Every attempt has a timeout (llm_timeout_seconds) and every pause an end; the
\* provider is not assumed to answer.
FairClientSpec == ClientSpec /\ \A r \in Runs : WF_allVars(RunStep(r))
-----------------------------------------------------------------------------
\* Every variable of the call keeps its type.
ClientTypeOK ==
  /\ mode \in Modes
  /\ at \in [Runs -> {"ready", "waiting", "asleep", "parse", "raised", "returned"}]
  /\ outcomes \in [Runs -> Seq(Refusals \cup Breaks \cup {"answer"})]
  /\ received \in [Runs -> SUBSET (0..MaxRetries)]
  /\ executed \in [Runs -> SUBSET (0..MaxRetries)]
  /\ reply \in [Runs -> AnswersFrom(RawEntities) \cup {Garbled, Unusable}]
  /\ code \in [Runs -> Codes \cup {NoCode}]

\* The provider carries out, and bills, at most one request of a run, whatever
\* is refused, times out or is carried out after nobody waits any more.
PaidOnce == \A r \in Runs : \A j, k \in executed[r] : j = k

\* "assert response is not None" (llm_client.py), which nothing catches: the loop
\* is left with an answer or by an error.
ResponsePresent ==
  \A r \in Runs : (mode = "provider" /\ at[r] = "parse") =>
    outcomes[r] # <<>> /\ outcomes[r][Len(outcomes[r])] = "answer"

Limited(r) == {i \in DOMAIN outcomes[r] : outcomes[r][i] = "rate_limit"}

\* The code an officer reads in the extract.degraded row names what happened:
\* llm_rate_limited stands for every attempt refused and nothing carried out,
\* llm_timeout for a request whose fate is unknown, llm_misconfigured for one
\* never carried out, llm_output_unparseable for one that was.
CodeNamesCause ==
  mode = "provider" =>
    \A r \in Runs :
      LET last == Len(outcomes[r]) IN
      /\ code[r] = "llm_rate_limited" =>
           Limited(r) = 1..(MaxRetries + 1) /\ executed[r] = {}
      /\ code[r] \notin {NoCode, "llm_rate_limited"} => Limited(r) = 1..(last - 1)
      /\ (last > 0 /\ outcomes[r][last] = "timeout") => code[r] = "llm_timeout"
      /\ code[r] = "llm_misconfigured" => executed[r] = {}
      /\ code[r] = "llm_output_unparseable" => executed[r] = {last - 1}

PassageIn == [raw \in RawEntities |-> {s \in Sources : HasPassage(TextOf[s], raw.quote)}]

\* Every row a run drafts has its quote in the source it names: some passage
\* there that differs from the quote in case and punctuation only.
FactsHavePassage ==
  \A r \in Runs : \A f \in draft[r] :
    \E raw \in reply[r] :
      /\ raw.key = f.key /\ f.val = Coerce(raw.key, raw.val)
      /\ (raw.doc = NoDoc) <=> (f.src \in Texts)
      /\ f.src \in PassageIn[raw]

\* The runs with the call in detail are runs of Pipeline: its one step with any
\* outcome is all the call can do to the application, and it comes to an end.
ImplementsPipeline == FairSpec
=============================================================================
