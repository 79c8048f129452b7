------------------------------- MODULE Intake -------------------------------
(***************************************************************************)
(* The webhook POST /webhooks/incoming-message, from the request to the    *)
(* queued pipeline run: the handler (api/routes/webhooks.py), the cache of *)
(* answers in Redis (services/idempotency.py) and the transaction that     *)
(* stores the message (services/intake.py).                                *)
(*                                                                         *)
(* A delivery is one HTTP request.  Deliveries of the same scope carry the *)
(* same message: the provider sends it again when it has seen no answer.   *)
(* A delivery that creates an application or a message gives it its own    *)
(* name, as the generated identifiers do.  Deliveries run concurrently, in *)
(* one or several workers; a step is what one does between two awaits.     *)
(***************************************************************************)
EXTENDS Naturals, Sequences

CONSTANTS
  Deliveries,     \* HTTP requests
  UserOf,         \* the borrower of a delivery, stripped
  ScopeOf,        \* its "user:key" string, in the database and in Redis
  AttachmentsOf,  \* its attachments, each "file", "url" or "bad"
  TooLong,        \* deliveries with an Idempotency-Key over 255 characters
  Unstorable,     \* deliveries with a column value the database refuses
  Fragile,        \* deliveries whose worker may stop
  Outcomes        \* bound: the statuses a run of the pipeline may set

ASSUME DeliveriesAssumption ==
  /\ DOMAIN UserOf = Deliveries /\ DOMAIN ScopeOf = Deliveries
  /\ AttachmentsOf \in [Deliveries -> Seq({"file", "url", "bad"})]
  /\ \A d \in Deliveries : Len(AttachmentsOf[d]) <= 10
  /\ TooLong \subseteq Deliveries /\ Unstorable \subseteq Deliveries
  /\ Fragile \subseteq Deliveries

Statuses == {"pending_docs", "processing", "manual_review", "ready_for_los"}
ASSUME OutcomesAssumption == Outcomes \subseteq Statuses
OpenStatuses == {"pending_docs", "processing", "manual_review"}

\* A delivery's place is named for the step it takes next.
InFlight == {"resolve", "commit", "replay", "store", "respond"}
Ended == {"answered", "rejected", "failed", "dead"}
Places == {"new"} \cup InFlight \cup Ended

VARIABLES
  \* the database, the object store and Redis
  appStatus,  \* status of the application a delivery created, or "absent"
  created,    \* applications in the order of their created_at
  comms,      \* message rows, by the delivery that stored them
  appOf,      \* the application of a message row
  docs,       \* document rows
  files,      \* documents whose payload is on disk
  cache,      \* answers in Redis, at most one to a scope
  \* each delivery
  pc,         \* where it is
  target,     \* the application it found or created
  seen,       \* the status that application had then
  ack,        \* the answer it gives
  task        \* its background run of the pipeline

dbVars == <<appStatus, created, comms, appOf, docs, files>>
vars == <<dbVars, cache, pc, target, seen, ack, task>>

\* The i-th document of delivery d.
DocIds == {<<d, i>> : d \in Deliveries, i \in 1..10}
Ack == [app : Deliveries, comm : Deliveries, status : Statuses, docs : SUBSET DocIds]
NoAck == [app |-> "none"]

Init ==
  /\ appStatus = [a \in Deliveries |-> "absent"]
  /\ created = <<>> /\ comms = {} /\ docs = {} /\ files = {} /\ cache = {}
  /\ appOf = [d \in Deliveries |-> d]
  /\ pc = [d \in Deliveries |-> "new"]
  /\ target = [d \in Deliveries |-> d]
  /\ seen = [d \in Deliveries |-> "pending_docs"]
  /\ ack = [d \in Deliveries |-> NoAck]
  /\ task = [d \in Deliveries |-> "none"]

Goto(d, place) == pc' = [pc EXCEPT ![d] = place]
-----------------------------------------------------------------------------
(***************************************************************************)
(* The handler asks Redis first.  A hit is answered from the cache and     *)
(* nothing is queued; an error of Redis counts as a miss.                  *)
(***************************************************************************)
Cached(d) == {e \in cache : e.scope = ScopeOf[d]}

Reject(d) ==
  /\ pc[d] = "new" /\ d \in TooLong
  /\ Goto(d, "rejected")
  /\ UNCHANGED <<dbVars, cache, target, seen, ack, task>>

Hit(d) ==
  /\ pc[d] = "new" /\ d \notin TooLong
  /\ \E e \in Cached(d) : ack' = [ack EXCEPT ![d] = e.ack]
  /\ Goto(d, "answered")
  /\ UNCHANGED <<dbVars, cache, target, seen, task>>

\* The key is not there, or Redis does not answer.
Miss(d) ==
  /\ pc[d] = "new" /\ d \notin TooLong
  /\ Goto(d, "resolve")
  /\ UNCHANGED <<dbVars, cache, target, seen, ack, task>>
-----------------------------------------------------------------------------
(***************************************************************************)
(* _resolve_open_application: the newest open application of the borrower, *)
(* or a new one that other transactions see only after the commit.  Then,  *)
(* with no await between, _build_document for each attachment in turn: a   *)
(* payload is on disk before the transaction commits, and stays there if   *)
(* it does not; one bad attachment ends the request.                       *)
(***************************************************************************)
Open(d) == {a \in Deliveries : appStatus[a] \in OpenStatuses /\ UserOf[a] = UserOf[d]}

Precedes(a, b) ==
  \E i, j \in DOMAIN created : i < j /\ created[i] = a /\ created[j] = b

Slots(d) == DOMAIN AttachmentsOf[d]

Acceptable(d) == \A i \in Slots(d) : AttachmentsOf[d][i] # "bad"

\* Fault: payloads are left to be written after the commit.
PayloadsLater(d) == {}

Payloads(d) ==
  {<<d, i>> : i \in {k \in Slots(d) : /\ AttachmentsOf[d][k] = "file"
                                      /\ \A j \in 1..k : AttachmentsOf[d][j] # "bad"}}

RowsOf(d) == {<<d, i>> : i \in Slots(d)}

\* The answer for a message stored in application a, found in status s.
\* Fault: the status is read from the table, where the row is not committed yet.
AnswerFromTable(d, a, s) ==
  [app |-> a, comm |-> d, status |-> appStatus[a], docs |-> RowsOf(d)]

Answer(d, a, s) == [app |-> a, comm |-> d, status |-> s, docs |-> RowsOf(d)]

\* Fault: the answer is cached before the commit.
BuildAndCache(d, a, s) ==
  /\ files' = files \cup Payloads(d)
  /\ cache' = cache \cup {[scope |-> ScopeOf[d], ack |-> Answer(d, a, s)]}
  /\ Goto(d, IF Acceptable(d) THEN "commit" ELSE "rejected")

Build(d, a, s) ==
  /\ files' = files \cup Payloads(d)
  /\ cache' = cache
  /\ Goto(d, IF Acceptable(d) THEN "commit" ELSE "rejected")

Take(d, a, s) ==
  /\ target' = [target EXCEPT ![d] = a]
  /\ seen' = [seen EXCEPT ![d] = s]
  /\ Build(d, a, s)

Find(d) ==
  /\ pc[d] = "resolve"
  /\ \E a \in Open(d) :
       /\ \A b \in Open(d) \ {a} : Precedes(b, a)
       /\ Take(d, a, appStatus[a])
  /\ UNCHANGED <<appStatus, created, comms, appOf, docs, ack, task>>

Create(d) ==
  /\ pc[d] = "resolve" /\ Open(d) = {}
  /\ Take(d, d, "pending_docs")
  /\ created' = Append(created, d)
  /\ UNCHANGED <<appStatus, comms, appOf, docs, ack, task>>
-----------------------------------------------------------------------------
(***************************************************************************)
(* The commit.  The scope is unique in the table of messages: the second   *)
(* message of a scope rolls back and is answered from what the first left. *)
(***************************************************************************)
\* Fault: a key is unique within an application only.
HoldersInApp(d) == {c \in comms : ScopeOf[c] = ScopeOf[d] /\ appOf[c] = target[d]}

Holders(d) == {c \in comms : ScopeOf[c] = ScopeOf[d]}
DocsOfApp(a) == {x \in docs : appOf[x[1]] = a}

Commit(d) ==
  /\ pc[d] = "commit" /\ d \notin Unstorable /\ Holders(d) = {}
  /\ appStatus' = IF target[d] = d THEN [appStatus EXCEPT ![d] = "pending_docs"] ELSE appStatus
  /\ comms' = comms \cup {d}
  /\ appOf' = [appOf EXCEPT ![d] = target[d]]
  /\ docs' = docs \cup RowsOf(d)
  /\ ack' = [ack EXCEPT ![d] = Answer(d, target[d], seen[d])]
  /\ Goto(d, "store")
  /\ UNCHANGED <<created, files, cache, target, seen, task>>

Conflict(d) ==
  /\ pc[d] = "commit" /\ d \notin Unstorable /\ Holders(d) # {}
  /\ Goto(d, "replay")
  /\ UNCHANGED <<dbVars, cache, target, seen, ack, task>>

\* An error of the database other than a violated constraint is not caught.
Refused(d) ==
  /\ pc[d] = "commit" /\ d \in Unstorable
  /\ Goto(d, "failed")
  /\ UNCHANGED <<dbVars, cache, target, seen, ack, task>>

\* Fault: the borrower of the earlier message is not looked at.
ReplayableToAll(d, c) == TRUE

Replayable(d, c) == UserOf[appOf[c]] = UserOf[d]

Replay(d) ==
  /\ pc[d] = "replay"
  /\ \E c \in Holders(d) :
       /\ Replayable(d, c)
       /\ ack' = [ack EXCEPT ![d] =
            [app |-> appOf[c], comm |-> c, status |-> appStatus[appOf[c]],
             docs |-> DocsOfApp(appOf[c])]]
  /\ Goto(d, "store")
  /\ UNCHANGED <<dbVars, cache, target, seen, task>>

\* Fault: the commit is tried again.
ReplayRetries(d) ==
  /\ pc[d] = "replay"
  /\ \A c \in Holders(d) : ~Replayable(d, c)
  /\ Goto(d, "commit")
  /\ UNCHANGED <<dbVars, cache, target, seen, ack, task>>

\* The message with this scope belongs to another borrower: the violated
\* constraint is raised again.
ReplayDenied(d) ==
  /\ pc[d] = "replay"
  /\ \A c \in Holders(d) : ~Replayable(d, c)
  /\ Goto(d, "failed")
  /\ UNCHANGED <<dbVars, cache, target, seen, ack, task>>
-----------------------------------------------------------------------------
(***************************************************************************)
(* The answer is cached if Redis takes it, the run is queued, the response *)
(* is sent; the run starts after the response, in the same process.        *)
(***************************************************************************)
StoreAnswer(d) ==
  /\ pc[d] = "store"
  /\ \/ cache' = (cache \ Cached(d)) \cup {[scope |-> ScopeOf[d], ack |-> ack[d]]}
     \/ cache' = cache
  /\ Goto(d, "respond")
  /\ UNCHANGED <<dbVars, target, seen, ack, task>>

\* Fault: only a delivery that created its application queues a run.
RespondIfFresh(d) ==
  /\ pc[d] = "respond"
  /\ task' = [task EXCEPT ![d] = IF target[d] = d THEN "queued" ELSE "none"]
  /\ Goto(d, "answered")
  /\ UNCHANGED <<dbVars, cache, target, seen, ack>>

Respond(d) ==
  /\ pc[d] = "respond"
  /\ task' = [task EXCEPT ![d] = "queued"]
  /\ Goto(d, "answered")
  /\ UNCHANGED <<dbVars, cache, target, seen, ack>>

StartRun(d) ==
  /\ task[d] = "queued"
  /\ task' = [task EXCEPT ![d] = "started"]
  /\ UNCHANGED <<dbVars, cache, pc, target, seen, ack>>
-----------------------------------------------------------------------------
\* A run that has started sets the status of its application (see Pipeline).
RunMoves(d) ==
  /\ task[d] = "started"
  /\ \E s \in Outcomes : appStatus' = [appStatus EXCEPT ![ack[d].app] = s]
  /\ UNCHANGED <<created, comms, appOf, docs, files, cache, pc, target, seen, ack, task>>

\* An answer leaves Redis: its time is over, or Redis has lost it.
Expire ==
  /\ \E e \in cache : cache' = cache \ {e}
  /\ UNCHANGED <<dbVars, pc, target, seen, ack, task>>

\* The worker stops: an open transaction rolls back, a queued run is lost.
Crash(d) ==
  /\ d \in Fragile
  /\ \/ /\ pc[d] \in InFlight
        /\ Goto(d, "dead") /\ UNCHANGED task
     \/ /\ task[d] = "queued"
        /\ task' = [task EXCEPT ![d] = "lost"] /\ UNCHANGED pc
  /\ UNCHANGED <<dbVars, cache, target, seen, ack>>

Handle(d) ==
  \/ Find(d) \/ Create(d)
  \/ Commit(d) \/ Conflict(d) \/ Refused(d) \/ Replay(d) \/ ReplayDenied(d)
  \/ StoreAnswer(d) \/ Respond(d) \/ StartRun(d)

Next ==
  \/ \E d \in Deliveries :
       Reject(d) \/ Hit(d) \/ Miss(d) \/ Handle(d) \/ RunMoves(d) \/ Crash(d)
  \/ Expire

Spec == Init /\ [][Next]_vars

\* A request that was taken up is worked on, and so is a queued run.
FairSpec == Spec /\ \A d \in Deliveries : WF_vars(Handle(d))
-----------------------------------------------------------------------------
\* Every variable keeps its type.
TypeOK ==
  /\ appStatus \in [Deliveries -> Statuses \cup {"absent"}]
  /\ created \in Seq(Deliveries)
  /\ comms \subseteq Deliveries
  /\ appOf \in [Deliveries -> Deliveries]
  /\ docs \subseteq DocIds /\ files \subseteq DocIds
  /\ \A e \in cache : e.ack \in Ack
  /\ pc \in [Deliveries -> Places]
  /\ target \in [Deliveries -> Deliveries]
  /\ seen \in [Deliveries -> Statuses]
  /\ ack \in [Deliveries -> Ack \cup {NoAck}]
  /\ task \in [Deliveries -> {"none", "queued", "started", "lost"}]

Backed(a) ==
  /\ a.comm \in comms /\ appOf[a.comm] = a.app /\ appStatus[a.app] # "absent"
  /\ a.docs \subseteq DocsOfApp(a.app)

\* An answer the service gives, or keeps to give again, names rows that are
\* committed: whatever order the cache, the commit, rollbacks and crashes take,
\* no caller is told of a message, an application or a document that is not there.
AckedIsDurable ==
  /\ \A d \in Deliveries : pc[d] \in {"store", "respond", "answered"} => Backed(ack[d])
  /\ \A e \in cache : Backed(e.ack)

\* A document row with a payload has its file, also when the worker stopped
\* half-way: files may be left without a row, never a row without its file.
DocumentHasFile ==
  \A x \in docs : AttachmentsOf[x[1]][x[2]] = "file" => x \in files

\* A queued run finds its application, which belongs to the borrower whose
\* delivery queued it and holds the message of that delivery's scope.
QueuedIsOwn ==
  \A d \in Deliveries :
    task[d] # "none" =>
      /\ appStatus[ack[d].app] # "absent" /\ UserOf[ack[d].app] = UserOf[d]
      /\ \E c \in comms : ScopeOf[c] = ScopeOf[d] /\ appOf[c] = ack[d].app

Reply(d) ==
  IF pc[d] = "answered" THEN ack[d].comm
  ELSE IF pc[d] \in {"rejected", "failed"} THEN "error" ELSE "none"

Promise == INSTANCE Inbox WITH inbox <- comms, reply <- [d \in Deliveries |-> Reply(d)]

\* The handler, its cache and its transaction implement the inbox: one message
\* to a scope, and every accepted delivery is told that message.
ImplementsInbox == Promise!Spec

\* Without crashes, every request that was taken up is answered.
RequestsEnd == \A d \in Deliveries : (pc[d] \in InFlight) ~> (pc[d] \in Ended)

\* Without crashes, a stored message gets a run of its own, queued by a delivery
\* of its scope.
MessagesGetRun ==
  \A d \in Deliveries :
    (d \in comms) ~> (\E e \in Deliveries : ScopeOf[e] = ScopeOf[d] /\ task[e] = "started")

\* "Replay the original ack" (intake.py): deliveries of one message are told of
\* the same message, application and documents.
ReplayIsOriginalAck ==
  \A d, e \in Deliveries :
    (pc[d] = "answered" /\ pc[e] = "answered" /\ ScopeOf[d] = ScopeOf[e]) =>
      ack[d].comm = ack[e].comm /\ ack[d].app = ack[e].app /\ ack[d].docs = ack[e].docs
=============================================================================
