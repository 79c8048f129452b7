---------------------------- MODULE IntakeProofs ----------------------------
(***************************************************************************)
(* Theorems about Intake, for every set of deliveries, borrowers, scopes   *)
(* and attachments, with workers stopping and Redis failing at any moment. *)
(***************************************************************************)
EXTENDS Intake, SequenceTheorems, TLAPS

\* A delivery here has an answer.
Settled == {"store", "respond", "answered"}

LEMMA RowsTyped == ASSUME NEW d \in Deliveries PROVE RowsOf(d) \subseteq DocIds
<1>1. Slots(d) \subseteq 1..10
  BY DeliveriesAssumption, LenProperties DEF Slots
<1> QED BY <1>1 DEF RowsOf, DocIds

LEMMA AnswerTyped ==
  ASSUME NEW d \in Deliveries, NEW a \in Deliveries, NEW s \in Statuses
  PROVE  Answer(d, a, s) \in Ack
BY RowsTyped DEF Answer, Ack

\* An application that is found is open.
LEMMA FoundIsOpen ==
  ASSUME NEW d \in Deliveries, NEW a \in Open(d)
  PROVE  /\ a \in Deliveries /\ UserOf[a] = UserOf[d]
         /\ appStatus[a] \in Statuses /\ appStatus[a] # "absent"
BY DEF Open, OpenStatuses, Statuses

(***************************************************************************)
(* What no step takes away: rows and files are only added, a message keeps *)
(* its application, and an application that exists goes on existing.       *)
(***************************************************************************)
Exists(a) == appStatus[a] # "absent"

Grows ==
  /\ comms \subseteq comms' /\ docs \subseteq docs' /\ files \subseteq files'
  /\ \A c \in comms : appOf'[c] = appOf[c]
  /\ \A a \in Deliveries : Exists(a) => Exists(a)'

LEMMA RowsStay == TypeOK /\ [Next]_vars => Grows
<1> SUFFICES ASSUME TypeOK, [Next]_vars PROVE Grows
  OBVIOUS
<1> USE DEF TypeOK, Grows, Exists
<1>1. ASSUME NEW d \in Deliveries, Find(d) \/ Create(d) PROVE Grows
  BY <1>1 DEF Find, Create, Take, Build
<1>2. ASSUME NEW d \in Deliveries, Commit(d) PROVE Grows
  <2>1. d \notin comms
    BY <1>2 DEF Commit, Holders
  <2> QED BY <1>2, <2>1 DEF Commit
<1>3. ASSUME NEW d \in Deliveries, RunMoves(d) PROVE Grows
  BY <1>3, OutcomesAssumption DEF RunMoves, Statuses
<1>4. CASE UNCHANGED dbVars
  BY <1>4 DEF dbVars
<1> QED
  BY <1>1, <1>2, <1>3, <1>4
     DEF Next, Handle, Reject, Hit, Miss, Conflict, Refused, Replay, ReplayDenied, StoreAnswer,
         Respond, StartRun, Crash, Expire, vars
-----------------------------------------------------------------------------
(***************************************************************************)
(* TypeOK is inductive once it is known that a delivery with an answer has *)
(* one to cache, and that a replay finds an application with a status.     *)
(***************************************************************************)
\* A message belongs to an application that exists; a delivery about to commit
\* has found one of its borrower, or brings its own.
Housed ==
  /\ \A c \in comms : Exists(appOf[c])
  /\ \A d \in Deliveries :
       pc[d] = "commit" => /\ UserOf[target[d]] = UserOf[d]
                           /\ target[d] = d \/ Exists(target[d])

Answered == \A d \in Deliveries : pc[d] \in Settled => ack[d] \in Ack

TypeInv == TypeOK /\ Housed /\ Answered

LEMMA TypeInvInit == Init => TypeInv
BY DEF Init, TypeInv, TypeOK, Housed, Answered, Settled, Places, Statuses

\* Only Find and Create bring a delivery to its commit.
LEMMA TargetsFound ==
  ASSUME TypeOK, [Next]_vars, NEW d \in Deliveries, pc'[d] = "commit"
  PROVE  \/ pc[d] = "commit" /\ target'[d] = target[d]
         \/ /\ target'[d] \in Deliveries /\ UserOf[target'[d]] = UserOf[d]
            /\ target'[d] = d \/ Exists(target'[d])
<1> USE DEF TypeOK, Goto
<1>1. CASE Find(d)
  <2>1. PICK a \in Open(d) : Take(d, a, appStatus[a])
    BY <1>1 DEF Find
  <2> QED BY <2>1, FoundIsOpen DEF Take, Exists
<1>2. CASE Create(d)
  BY <1>2 DEF Create, Take
<1>3. CASE ~Find(d) /\ ~Create(d)
  <2>1. ASSUME NEW e \in Deliveries, Find(e) \/ Create(e)
        PROVE  pc[d] = "commit" /\ target'[d] = target[d]
    <3>1. e # d
      BY <1>3, <2>1
    <3>2. PICK a \in Deliveries, s \in Statuses : Take(e, a, s)
      BY <2>1, FoundIsOpen DEF Find, Create, Statuses
    <3> QED BY <3>1, <3>2 DEF Take, Build
  <2>2. ASSUME NEW e \in Deliveries,
               \/ Reject(e) \/ Hit(e) \/ Miss(e) \/ Commit(e) \/ Conflict(e) \/ Refused(e)
               \/ Replay(e) \/ ReplayDenied(e) \/ StoreAnswer(e) \/ Respond(e)
        PROVE  pc[d] = "commit" /\ target' = target
    BY <2>2 DEF Reject, Hit, Miss, Commit, Conflict, Refused, Replay, ReplayDenied,
       StoreAnswer, Respond
  <2>3. ASSUME NEW e \in Deliveries, StartRun(e) \/ RunMoves(e) \/ Crash(e)
        PROVE  pc[d] = "commit" /\ target' = target
    BY <2>3 DEF StartRun, RunMoves, Crash
  <2>4. CASE Expire \/ UNCHANGED vars
    BY <2>4 DEF Expire, vars
  <2> QED BY <2>1, <2>2, <2>3, <2>4 DEF Next, Handle
<1> QED BY <1>1, <1>2, <1>3

LEMMA HousedStep == TypeOK /\ Housed /\ [Next]_vars => Housed'
<1> SUFFICES ASSUME TypeOK, Housed, [Next]_vars PROVE Housed'
  OBVIOUS
<1>1. Grows
  BY RowsStay
<1>2. ASSUME NEW d \in Deliveries, pc'[d] = "commit"
      PROVE  /\ UserOf[target'[d]] = UserOf[d]
             /\ target'[d] = d \/ appStatus'[target'[d]] # "absent"
  <2>1. CASE pc[d] = "commit" /\ target'[d] = target[d]
    BY <1>1, <2>1 DEF Housed, Grows, Exists, TypeOK
  <2>2. CASE ~(pc[d] = "commit" /\ target'[d] = target[d])
    <3>1. /\ target'[d] \in Deliveries /\ UserOf[target'[d]] = UserOf[d]
          /\ target'[d] = d \/ Exists(target'[d])
      BY <1>2, <2>2, TargetsFound
    <3> QED BY <1>1, <3>1 DEF Grows, Exists
  <2> QED BY <2>1, <2>2
<1>3. ASSUME NEW c \in comms' PROVE appStatus'[appOf'[c]] # "absent"
  <2>1. CASE c \in comms
    BY <1>1, <2>1 DEF Housed, Grows, Exists, TypeOK
  <2>2. CASE c \notin comms
    <3>1. PICK d \in Deliveries : Commit(d)
      BY <2>2 DEF Next, Handle, Reject, Hit, Miss, Find, Create, Conflict, Refused, Replay,
         ReplayDenied, StoreAnswer, Respond, StartRun, RunMoves, Crash, Expire, vars, dbVars
    <3>2. c = d /\ appOf'[d] = target[d]
      BY <2>2, <3>1 DEF Commit, TypeOK
    <3>3. appStatus'[target[d]] # "absent"
      BY <1>1, <3>1 DEF Commit, Housed, Grows, Exists, TypeOK
    <3> QED BY <3>2, <3>3
  <2> QED BY <2>1, <2>2
<1> QED BY <1>2, <1>3 DEF Housed, Exists

LEMMA TypesStep == TypeInv /\ [Next]_vars => TypeOK' /\ Answered'
<1> SUFFICES ASSUME TypeInv, [Next]_vars PROVE TypeOK' /\ Answered'
  OBVIOUS
<1> USE DEF TypeInv, TypeOK, Answered, Settled, Goto, Places, InFlight, Ended
<1>1. ASSUME NEW d \in Deliveries, Reject(d) PROVE TypeOK' /\ Answered'
  BY <1>1 DEF Reject, dbVars
<1>2. ASSUME NEW d \in Deliveries, Hit(d) PROVE TypeOK' /\ Answered'
  <2>1. PICK e \in cache : ack' = [ack EXCEPT ![d] = e.ack]
    BY <1>2 DEF Hit, Cached
  <2>2. e.ack \in Ack
    OBVIOUS
  <2> QED BY <1>2, <2>1, <2>2 DEF Hit, dbVars
<1>3. ASSUME NEW d \in Deliveries, Miss(d) PROVE TypeOK' /\ Answered'
  BY <1>3 DEF Miss, dbVars
<1>4. ASSUME NEW d \in Deliveries, NEW a \in Deliveries, NEW s \in Statuses, Take(d, a, s),
             pc[d] = "resolve", UNCHANGED <<appStatus, comms, appOf, docs, ack, task>>,
             created' = created \/ created' = Append(created, d)
      PROVE  TypeOK' /\ Answered'
  <2>1. Payloads(d) \subseteq DocIds
    BY RowsTyped DEF Payloads, RowsOf
  <2>2. files' = files \cup Payloads(d) /\ cache' = cache
    BY <1>4 DEF Take, Build
  <2>3. created' \in Seq(Deliveries)
    BY <1>4
  <2>4. PICK p \in {"commit", "rejected"} : pc' = [pc EXCEPT ![d] = p]
    BY <1>4 DEF Take, Build
  <2> QED BY <1>4, <2>1, <2>2, <2>3, <2>4 DEF Take
<1>5. ASSUME NEW d \in Deliveries, Find(d) PROVE TypeOK' /\ Answered'
  BY <1>4, <1>5, FoundIsOpen DEF Find
<1>6. ASSUME NEW d \in Deliveries, Create(d) PROVE TypeOK' /\ Answered'
  BY <1>4, <1>6 DEF Create, Statuses
<1>7. ASSUME NEW d \in Deliveries, Commit(d) PROVE TypeOK' /\ Answered'
  <2>1. RowsOf(d) \subseteq DocIds /\ Answer(d, target[d], seen[d]) \in Ack
    BY RowsTyped, AnswerTyped
  <2> QED BY <1>7, <2>1 DEF Commit, Statuses
<1>8. ASSUME NEW d \in Deliveries, Conflict(d) PROVE TypeOK' /\ Answered'
  BY <1>8 DEF Conflict, dbVars
<1>9. ASSUME NEW d \in Deliveries, Refused(d) PROVE TypeOK' /\ Answered'
  BY <1>9 DEF Refused, dbVars
<1>10. ASSUME NEW d \in Deliveries, Replay(d) PROVE TypeOK' /\ Answered'
  <2>1. PICK c \in Holders(d) :
          ack' = [ack EXCEPT ![d] = [app |-> appOf[c], comm |-> c,
                    status |-> appStatus[appOf[c]], docs |-> DocsOfApp(appOf[c])]]
    BY <1>10 DEF Replay
  <2>2. c \in Deliveries /\ appOf[c] \in Deliveries /\ appStatus[appOf[c]] \in Statuses
    BY DEF Holders, Housed, Exists
  <2>3. DocsOfApp(appOf[c]) \subseteq DocIds
    BY DEF DocsOfApp
  <2>4. ack' \in [Deliveries -> Ack \cup {NoAck}] /\ ack'[d] \in Ack
    BY <2>1, <2>2, <2>3 DEF Ack
  <2> QED BY <1>10, <2>4 DEF Replay, dbVars
<1>11. ASSUME NEW d \in Deliveries, ReplayDenied(d) PROVE TypeOK' /\ Answered'
  BY <1>11 DEF ReplayDenied, dbVars
<1>12. ASSUME NEW d \in Deliveries, StoreAnswer(d) PROVE TypeOK' /\ Answered'
  BY <1>12 DEF StoreAnswer, dbVars
<1>13. ASSUME NEW d \in Deliveries, Respond(d) PROVE TypeOK' /\ Answered'
  BY <1>13 DEF Respond, dbVars
<1>14. ASSUME NEW d \in Deliveries, StartRun(d) PROVE TypeOK' /\ Answered'
  BY <1>14 DEF StartRun, dbVars
<1>15. ASSUME NEW d \in Deliveries, RunMoves(d) PROVE TypeOK' /\ Answered'
  BY <1>15, OutcomesAssumption DEF RunMoves
<1>16. ASSUME NEW d \in Deliveries, Crash(d) PROVE TypeOK' /\ Answered'
  BY <1>16 DEF Crash, dbVars
<1>17. CASE Expire
  BY <1>17 DEF Expire, dbVars
<1>18. CASE UNCHANGED vars
  BY <1>18 DEF vars, dbVars
<1> QED
  BY <1>1, <1>2, <1>3, <1>5, <1>6, <1>7, <1>8, <1>9, <1>10, <1>11, <1>12, <1>13,
     <1>14, <1>15, <1>16, <1>17, <1>18 DEF Next, Handle

LEMMA TypeInvariant == Spec => []TypeInv
<1>1. TypeInv /\ [Next]_vars => TypeInv'
  BY TypesStep, HousedStep DEF TypeInv
<1> QED BY <1>1, TypeInvInit, PTL DEF Spec

\* Every reachable state is well typed: no answer, row or file is anything the
\* webhook and the tables cannot hold.
THEOREM IntakeTyped == Spec => []TypeOK
<1>1. TypeInv => TypeOK
  BY DEF TypeInv
<1> QED BY <1>1, TypeInvariant, PTL
-----------------------------------------------------------------------------
(***************************************************************************)
(* Where answers come from: the cache, the commit, or the message that was *)
(* there first.  What the cache holds is the answer of a delivery that has *)
(* committed or replayed.                                                  *)
(***************************************************************************)
LEMMA AnswersCome ==
  ASSUME TypeOK, [Next]_vars, NEW d \in Deliveries, pc'[d] \in Settled
  PROVE  \/ pc[d] \in Settled /\ ack'[d] = ack[d]
         \/ Hit(d) \/ Commit(d) \/ Replay(d)
<1> USE DEF TypeOK, Goto, Settled
<1>1. ASSUME NEW e \in Deliveries, Hit(e) \/ Commit(e) \/ Replay(e), e # d
      PROVE  pc[d] \in Settled /\ ack'[d] = ack[d]
  BY <1>1 DEF Hit, Commit, Replay
<1>2. ASSUME NEW e \in Deliveries, Find(e) \/ Create(e)
      PROVE  pc[d] \in Settled /\ ack' = ack
  BY <1>2 DEF Find, Create, Take, Build
<1>3. ASSUME NEW e \in Deliveries,
             \/ Reject(e) \/ Miss(e) \/ Conflict(e) \/ Refused(e) \/ ReplayDenied(e)
             \/ StoreAnswer(e) \/ Respond(e) \/ StartRun(e) \/ RunMoves(e) \/ Crash(e)
      PROVE  pc[d] \in Settled /\ ack' = ack
  BY <1>3 DEF Reject, Miss, Conflict, Refused, ReplayDenied, StoreAnswer, Respond, StartRun,
     RunMoves, Crash
<1>4. CASE Expire \/ UNCHANGED vars
  BY <1>4 DEF Expire, vars
<1> QED BY <1>1, <1>2, <1>3, <1>4 DEF Next, Handle

LEMMA CacheFills ==
  ASSUME [Next]_vars, NEW e \in cache'
  PROVE  \/ e \in cache
         \/ \E d \in Deliveries :
              pc[d] = "store" /\ e = [scope |-> ScopeOf[d], ack |-> ack[d]]
<1>1. ASSUME NEW d \in Deliveries, StoreAnswer(d), e \notin cache
      PROVE  pc[d] = "store" /\ e = [scope |-> ScopeOf[d], ack |-> ack[d]]
  BY <1>1 DEF StoreAnswer
<1>2. CASE \A d \in Deliveries : ~StoreAnswer(d)
  BY <1>2 DEF Next, Handle, Reject, Hit, Miss, Find, Create, Take, Build, Commit, Conflict,
     Refused, Replay, ReplayDenied, Respond, StartRun, RunMoves, Crash, Expire, vars
<1> QED BY <1>1, <1>2
-----------------------------------------------------------------------------
(***************************************************************************)
(* AckedIsDurable.  An answer stays backed because rows stay, a message    *)
(* keeps its application, and a document is a committed message's.         *)
(***************************************************************************)
DocsOfMessages == \A x \in docs : x[1] \in comms

DurableInv == DocsOfMessages /\ AckedIsDurable

LEMMA BackedStays ==
  ASSUME TypeOK, Grows, DocsOfMessages
  PROVE  \A a \in Ack : Backed(a) => Backed(a)'
<1> SUFFICES ASSUME NEW a \in Ack, Backed(a) PROVE Backed(a)'
  OBVIOUS
<1>1. /\ a.comm \in comms /\ appOf[a.comm] = a.app /\ appStatus[a.app] # "absent"
      /\ a.docs \subseteq DocsOfApp(a.app) /\ a.app \in Deliveries
  BY DEF Backed, Ack
<1>2. a.comm \in comms' /\ appOf'[a.comm] = a.app /\ appStatus'[a.app] # "absent"
  BY <1>1 DEF Grows, Exists
<1>3. \A x \in docs : appOf[x[1]] = a.app => x \in docs' /\ appOf'[x[1]] = a.app
  BY DEF Grows, DocsOfMessages
<1> QED BY <1>1, <1>2, <1>3 DEF Backed, DocsOfApp

LEMMA DurableStep == TypeInv /\ TypeInv' /\ DurableInv /\ [Next]_vars => DurableInv'
<1> SUFFICES ASSUME TypeInv, TypeInv', DurableInv, [Next]_vars PROVE DurableInv'
  OBVIOUS
<1>1. TypeOK /\ Grows /\ DocsOfMessages
  BY RowsStay DEF TypeInv, DurableInv
<1>2. \A a \in Ack : Backed(a) => Backed(a)'
  BY <1>1, BackedStays
<1>3. ASSUME NEW d \in Deliveries, Commit(d) PROVE DocsOfMessages' /\ Backed(ack[d])'
  <2>1. /\ comms' = comms \cup {d} /\ docs' = docs \cup RowsOf(d)
        /\ appOf'[d] = target[d] /\ ack'[d] = Answer(d, target[d], seen[d])
    BY <1>1, <1>3 DEF Commit, TypeOK
  <2>2. \A x \in RowsOf(d) : x[1] = d
    BY DEF RowsOf
  <2>3. appStatus'[target[d]] # "absent"
    BY <1>1, <1>3 DEF Commit, TypeInv, Housed, Exists, TypeOK
  <2>4. \A x \in RowsOf(d) : x \in docs' /\ appOf'[x[1]] = target[d]
    BY <2>1, <2>2
  <2>5. Backed(ack[d])'
    BY <2>1, <2>3, <2>4 DEF Backed, Answer, DocsOfApp
  <2> QED BY <1>1, <2>1, <2>2, <2>5 DEF DocsOfMessages
<1>4. DocsOfMessages'
  BY <1>1, <1>3 DEF DocsOfMessages, Next, Handle, Reject, Hit, Miss, Find, Create, Conflict,
     Refused, Replay, ReplayDenied, StoreAnswer, Respond, StartRun, RunMoves, Crash, Expire,
     vars, dbVars
<1>5. ASSUME NEW d \in Deliveries, pc'[d] \in Settled PROVE Backed(ack[d])'
  <2>1. CASE pc[d] \in Settled /\ ack'[d] = ack[d]
    <3>1. ack[d] \in Ack /\ Backed(ack[d])
      BY <2>1 DEF TypeInv, Answered, DurableInv, AckedIsDurable, Settled
    <3> QED BY <1>2, <2>1, <3>1 DEF Backed, DocsOfApp
  <2>2. CASE Hit(d)
    <3>1. PICK e \in cache : ack'[d] = e.ack
      BY <1>1, <2>2 DEF Hit, Cached, TypeOK
    <3>2. e.ack \in Ack /\ Backed(e.ack)
      BY <1>1 DEF TypeOK, DurableInv, AckedIsDurable
    <3> QED BY <1>2, <3>1, <3>2 DEF Backed, DocsOfApp
  <2>3. CASE Replay(d)
    <3>1. PICK c \in Holders(d) :
            ack' = [ack EXCEPT ![d] = [app |-> appOf[c], comm |-> c,
                      status |-> appStatus[appOf[c]], docs |-> DocsOfApp(appOf[c])]]
      BY <2>3 DEF Replay
    <3>2. c \in comms /\ UNCHANGED dbVars
      BY <2>3 DEF Replay, Holders
    <3> QED BY <1>1, <3>1, <3>2 DEF Backed, DocsOfApp, TypeInv, Housed, Exists, dbVars, TypeOK
  <2> QED BY <1>1, <1>3, <1>5, <2>1, <2>2, <2>3, AnswersCome
<1>6. ASSUME NEW e \in cache' PROVE Backed(e.ack)'
  <2>1. e.ack \in Ack /\ Backed(e.ack)
    <3>1. CASE e \in cache
      BY <1>1, <3>1 DEF TypeOK, DurableInv, AckedIsDurable
    <3>2. CASE e \notin cache
      <4>1. PICK d \in Deliveries : pc[d] = "store" /\ e.ack = ack[d]
        BY <3>2, CacheFills
      <4> QED BY <4>1 DEF TypeInv, Answered, DurableInv, AckedIsDurable, Settled
    <3> QED BY <3>1, <3>2
  <2> QED BY <1>2, <2>1
<1> QED BY <1>4, <1>5, <1>6 DEF DurableInv, AckedIsDurable, Settled

LEMMA DurableInvariant == Spec => []DurableInv
<1>1. Init => DurableInv
  BY DEF Init, DurableInv, DocsOfMessages, AckedIsDurable
<1> QED BY <1>1, TypeInvariant, DurableStep, PTL DEF Spec

\* No caller is told, now or by the cache later, of a row that is not committed.
THEOREM AckedAlwaysDurable == Spec => []AckedIsDurable
<1>1. DurableInv => AckedIsDurable
  BY DEF DurableInv
<1> QED BY <1>1, DurableInvariant, PTL
-----------------------------------------------------------------------------
(***************************************************************************)
(* DocumentHasFile.  A delivery about to commit has accepted all of its    *)
(* attachments, so each of its payloads has been written.                  *)
(***************************************************************************)
PayloadsWritten ==
  \A d \in Deliveries : pc[d] = "commit" =>
    \A x \in RowsOf(d) : AttachmentsOf[x[1]][x[2]] = "file" => x \in files

FilesInv == DocumentHasFile /\ PayloadsWritten

\* Only Find and Create bring a delivery to its commit, with its payloads on disk.
LEMMA PayloadsComeFirst ==
  ASSUME TypeOK, [Next]_vars, NEW d \in Deliveries, pc'[d] = "commit", pc[d] # "commit"
  PROVE  Acceptable(d) /\ files' = files \cup Payloads(d)
<1> USE DEF TypeOK, Goto
<1>1. ASSUME NEW e \in Deliveries, Find(e) \/ Create(e)
      PROVE  Acceptable(d) /\ files' = files \cup Payloads(d)
  <2>1. /\ pc' = [pc EXCEPT ![e] = IF Acceptable(e) THEN "commit" ELSE "rejected"]
        /\ files' = files \cup Payloads(e)
    BY <1>1 DEF Find, Create, Take, Build
  <2> QED BY <2>1
<1>2. ASSUME NEW e \in Deliveries,
             \/ Reject(e) \/ Hit(e) \/ Miss(e) \/ Commit(e) \/ Conflict(e) \/ Refused(e)
             \/ Replay(e) \/ ReplayDenied(e) \/ StoreAnswer(e) \/ Respond(e)
             \/ StartRun(e) \/ RunMoves(e) \/ Crash(e)
      PROVE  FALSE
  BY <1>2 DEF Reject, Hit, Miss, Commit, Conflict, Refused, Replay, ReplayDenied,
     StoreAnswer, Respond, StartRun, RunMoves, Crash
<1>3. CASE Expire \/ UNCHANGED vars
  BY <1>3 DEF Expire, vars
<1> QED BY <1>1, <1>2, <1>3 DEF Next, Handle

LEMMA FilesStep == TypeOK /\ FilesInv /\ [Next]_vars => FilesInv'
<1> SUFFICES ASSUME TypeOK, FilesInv, [Next]_vars PROVE FilesInv'
  OBVIOUS
<1>1. files \subseteq files'
  BY RowsStay DEF Grows
<1>2. ASSUME NEW d \in Deliveries, Commit(d) PROVE DocumentHasFile'
  BY <1>1, <1>2 DEF Commit, FilesInv, DocumentHasFile, PayloadsWritten
<1>3. DocumentHasFile'
  BY <1>1, <1>2 DEF FilesInv, DocumentHasFile, Next, Handle, Reject, Hit, Miss, Find, Create,
     Conflict, Refused, Replay, ReplayDenied, StoreAnswer, Respond, StartRun, RunMoves, Crash,
     Expire, vars, dbVars
<1>4. ASSUME NEW d \in Deliveries, pc'[d] = "commit", NEW x \in RowsOf(d),
             AttachmentsOf[x[1]][x[2]] = "file"
      PROVE  x \in files'
  <2>1. CASE pc[d] = "commit"
    BY <1>1, <1>4, <2>1 DEF FilesInv, PayloadsWritten
  <2>2. CASE pc[d] # "commit"
    <3>1. Acceptable(d) /\ files' = files \cup Payloads(d)
      BY <1>4, <2>2, PayloadsComeFirst
    <3>2. PICK i \in Slots(d) : x = <<d, i>>
      BY DEF RowsOf
    <3>3. Slots(d) = 1..Len(AttachmentsOf[d]) /\ Len(AttachmentsOf[d]) \in Nat
      BY DeliveriesAssumption, LenProperties DEF Slots
    <3>4. x \in Payloads(d)
      BY <1>4, <3>1, <3>2, <3>3 DEF Payloads, Acceptable
    <3> QED BY <3>1, <3>4
  <2> QED BY <2>1, <2>2
<1> QED BY <1>3, <1>4 DEF FilesInv, PayloadsWritten, RowsOf, Slots

\* No document row is ever without its file, wherever a worker stops.
THEOREM DocumentAlwaysHasFile == Spec => []DocumentHasFile
<1>1. Init => FilesInv
  BY DEF Init, FilesInv, DocumentHasFile, PayloadsWritten
<1>2. FilesInv => DocumentHasFile
  BY DEF FilesInv
<1> QED BY <1>1, <1>2, IntakeTyped, FilesStep, PTL DEF Spec
-----------------------------------------------------------------------------
(***************************************************************************)
(* QueuedIsOwn.  The application of an answer that was committed or        *)
(* replayed is the borrower's own; an answer from the cache need not be,   *)
(* and nothing is queued for it.                                           *)
(***************************************************************************)
InScope ==
  /\ \A e \in cache : ScopeOf[e.ack.comm] = e.scope
  /\ \A d \in Deliveries : pc[d] \in Settled => ScopeOf[ack[d].comm] = ScopeOf[d]

LEMMA InScopeStep == TypeOK /\ InScope /\ [Next]_vars => InScope'
<1> SUFFICES ASSUME TypeOK, InScope, [Next]_vars PROVE InScope'
  OBVIOUS
<1>1. ASSUME NEW e \in cache' PROVE ScopeOf[e.ack.comm] = e.scope
  BY CacheFills DEF InScope, Settled
<1>2. ASSUME NEW d \in Deliveries, pc'[d] \in Settled PROVE ScopeOf[ack'[d].comm] = ScopeOf[d]
  <2>1. CASE pc[d] \in Settled /\ ack'[d] = ack[d]
    BY <2>1 DEF InScope
  <2>2. CASE Hit(d)
    BY <2>2 DEF Hit, Cached, InScope, TypeOK
  <2>3. CASE Commit(d)
    BY <2>3 DEF Commit, Answer, TypeOK
  <2>4. CASE Replay(d)
    <3>1. PICK c \in Holders(d) :
            ack' = [ack EXCEPT ![d] = [app |-> appOf[c], comm |-> c,
                      status |-> appStatus[appOf[c]], docs |-> DocsOfApp(appOf[c])]]
      BY <2>4 DEF Replay
    <3> QED BY <3>1 DEF Holders, TypeOK
  <2> QED BY <1>2, <2>1, <2>2, <2>3, <2>4, AnswersCome
<1> QED BY <1>1, <1>2 DEF InScope

LEMMA InScopeInvariant == Spec => []InScope
<1>1. Init => InScope
  BY DEF Init, InScope, Settled
<1> QED BY <1>1, IntakeTyped, InScopeStep, PTL DEF Spec

Owner(d) == UserOf[ack[d].app] = UserOf[d]

OwnInv ==
  /\ \A d \in Deliveries : pc[d] \in {"store", "respond"} \/ task[d] # "none" => Owner(d)
  /\ \A d \in Deliveries : task[d] # "none" => pc[d] = "answered"

LEMMA OwnStep == TypeInv /\ OwnInv /\ [Next]_vars => OwnInv'
<1> SUFFICES ASSUME TypeInv, OwnInv, [Next]_vars PROVE OwnInv'
  OBVIOUS
<1> USE DEF TypeInv, TypeOK, OwnInv, Owner, Goto
<1>1. ASSUME NEW d \in Deliveries, Commit(d) PROVE OwnInv'
  <2>1. UserOf[target[d]] = UserOf[d] /\ ack'[d].app = target[d]
    BY <1>1 DEF Commit, Housed, Answer
  <2> QED BY <1>1, <2>1 DEF Commit
<1>2. ASSUME NEW d \in Deliveries, Replay(d) PROVE OwnInv'
  <2>1. PICK c \in Holders(d) :
          /\ Replayable(d, c)
          /\ ack' = [ack EXCEPT ![d] = [app |-> appOf[c], comm |-> c,
                       status |-> appStatus[appOf[c]], docs |-> DocsOfApp(appOf[c])]]
    BY <1>2 DEF Replay
  <2>2. Owner(d)'
    BY <2>1 DEF Replayable
  <2> QED BY <1>2, <2>1, <2>2 DEF Replay
<1>3. ASSUME NEW d \in Deliveries, Find(d) \/ Create(d) PROVE OwnInv'
  <2>1. PICK p \in {"commit", "rejected"} : pc' = [pc EXCEPT ![d] = p]
    BY <1>3 DEF Find, Create, Take, Build
  <2> QED BY <1>3, <2>1 DEF Find, Create
<1>4. ASSUME NEW d \in Deliveries, Hit(d) PROVE OwnInv'
  BY <1>4 DEF Hit
<1>5. ASSUME NEW d \in Deliveries,
             \/ Reject(d) \/ Miss(d) \/ Conflict(d) \/ Refused(d) \/ ReplayDenied(d)
             \/ StoreAnswer(d) \/ Respond(d)
      PROVE  OwnInv'
  BY <1>5 DEF Reject, Miss, Conflict, Refused, ReplayDenied, StoreAnswer, Respond
<1>6. ASSUME NEW d \in Deliveries, StartRun(d) \/ RunMoves(d) \/ Crash(d) PROVE OwnInv'
  BY <1>6 DEF StartRun, RunMoves, Crash, InFlight
<1>7. CASE Expire \/ UNCHANGED vars
  BY <1>7 DEF Expire, vars
<1> QED BY <1>1, <1>2, <1>3, <1>4, <1>5, <1>6, <1>7 DEF Next, Handle

\* A queued run never works on another borrower's application, although two
\* borrowers may have the same "user:key" string.
THEOREM QueuedAlwaysOwn == Spec => []QueuedIsOwn
<1>1. Init => OwnInv
  BY DEF Init, OwnInv
<1>2. TypeInv /\ DurableInv /\ InScope /\ OwnInv => QueuedIsOwn
  BY DEF OwnInv, Owner, TypeInv, TypeOK, Answered, DurableInv, AckedIsDurable, Backed, InScope,
     Settled, QueuedIsOwn
<1> QED BY <1>1, <1>2, TypeInvariant, DurableInvariant, InScopeInvariant, OwnStep, PTL DEF Spec
-----------------------------------------------------------------------------
(***************************************************************************)
(* ImplementsInbox.  The commit admits a message.  A delivery is accepted  *)
(* when it is answered, by a message of its scope that is in the table;    *)
(* everything else that ends it refuses it, and a crash leaves it without  *)
(* an answer.                                                              *)
(***************************************************************************)
InboxInv == TypeInv /\ DurableInv /\ InScope

LEMMA InboxInit == Init => Promise!Init
BY DEF Init, Promise!Init, Promise!None, Reply

\* What every delivery has been told.
Replies == [d \in Deliveries |-> Reply(d)]

\* A step that moves one delivery from a place without a reply changes its
\* reply alone.
LEMMA OneReply ==
  ASSUME TypeOK, NEW d \in Deliveries, NEW p \in Places, pc' = [pc EXCEPT ![d] = p],
         \A e \in Deliveries : e # d => ack'[e] = ack[e]
  PROVE  Replies' = [Replies EXCEPT ![d] = Reply(d)']
BY DEF TypeOK, Replies, Reply

LEMMA InboxStep == InboxInv /\ [Next]_vars => [Promise!Next]_<<comms, Replies>>
<1> SUFFICES ASSUME InboxInv, [Next]_vars PROVE [Promise!Next]_<<comms, Replies>>
  OBVIOUS
<1> USE DEF Goto
<1>0. TypeOK
  BY DEF InboxInv, TypeInv
<1>1. ASSUME NEW d \in Deliveries, NEW c \in comms, ScopeOf[c] = ScopeOf[d],
             Replies[d] = "none", Replies' = [Replies EXCEPT ![d] = c], comms' = comms
      PROVE  Promise!Next
  BY <1>1 DEF Promise!Next, Promise!Accept, Promise!None, Replies
<1>2. ASSUME NEW d \in Deliveries, Replies[d] = "none",
             Replies' = [Replies EXCEPT ![d] = "error"], comms' = comms
      PROVE  Promise!Next
  BY <1>2 DEF Promise!Next, Promise!Refuse, Promise!None, Promise!Error, Replies
<1>3. ASSUME NEW d \in Deliveries, Hit(d) PROVE Promise!Next
  <2>1. PICK e \in Cached(d) : ack' = [ack EXCEPT ![d] = e.ack]
    BY <1>3 DEF Hit
  <2>2. e.ack.comm \in comms /\ ScopeOf[e.ack.comm] = ScopeOf[d]
    BY DEF Cached, InboxInv, DurableInv, AckedIsDurable, Backed, InScope
  <2>3. Replies' = [Replies EXCEPT ![d] = e.ack.comm] /\ Replies[d] = "none"
    BY <1>0, <1>3, <2>1, OneReply DEF Hit, TypeOK, Reply, Replies, Places, Ended
  <2> QED BY <1>1, <1>3, <2>2, <2>3 DEF Hit, dbVars
<1>4. ASSUME NEW d \in Deliveries, Respond(d) PROVE Promise!Next
  <2>1. ack[d].comm \in comms /\ ScopeOf[ack[d].comm] = ScopeOf[d]
    BY <1>4 DEF Respond, InboxInv, DurableInv, AckedIsDurable, Backed, InScope, Settled
  <2>2. Replies' = [Replies EXCEPT ![d] = ack[d].comm] /\ Replies[d] = "none"
    BY <1>0, <1>4, OneReply DEF Respond, TypeOK, Reply, Replies, Places, Ended
  <2> QED BY <1>1, <1>4, <2>1, <2>2 DEF Respond, dbVars
<1>5. ASSUME NEW d \in Deliveries, Reject(d) \/ Refused(d) \/ ReplayDenied(d) PROVE Promise!Next
  <2>1. PICK p \in {"rejected", "failed"} : pc' = [pc EXCEPT ![d] = p]
    BY <1>5 DEF Reject, Refused, ReplayDenied
  <2>2. pc[d] \in {"new", "commit", "replay"} /\ UNCHANGED <<comms, ack>>
    BY <1>5 DEF Reject, Refused, ReplayDenied, dbVars
  <2>3. Replies' = [Replies EXCEPT ![d] = "error"] /\ Replies[d] = "none"
    BY <1>0, <2>1, <2>2, OneReply DEF TypeOK, Reply, Replies, Places, Ended
  <2> QED BY <1>2, <2>2, <2>3
<1>6. ASSUME NEW d \in Deliveries, Find(d) \/ Create(d)
      PROVE  [Promise!Next]_<<comms, Replies>>
  <2>1. /\ pc[d] = "resolve" /\ UNCHANGED <<comms, ack>>
        /\ pc' = [pc EXCEPT ![d] = "commit"] \/ pc' = [pc EXCEPT ![d] = "rejected"]
    BY <1>6 DEF Find, Create, Take, Build
  <2>2. CASE pc' = [pc EXCEPT ![d] = "commit"]
    BY <1>0, <2>1, <2>2 DEF TypeOK, Reply, Replies
  <2>3. CASE pc' = [pc EXCEPT ![d] = "rejected"]
    <3>1. Replies' = [Replies EXCEPT ![d] = Reply(d)']
      BY <1>0, <2>1, <2>3, OneReply DEF Places, Ended
    <3>2. Reply(d)' = "error" /\ Replies[d] = "none"
      BY <1>0, <2>1, <2>3 DEF TypeOK, Reply, Replies
    <3> QED BY <1>2, <2>1, <3>1, <3>2
  <2> QED BY <2>1, <2>2, <2>3
<1>7. ASSUME NEW d \in Deliveries, Commit(d) PROVE Promise!Next
  <2>1. \A c \in comms : ScopeOf[c] # ScopeOf[d]
    BY <1>7 DEF Commit, Holders
  <2>2. Replies' = Replies
    BY <1>0, <1>7 DEF Commit, TypeOK, Reply, Replies
  <2> QED BY <1>7, <2>1, <2>2 DEF Commit, Promise!Next, Promise!Admit, Replies
<1>8. ASSUME NEW d \in Deliveries,
             Miss(d) \/ Conflict(d) \/ Replay(d) \/ StoreAnswer(d)
      PROVE  UNCHANGED <<comms, Replies>>
  BY <1>0, <1>8 DEF Miss, Conflict, Replay, StoreAnswer, TypeOK, Reply, Replies, dbVars
<1>9. ASSUME NEW d \in Deliveries, StartRun(d) \/ RunMoves(d) \/ Crash(d)
      PROVE  UNCHANGED <<comms, Replies>>
  BY <1>0, <1>9 DEF StartRun, RunMoves, Crash, InFlight, TypeOK, Reply, Replies, dbVars
<1>10. CASE Expire \/ UNCHANGED vars
  BY <1>0, <1>10 DEF Expire, vars, Reply, Replies, dbVars
<1> QED
  BY <1>3, <1>4, <1>5, <1>6, <1>7, <1>8, <1>9, <1>10 DEF Next, Handle

\* The handler, its cache and its transaction keep the inbox's promise: one
\* message to a scope, and every accepted delivery is told that message.
THEOREM IntakeImplementsInbox == Spec => ImplementsInbox
<1>1. Spec => []InboxInv
  BY TypeInvariant, DurableInvariant, InScopeInvariant, PTL DEF InboxInv
<1>2. InboxInv /\ [Next]_vars =>
        [Promise!Next]_<<comms, [d \in Deliveries |-> Reply(d)]>>
  BY InboxStep DEF Replies
<1> QED BY <1>1, <1>2, InboxInit, PTL DEF Spec, ImplementsInbox, Promise!Spec
=============================================================================
