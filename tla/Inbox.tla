-------------------------------- MODULE Inbox --------------------------------
(***************************************************************************)
(* What the webhook promises its callers.  Each scope ("user:key") enters  *)
(* the inbox at most once, by one delivery.  A delivery is accepted by     *)
(* naming the message of its scope that is in the inbox, or refused; it    *)
(* gets at most one of the two answers, and may get none.                  *)
(***************************************************************************)
CONSTANTS Deliveries, ScopeOf

VARIABLES
  inbox,   \* the deliveries whose message was taken in
  reply    \* what each delivery was told: nothing, an error, or a message

None == "none"
Error == "error"

Init ==
  /\ inbox = {}
  /\ reply = [d \in Deliveries |-> None]

Admit(d) ==
  /\ \A c \in inbox : ScopeOf[c] # ScopeOf[d]
  /\ inbox' = inbox \cup {d}
  /\ UNCHANGED reply

Accept(d) ==
  /\ reply[d] = None
  /\ \E c \in inbox : /\ ScopeOf[c] = ScopeOf[d]
                      /\ reply' = [reply EXCEPT ![d] = c]
  /\ UNCHANGED inbox

Refuse(d) ==
  /\ reply[d] = None
  /\ reply' = [reply EXCEPT ![d] = Error]
  /\ UNCHANGED inbox

Next == \E d \in Deliveries : Admit(d) \/ Accept(d) \/ Refuse(d)

Spec == Init /\ [][Next]_<<inbox, reply>>
=============================================================================
