------------------------------ MODULE MCIntake ------------------------------
(***************************************************************************)
(* Instances of Intake for TLC.  d1 and d2 carry the same message of       *)
(* borrower "a", d3 another message of "a"; d4 comes from borrower "b",    *)
(* whose "user:key" string is the one of d3.  Of the others of "b", d5 has *)
(* too long a key, d6 a row the database refuses, and d7 a good attachment *)
(* and a bad one.                                                          *)
(***************************************************************************)
EXTENDS Intake

CONSTANTS d1, d2, d3, d4, d5, d6, d7

MCUserOf == [d \in Deliveries |-> IF d \in {d1, d2, d3} THEN "a" ELSE "b"]
MCScopeOf ==
  [d \in Deliveries |-> CASE d \in {d1, d2} -> "s"
                          [] d \in {d3, d4} -> "t"
                          [] d = d6 -> "u"
                          [] OTHER -> "v"]
MCAttachmentsOf ==
  [d \in Deliveries |-> CASE d \in {d1, d2} -> <<"file">>
                          [] d = d3 -> <<"url">>
                          [] d = d7 -> <<"file", "bad">>
                          [] OTHER -> <<>>]
=============================================================================
