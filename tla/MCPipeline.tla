----------------------------- MODULE MCPipeline -----------------------------
(***************************************************************************)
(* Instances of Pipeline for TLC.  The borrower states an income of 6000   *)
(* in a first message, and a second one comes with a payslip that says     *)
(* 5200.                                                                   *)
(***************************************************************************)
EXTENDS Pipeline, TLC

CONSTANTS r1, r2, r3, m1, m2, d1

MCDocOf == [d \in Docs |-> m2]
MCChannelOf == [m \in Messages |-> IF m = m1 THEN "sms" ELSE "email"]
MCOneChannel == [m \in Messages |-> "sms"]
MCSentAt == [m \in Messages |-> IF m = m1 THEN 1 ELSE 2]

StatedIncome == [key |-> "monthly_income", src |-> m1, val |-> Number(6000), quoted |-> TRUE]
ShownIncome ==
  [key |-> "monthly_income", src |-> d1, val |-> [kind |-> "digits", n |-> 5200], quoted |-> TRUE]

MCEntities == {StatedIncome, ShownIncome}
MCKeys == {"monthly_income"}

RunSymmetry == Permutations(Runs)
=============================================================================
