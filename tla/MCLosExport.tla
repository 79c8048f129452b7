----------------------------- MODULE MCLosExport -----------------------------
(***************************************************************************)
(* Instances of LosExport for TLC: two requests and two runs.  The         *)
(* borrower writes of an income in a message that comes with a payslip;    *)
(* the model may also name the income without a value.  An answer has at   *)
(* most two of the three facts, and so does a memo.                        *)
(***************************************************************************)
EXTENDS LosExport, TLC

CONSTANTS r1, r2, m1, d1, x1, x2

MCDocOf == [d \in Docs |-> m1]
MCChannelOf == [m \in Messages |-> "sms"]
MCSentAt == [m \in Messages |-> 1]

StatedIncome == [key |-> "monthly_income", src |-> m1, val |-> Number(6000), quoted |-> TRUE]
ShownIncome == [StatedIncome EXCEPT !.src = d1]
NoIncome == [StatedIncome EXCEPT !.val = Null]

MCEntities == {StatedIncome, NoIncome, ShownIncome}
MCKeys == {"monthly_income"}

RunSymmetry == Permutations(Runs)
=============================================================================
