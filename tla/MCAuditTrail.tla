---------------------------- MODULE MCAuditTrail ----------------------------
(***************************************************************************)
(* An instance of AuditTrail for TLC: the borrower states an income in one *)
(* message and sends a payslip, which may fail to parse, with another that *)
(* has no text; a reader asks for two facts at most.                       *)
(***************************************************************************)
EXTENDS AuditTrail

CONSTANTS r1, r2, m1, m2, d1, t1

MCDocOf == [d \in Docs |-> m2]
MCChannelOf == [m \in Messages |-> IF m = m1 THEN "sms" ELSE "email"]
MCSentAt == [m \in Messages |-> IF m = m1 THEN 1 ELSE 2]

MCEntities ==
  {[key |-> "monthly_income", src |-> m1, val |-> Number(6000), quoted |-> TRUE],
   [key |-> "monthly_income", src |-> d1, val |-> [kind |-> "digits", n |-> 5200],
    quoted |-> TRUE]}
MCKnownKeys == {"monthly_income", "address"}
MCRequiredKeys == {"monthly_income"}
MCNumericKeys == {"monthly_income"}

MCAskOf == [t \in Trails |-> [limit |-> 2, offset |-> 0]]
=============================================================================
