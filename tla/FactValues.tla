----------------------------- MODULE FactValues -----------------------------
(***************************************************************************)
(* The value of an extracted fact and what the code does with it:          *)
(* _coerce_value when a fact is stored (extract_trace.py), _as_number and  *)
(* _compare when stated facts are compared with documented ones            *)
(* (reconcile.py).                                                         *)
(*                                                                         *)
(* A value is a record [kind, n].  "number" is a JSON number; "digits" is  *)
(* a string that float() accepts once blanks, commas and a leading "$" are *)
(* dropped ("$5,200"); "word" is any other string, n naming its stripped,  *)
(* lower-cased text; "null" is None.                                       *)
(***************************************************************************)
EXTENDS Integers

CONSTANT NumericKeys   \* the keys reconcile.py treats as numbers

Kinds == {"number", "digits", "word", "null"}
Value == [kind : Kinds, n : Int]

Number(n) == [kind |-> "number", n |-> n]
Null == [kind |-> "null", n |-> 0]
NoneWord == [kind |-> "word", n |-> 0]   \* the text "none", which str(None) yields

IsNumeric(v) == v.kind \in {"number", "digits"}

\* _as_number: a float, or None.
AsNumber(v) == IF IsNumeric(v) THEN Number(v.n) ELSE Null

\* _coerce_value: numeric strings of income keys become floats, others stay.
Coerce(key, v) ==
  IF key \in NumericKeys /\ v.kind = "digits" THEN Number(v.n) ELSE v

\* Line 28 of reconcile.py: how a fact's value enters the two dictionaries.
Listed(key, v) == IF key \in NumericKeys THEN AsNumber(v) ELSE v

Distance(m, n) == IF m > n THEN m - n ELSE n - m

\* |s - d| / max(|d|, 1e-9) > 0.05, over the integers.
OutOfTolerance(s, d) == 20 * Distance(s, d) > Distance(d, 0)

\* str(v).strip().lower()
Shown(v) == IF v = Null THEN NoneWord ELSE v

\* _compare: does the pair of a stated and a documented value make an anomaly?
Differs(s, d) ==
  \/ IsNumeric(s) /\ IsNumeric(d) /\ OutOfTolerance(s.n, d.n)
  \/ ~(IsNumeric(s) /\ IsNumeric(d)) /\ Shown(s) # Shown(d)

\* What one pass over the two dictionaries reports for a key.
Conflict(key, s, d) == Differs(Listed(key, s), Listed(key, d))
=============================================================================
