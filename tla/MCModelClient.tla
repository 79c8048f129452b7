---------------------------- MODULE MCModelClient ----------------------------
(***************************************************************************)
(* An instance of ModelClient for TLC.  The borrower writes "I owe 5 20.", *)
(* the document says "I OWE 520"; the model quotes either, and a text that *)
(* is in neither.  A second document may fail to parse, and is refused by  *)
(* the database if it does not.                                            *)
(***************************************************************************)
EXTENDS ModelClient

CONSTANTS r1, r2, m1, d1, d2

MCDocOf == [d \in Docs |-> m1]
MCChannelOf == [m \in Messages |-> "sms"]
MCSentAt == [m \in Messages |-> 1]

MCWordChars == {"i", "o", "w", "e", "5", "2", "0"}
MCCaseFold == [c \in {"I", "O"} |-> IF c = "I" THEN "i" ELSE "o"]

MCTextOf ==
  [s \in Sources |-> IF s = m1 THEN <<"I", " ", "o", "w", "e", " ", "5", " ", "2", "0", ".">>
                     ELSE <<"I", " ", "O", "w", "e", ",", " ", "5", "2", "0">>]

Stated(n, doc, quote) ==
  [key |-> "monthly_income", val |-> Number(n), doc |-> doc, quote |-> quote]

MCRawEntities ==
  {Stated(520, d1, <<"o", "w", "e", " ", "5", "2", "0">>),
   Stated(5, NoDoc, <<"O", "w", "e", ":", "5", "-", "2">>),
   Stated(52, NoDoc, <<"5", "2">>)}

MCEntities == {Seen(raw, s) : raw \in RawEntities, s \in Sources}
MCKnownKeys == {"monthly_income"}
=============================================================================
