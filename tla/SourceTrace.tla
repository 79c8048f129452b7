----------------------------- MODULE SourceTrace -----------------------------
(***************************************************************************)
(* The search for a quote in a source: _contains of extract_trace.py.  A   *)
(* text is a sequence of characters.  Both texts are lower-cased, every    *)
(* run of characters that are not word characters becomes one blank, and   *)
(* the quote is looked up as a substring.                                  *)
(***************************************************************************)
EXTENDS Integers, Sequences, FiniteSets

CONSTANTS
  WordChars,  \* the characters \w matches
  CaseFold    \* upper-case letters to lower-case ones

ASSUME TraceAssumption == " " \notin WordChars

Lower(t) == [i \in DOMAIN t |-> IF t[i] \in DOMAIN CaseFold THEN CaseFold[t[i]] ELSE t[i]]

\* How many of the positions S come no later than i.
Rank(S, i) == Cardinality({j \in S : j <= i})

\* The characters of t at the positions S, in their order.
Pick(t, S) == [n \in 1..Cardinality(S) |-> t[CHOOSE i \in S : Rank(S, i) = n]]

Words(t) == {i \in DOMAIN t : Lower(t)[i] \in WordChars}

\* The characters that stay: word characters, and the first of each gap.
Leads(t) == {i \in DOMAIN t : i \in Words(t) \/ i = 1 \/ i - 1 \in Words(t)}

\* Fault: gaps are dropped, not kept as one blank.
Squeezed(t) == Pick(Lower(t), Words(t))

Blanked(t) == [i \in DOMAIN t |-> IF i \in Words(t) THEN Lower(t)[i] ELSE " "]

Normalised(t) == Pick(Blanked(t), Leads(t))

Occurs(part, whole) ==
  \E i \in 0..(Len(whole) - Len(part)) : SubSeq(whole, i + 1, i + Len(part)) = part

Contains(text, quote) == quote # <<>> /\ Occurs(Normalised(quote), Normalised(text))
-----------------------------------------------------------------------------
\* What a match is meant to be, without the normal form: a passage of the text
\* has the letters of the quote, in its order, and gaps before the same ones.
Letters(t) == Pick(Lower(t), Words(t))

\* Some gap comes after the first n letters.
GapAfter(t, n) == \E i \in DOMAIN t \ Words(t) : Rank(Words(t), i) = n

Agree(s, t) ==
  /\ Letters(s) = Letters(t)
  /\ \A n \in 0..Len(Letters(s)) : GapAfter(s, n) <=> GapAfter(t, n)

HasPassage(text, quote) ==
  \E i \in DOMAIN text : \E j \in i..Len(text) : Agree(SubSeq(text, i, j), quote)
=============================================================================
