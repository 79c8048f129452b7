-------------------------- MODULE SourceTraceProofs --------------------------
(***************************************************************************)
(* Theorems about the search for a quote, for all texts and quotes.  Both  *)
(* the normal form and the letters of a text are its characters at some    *)
(* positions, counted by rank; a match makes the positions of the quote    *)
(* correspond to those of a passage, and what corresponds has equal ranks. *)
(* Ranks are cardinalities, so that no induction over texts is needed.     *)
(***************************************************************************)
EXTENDS SourceTrace, FiniteSetTheorems, SequenceTheorems, TLAPS

\* Positions: a set of them is one of a text, so it is finite.
Positions(S) == S \subseteq Nat \ {0} /\ IsFiniteSet(S)

\* What Rank counts.
UpTo(S, i) == {j \in S : j <= i}

\* A part of a finite set has fewer elements, unless it is the whole.
LEMMA Counted ==
  ASSUME NEW B, IsFiniteSet(B), NEW A \in SUBSET B
  PROVE  /\ IsFiniteSet(A) /\ Cardinality(A) \in Nat /\ Cardinality(B) \in Nat
         /\ Cardinality(A) <= Cardinality(B)
         /\ A # B => Cardinality(A) < Cardinality(B)
<1>1. IsFiniteSet(A) /\ Cardinality(A) <= Cardinality(B) /\ (Cardinality(B) = Cardinality(A) => A = B)
  BY FS_Subset
<1>2. Cardinality(A) \in Nat /\ Cardinality(B) \in Nat
  BY <1>1, FS_CardinalityType
<1> QED BY <1>1, <1>2

\* Ranks are 1..|S|, and order the positions as their numbers do.
LEMMA RankOrder ==
  ASSUME NEW S, Positions(S)
  PROVE  /\ Cardinality(S) \in Nat
         /\ \A i \in S : Rank(S, i) \in 1..Cardinality(S)
         /\ \A i, j \in S : i <= j <=> Rank(S, i) <= Rank(S, j)
<1>1. Cardinality(S) \in Nat
  BY FS_CardinalityType DEF Positions
<1>2. ASSUME NEW i \in S
      PROVE  /\ IsFiniteSet(UpTo(S, i)) /\ Rank(S, i) = Cardinality(UpTo(S, i))
             /\ Rank(S, i) \in 1..Cardinality(S)
  <2>1. UpTo(S, i) \in SUBSET S /\ i \in UpTo(S, i)
    BY DEF Positions, UpTo
  <2>2. IsFiniteSet(UpTo(S, i)) /\ Cardinality(UpTo(S, i)) <= Cardinality(S)
    BY <2>1, Counted DEF Positions
  <2>3. Cardinality(UpTo(S, i)) \in Nat /\ Cardinality(UpTo(S, i)) # 0
    BY <2>1, <2>2, FS_CardinalityType, FS_EmptySet
  <2>4. Rank(S, i) = Cardinality(UpTo(S, i))
    BY DEF Rank, UpTo
  <2> QED BY <1>1, <2>2, <2>3, <2>4
<1>3. ASSUME NEW i \in S, NEW j \in S, i <= j PROVE Rank(S, i) <= Rank(S, j)
  <2>0. S \subseteq Nat
    BY DEF Positions
  <2>1. \A k \in S : k <= i => k <= j
    BY <1>3, <2>0
  <2>2. UpTo(S, i) \in SUBSET UpTo(S, j)
    BY <2>1 DEF UpTo
  <2> QED BY <2>2, <1>2, Counted
<1>4. ASSUME NEW i \in S, NEW j \in S, j < i PROVE Rank(S, j) < Rank(S, i)
  <2>0. S \subseteq Nat
    BY DEF Positions
  <2>1. (\A k \in S : k <= j => k <= i) /\ i <= i /\ ~(i <= j)
    BY <1>4, <2>0
  <2>2. UpTo(S, j) \in SUBSET UpTo(S, i) /\ i \in UpTo(S, i) /\ i \notin UpTo(S, j)
    BY <2>1 DEF UpTo
  <2> QED BY <2>2, <1>2, Counted
<1>5. \A i, j \in S : i <= j \/ j < i
  BY DEF Positions
<1> QED BY <1>1, <1>2, <1>3, <1>4, <1>5

\* Every number up to |S| is the rank of one position.
LEMMA RankOnto ==
  ASSUME NEW S, Positions(S), NEW n \in 1..Cardinality(S)
  PROVE  \E i \in S : Rank(S, i) = n
<1> DEFINE rank == [i \in S |-> Rank(S, i)]
           T == 1..Cardinality(S)
<1>1. Cardinality(S) \in Nat /\ rank \in [S -> T]
  BY RankOrder
<1>2. rank \in Injection(S, T)
  <2>1. ASSUME NEW i \in S, NEW j \in S, rank[i] = rank[j] PROVE i = j
    <3>1. Rank(S, i) = Rank(S, j) /\ Rank(S, i) \in Nat
      BY <2>1, <1>1, RankOrder
    <3>2. i <= j /\ j <= i
      BY <3>1, RankOrder
    <3> QED BY <3>2 DEF Positions
  <2> QED BY <1>1, <2>1 DEF Injection, IsInjective
<1>3. IsFiniteSet(T) /\ Cardinality(T) = Cardinality(S)
  BY <1>1, FS_Interval
<1>4. rank \in Surjection(S, T)
  BY <1>2, <1>3, FS_Injection
<1> QED BY <1>4 DEF Surjection

\* A nonempty set of positions has a first one.
LEMMA First ==
  ASSUME NEW S, Positions(S), S # {}
  PROVE  \E i \in S : \A j \in S : i <= j
<1>1. 1 \in 1..Cardinality(S)
  BY RankOrder
<1>2. PICK i \in S : Rank(S, i) = 1
  BY <1>1, RankOnto
<1>3. \A j \in S : Rank(S, i) <= Rank(S, j)
  BY <1>2, RankOrder
<1> QED BY <1>3, RankOrder

\* Pick puts the character of a position where its rank says.
LEMMA Picked ==
  ASSUME NEW S, Positions(S), NEW t
  PROVE  /\ DOMAIN Pick(t, S) = 1..Cardinality(S)
         /\ \A i \in S : Pick(t, S)[Rank(S, i)] = t[i]
<1>1. ASSUME NEW i \in S PROVE (CHOOSE j \in S : Rank(S, j) = Rank(S, i)) = i
  <2>1. ASSUME NEW j \in S, Rank(S, j) = Rank(S, i) PROVE j = i
    <3>1. Rank(S, i) \in Nat
      BY RankOrder
    <3>2. i <= j /\ j <= i
      BY <2>1, <3>1, RankOrder
    <3> QED BY <3>2 DEF Positions
  <2> QED BY <2>1
<1> QED BY <1>1, RankOrder DEF Pick

\* Two sets of positions that correspond in order.
Corresponds(f, S, T) ==
  /\ f \in [S -> T]
  /\ \A i, j \in S : i <= j <=> f[i] <= f[j]
  /\ \A k \in T : \E i \in S : f[i] = k

\* Corresponding parts have as many positions.
LEMMA SameCount ==
  ASSUME NEW S, NEW T, NEW f, Positions(S), Positions(T), Corresponds(f, S, T),
         NEW A \in SUBSET S, NEW B \in SUBSET T, \A i \in S : i \in A <=> f[i] \in B
  PROVE  Cardinality(A) = Cardinality(B)
<1> DEFINE g == [i \in A |-> f[i]]
<1>1. g \in [A -> B]
  BY DEF Corresponds
<1>2. \A i, j \in A : g[i] = g[j] => i = j
  BY DEF Corresponds, Positions
<1>3. \A k \in B : \E i \in A : g[i] = k
  BY DEF Corresponds
<1>4. g \in Bijection(A, B)
  BY <1>1, <1>2, <1>3 DEF Bijection, Injection, IsInjective, Surjection
<1>5. IsFiniteSet(A)
  BY FS_Subset DEF Positions
<1> QED BY <1>4, <1>5, FS_Bijection DEF ExistsBijection

\* Corresponding positions have the same rank.
LEMMA SameRanks ==
  ASSUME NEW S, NEW T, NEW f, Positions(S), Positions(T), Corresponds(f, S, T)
  PROVE  /\ Cardinality(S) = Cardinality(T)
         /\ \A i \in S : Rank(T, f[i]) = Rank(S, i)
<1>1. Cardinality(S) = Cardinality(T)
  BY SameCount DEF Corresponds
<1>2. ASSUME NEW i \in S PROVE Rank(T, f[i]) = Rank(S, i)
  BY SameCount DEF Corresponds, Rank
<1> QED BY <1>1, <1>2

\* Corresponding positions with the same characters pick the same sequence.
LEMMA SamePicks ==
  ASSUME NEW S, NEW T, NEW f, Positions(S), Positions(T), Corresponds(f, S, T),
         NEW s, NEW t, \A i \in S : s[i] = t[f[i]]
  PROVE  Pick(s, S) = Pick(t, T)
<1>1. ASSUME NEW n \in 1..Cardinality(S) PROVE Pick(s, S)[n] = Pick(t, T)[n]
  <2>1. PICK i \in S : Rank(S, i) = n
    BY RankOnto
  <2>2. Pick(s, S)[n] = s[i] /\ f[i] \in T /\ Rank(T, f[i]) = n
    BY <2>1, Picked, SameRanks DEF Corresponds
  <2> QED BY <2>2, Picked
<1>2. Pick(s, S) = [n \in 1..Cardinality(S) |-> Pick(s, S)[n]]
  BY DEF Pick
<1>3. Pick(t, T) = [n \in 1..Cardinality(S) |-> Pick(t, T)[n]]
  BY SameRanks DEF Pick
<1> QED BY <1>1, <1>2, <1>3
-----------------------------------------------------------------------------
\* The positions of a text, its words and its leads.
LEMMA TextPositions ==
  ASSUME NEW t \in Seq(STRING)
  PROVE  /\ DOMAIN t = 1..Len(t) /\ Len(t) \in Nat
         /\ Positions(DOMAIN t) /\ Positions(Words(t)) /\ Positions(Leads(t))
         /\ Words(t) \subseteq Leads(t) /\ Leads(t) \subseteq DOMAIN t
<1>1. DOMAIN t = 1..Len(t) /\ Len(t) \in Nat
  BY LenProperties
<1>2. IsFiniteSet(DOMAIN t) /\ DOMAIN t \subseteq Nat \ {0}
  <2>1. IsFiniteSet(1..Len(t))
    BY <1>1, FS_Interval
  <2> QED BY <1>1, <2>1
<1>3. Words(t) \subseteq Leads(t) /\ Leads(t) \subseteq DOMAIN t
  BY DEF Words, Leads
<1>4. IsFiniteSet(Words(t)) /\ IsFiniteSet(Leads(t))
  BY <1>2, <1>3, Counted
<1> QED BY <1>1, <1>2, <1>3, <1>4 DEF Positions

\* A gap has a first character, and that one leads.
LEMMA GapLed ==
  ASSUME NEW t \in Seq(STRING), NEW n, GapAfter(t, n)
  PROVE  \E i \in Leads(t) \ Words(t) : Rank(Words(t), i) = n
<1> DEFINE G == {i \in DOMAIN t \ Words(t) : Rank(Words(t), i) = n}
<1>1. Positions(G) /\ G # {}
  <2>1. G # {}
    <3>1. PICK i \in DOMAIN t \ Words(t) : Rank(Words(t), i) = n
      BY DEF GapAfter
    <3> QED BY <3>1
  <2>2. G \in SUBSET (DOMAIN t)
    OBVIOUS
  <2>3. IsFiniteSet(G)
    BY <2>2, TextPositions, FS_Subset DEF Positions
  <2> QED BY <2>1, <2>2, <2>3, TextPositions DEF Positions
<1>2. PICK i \in G : \A j \in G : i <= j
  <2> HIDE DEF G
  <2> QED BY <1>1, First
<1>3. i \in 1..Len(t) /\ i \notin Words(t) /\ Rank(Words(t), i) = n
  BY TextPositions
<1>4. ASSUME i \notin Leads(t) PROVE FALSE
  <2>1. i - 1 \in 1..Len(t) /\ i - 1 \notin Words(t)
    BY <1>3, <1>4, TextPositions DEF Leads
  <2>2. Words(t) \subseteq Nat
    BY TextPositions DEF Positions
  <2>3. ASSUME NEW j \in Words(t) PROVE j <= i <=> j <= i - 1
    BY <1>3, <2>1, <2>2, <2>3
  <2>4. {j \in Words(t) : j <= i} = {j \in Words(t) : j <= i - 1}
    BY <2>3
  <2>5. Rank(Words(t), i - 1) = n
    BY <1>3, <2>4 DEF Rank
  <2>6. i - 1 \in G
    BY <2>1, <2>5, TextPositions
  <2>7. i <= i - 1
    BY <1>2, <2>6
  <2> QED BY <1>3, <2>7
<1> QED BY <1>3, <1>4

\* Two texts whose leads correspond and look the same agree.
LEMMA SameShape ==
  ASSUME NEW s \in Seq(STRING), NEW t \in Seq(STRING), NEW h,
         Corresponds(h, Leads(s), Leads(t)),
         \A i \in Leads(s) : Blanked(s)[i] = Blanked(t)[h[i]]
  PROVE  Agree(t, s)
<1>1. ASSUME NEW i \in Leads(s)
      PROVE  /\ i \in Words(s) <=> h[i] \in Words(t)
             /\ i \in Words(s) => Lower(s)[i] = Lower(t)[h[i]]
  <2>1. i \in DOMAIN s /\ h[i] \in DOMAIN t
    BY TextPositions DEF Corresponds
  <2> QED BY <2>1, TraceAssumption DEF Blanked, Words
<1> DEFINE g == [i \in Words(s) |-> h[i]]
<1>2. Corresponds(g, Words(s), Words(t))
  BY <1>1, TextPositions DEF Corresponds
<1>3. Letters(s) = Letters(t)
  <2>1. \A i \in Words(s) : Lower(s)[i] = Lower(t)[g[i]]
    BY <1>1, TextPositions
  <2> HIDE DEF g
  <2> QED BY <1>2, <2>1, SamePicks, TextPositions DEF Letters
<1>4. ASSUME NEW i \in Leads(s) PROVE Rank(Words(s), i) = Rank(Words(t), h[i])
  <2> DEFINE A == {j \in Words(s) : j <= i}
             B == {k \in Words(t) : k <= h[i]}
  <2>1. A \in SUBSET Leads(s) /\ B \in SUBSET Leads(t)
    BY TextPositions
  <2>2. \A j \in Leads(s) : j \in A <=> h[j] \in B
    BY <1>1 DEF Corresponds
  <2>3. Cardinality(A) = Cardinality(B)
    <3> HIDE DEF A, B
    <3> QED BY <2>1, <2>2, SameCount, TextPositions
  <2> QED BY <2>3 DEF Rank
<1>5. ASSUME NEW n, GapAfter(s, n) PROVE GapAfter(t, n)
  <2>1. PICK i \in Leads(s) \ Words(s) : Rank(Words(s), i) = n
    BY <1>5, GapLed
  <2>2. h[i] \in DOMAIN t \ Words(t) /\ Rank(Words(t), h[i]) = n
    BY <1>1, <1>4, <2>1, TextPositions DEF Corresponds
  <2> QED BY <2>2 DEF GapAfter
<1>6. ASSUME NEW n, GapAfter(t, n) PROVE GapAfter(s, n)
  <2>1. PICK k \in Leads(t) \ Words(t) : Rank(Words(t), k) = n
    BY <1>6, GapLed
  <2>2. PICK i \in Leads(s) : h[i] = k
    BY <2>1 DEF Corresponds
  <2>3. i \in DOMAIN s \ Words(s) /\ Rank(Words(s), i) = n
    BY <1>1, <1>4, <2>1, <2>2, TextPositions
  <2> QED BY <2>3 DEF GapAfter
<1> QED BY <1>3, <1>5, <1>6 DEF Agree

\* The passage of a text from a lead to a lead has the leads in between.
LEMMA PassageLeads ==
  ASSUME NEW t \in Seq(STRING), NEW a \in Leads(t), NEW b \in Leads(t), a <= b
  PROVE  LET p == SubSeq(t, a, b) IN
         /\ p \in Seq(STRING) /\ DOMAIN p = 1..(b - a + 1)
         /\ \A k \in 1..(b - a + 1) :
              /\ k \in Leads(p) <=> a + k - 1 \in Leads(t)
              /\ Blanked(p)[k] = Blanked(t)[a + k - 1]
<1> DEFINE p == SubSeq(t, a, b)
           D == 1..(b - a + 1)
<1>1. /\ a \in 1..Len(t) /\ b \in 1..Len(t)
      /\ DOMAIN t = 1..Len(t) /\ Len(t) \in Nat
  BY TextPositions
<1>2. p \in Seq(STRING) /\ DOMAIN p = D /\ \A k \in D : p[k] = t[a + k - 1]
  <2>1. \A i \in a..b : t[i] \in STRING
    BY <1>1, ElementOfSeq
  <2>2. /\ p \in Seq(STRING) /\ Len(p) = b - a + 1
        /\ \A k \in D : p[k] = t[a + k - 1]
    BY <1>1, <2>1, SubSeqProperties
  <2> QED BY <2>2, LenProperties
<1>3. ASSUME NEW k \in D
      PROVE  a + k - 1 \in DOMAIN t /\ Lower(p)[k] = Lower(t)[a + k - 1]
  BY <1>1, <1>2 DEF Lower
<1>4. ASSUME NEW k \in D PROVE k \in Words(p) <=> a + k - 1 \in Words(t)
  BY <1>2, <1>3 DEF Words
<1>5. ASSUME NEW k \in D PROVE Blanked(p)[k] = Blanked(t)[a + k - 1]
  BY <1>2, <1>3, <1>4 DEF Blanked
<1>6. ASSUME NEW k \in D PROVE k \in Leads(p) <=> a + k - 1 \in Leads(t)
  <2>1. CASE k = 1
    BY <1>1, <1>2, <2>1 DEF Leads
  <2>2. CASE k # 1
    <3>1. k - 1 \in D /\ a + k - 1 # 1 /\ a + (k - 1) - 1 = (a + k - 1) - 1
      BY <1>1, <2>2
    <3>2. k - 1 \in Words(p) <=> (a + k - 1) - 1 \in Words(t)
      BY <1>4, <3>1
    <3> QED BY <1>2, <1>3, <1>4, <2>2, <3>1, <3>2 DEF Leads
  <2> QED BY <2>1, <2>2
<1> QED BY <1>2, <1>5, <1>6

\* A match of normal forms is a passage of the text, for all texts and quotes.
THEOREM MatchIsPassage ==
  ASSUME NEW text \in Seq(STRING), NEW quote \in Seq(STRING), Contains(text, quote)
  PROVE  HasPassage(text, quote)
<1> DEFINE L == Leads(text)
           K == Leads(quote)
           n == Cardinality(K)
           m == Cardinality(L)
<1>1. Positions(L) /\ Positions(K) /\ n \in Nat /\ m \in Nat
  BY TextPositions, RankOrder
<1>2. 1 \in K /\ Rank(K, 1) \in 1..n
  <2>1. 1 \in DOMAIN quote
    BY EmptySeq, TextPositions DEF Contains
  <2>2. 1 \in K
    BY <2>1 DEF Leads
  <2> QED BY <1>1, <2>2, RankOrder
<1>3. PICK d \in 0..(m - n) :
        \A r \in 1..n : Normalised(quote)[r] = Normalised(text)[d + r]
  <2>1. /\ DOMAIN Normalised(quote) = 1..n /\ Len(Normalised(quote)) = n
        /\ DOMAIN Normalised(text) = 1..m /\ Len(Normalised(text)) = m
    BY <1>1, Picked DEF Normalised
  <2>2. PICK d \in 0..(m - n) :
          SubSeq(Normalised(text), d + 1, d + n) = Normalised(quote)
    BY <2>1 DEF Contains, Occurs
  <2>3. \A r \in 1..n : SubSeq(Normalised(text), d + 1, d + n)[r] = Normalised(text)[d + r]
    <3> DEFINE X == {Normalised(text)[k] : k \in (d + 1)..(d + n)}
    <3>1. d \in Int /\ \A k \in (d + 1)..(d + n) : Normalised(text)[k] \in X
      BY <1>1, <2>2
    <3> HIDE DEF X
    <3>2. \A k \in 1..((d + n) - (d + 1) + 1) :
            SubSeq(Normalised(text), d + 1, d + n)[k] = Normalised(text)[d + 1 + k - 1]
      BY <1>1, <3>1, SubSeqProperties
    <3> QED BY <1>1, <3>1, <3>2
  <2> QED BY <2>2, <2>3
<1> DEFINE at(r) == CHOOSE y \in L : Rank(L, y) = d + r
<1>4. ASSUME NEW r \in 1..n PROVE at(r) \in L /\ Rank(L, at(r)) = d + r
  BY <1>1, <1>3, RankOnto
<1>5. ASSUME NEW r \in 1..n, NEW k \in 1..n PROVE r <= k <=> at(r) <= at(k)
  <2>1. at(r) <= at(k) <=> d + r <= d + k
    <3> HIDE DEF at
    <3> QED BY <1>1, <1>4, RankOrder
  <2> QED BY <1>1, <1>3, <2>1
<1> DEFINE a == at(1)
           b == at(n)
           p == SubSeq(text, a, b)
           D == 1..(b - a + 1)
           h == [x \in K |-> at(Rank(K, x)) - a + 1]
<1>6. /\ a \in L /\ b \in L /\ a <= b
      /\ a \in 1..Len(text) /\ b \in 1..Len(text) /\ DOMAIN text = 1..Len(text)
  <2>1. 1 \in 1..n /\ n \in 1..n
    BY <1>1, <1>2
  <2>2. a \in L /\ b \in L /\ a <= b
    BY <1>4, <1>5, <2>1
  <2> HIDE DEF a, b
  <2> QED BY <2>2, TextPositions
<1> HIDE DEF at
<1>7. ASSUME NEW x \in K
      PROVE  /\ Rank(K, x) \in 1..n /\ at(Rank(K, x)) \in L
             /\ h[x] \in D /\ a + h[x] - 1 = at(Rank(K, x))
  <2>1. Rank(K, x) \in 1..n /\ 1 \in 1..n /\ n \in 1..n
    BY <1>1, <1>2, RankOrder
  <2>2. 1 <= Rank(K, x) /\ Rank(K, x) <= n
    BY <1>1, <2>1
  <2>3. at(Rank(K, x)) \in L /\ a <= at(Rank(K, x)) /\ at(Rank(K, x)) <= b
    BY <1>4, <1>5, <2>1, <2>2
  <2>4. at(Rank(K, x)) \in Nat
    BY <1>1, <2>3 DEF Positions
  <2> QED BY <1>6, <2>1, <2>3, <2>4
<1>8. /\ p \in Seq(STRING) /\ DOMAIN p = D
      /\ \A k \in D : /\ k \in Leads(p) <=> a + k - 1 \in L
                      /\ Blanked(p)[k] = Blanked(text)[a + k - 1]
  BY <1>6, PassageLeads
<1> HIDE DEF a, b, p
<1>9. Corresponds(h, K, Leads(p))
  <2>1. ASSUME NEW x \in K PROVE h[x] \in Leads(p)
    <3> HIDE DEF h, D
    <3>1. h[x] \in D /\ a + h[x] - 1 \in L
      BY <1>7
    <3> QED BY <3>1, <1>8
  <2>2. ASSUME NEW x \in K, NEW y \in K PROVE x <= y <=> h[x] <= h[y]
    <3>1. x <= y <=> Rank(K, x) <= Rank(K, y)
      BY <1>1, RankOrder
    <3>2. x <= y <=> at(Rank(K, x)) <= at(Rank(K, y))
      BY <1>5, <1>7, <3>1
    <3>3. /\ at(Rank(K, x)) = a + h[x] - 1 /\ at(Rank(K, y)) = a + h[y] - 1
          /\ h[x] \in Nat /\ h[y] \in Nat
      BY <1>7
    <3> HIDE DEF h
    <3> QED BY <1>6, <3>2, <3>3
  <2>3. ASSUME NEW k \in Leads(p) PROVE \E x \in K : h[x] = k
    <3>1. k \in D /\ a + k - 1 \in L /\ a <= a + k - 1 /\ a + k - 1 <= b
      BY <1>6, <1>8, TextPositions
    <3>2. /\ Rank(L, a) <= Rank(L, a + k - 1) /\ Rank(L, a + k - 1) <= Rank(L, b)
          /\ Rank(L, a + k - 1) \in Nat
      BY <1>1, <1>6, <3>1, RankOrder
    <3>3. Rank(L, a) = d + 1 /\ Rank(L, b) = d + n
      BY <1>1, <1>2, <1>4 DEF a, b
    <3>4. Rank(L, a + k - 1) - d \in 1..n
      BY <1>1, <1>3, <3>2, <3>3
    <3>5. PICK x \in K : Rank(K, x) = Rank(L, a + k - 1) - d
      BY <1>1, <3>4, RankOnto
    <3>6. Rank(L, at(Rank(K, x))) = Rank(L, a + k - 1) /\ at(Rank(K, x)) \in L
      BY <1>3, <1>4, <3>2, <3>4, <3>5
    <3>7. at(Rank(K, x)) <= a + k - 1 /\ a + k - 1 <= at(Rank(K, x))
      BY <1>1, <3>1, <3>2, <3>6, RankOrder
    <3>8. at(Rank(K, x)) = a + k - 1
      BY <1>1, <3>1, <3>6, <3>7 DEF Positions
    <3> QED BY <1>6, <3>1, <3>8
  <2> QED BY <2>1, <2>2, <2>3 DEF Corresponds
<1>10. ASSUME NEW x \in K PROVE Blanked(quote)[x] = Blanked(p)[h[x]]
  <2>1. Blanked(quote)[x] = Normalised(quote)[Rank(K, x)]
    BY <1>1, Picked DEF Normalised
  <2>2. Normalised(quote)[Rank(K, x)] = Normalised(text)[d + Rank(K, x)]
    BY <1>3, <1>7
  <2>3. Normalised(text)[d + Rank(K, x)] = Blanked(text)[at(Rank(K, x))]
    BY <1>1, <1>4, <1>7, Picked DEF Normalised
  <2>4. Blanked(text)[at(Rank(K, x))] = Blanked(p)[h[x]]
    <3> HIDE DEF h, D
    <3>1. h[x] \in D /\ a + h[x] - 1 = at(Rank(K, x))
      BY <1>7
    <3> QED BY <3>1, <1>8
  <2> QED BY <2>1, <2>2, <2>3, <2>4
<1>11. Agree(p, quote)
  <2> HIDE DEF h
  <2> QED BY <1>8, <1>9, <1>10, SameShape
<1> QED BY <1>6, <1>11 DEF HasPassage, p
=============================================================================
