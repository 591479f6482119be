------------------------- MODULE ReferenceListProofs -------------------------
(***************************************************************************)
(* Lemmas about the pages of ReferenceList: ranks number the rows of a     *)
(* list from 0 without gaps, a page has no more rows than its limit, and a *)
(* page that exists is not empty.                                          *)
(***************************************************************************)
EXTENDS ReferenceList, FiniteSetTheorems, TLAPS

\* "at" gives every one of the rows a moment of its own.
Numbers(rows, at) ==
    /\ \A r \in rows : at[r] \in Nat
    /\ \A a, b \in rows : a # b => at[a] # at[b]

LEMMA RowsAreFinite ==
  ASSUME NEW rows \in SUBSET Refs
  PROVE  IsFiniteSet(rows) /\ Cardinality(rows) \in Nat
  BY ListAssumption, FS_Subset, FS_CardinalityType

LEMMA MoreRows ==
  ASSUME NEW more \in SUBSET Refs, NEW rows \in SUBSET more
  PROVE  Cardinality(rows) <= Cardinality(more)
  BY RowsAreFinite, FS_Subset

LEMMA SomeRow ==
  ASSUME NEW rows \in SUBSET Refs
  PROVE  Cardinality(rows) = 0 <=> rows = {}
  BY RowsAreFinite, FS_EmptySet

LEMMA MatchingIsPart ==
  ASSUME NEW active \in SUBSET Refs, NEW search, NEW tags
  PROVE  Matching(active, search, tags) \in SUBSET active
  BY DEF Matching

LEMMA RankType ==
  ASSUME NEW rows \in SUBSET Refs, NEW at, NEW r
  PROVE  Rank(r, rows, at) \in Nat
  <1>1. {x \in rows : at[x] > at[r]} \in SUBSET Refs
    OBVIOUS
  <1> QED
    BY <1>1, RowsAreFinite DEF Rank

\* A row comes before those that are not in front of it.
LEMMA RankBelow ==
  ASSUME NEW rows \in SUBSET Refs, NEW at, NEW r \in rows, at[r] \in Nat
  PROVE  Rank(r, rows, at) < Cardinality(rows)
  <1> DEFINE before == {x \in rows : at[x] > at[r]}
  <1>1. before \in SUBSET rows /\ before # rows
    OBVIOUS
  <1>2. Cardinality(before) <= Cardinality(rows) /\ Cardinality(before) # Cardinality(rows)
    BY <1>1, RowsAreFinite, FS_Subset
  <1>3. Cardinality(before) \in Nat /\ Cardinality(rows) \in Nat
    BY <1>1, RowsAreFinite
  <1> QED
    BY <1>2, <1>3 DEF Rank

\* More rows, more of them in front.
LEMMA RankGrows ==
  ASSUME NEW more \in SUBSET Refs, NEW rows \in SUBSET more, NEW at, NEW r
  PROVE  Rank(r, rows, at) <= Rank(r, more, at)
  <1>1. {x \in rows : at[x] > at[r]} \in SUBSET {x \in more : at[x] > at[r]}
    OBVIOUS
  <1>2. {x \in more : at[x] > at[r]} \in SUBSET Refs
    OBVIOUS
  <1> QED
    BY <1>1, <1>2, MoreRows DEF Rank

\* A newer row has a lower rank.
LEMMA RankStrict ==
  ASSUME NEW rows \in SUBSET Refs, NEW at, NEW a \in rows, NEW b \in rows,
         at[a] \in Nat, at[b] \in Nat, at[a] > at[b],
         \A x \in rows : at[x] \in Nat
  PROVE  Rank(a, rows, at) < Rank(b, rows, at)
  <1> DEFINE A == {x \in rows : at[x] > at[a]}
             B == {x \in rows : at[x] > at[b]}
  <1>1. A \in SUBSET B /\ B \in SUBSET Refs /\ a \in B /\ a \notin A
    OBVIOUS
  <1>2. Cardinality(A) <= Cardinality(B) /\ Cardinality(A) # Cardinality(B)
    BY <1>1, RowsAreFinite, FS_Subset
  <1>3. Cardinality(A) \in Nat /\ Cardinality(B) \in Nat
    BY <1>1, RowsAreFinite
  <1> QED
    BY <1>2, <1>3 DEF Rank

LEMMA RanksDiffer ==
  ASSUME NEW rows \in SUBSET Refs, NEW at, Numbers(rows, at),
         NEW a \in rows, NEW b \in rows, a # b
  PROVE  Rank(a, rows, at) # Rank(b, rows, at)
  <1>1. at[a] \in Nat /\ at[b] \in Nat /\ at[a] # at[b] /\ \A x \in rows : at[x] \in Nat
    BY DEF Numbers
  <1>2. Rank(a, rows, at) \in Nat /\ Rank(b, rows, at) \in Nat
    BY RankType
  <1>3. CASE at[a] > at[b]
    BY <1>1, <1>2, <1>3, RankStrict
  <1>4. CASE at[b] > at[a]
    BY <1>1, <1>2, <1>4, RankStrict
  <1> QED
    BY <1>1, <1>3, <1>4

\* The ranks of rows with moments of their own have no gaps.
LEMMA RanksOnto ==
  ASSUME NEW rows \in SUBSET Refs, NEW at, Numbers(rows, at),
         NEW k \in Nat, k < Cardinality(rows)
  PROVE  \E r \in rows : Rank(r, rows, at) = k
  <1> DEFINE n == Cardinality(rows)
             f == [r \in rows |-> Rank(r, rows, at)]
  <1>1. n \in Nat /\ IsFiniteSet(rows)
    BY RowsAreFinite
  <1>2. \A r \in rows : Rank(r, rows, at) \in 0 .. n - 1
    <2> TAKE r \in rows
    <2>1. at[r] \in Nat
      BY DEF Numbers
    <2> QED
      BY <1>1, <2>1, RankType, RankBelow
  <1>3. f \in Injection(rows, 0 .. n - 1)
    BY <1>2, RanksDiffer DEF Injection, IsInjective
  <1>4. IsFiniteSet(0 .. n - 1) /\ Cardinality(0 .. n - 1) = n
    <2> HIDE DEF n
    <2>1. n - 1 \in Int /\ (0 > n - 1 => n = 0) /\ (n - 1) - 0 + 1 = n
      BY <1>1
    <2> QED
      BY <2>1, FS_Interval
  <1>5. f \in Surjection(rows, 0 .. n - 1)
    BY <1>3, <1>4, FS_Injection
  <1>6. k \in 0 .. n - 1
    BY <1>1
  <1> QED
    BY <1>5, <1>6 DEF Surjection

\* So there are no more of them in an interval than it has numbers.
LEMMA WindowIsSmall ==
  ASSUME NEW rows \in SUBSET Refs, NEW at, Numbers(rows, at), NEW lo \in Nat, NEW k \in Nat
  PROVE  Cardinality({r \in rows : Rank(r, rows, at) >= lo /\ Rank(r, rows, at) < lo + k}) <= k
  <1> DEFINE W == {r \in rows : Rank(r, rows, at) >= lo /\ Rank(r, rows, at) < lo + k}
             f == [r \in W |-> Rank(r, rows, at)]
  <1>1. \A r \in W : Rank(r, rows, at) \in lo .. lo + k - 1
    BY RankType
  <1>2. f \in Injection(W, lo .. lo + k - 1)
    BY <1>1, RanksDiffer DEF Injection, IsInjective
  <1>3. IsFiniteSet(lo .. lo + k - 1) /\ Cardinality(lo .. lo + k - 1) = k
    BY FS_Interval
  <1> QED
    BY <1>2, <1>3, FS_Injection

\* As many pages as it takes, and the last one is not empty.
LEMMA PagesSuffice ==
  ASSUME NEW count \in Nat \ {0}, NEW limit \in Nat \ {0}
  PROVE  /\ (count + limit - 1) \div limit \in Nat \ {0}
         /\ ((count + limit - 1) \div limit - 1) * limit < count
         /\ count <= ((count + limit - 1) \div limit) * limit
  <1> DEFINE p == (count + limit - 1) \div limit
             m == (count + limit - 1) % limit
  <1>1. p \in Int /\ m \in 0 .. limit - 1 /\ count + limit - 1 = limit * p + m
    OBVIOUS
  <1> HIDE DEF p, m
  <1>2. (p - 1) * limit = limit * p - limit /\ p * limit = limit * p
    BY <1>1
  <1>3. limit * p > 0
    BY <1>1
  <1>4. p > 0
    BY <1>1, <1>3
  <1> QED
    BY <1>1, <1>2, <1>4 DEF p

\* Earlier pages end where later ones begin.
LEMMA PagesGrow ==
  ASSUME NEW a \in Int, NEW b \in Int, a <= b, NEW limit \in Nat \ {0}
  PROVE  a * limit <= b * limit
  OBVIOUS
=============================================================================
