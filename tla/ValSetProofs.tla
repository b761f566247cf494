----------------------------- MODULE ValSetProofs -----------------------------
(***************************************************************************)
(* Proofs about the validator set (modules Weights, Participation and      *)
(* ValSet).                                                                *)
(*                                                                         *)
(* ValInv (the set holds validators) and OrderInv (it is sorted between    *)
(* batches) hold for batches of any length; OrderInv is what makes the     *)
(* bisection of findIndex find the key it looks for.  Inside a batch the   *)
(* slice is sorted up to the first addition, and after it findIndex is     *)
(* still right about keys that are not there: the induction over the       *)
(* operations of an orderly batch (FoldMeant) rests on that.               *)
(* The recursive functions behind FindIndex and FoldLeft are shown to      *)
(* exist, and to return what they should, by a least counterexample.       *)
(***************************************************************************)
EXTENDS ValSet, BaseProofs, SequenceTheorems

\* An entry of the set: normalised node type, score within 0 and 1.0.
Validator == [key : Key, stake : Nat, ntype : 1 .. 3, score : 0 .. One, jailed : BOOLEAN]

\* The fields of a validator.
LEMMA ValidatorFields ==
    ASSUME NEW v \in Validator
    PROVE  /\ v.key \in Key /\ v.key \in Nat /\ v.stake \in Nat
           /\ v.ntype \in 1 .. 3 /\ v.score \in 0 .. One
<1>1. v.key \in Key /\ v.stake \in Nat /\ v.ntype \in 1 .. 3 /\ v.score \in 0 .. One
  BY DEF Validator
<1>2. Key \subseteq Nat
  BY ValSetAssumption
<1>3. QED
  BY <1>1, <1>2

-------------------------------------------------------------------------------
(***************************************************************************)
(* findIndex.                                                              *)
(***************************************************************************)
Ranges(n) == (0 .. n) \X (0 .. n)

Middle(r) == (r[1] + r[2]) \div 2

\* One turn of the bisection: what the search of r returns when g searches its halves.
SearchAt(g, s, k, r) ==
    IF r[1] >= r[2] THEN -1
    ELSE IF s[Middle(r) + 1].key = k THEN Middle(r)
    ELSE IF s[Middle(r) + 1].key < k THEN g[<<Middle(r) + 1, r[2]>>]
    ELSE g[<<r[1], Middle(r)>>]

\* g is the recursive function of FindIndex.
IsSearch(g, s, k) == g = [r \in Ranges(Len(s)) |-> SearchAt(g, s, k, r)]

\* The halves are ranges, and narrower.
LEMMA Halves ==
    ASSUME NEW n \in Nat, NEW r \in Ranges(n), r[1] < r[2]
    PROVE  /\ r[1] \in 0 .. n /\ r[2] \in 0 .. n
           /\ Middle(r) \in r[1] .. r[2] - 1
           /\ <<Middle(r) + 1, r[2]>> \in Ranges(n)
           /\ <<r[1], Middle(r)>> \in Ranges(n)
           /\ r[2] - (Middle(r) + 1) < r[2] - r[1]
           /\ Middle(r) - r[1] < r[2] - r[1]
<1>1. r[1] \in 0 .. n /\ r[2] \in 0 .. n
  BY DEF Ranges
<1>2. Middle(r) \in r[1] .. r[2] - 1
  BY <1>1 DEF Middle
<1>3. QED
  BY <1>1, <1>2 DEF Ranges

\* The recursion has a solution: by the width of the range.
LEMMA SearchExists ==
    ASSUME NEW s, Len(s) \in Nat, NEW k
    PROVE  \E g : IsSearch(g, s, k)
<1> DEFINE n == Len(s)
           R == Ranges(n)
           Narrow(w) == {r \in R : r[2] - r[1] <= w}
           Solves(g, w) == /\ \E T : g \in [R -> T]
                           /\ \A r \in Narrow(w) : g[r] = SearchAt(g, s, k, r)
           Bad == {w \in Nat : ~ \E g : Solves(g, w)}
<1>0. \A r \in R : r[1] \in 0 .. n /\ r[2] \in 0 .. n
  BY DEF Ranges
<1>1. Bad = {}
  <2> SUFFICES ASSUME Bad # {} PROVE FALSE
    OBVIOUS
  <2>1. PICK w \in Bad : \A v \in Bad : w <= v
    BY NatMin
  <2>2. w \in Nat /\ ~ \E g : Solves(g, w)
    BY <2>1
  <2>3. CASE w = 0
    <3> DEFINE h == [r \in R |-> -1]
    <3>1. \A r \in Narrow(0) : r[1] >= r[2]
      BY <1>0
    <3>2. Solves(h, 0)
      BY <3>1 DEF SearchAt
    <3>3. QED
      BY <2>2, <2>3, <3>2
  <2>4. CASE w # 0
    <3>1. w - 1 \in Nat /\ w - 1 \notin Bad
      <4> HIDE DEF Bad
      <4>1. QED
        BY <2>1, <2>2, <2>4
    <3>2. PICK g : Solves(g, w - 1)
      BY <3>1
    <3> DEFINE h == [r \in R |-> SearchAt(g, s, k, r)]
    <3>3. \A r \in Narrow(w - 1) : h[r] = g[r]
      BY <3>2
    <3>4. ASSUME NEW r \in Narrow(w), r[1] < r[2]
          PROVE  <<Middle(r) + 1, r[2]>> \in Narrow(w - 1) /\ <<r[1], Middle(r)>> \in Narrow(w - 1)
      <4>1. r \in Ranges(n) /\ r[2] - r[1] <= w /\ n \in Nat
        OBVIOUS
      <4>2. /\ r[1] \in 0 .. n /\ r[2] \in 0 .. n
            /\ Middle(r) \in r[1] .. r[2] - 1
            /\ <<Middle(r) + 1, r[2]>> \in Ranges(n)
            /\ <<r[1], Middle(r)>> \in Ranges(n)
        BY <3>4, <4>1, Halves
      <4>3. r[2] - (Middle(r) + 1) <= w - 1 /\ Middle(r) - r[1] <= w - 1
        BY <2>2, <4>1, <4>2
      <4>4. QED
        BY <4>2, <4>3
    <3>5. \A r \in Narrow(w) : h[r] = SearchAt(h, s, k, r)
      <4> TAKE r \in Narrow(w)
      <4>1. r \in R /\ h[r] = SearchAt(g, s, k, r)
        OBVIOUS
      <4> HIDE DEF h, Narrow
      <4>2. CASE r[1] < r[2]
        BY <3>3, <3>4, <4>1, <4>2 DEF SearchAt
      <4>3. CASE r[1] >= r[2]
        BY <4>1, <4>3 DEF SearchAt
      <4>4. QED
        BY <1>0, <4>1, <4>2, <4>3
    <3>6. Solves(h, w)
      <4>1. h \in [R -> {SearchAt(g, s, k, r) : r \in R}]
        OBVIOUS
      <4> HIDE DEF h
      <4>2. QED
        BY <3>5, <4>1
    <3>7. QED
      BY <2>2, <3>6
  <2>5. QED
    BY <2>3, <2>4
<1>2. PICK g : Solves(g, n)
  BY <1>1
<1>3. Narrow(n) = R
  BY <1>0
<1>4. QED
  BY <1>2, <1>3 DEF IsSearch

\* FindIndex is the value of such a function at the whole slice.
LEMMA FindIndexUnfold ==
    ASSUME NEW s, Len(s) \in Nat, NEW k
    PROVE  \E g : IsSearch(g, s, k) /\ FindIndex(s, k) = g[<<0, Len(s)>>]
<1> DEFINE it == CHOOSE g : IsSearch(g, s, k)
<1>1. IsSearch(it, s, k)
  BY SearchExists
<1>2. FindIndex(s, k) = it[<<0, Len(s)>>]
  BY DEF FindIndex, IsSearch, SearchAt, Ranges, Middle
<1>3. QED
  BY <1>1, <1>2

\* s is sorted by key.
Ascending(s) == \A i, j \in 1 .. Len(s) : i < j => s[i].key <= s[j].key

\* findIndex is right about k: s is sorted, or k is not in it.
Findable(s, k) == Ascending(s) \/ \A i \in 1 .. Len(s) : s[i].key # k

\* What the search of a range r of s for k finds.
FoundIn(s, k, r, x) ==
    /\ x = -1 \/ (x \in r[1] .. r[2] - 1 /\ s[x + 1].key = k)
    /\ Ascending(s) /\ x = -1 => \A i \in r[1] .. r[2] - 1 : s[i + 1].key # k

\* The bisection returns an index of the key or none, and on a sorted slice none only if
\* the key is not there.
LEMMA FindIndexFinds ==
    ASSUME NEW s \in Seq(Validator), NEW k \in Nat
    PROVE  FoundIn(s, k, <<0, Len(s)>>, FindIndex(s, k))
<1> DEFINE n == Len(s)
           R == Ranges(n)
<1>0. n \in Nat /\ \A i \in 1 .. n : s[i].key \in Nat
  <2>1. \A i \in 1 .. n : s[i] \in Validator
    OBVIOUS
  <2>2. QED
    BY <2>1, ValidatorFields
<1>1. PICK g : IsSearch(g, s, k) /\ FindIndex(s, k) = g[<<0, n>>]
  BY <1>0, FindIndexUnfold
<1>2. \A r \in R : g[r] = SearchAt(g, s, k, r)
  BY <1>1 DEF IsSearch
<1>3. \A r \in R : r[1] \in 0 .. n /\ r[2] \in 0 .. n
  BY DEF Ranges
<1> DEFINE Bad == {w \in Nat : \E r \in R : r[2] - r[1] <= w /\ ~ FoundIn(s, k, r, g[r])}
<1>4. Bad = {}
  <2> SUFFICES ASSUME Bad # {} PROVE FALSE
    OBVIOUS
  <2>1. PICK w \in Bad : \A v \in Bad : w <= v
    BY NatMin
  <2>2. PICK r \in R : r[2] - r[1] <= w /\ ~ FoundIn(s, k, r, g[r])
    BY <2>1
  <2>3. w \in Nat /\ r[1] \in 0 .. n /\ r[2] \in 0 .. n
    BY <1>3, <2>1
  <2>4. r[1] < r[2]
    <3>1. CASE r[1] >= r[2]
      <4>1. g[r] = -1
        BY <1>2, <3>1 DEF SearchAt
      <4>2. r[1] .. r[2] - 1 = {}
        BY <2>3, <3>1
      <4>3. QED
        BY <2>2, <4>1, <4>2 DEF FoundIn
    <3>2. QED
      BY <2>3, <3>1
  <2> DEFINE m == Middle(r)
             upper == <<m + 1, r[2]>>
             lower == <<r[1], m>>
  <2>5. /\ m \in r[1] .. r[2] - 1 /\ upper \in R /\ lower \in R
    BY <1>0, <2>4, Halves
  <2>6. FoundIn(s, k, upper, g[upper]) /\ FoundIn(s, k, lower, g[lower])
    <3>1. r[2] - (m + 1) <= w - 1 /\ m - r[1] <= w - 1 /\ w - 1 \in Nat
      BY <2>2, <2>3, <2>4, <2>5
    <3>2. w - 1 \notin Bad
      <4> HIDE DEF Bad
      <4>1. QED
        BY <2>1, <2>3
    <3>3. \A q \in R : q[2] - q[1] <= w - 1 => FoundIn(s, k, q, g[q])
      BY <3>1, <3>2
    <3>4. upper[2] - upper[1] <= w - 1 /\ lower[2] - lower[1] <= w - 1
      BY <3>1
    <3>5. QED
      BY <2>5, <3>3, <3>4
  <2>7. s[m + 1].key \in Nat /\ m + 1 \in 1 .. n /\ m \in Int
    BY <1>0, <2>3, <2>5
  <2> HIDE DEF m
  <2>8. g[r] = IF s[m + 1].key = k THEN m
               ELSE IF s[m + 1].key < k THEN g[upper] ELSE g[lower]
    BY <1>2, <2>3, <2>4 DEF SearchAt, m
  <2>9. CASE s[m + 1].key = k
    BY <2>2, <2>3, <2>5, <2>7, <2>8, <2>9 DEF FoundIn
  <2>10. CASE s[m + 1].key < k
    <3>1. g[r] = g[upper]
      BY <2>7, <2>8, <2>10
    <3>2. ASSUME Ascending(s), NEW i \in r[1] .. m PROVE s[i + 1].key # k
      <4>1. i + 1 \in 1 .. n /\ (i + 1 = m + 1 \/ i + 1 < m + 1)
        BY <2>3, <2>5, <3>2
      <4>2. s[i + 1].key \in Nat /\ s[i + 1].key <= s[m + 1].key
        BY <1>0, <2>7, <3>2, <4>1 DEF Ascending
      <4>3. QED
        BY <2>7, <2>10, <4>2
    <3>3. \A i \in r[1] .. r[2] - 1 : i \in r[1] .. m \/ i \in m + 1 .. r[2] - 1
      BY <2>3, <2>5
    <3>4. FoundIn(s, k, r, g[r])
      BY <2>3, <2>5, <2>6, <3>1, <3>2, <3>3 DEF FoundIn
    <3>5. QED
      BY <2>2, <3>4
  <2>11. CASE s[m + 1].key > k
    <3>1. g[r] = g[lower]
      BY <2>7, <2>8, <2>11
    <3>2. ASSUME Ascending(s), NEW i \in m .. r[2] - 1 PROVE s[i + 1].key # k
      <4>1. i + 1 \in 1 .. n /\ (i + 1 = m + 1 \/ m + 1 < i + 1)
        BY <2>3, <2>5, <3>2
      <4>2. s[i + 1].key \in Nat /\ s[m + 1].key <= s[i + 1].key
        BY <1>0, <2>7, <3>2, <4>1 DEF Ascending
      <4>3. QED
        BY <2>7, <2>11, <4>2
    <3>3. \A i \in r[1] .. r[2] - 1 : i \in m .. r[2] - 1 \/ i \in r[1] .. m - 1
      BY <2>3, <2>5
    <3>4. FoundIn(s, k, r, g[r])
      BY <2>3, <2>5, <2>6, <3>1, <3>2, <3>3 DEF FoundIn
    <3>5. QED
      BY <2>2, <3>4
  <2>12. QED
    BY <2>7, <2>9, <2>10, <2>11
<1>5. <<0, n>> \in R /\ n - 0 <= n
  BY <1>0 DEF Ranges
<1>6. n \notin Bad
  BY <1>4
<1>7. QED
  BY <1>0, <1>1, <1>5, <1>6
-------------------------------------------------------------------------------
(***************************************************************************)
(* Scores and power.                                                       *)
(***************************************************************************)
\* A score with points more or fewer is a score.
LEMMA AddPointsType ==
    ASSUME NEW q \in 0 .. One, NEW num \in Int, NEW denom \in Nat \ {0}
    PROVE  AddPointsQ(q, num, denom) \in 0 .. One
<1> DEFINE delta == (One * Abs(num)) \div (100 * denom)
<1>1. Abs(num) \in Nat
  BY DEF Abs
<1>2. One * Abs(num) \in Nat /\ 100 * denom \in Nat \ {0}
  BY <1>1 DEF One
<1>3. delta \in Nat
  BY <1>2
<1> HIDE DEF delta
<1>4. q \in Nat /\ q <= One /\ One \in Nat
  BY DEF One
<1>5. AddPointsQ(q, num, denom)
        = IF num < 0 THEN IF delta >= q THEN 0 ELSE q - delta ELSE ClampScoreQ(q + delta)
  BY DEF AddPointsQ, delta
<1>6. QED
  BY <1>3, <1>4, <1>5 DEF ClampScoreQ

\* Every event keeps a score a score and a count a count.
LEMMA EventType ==
    ASSUME NEW ev \in Events, NEW q \in 0 .. One, NEW n \in Nat
    PROVE  /\ ApplyEvent(ev, q, n).score \in 0 .. One
           /\ ApplyEvent(ev, q, n).misses \in Nat
<1>1. /\ AddPointsQ(q, 10, 1) \in 0 .. One /\ AddPointsQ(q, -1, 2) \in 0 .. One
      /\ AddPointsQ(q, -2, 1) \in 0 .. One /\ AddPointsQ(q, -100, 1) \in 0 .. One
      /\ AddPointsQ(q, -10, 1) \in 0 .. One /\ AddPointsQ(q, 1, 1000) \in 0 .. One
  <2>1. \A num \in Int, denom \in Nat \ {0} : AddPointsQ(q, num, denom) \in 0 .. One
    BY AddPointsType
  <2>2. {10, -1, -2, -100, -10, 1} \subseteq Int /\ {1, 2, 1000} \subseteq Nat \ {0}
    OBVIOUS
  <2>3. QED
    BY <2>1, <2>2
<1>2. Deducted(q, n + 1) \in 0 .. One
  BY <1>1 DEF Deducted
<1>3. ev \in {"success", "miss_prevote", "miss_precommit", "refused", "epoch"}
  BY DEF Events
<1>4. QED
  BY <1>1, <1>2, <1>3 DEF ApplyEvent, UpdateScoreOnSuccess, UpdateScoreOnMiss,
                          UpdateScoreOnRefusedAsBackup, UpdateEpochBonus

\* The weights are those of the three node types, at most 2.
LEMMA WeightType ==
    ASSUME NEW nt \in Nat
    PROVE  GetNodeTypeWeight(nt) \in 1000 .. 2000
BY DEF GetNodeTypeWeight

\* Products grow with their factors.
LEMMA MulMono ==
    ASSUME NEW a \in Nat, NEW b \in Nat, NEW c \in Nat, b <= c
    PROVE  a * b \in Nat /\ a * b <= a * c
<1>1. c - b \in Nat /\ a * (c - b) \in Nat
  OBVIOUS
<1>2. a * c = a * b + a * (c - b)
  OBVIOUS
<1>3. a * b \in Nat /\ a * c \in Nat
  OBVIOUS
<1>4. QED
  BY <1>1, <1>2, <1>3

\* A score is a natural number of 16 fractional bits, at most 1.0.
LEMMA ScoreType ==
    ASSUME NEW q \in 0 .. One
    PROVE  q \in Nat /\ q <= 65536
BY DEF One

\* A clamped score is one.
LEMMA ClampType ==
    ASSUME NEW q \in Nat
    PROVE  ClampScoreQ(q) \in 0 .. One
BY DEF ClampScoreQ, One

\* A score of at most 1.0 and a weight of at most 2 bound the power by twice the stake.
LEMMA PowerBounded ==
    ASSUME NEW v \in Validator
    PROVE  EffectivePower(v) <= 2 * v.stake
<1> DEFINE w == GetNodeTypeWeight(v.ntype)
           st == v.stake
           x == (st * w) * v.score
<1>0. v.stake \in Nat /\ v.ntype \in 1 .. 3 /\ v.score \in 0 .. One
  BY ValidatorFields
<1>1. st \in Nat /\ v.ntype \in Nat /\ v.score \in Nat /\ v.score <= 65536
  <2>1. v.score \in Nat /\ v.score <= 65536
    BY <1>0, ScoreType
  <2>2. v.ntype \in Nat
    BY <1>0
  <2>3. QED
    BY <1>0, <2>1, <2>2
<1>2. w \in Nat /\ w <= 2000
  <2>1. w \in 1000 .. 2000
    BY <1>1, WeightType
  <2> HIDE DEF w
  <2>2. QED
    BY <2>1
<1> HIDE DEF w, st
<1>3. st * w \in Nat /\ st * w <= st * 2000
  BY <1>1, <1>2, MulMono
<1>4. x \in Nat /\ x <= (st * w) * 65536
  BY <1>1, <1>3, MulMono
<1>5. x <= (2 * st) * 65536000 /\ 2 * st \in Nat
  BY <1>1, <1>3, <1>4
<1>6. EffectivePower(v) = (x \div 65536000) % PowerWord
  BY DEF EffectivePower, One, w, st
<1> HIDE DEF x
<1>7. x \div 65536000 \in Nat /\ x \div 65536000 <= 2 * st
  BY <1>4, <1>5
<1>8. ASSUME NEW a \in Nat PROVE a % PowerWord <= a
  BY WeightsAssumption
<1>9. EffectivePower(v) <= x \div 65536000 /\ EffectivePower(v) \in Nat
  BY <1>6, <1>7, <1>8, WeightsAssumption
<1>10. QED
  BY <1>1, <1>7, <1>9 DEF st

\* An operation leaves a validator behind.
LEMMA ChangedType ==
    ASSUME NEW v \in Validator, NEW op \in Op
    PROVE  Changed(v, op) \in Validator /\ Changed(v, op).key = v.key
<1>1. /\ op.stake \in Nat \cup {Nil} /\ op.ntype \in (0 .. 255) \cup {Nil}
      /\ op.score \in Nat \cup {Nil} /\ op.jailed \in BOOLEAN \cup {Nil}
  BY ValSetAssumption
<1>2. v.jailed \in BOOLEAN
  BY DEF Validator
<1>3. (IF op.jailed = Nil THEN v.jailed ELSE op.jailed) \in BOOLEAN
  BY <1>1, <1>2
<1>4. (IF op.stake = Nil THEN v.stake ELSE op.stake) \in Nat
  BY <1>1, ValidatorFields
<1>5. (IF op.ntype = Nil THEN v.ntype ELSE NormalizeNodeType(op.ntype)) \in 1 .. 3
  BY <1>1, ValidatorFields DEF NormalizeNodeType, NodeLight, NodeFull
<1>6. (IF op.score = Nil THEN v.score ELSE ClampScoreQ(op.score)) \in 0 .. One
  <2>1. v.score \in 0 .. One
    BY ValidatorFields
  <2>2. QED
    BY <1>1, <2>1, ClampType
<1>7. v.key \in Key
  BY ValidatorFields
<1>8. QED
  BY <1>3, <1>4, <1>5, <1>6, <1>7 DEF Changed, Validator

\* A new one has a key and the default fields.
LEMMA NewType ==
    ASSUME NEW k \in Key
    PROVE  New(k) \in Validator /\ New(k).key = k
BY DEF New, Validator, NodeLight, One
-------------------------------------------------------------------------------
(***************************************************************************)
(* One operation, and a batch of them.                                     *)
(***************************************************************************)
\* An operation is on a key.
LEMMA OpFields ==
    ASSUME NEW op \in Op
    PROVE  op.type \in {"add", "update", "remove"} /\ op.key \in Key /\ op.key \in Nat
<1>1. op.type \in {"add", "update", "remove"} /\ op.key \in Key
  BY ValSetAssumption
<1>2. Key \subseteq Nat
  BY ValSetAssumption
<1>3. QED
  BY <1>1, <1>2

\* What RemoveAt leaves: the elements before i, and those after it one place earlier.
LEMMA RemoveAtProperties ==
    ASSUME NEW s \in Seq(Validator), NEW i \in 1 .. Len(s)
    PROVE  /\ RemoveAt(s, i) \in Seq(Validator)
           /\ Len(RemoveAt(s, i)) = Len(s) - 1
           /\ \A j \in 1 .. Len(s) - 1 : RemoveAt(s, i)[j] = IF j < i THEN s[j] ELSE s[j + 1]
<1> DEFINE a == SubSeq(s, 1, i - 1)
           b == SubSeq(s, i + 1, Len(s))
<1>0. Len(s) \in Nat /\ i \in Int /\ i - 1 \in Int /\ i + 1 \in Int /\ Len(s) \in Int
  OBVIOUS
<1>1. /\ \A j \in 1 .. i - 1 : s[j] \in Validator
      /\ \A j \in i + 1 .. Len(s) : s[j] \in Validator
  BY <1>0, ElementOfSeq
<1>2. /\ a \in Seq(Validator) /\ Len(a) = i - 1
      /\ \A j \in 1 .. i - 1 : a[j] = s[j]
  BY <1>0, <1>1, SubSeqProperties
<1>3. /\ b \in Seq(Validator) /\ Len(b) = Len(s) - i
      /\ \A j \in 1 .. Len(s) - i : b[j] = s[i + j]
  <2>1. /\ b \in Seq(Validator)
        /\ Len(b) = IF i + 1 <= Len(s) THEN Len(s) - (i + 1) + 1 ELSE 0
        /\ \A j \in 1 .. Len(s) - (i + 1) + 1 : b[j] = s[i + 1 + j - 1]
    BY <1>0, <1>1, SubSeqProperties
  <2> HIDE DEF b
  <2>2. Len(s) - (i + 1) + 1 = Len(s) - i /\ (~ (i + 1 <= Len(s)) => Len(s) - i = 0)
    BY <1>0
  <2>3. \A j \in 1 .. Len(s) - i : i + 1 + j - 1 = i + j
    BY <1>0
  <2>4. QED
    BY <2>1, <2>2, <2>3
<1> HIDE DEF a, b
<1>4. /\ a \o b \in Seq(Validator)
      /\ Len(a \o b) = Len(a) + Len(b)
      /\ \A j \in 1 .. Len(a) + Len(b) : (a \o b)[j] = IF j <= Len(a) THEN a[j] ELSE b[j - Len(a)]
  BY <1>2, <1>3, ConcatProperties
<1>5. RemoveAt(s, i) = a \o b
  BY DEF RemoveAt, a, b
<1>6. ASSUME NEW j \in 1 .. Len(s) - 1
      PROVE  RemoveAt(s, i)[j] = IF j < i THEN s[j] ELSE s[j + 1]
  <2>1. j \in 1 .. Len(a) + Len(b) /\ (j <= Len(a) <=> j < i)
    BY <1>0, <1>2, <1>3
  <2>2. j < i => j \in 1 .. i - 1
    BY <1>0
  <2>3. ~ (j < i) => j - Len(a) \in 1 .. Len(s) - i /\ i + (j - Len(a)) = j + 1
    BY <1>0, <1>2
  <2>4. QED
    BY <1>2, <1>3, <1>4, <1>5, <2>1, <2>2, <2>3
<1>7. Len(s) - 1 = Len(a) + Len(b)
  BY <1>0, <1>2, <1>3
<1>8. QED
  BY <1>4, <1>5, <1>6, <1>7

\* The four things an operation can do: append, change in place, remove, nothing.
LEMMA ApplyOpCases ==
    ASSUME NEW s \in Seq(Validator), NEW op \in Op, NEW pos, pos = FindIndex(s, op.key) + 1
    PROVE  /\ pos \in 0 .. Len(s) /\ (pos > 0 => s[pos].key = op.key)
           /\ Findable(s, op.key) /\ pos = 0 => \A i \in 1 .. Len(s) : s[i].key # op.key
           /\ \/ op.type = "add" /\ pos = 0 /\ ApplyOp(s, op) = Append(s, Changed(New(op.key), op))
              \/ /\ op.type \in {"add", "update"} /\ pos > 0
                 /\ ApplyOp(s, op) = [s EXCEPT ![pos] = Changed(s[pos], op)]
              \/ op.type = "remove" /\ pos > 0 /\ ApplyOp(s, op) = RemoveAt(s, pos)
              \/ op.type \in {"update", "remove"} /\ pos = 0 /\ ApplyOp(s, op) = s
<1> DEFINE x == FindIndex(s, op.key)
           r == <<0, Len(s)>>
<1>0. op.type \in {"add", "update", "remove"} /\ op.key \in Nat /\ Len(s) \in Nat
  BY OpFields
<1>1. FoundIn(s, op.key, r, x)
  BY <1>0, FindIndexFinds
<1>2. r[1] = 0 /\ r[2] = Len(s)
  OBVIOUS
<1> HIDE DEF x, r
<1>3. /\ x = -1 \/ (x \in 0 .. Len(s) - 1 /\ s[x + 1].key = op.key)
      /\ Ascending(s) /\ x = -1 => \A i \in 0 .. Len(s) - 1 : s[i + 1].key # op.key
  BY <1>1, <1>2 DEF FoundIn
<1>4. pos \in 0 .. Len(s) /\ (pos > 0 => s[pos].key = op.key) /\ (pos = 0 => x = -1) /\ pos = x + 1
  BY <1>0, <1>3 DEF x
<1>5. ASSUME Findable(s, op.key), pos = 0, NEW i \in 1 .. Len(s) PROVE s[i].key # op.key
  <2>1. i - 1 \in 0 .. Len(s) - 1 /\ (i - 1) + 1 = i
    BY <1>0
  <2>2. CASE Ascending(s)
    BY <1>3, <1>4, <1>5, <2>1, <2>2
  <2>3. QED
    BY <1>5, <2>2 DEF Findable
<1>6. ApplyOp(s, op) =
        CASE op.type = "add" /\ pos = 0 -> Append(s, Changed(New(op.key), op))
          [] op.type \in {"add", "update"} /\ pos > 0 -> [s EXCEPT ![pos] = Changed(s[pos], op)]
          [] op.type = "remove" /\ pos > 0 -> RemoveAt(s, pos)
          [] OTHER -> s
  BY DEF ApplyOp
<1>7. CASE pos = 0
  BY <1>0, <1>4, <1>5, <1>6, <1>7
<1>8. CASE pos > 0
  <2>1. pos # 0
    BY <1>4, <1>8
  <2>2. CASE op.type = "remove"
    <3>1. ApplyOp(s, op) = RemoveAt(s, pos)
      BY <1>6, <1>8, <2>1, <2>2
    <3>2. QED
      BY <1>4, <1>8, <2>1, <2>2, <3>1
  <2>3. CASE op.type \in {"add", "update"}
    <3>1. ApplyOp(s, op) = [s EXCEPT ![pos] = Changed(s[pos], op)]
      BY <1>6, <1>8, <2>1, <2>3
    <3>2. QED
      BY <1>4, <1>8, <2>1, <2>3, <3>1
  <2>4. QED
    BY <1>0, <2>2, <2>3
<1>9. QED
  BY <1>0, <1>4, <1>7, <1>8

\* After an operation the set is still one of validators.
LEMMA ApplyOpType ==
    ASSUME NEW s \in Seq(Validator), NEW op \in Op
    PROVE  ApplyOp(s, op) \in Seq(Validator)
<1> DEFINE pos == FindIndex(s, op.key) + 1
           new == Changed(New(op.key), op)
           t == ApplyOp(s, op)
<1> SUFFICES t \in Seq(Validator)
  OBVIOUS
<1>1. /\ pos \in 0 .. Len(s)
      /\ t = Append(s, new) \/ (pos > 0 /\ t = [s EXCEPT ![pos] = Changed(s[pos], op)])
         \/ (pos > 0 /\ t = RemoveAt(s, pos)) \/ t = s
  BY ApplyOpCases
<1>2. new \in Validator
  BY OpFields, NewType, ChangedType
<1> HIDE DEF pos, new, t
<1>3. CASE t = Append(s, new)
  BY <1>2, <1>3
<1>4. ASSUME pos > 0 PROVE pos \in 1 .. Len(s)
  BY <1>1, <1>4
<1>5. CASE pos > 0 /\ t = [s EXCEPT ![pos] = Changed(s[pos], op)]
  <2>1. pos \in 1 .. Len(s)
    BY <1>4, <1>5
  <2>2. Changed(s[pos], op) \in Validator
    BY <2>1, ElementOfSeq, ChangedType
  <2>3. QED
    BY <1>5, <2>1, <2>2, ExceptSeq
<1>6. CASE pos > 0 /\ t = RemoveAt(s, pos)
  BY <1>4, <1>6, RemoveAtProperties
<1>7. QED
  BY <1>1, <1>3, <1>5, <1>6 DEF t

\* The recursive function by which FoldLeft is defined: g[I] is the slice s after the
\* operations of ops at the indices I, the last of them applied to the result of the others.
FoldAt(g, s, ops, I) == IF I = {} THEN s ELSE ApplyOp(g[I \ {Max(I)}], ops[Max(I)])

IsFold(g, s, ops) == g = [I \in SUBSET DOMAIN ops |-> FoldAt(g, s, ops, I)]

\* The recursion has a solution: by the number of operations.
LEMMA FoldExists ==
    ASSUME NEW n \in Nat, NEW ops \in [1 .. n -> Op], NEW s
    PROVE  \E g : IsFold(g, s, ops)
<1> DEFINE D == 1 .. n
           Small(k) == {I \in SUBSET D : Cardinality(I) <= k}
           Solves(g, k) == g = [I \in Small(k) |-> FoldAt(g, s, ops, I)]
           Bad == {k \in Nat : ~ \E g : Solves(g, k)}
<1>0. IsFiniteSet(D) /\ Cardinality(D) \in Nat
  BY FS_Interval, FS_CardinalityType
<1>1. Bad = {}
  <2> SUFFICES ASSUME Bad # {} PROVE FALSE
    OBVIOUS
  <2>1. PICK k \in Bad : \A m \in Bad : k <= m
    BY NatMin
  <2>2. k \in Nat /\ ~ \E g : Solves(g, k)
    BY <2>1
  <2>3. CASE k = 0
    <3> DEFINE h == [I \in Small(0) |-> s]
    <3>1. \A I \in Small(0) : I = {}
      <4> TAKE I \in Small(0)
      <4>1. IsFiniteSet(I) /\ Cardinality(I) \in Nat /\ Cardinality(I) <= 0
        BY <1>0, FS_Subset, FS_CardinalityType
      <4>2. QED
        BY <4>1, FS_EmptySet
    <3>2. Solves(h, 0)
      BY <3>1 DEF FoldAt
    <3>3. QED
      BY <2>2, <2>3, <3>2
  <2>4. CASE k # 0
    <3>1. k - 1 \in Nat /\ k - 1 \notin Bad
      <4> HIDE DEF Bad
      <4>1. QED
        BY <2>1, <2>2, <2>4
    <3>2. PICK g : Solves(g, k - 1)
      BY <3>1
    <3> DEFINE h == [I \in Small(k) |-> FoldAt(g, s, ops, I)]
    <3>3. \A I \in Small(k) : I # {} => I \ {Max(I)} \in Small(k - 1) \cap Small(k)
      <4> TAKE I \in Small(k)
      <4> HAVE I # {}
      <4>1. Max(I) \in I
        BY MaxType
      <4>2. /\ Cardinality(I \ {Max(I)}) \in Nat /\ Cardinality(I) \in Nat
            /\ Cardinality(I \ {Max(I)}) = Cardinality(I) - 1
        BY <1>0, <4>1, Smaller
      <4>3. I \ {Max(I)} \in SUBSET D /\ Cardinality(I) <= k
        OBVIOUS
      <4>4. QED
        BY <2>2, <4>2, <4>3
    <3>4. \A I \in Small(k - 1) : g[I] = FoldAt(g, s, ops, I)
      BY <3>2
    <3>5. \A I \in Small(k - 1) \cap Small(k) : h[I] = g[I]
      BY <3>4
    <3>6. \A I \in Small(k) : FoldAt(g, s, ops, I) = FoldAt(h, s, ops, I)
      <4> TAKE I \in Small(k)
      <4> HIDE DEF h, Small
      <4>1. QED
        BY <3>3, <3>5 DEF FoldAt
    <3>7. Solves(h, k)
      BY <3>6
    <3>8. QED
      BY <2>2, <3>7
  <2>5. QED
    BY <2>3, <2>4
<1>2. PICK g : Solves(g, Cardinality(D))
  BY <1>0, <1>1
<1>3. Small(Cardinality(D)) = SUBSET D
  BY <1>0, FS_Subset
<1>4. QED
  BY <1>2, <1>3 DEF IsFold

\* FoldLeft is the value of such a function at all indices.
LEMMA FoldUnfold ==
    ASSUME NEW n \in Nat, NEW ops \in [1 .. n -> Op], NEW s
    PROVE  \E g : IsFold(g, s, ops) /\ FoldLeft(ApplyOp, s, ops) = g[DOMAIN ops]
<1> DEFINE it == CHOOSE g : IsFold(g, s, ops)
<1>1. IsFold(it, s, ops)
  BY FoldExists
<1>2. FoldLeft(ApplyOp, s, ops) = it[DOMAIN ops]
  BY DEF FoldLeft, MapThenFoldSet, IsFold, FoldAt
<1>3. QED
  BY <1>1, <1>2

\* A batch of any length leaves a slice of validators behind.
LEMMA FoldType ==
    ASSUME NEW n \in Nat, NEW ops \in [1 .. n -> Op], NEW s \in Seq(Validator)
    PROVE  FoldLeft(ApplyOp, s, ops) \in Seq(Validator)
<1>1. PICK g : IsFold(g, s, ops) /\ FoldLeft(ApplyOp, s, ops) = g[DOMAIN ops]
  BY FoldUnfold
<1> DEFINE D == 1 .. n
           B == {I \in SUBSET D : g[I] \notin Seq(Validator)}
<1>2. DOMAIN ops = D /\ IsFiniteSet(D)
  BY FS_Interval
<1>3. B = {}
  <2> SUFFICES ASSUME B # {} PROVE FALSE
    OBVIOUS
  <2>1. PICK I \in B : \A J \in B : Cardinality(I) <= Cardinality(J)
    <3>1. B \subseteq SUBSET D
      OBVIOUS
    <3> HIDE DEF B
    <3>2. QED
      BY <1>2, <3>1, SubsetMin
  <2>2. I \in SUBSET D /\ g[I] \notin Seq(Validator) /\ g[I] = FoldAt(g, s, ops, I)
    BY <1>1, <1>2, <2>1 DEF IsFold
  <2>3. I # {}
    BY <2>2 DEF FoldAt
  <2> DEFINE m == Max(I)
  <2>4. m \in I
    BY <2>2, <2>3, MaxType
  <2>5. I \ {m} \notin B
    <3>1. /\ Cardinality(I) \in Nat /\ Cardinality(I \ {m}) \in Nat
          /\ Cardinality(I \ {m}) = Cardinality(I) - 1
      BY <1>2, <2>2, <2>4, Smaller
    <3> HIDE DEF B
    <3>2. QED
      BY <2>1, <3>1
  <2>6. g[I \ {m}] \in Seq(Validator) /\ ops[m] \in Op
    BY <2>2, <2>4, <2>5
  <2>7. ApplyOp(g[I \ {m}], ops[m]) \in Seq(Validator)
    BY <2>6, ApplyOpType
  <2>8. QED
    BY <2>2, <2>3, <2>7 DEF FoldAt
<1>4. D \notin B
  BY <1>3
<1>5. QED
  BY <1>1, <1>2, <1>4

-------------------------------------------------------------------------------
(***************************************************************************)
(* The order of the set.                                                   *)
(***************************************************************************)
\* t is s in the order p.
Permutes(p, s, t) ==
    /\ p \in [1 .. Len(s) -> 1 .. Len(s)]
    /\ \A i, j \in 1 .. Len(s) : i # j => p[i] # p[j]
    /\ \A j \in 1 .. Len(s) : \E i \in 1 .. Len(s) : p[i] = j
    /\ t \in Seq(Validator) /\ Len(t) = Len(s)
    /\ \A i \in 1 .. Len(s) : t[i] = s[p[i]]

\* SortPubKeyAsc permutes.
LEMMA SortedPermutes ==
    ASSUME NEW s \in Seq(Validator), NEW t \in Sorted(s)
    PROVE  \E p : /\ Permutes(p, s, t)
                  /\ \A i \in 1 .. Len(s) - 1 : t[i].key <= t[i + 1].key
<1> DEFINE n == Len(s)
<1>0. n \in Nat
  OBVIOUS
<1>1. PICK p \in [1 .. n -> 1 .. n] :
        /\ \A i, j \in 1 .. n : i # j => p[i] # p[j]
        /\ \A i \in 1 .. n - 1 : s[p[i]].key <= s[p[i + 1]].key
        /\ t = [i \in 1 .. n |-> s[p[i]]]
  BY DEF Sorted
<1>2. \A j \in 1 .. n : \E i \in 1 .. n : p[i] = j
  BY <1>0, <1>1, OneToOneIsOnto
<1>3. \A i \in 1 .. n : t[i] = s[p[i]] /\ s[p[i]] \in Validator
  BY <1>1
<1>4. t \in [1 .. n -> Validator]
  BY <1>1, <1>3
<1>5. t \in Seq(Validator) /\ Len(t) = n
  BY <1>0, <1>4
<1>6. \A i \in 1 .. n - 1 : i \in 1 .. n /\ i + 1 \in 1 .. n
  BY <1>0
<1>7. \A i \in 1 .. n - 1 : t[i].key <= t[i + 1].key
  BY <1>1, <1>3, <1>6
<1>8. QED
  BY <1>1, <1>2, <1>3, <1>5, <1>7 DEF Permutes

\* Neighbours in order are enough.
LEMMA NeighboursAscend ==
    ASSUME NEW t \in Seq(Validator), \A i \in 1 .. Len(t) - 1 : t[i].key <= t[i + 1].key
    PROVE  Ascending(t)
<1> DEFINE n == Len(t)
           Bad == {d \in Nat : \E i, j \in 1 .. n : i < j /\ j - i <= d /\ t[i].key > t[j].key}
<1>0. n \in Nat /\ \A i \in 1 .. n : t[i].key \in Nat
  <2>1. \A i \in 1 .. n : t[i] \in Validator
    OBVIOUS
  <2>2. QED
    BY <2>1, ValidatorFields
<1>1. Bad = {}
  <2> SUFFICES ASSUME Bad # {} PROVE FALSE
    OBVIOUS
  <2>1. PICK d \in Bad : \A e \in Bad : d <= e
    BY NatMin
  <2>2. PICK i \in 1 .. n, j \in 1 .. n : i < j /\ j - i <= d /\ t[i].key > t[j].key
    BY <2>1
  <2>3. d \in Nat /\ i \in Int /\ j \in Int
    BY <2>1
  <2>4. i + 1 \in 1 .. n /\ i \in 1 .. n - 1 /\ d - 1 \in Nat
    BY <1>0, <2>2, <2>3
  <2>5. t[i].key <= t[i + 1].key
    BY <2>4
  <2>6. d - 1 \notin Bad
    <3> HIDE DEF Bad
    <3>1. QED
      BY <2>1, <2>3, <2>4
  <2>7. ~ (i + 1 < j /\ j - (i + 1) <= d - 1 /\ t[i + 1].key > t[j].key)
    BY <2>2, <2>4, <2>6
  <2>8. t[i].key \in Nat /\ t[i + 1].key \in Nat /\ t[j].key \in Nat
    BY <1>0, <2>2, <2>4
  <2> HIDE DEF Bad
  <2>9. t[i + 1].key > t[j].key
    <3> DEFINE a == t[i].key
               b == t[i + 1].key
               c == t[j].key
    <3>1. a \in Nat /\ b \in Nat /\ c \in Nat /\ a > c /\ a <= b
      BY <2>2, <2>5, <2>8
    <3> HIDE DEF a, b, c
    <3>2. b > c
      BY <3>1
    <3>3. QED
      BY <3>2 DEF b, c
  <2>10. i + 1 # j
    BY <2>8, <2>9
  <2>11. QED
    BY <2>2, <2>3, <2>7, <2>9, <2>10
<1>2. ASSUME NEW i \in 1 .. n, NEW j \in 1 .. n, i < j PROVE t[i].key <= t[j].key
  <2>1. j - i \in Nat /\ j - i <= j - i
    BY <1>2
  <2>2. j - i \notin Bad
    BY <1>1
  <2>3. ~ (t[i].key > t[j].key)
    BY <1>2, <2>1, <2>2
  <2>4. t[i].key \in Nat /\ t[j].key \in Nat
    BY <1>0
  <2>5. QED
    BY <2>3, <2>4
<1>3. QED
  BY <1>2 DEF Ascending

\* A sorted slice ascends, holds the same validators and, if the keys were, distinct keys.
LEMMA SortedOrder ==
    ASSUME NEW s \in Seq(Validator), NEW t \in Sorted(s)
    PROVE  /\ t \in Seq(Validator) /\ Ascending(t)
           /\ OnceEach(s) => OnceEach(t)
<1>1. PICK p : /\ Permutes(p, s, t)
               /\ \A i \in 1 .. Len(s) - 1 : t[i].key <= t[i + 1].key
  BY SortedPermutes
<1>2. t \in Seq(Validator) /\ Len(t) = Len(s)
  BY <1>1 DEF Permutes
<1>3. Ascending(t)
  BY <1>1, <1>2, NeighboursAscend
<1>4. ASSUME OnceEach(s) PROVE OnceEach(t)
  <2>1. /\ \A i \in 1 .. Len(t) : p[i] \in 1 .. Len(s) /\ t[i] = s[p[i]]
        /\ \A i, j \in 1 .. Len(t) : i # j => p[i] # p[j]
    BY <1>1, <1>2 DEF Permutes
  <2>2. QED
    BY <1>4, <2>1 DEF OnceEach
<1>5. QED
  BY <1>2, <1>3, <1>4

\* An operation on a key findIndex is right about keeps the keys distinct.
LEMMA ApplyOpOnceEach ==
    ASSUME NEW s \in Seq(Validator), NEW op \in Op, Findable(s, op.key), OnceEach(s)
    PROVE  OnceEach(ApplyOp(s, op))
<1> DEFINE pos == FindIndex(s, op.key) + 1
           new == Changed(New(op.key), op)
           t == ApplyOp(s, op)
<1> SUFFICES OnceEach(t)
  OBVIOUS
<1>1. /\ pos \in 0 .. Len(s)
      /\ (pos = 0 => \A i \in 1 .. Len(s) : s[i].key # op.key)
      /\ (pos = 0 /\ t = Append(s, new)) \/ (pos > 0 /\ t = [s EXCEPT ![pos] = Changed(s[pos], op)])
         \/ (pos > 0 /\ t = RemoveAt(s, pos)) \/ t = s
  BY ApplyOpCases
<1>2. new \in Validator /\ new.key = op.key /\ Len(s) \in Nat
  <2>1. op.key \in Key
    BY OpFields
  <2>2. New(op.key) \in Validator /\ New(op.key).key = op.key
    BY <2>1, NewType
  <2>3. QED
    BY <2>2, ChangedType
<1> HIDE DEF pos, new, t
<1>3. CASE pos = 0 /\ t = Append(s, new)
  <2>1. Len(t) = Len(s) + 1 /\ t[Len(s) + 1] = new /\ \A i \in 1 .. Len(s) : t[i] = s[i]
    BY <1>2, <1>3
  <2>2. \A i \in 1 .. Len(t) : i \in 1 .. Len(s) \/ i = Len(s) + 1
    BY <1>2, <2>1
  <2>3. QED
    BY <1>1, <1>2, <1>3, <2>1, <2>2 DEF OnceEach
<1>4. CASE pos > 0 /\ t = [s EXCEPT ![pos] = Changed(s[pos], op)]
  <2>1. pos \in 1 .. Len(s)
    BY <1>1, <1>4
  <2>2. s[pos] \in Validator
    BY <2>1
  <2>3. Changed(s[pos], op) \in Validator /\ Changed(s[pos], op).key = s[pos].key
    BY <2>2, ChangedType
  <2>4. Len(t) = Len(s) /\ \A i \in 1 .. Len(s) : t[i] = IF i = pos THEN Changed(s[pos], op) ELSE s[i]
    BY <1>4, <2>1, <2>3, ExceptSeq
  <2>5. \A i \in 1 .. Len(s) : t[i].key = s[i].key
    BY <2>3, <2>4
  <2>6. QED
    BY <2>4, <2>5 DEF OnceEach
<1>5. CASE pos > 0 /\ t = RemoveAt(s, pos)
  <2>1. pos \in 1 .. Len(s)
    BY <1>1, <1>5
  <2>2. /\ Len(t) = Len(s) - 1
        /\ \A j \in 1 .. Len(s) - 1 : t[j] = IF j < pos THEN s[j] ELSE s[j + 1]
    BY <1>5, <2>1, RemoveAtProperties
  <2> DEFINE at(j) == IF j < pos THEN j ELSE j + 1
  <2>3. \A j \in 1 .. Len(t) : at(j) \in 1 .. Len(s) /\ t[j] = s[at(j)]
    BY <1>2, <2>1, <2>2
  <2>4. \A i, j \in 1 .. Len(t) : i # j => at(i) # at(j)
    BY <1>2, <2>1, <2>2
  <2> HIDE DEF at
  <2>5. QED
    BY <2>3, <2>4 DEF OnceEach
<1>6. QED
  BY <1>1, <1>3, <1>4, <1>5
-------------------------------------------------------------------------------
(***************************************************************************)
(* The invariants.                                                         *)
(***************************************************************************)
\* The set holds validators, and the callers of ApplyEvent count.
ValInv ==
    /\ vals \in Seq(Validator)
    /\ misses \in [Key -> Nat]

\* An event changes one score, and the keys of the set not at all.
LEMMA EventStep ==
    ASSUME ValInv, NEW i \in 1 .. Len(vals), NEW ev \in Events, Event(i, ev)
    PROVE  /\ ValInv'
           /\ Len(vals') = Len(vals)
           /\ \A j \in 1 .. Len(vals) : vals'[j].key = vals[j].key
           /\ misses' = [misses EXCEPT ![vals[i].key] = ApplyEvent(ev, vals[i].score, misses[vals[i].key]).misses]
           /\ vals'[i].score = ApplyEvent(ev, vals[i].score, misses[vals[i].key]).score
<1> DEFINE v == vals[i]
           k == v.key
           next == ApplyEvent(ev, v.score, misses[k])
<1>1. v \in Validator
  BY DEF ValInv
<1>2. k \in Key /\ v.score \in 0 .. One
  BY <1>1, ValidatorFields
<1>3. misses[k] \in Nat
  BY <1>2 DEF ValInv
<1>4. next.score \in 0 .. One /\ next.misses \in Nat
  BY <1>2, <1>3, EventType
<1>5. /\ vals' = [vals EXCEPT ![i].score = next.score]
      /\ misses' = [misses EXCEPT ![k] = next.misses]
  BY DEF Event
<1> DEFINE w == [v EXCEPT !.score = next.score]
<1>6. w \in Validator /\ w.key = v.key /\ w.score = next.score
  <2> HIDE DEF v, next
  <2>1. QED
    BY <1>1, <1>4 DEF Validator
<1>7. vals' = [vals EXCEPT ![i] = w]
  BY <1>5
<1> HIDE DEF w, next
<1>8. /\ vals' \in Seq(Validator) /\ Len(vals') = Len(vals)
      /\ \A j \in 1 .. Len(vals) : vals'[j] = IF j = i THEN w ELSE vals[j]
  <2>1. PICK x : x = vals
    OBVIOUS
  <2>2. x \in Seq(Validator) /\ i \in 1 .. Len(x)
    BY <2>1 DEF ValInv
  <2>3. /\ [x EXCEPT ![i] = w] \in Seq(Validator)
        /\ Len([x EXCEPT ![i] = w]) = Len(x)
        /\ \A j \in 1 .. Len(x) : [x EXCEPT ![i] = w][j] = IF j = i THEN w ELSE x[j]
    BY <1>6, <2>2, ExceptSeq
  <2>4. QED
    BY <1>7, <2>1, <2>3
<1>9. misses' \in [Key -> Nat]
  BY <1>2, <1>4, <1>5 DEF ValInv
<1>10. QED
  BY <1>5, <1>6, <1>8, <1>9 DEF ValInv, next

\* A batch leaves validators, sorted.
LEMMA BatchStep ==
    ASSUME ValInv, NEW ops \in Batch, ApplyOps(ops)
    PROVE  /\ ValInv' /\ misses' = misses
           /\ vals' \in Seq(Validator) /\ Ascending(vals')
<1>1. PICK n \in Nat : ops \in [1 .. n -> Op]
  BY ValSetAssumption DEF Batch
<1>2. PICK x, y : x = vals /\ y = vals'
  OBVIOUS
<1>3. x \in Seq(Validator) /\ y \in Sorted(FoldLeft(ApplyOp, x, ops)) /\ misses' = misses
  BY <1>2 DEF ApplyOps, ValInv
<1>4. FoldLeft(ApplyOp, x, ops) \in Seq(Validator)
  BY <1>1, <1>3, FoldType
<1>5. y \in Seq(Validator) /\ Ascending(y)
  BY <1>3, <1>4, SortedOrder
<1>6. QED
  BY <1>2, <1>3, <1>5 DEF ValInv

\* Whatever batches and events there are, and however long the batches, the set holds
\* validators.
LEMMA ValInvHolds ==
    ValSpec => []ValInv
<1>1. ValInit => ValInv
  BY EmptySeq DEF ValInit, ValInv
<1>2. ValInv /\ [ValNext]_valVars => ValInv'
  <2> SUFFICES ASSUME ValInv, [ValNext]_valVars PROVE ValInv'
    OBVIOUS
  <2>1. CASE \E ops \in Batch : ApplyOps(ops)
    BY <2>1, BatchStep
  <2>2. CASE \E i \in 1 .. Len(vals), ev \in Events : Event(i, ev)
    BY <2>2, EventStep
  <2>3. CASE UNCHANGED valVars
    BY <2>3 DEF valVars, ValInv
  <2>4. QED
    BY <2>1, <2>2, <2>3 DEF ValNext
<1>3. QED
  BY <1>1, <1>2, PTL DEF ValSpec

\* However operations, rewards and deductions follow one another, and for any length of
\* batch, a score is a Q16.16 fraction and no validator votes with more than twice its
\* stake: AddPointsQ neither underflows nor exceeds 1.0 (internal/stake/weights.go).
THEOREM ScoresStayFractions ==
    ValSpec => []ScoresAndPowerBounded
<1>1. ValInv => ScoresAndPowerBounded
  <2> SUFFICES ASSUME ValInv, NEW i \in 1 .. Len(vals)
               PROVE  vals[i].score \in 0 .. One /\ EffectivePower(vals[i]) <= 2 * vals[i].stake
    BY DEF ScoresAndPowerBounded
  <2>1. PICK v : v = vals[i]
    OBVIOUS
  <2>2. v \in Validator
    BY <2>1 DEF ValInv
  <2>3. v.score \in 0 .. One
    BY <2>2, ValidatorFields
  <2>4. EffectivePower(v) <= 2 * v.stake
    BY <2>2, PowerBounded
  <2>5. QED
    BY <2>1, <2>3, <2>4
<1>2. QED
  BY <1>1, ValInvHolds, PTL
-------------------------------------------------------------------------------
(***************************************************************************)
(* The order of the set between batches, and the fourth miss.              *)
(***************************************************************************)
\* Between batches the set is sorted.
OrderInv == Ascending(vals)

\* The set stays sorted, whatever the batches.
LEMMA OrderInvHolds ==
    ValSpec => []OrderInv
<1>1. ValInit => OrderInv
  BY DEF ValInit, OrderInv, Ascending
<1>2. ValInv /\ OrderInv /\ [ValNext]_valVars => OrderInv'
  <2> SUFFICES ASSUME ValInv, OrderInv, [ValNext]_valVars PROVE OrderInv'
    OBVIOUS
  <2>1. ASSUME NEW ops \in Batch, ApplyOps(ops) PROVE OrderInv'
    BY <2>1, BatchStep DEF OrderInv
  <2>2. ASSUME NEW i \in 1 .. Len(vals), NEW ev \in Events, Event(i, ev) PROVE OrderInv'
    <3>1. Len(vals') = Len(vals) /\ \A j \in 1 .. Len(vals) : vals'[j].key = vals[j].key
      BY <2>2, EventStep
    <3>2. QED
      BY <3>1 DEF OrderInv, Ascending
  <2>3. CASE UNCHANGED valVars
    BY <2>3 DEF valVars, OrderInv
  <2>4. QED
    BY <2>1, <2>2, <2>3 DEF ValNext
<1>3. QED
  BY <1>1, <1>2, ValInvHolds, PTL DEF ValSpec

\* The fourth miss in a row, and every later one, leaves a score of zero.
LEMMA FourthMissScore ==
    ASSUME NEW ev \in Events, NEW q \in 0 .. One, NEW n \in Nat,
           ApplyEvent(ev, q, n).misses >= 4, ApplyEvent(ev, q, n).misses > n
    PROVE  ApplyEvent(ev, q, n).score = 0
<1>1. ev \in {"success", "miss_prevote", "miss_precommit", "refused", "epoch"}
  BY DEF Events
<1>2. CASE ev \in {"miss_prevote", "miss_precommit"}
  <2>1. ApplyEvent(ev, q, n) = [score |-> Deducted(q, n + 1), misses |-> n + 1]
    BY <1>2 DEF ApplyEvent, UpdateScoreOnMiss
  <2>2. n + 1 >= 4
    BY <2>1
  <2>3. Deducted(q, n + 1) = AddPointsQ(q, -100, 1)
    BY <2>2 DEF Deducted
  <2>4. q \in Nat /\ q <= 65536
    BY ScoreType
  <2>5. AddPointsQ(q, -100, 1) = 0
    BY <2>4 DEF AddPointsQ, Abs, One
  <2>6. QED
    BY <2>1, <2>3, <2>5
<1>3. CASE ev = "success"
  <2>1. ApplyEvent(ev, q, n).misses = 0
    BY <1>3 DEF ApplyEvent, UpdateScoreOnSuccess
  <2>2. QED
    BY <2>1
<1>4. CASE ev \in {"refused", "epoch"}
  <2>1. ApplyEvent(ev, q, n).misses = n
    BY <1>4 DEF ApplyEvent, UpdateScoreOnRefusedAsBackup, UpdateEpochBonus
  <2>2. QED
    BY <2>1
<1>5. QED
  BY <1>1, <1>2, <1>3, <1>4

\* A validator without a score has no power.
LEMMA NoScoreNoPower ==
    ASSUME NEW v \in Validator, v.score = 0
    PROVE  EffectivePower(v) = 0
<1> DEFINE x == v.stake * GetNodeTypeWeight(v.ntype)
<1>1. v.stake \in Nat /\ v.ntype \in Nat
  BY ValidatorFields
<1>2. GetNodeTypeWeight(v.ntype) \in Nat
  <2>1. GetNodeTypeWeight(v.ntype) \in 1000 .. 2000
    BY <1>1, WeightType
  <2>2. QED
    BY <2>1
<1>3. x \in Nat
  BY <1>1, <1>2
<1>4. EffectivePower(v) = ((x * 0) \div (One * 1000)) % PowerWord
  BY DEF EffectivePower
<1> HIDE DEF x
<1>5. (x * 0) \div (One * 1000) = 0
  BY <1>3 DEF One
<1>6. QED
  BY <1>4, <1>5, WeightsAssumption

\* Every miss from the fourth in a row on takes all power of the validator it is counted
\* for ("miss >=4: -100"), even when an operation or another event gave some back in
\* between, and for batches of any length (internal/consensus/participation.go).
THEOREM FourthMissTakesAllPower ==
    ValSpec => FourthMissSilences
<1>1. ValInv /\ [ValNext]_valVars => [SilencedByMiss]_valVars
  <2> SUFFICES ASSUME ValInv, ValNext, NEW k \in Key, FourthMiss(k)
               PROVE  \E i \in 1 .. Len(vals) : vals[i].key = k /\ EffectivePower(vals'[i]) = 0
    BY DEF SilencedByMiss
  <2>1. misses[k] \in Nat /\ misses'[k] >= 4 /\ misses'[k] > misses[k]
    BY DEF ValInv, FourthMiss
  <2>2. ASSUME NEW ops \in Batch, ApplyOps(ops) PROVE FALSE
    <3>1. misses' = misses
      BY <2>2 DEF ApplyOps
    <3>2. QED
      BY <2>1, <3>1
  <2>3. ASSUME NEW j \in 1 .. Len(vals), NEW ev \in Events, Event(j, ev)
        PROVE  vals[j].key = k /\ EffectivePower(vals'[j]) = 0
    <3> DEFINE next == ApplyEvent(ev, vals[j].score, misses[vals[j].key])
    <3>1. /\ ValInv' /\ Len(vals') = Len(vals)
          /\ misses' = [misses EXCEPT ![vals[j].key] = next.misses]
          /\ vals'[j].score = next.score
      BY <2>3, EventStep
    <3>2. vals[j] \in Validator
      BY DEF ValInv
    <3>3. vals[j].key \in Key /\ vals[j].score \in 0 .. One
      BY <3>2, ValidatorFields
    <3> HIDE DEF next
    <3>4. vals[j].key = k
      BY <2>1, <3>1, <3>3 DEF ValInv
    <3>5. misses'[k] = next.misses
      BY <3>1, <3>4 DEF ValInv
    <3>6. next.score = 0
      <4>1. PICK q, n : q = vals[j].score /\ n = misses[k]
        OBVIOUS
      <4>2. q \in 0 .. One /\ n \in Nat
        BY <2>1, <3>3, <4>1
      <4>3. next = ApplyEvent(ev, q, n)
        BY <3>4, <4>1 DEF next
      <4>4. ApplyEvent(ev, q, n).misses >= 4 /\ ApplyEvent(ev, q, n).misses > n
        BY <2>1, <3>5, <4>1, <4>3
      <4>5. ApplyEvent(ev, q, n).score = 0
        BY <4>2, <4>4, FourthMissScore
      <4>6. QED
        BY <4>3, <4>5
    <3>7. PICK v : v = vals'[j]
      OBVIOUS
    <3>8. v \in Validator
      BY <3>1, <3>7 DEF ValInv
    <3>9. v.score = 0
      BY <3>1, <3>6, <3>7
    <3>10. QED
      BY <3>4, <3>7, <3>8, <3>9, NoScoreNoPower
  <2>4. QED
    BY <2>2, <2>3 DEF ValNext
<1>2. QED
  BY <1>1, ValInvHolds, PTL DEF ValSpec, FourthMissSilences
-------------------------------------------------------------------------------
(***************************************************************************)
(* What operations mean.                                                   *)
(***************************************************************************)
Keys(s) == {s[i].key : i \in 1 .. Len(s)}

\* The registry of a slice whose keys are distinct gives every validator back.
LEMMA RegistryAt ==
    ASSUME NEW s, OnceEach(s)
    PROVE  /\ DOMAIN Registry(s) = Keys(s)
           /\ \A i \in 1 .. Len(s) : s[i].key \in Keys(s) /\ Registry(s)[s[i].key] = s[i]
<1>1. DOMAIN Registry(s) = Keys(s)
  BY DEF Registry, Keys
<1>2. ASSUME NEW i \in 1 .. Len(s)
      PROVE  s[i].key \in Keys(s) /\ Registry(s)[s[i].key] = s[i]
  <2> DEFINE k == s[i].key
             c == CHOOSE j \in 1 .. Len(s) : s[j].key = k
  <2>1. k \in Keys(s)
    BY DEF Keys
  <2>2. c \in 1 .. Len(s) /\ s[c].key = k
    <3>1. \E j \in 1 .. Len(s) : s[j].key = k
      OBVIOUS
    <3> HIDE DEF k
    <3>2. QED
      BY <3>1
  <2>3. Registry(s)[k] = s[c]
    BY <2>1 DEF Registry, Keys
  <2> HIDE DEF c
  <2>4. c = i
    BY <2>2 DEF OnceEach
  <2>5. QED
    BY <2>1, <2>3, <2>4
<1>3. QED
  BY <1>1, <1>2

\* And it is the only function on the keys that does.
LEMMA RegistryIs ==
    ASSUME NEW s, OnceEach(s), NEW f, f = [k \in Keys(s) |-> f[k]],
           \A i \in 1 .. Len(s) : f[s[i].key] = s[i]
    PROVE  Registry(s) = f
<1>1. /\ DOMAIN Registry(s) = Keys(s)
      /\ \A i \in 1 .. Len(s) : Registry(s)[s[i].key] = s[i]
  BY RegistryAt
<1>2. \A k \in Keys(s) : \E i \in 1 .. Len(s) : k = s[i].key
  BY DEF Keys
<1>3. \A k \in Keys(s) : Registry(s)[k] = f[k]
  BY <1>1, <1>2
<1>4. Registry(s) = [k \in Keys(s) |-> Registry(s)[k]]
  BY DEF Registry, Keys
<1>5. QED
  BY <1>3, <1>4

\* Sorting changes nothing in the registry.
LEMMA SortedRegistry ==
    ASSUME NEW s \in Seq(Validator), OnceEach(s), NEW t \in Sorted(s)
    PROVE  Registry(t) = Registry(s)
<1>1. PICK p : Permutes(p, s, t)
  BY SortedPermutes
<1>2. OnceEach(t)
  BY SortedOrder
<1>3. /\ DOMAIN Registry(s) = Keys(s)
      /\ \A i \in 1 .. Len(s) : Registry(s)[s[i].key] = s[i]
  BY RegistryAt
<1>4. /\ Len(t) = Len(s)
      /\ \A i \in 1 .. Len(s) : p[i] \in 1 .. Len(s) /\ t[i] = s[p[i]]
      /\ \A j \in 1 .. Len(s) : \E i \in 1 .. Len(s) : p[i] = j
  BY <1>1 DEF Permutes
<1>5. Keys(t) = Keys(s)
  <2>1. ASSUME NEW k \in Keys(t) PROVE k \in Keys(s)
    BY <1>4, <2>1 DEF Keys
  <2>2. ASSUME NEW k \in Keys(s) PROVE k \in Keys(t)
    <3>1. PICK j \in 1 .. Len(s) : k = s[j].key
      BY DEF Keys
    <3>2. PICK i \in 1 .. Len(s) : p[i] = j
      BY <1>4
    <3>3. t[i].key = k /\ i \in 1 .. Len(t)
      BY <1>4, <3>1, <3>2
    <3>4. QED
      BY <3>3 DEF Keys
  <2>3. QED
    BY <2>1, <2>2
<1>6. ASSUME NEW i \in 1 .. Len(t) PROVE Registry(s)[t[i].key] = t[i]
  <2>1. p[i] \in 1 .. Len(s) /\ t[i] = s[p[i]]
    BY <1>4
  <2>2. Registry(s)[s[p[i]].key] = s[p[i]]
    BY <1>3, <2>1
  <2>3. QED
    BY <2>1, <2>2
<1>7. Registry(s) = [k \in Keys(t) |-> Registry(s)[k]]
  <2>1. Registry(s) = [k \in Keys(s) |-> Registry(s)[k]]
    BY DEF Registry, Keys
  <2>2. QED
    BY <1>5, <2>1
<1>8. QED
  BY <1>2, <1>6, <1>7, RegistryIs

\* An operation on a key findIndex is right about does what it means.
LEMMA ApplyOpMeant ==
    ASSUME NEW s \in Seq(Validator), NEW op \in Op, Findable(s, op.key), OnceEach(s)
    PROVE  Registry(ApplyOp(s, op)) = Meant(Registry(s), op)
<1> DEFINE pos == FindIndex(s, op.key) + 1
           key == op.key
           new == Changed(New(key), op)
           t == ApplyOp(s, op)
           reg == Registry(s)
           f == Meant(reg, op)
<1> SUFFICES Registry(t) = f
  OBVIOUS
<1>1. /\ pos \in 0 .. Len(s) /\ (pos > 0 => s[pos].key = key)
      /\ pos = 0 => \A i \in 1 .. Len(s) : s[i].key # key
      /\ \/ op.type = "add" /\ pos = 0 /\ t = Append(s, new)
         \/ op.type \in {"add", "update"} /\ pos > 0 /\ t = [s EXCEPT ![pos] = Changed(s[pos], op)]
         \/ op.type = "remove" /\ pos > 0 /\ t = RemoveAt(s, pos)
         \/ op.type \in {"update", "remove"} /\ pos = 0 /\ t = s
  BY ApplyOpCases
<1>2. new \in Validator /\ new.key = key /\ Len(s) \in Nat
  <2>1. key \in Key
    BY OpFields
  <2>2. New(key) \in Validator /\ New(key).key = key
    BY <2>1, NewType
  <2>3. QED
    BY <2>2, ChangedType
<1>3. OnceEach(t)
  BY ApplyOpOnceEach
<1>4. /\ DOMAIN reg = Keys(s)
      /\ \A i \in 1 .. Len(s) : s[i].key \in Keys(s) /\ reg[s[i].key] = s[i]
  BY RegistryAt
<1>5. f = CASE op.type = "remove" -> [k \in Keys(s) \ {key} |-> reg[k]]
            [] op.type = "update" /\ key \notin Keys(s) -> reg
            [] OTHER -> [k \in Keys(s) \cup {key} |->
                           IF k # key THEN reg[k]
                           ELSE Changed(IF k \in Keys(s) THEN reg[k] ELSE New(k), op)]
  BY <1>4 DEF Meant
<1>6. reg = [k \in Keys(s) |-> reg[k]]
  BY DEF Registry, Keys
<1>7. pos = 0 => key \notin Keys(s)
  BY <1>1 DEF Keys
<1>8. ASSUME pos > 0
      PROVE  pos \in 1 .. Len(s) /\ s[pos].key = key /\ key \in Keys(s) /\ reg[key] = s[pos]
             /\ s[pos] \in Validator
  <2>1. pos \in 1 .. Len(s)
    BY <1>1, <1>8
  <2>2. QED
    BY <1>1, <1>4, <1>8, <2>1
<1> HIDE DEF pos, key, new, t, reg, f
<1>9. CASE op.type = "add" /\ pos = 0 /\ t = Append(s, new)
  <2>1. f = [k \in Keys(s) \cup {key} |-> IF k # key THEN reg[k] ELSE new]
    <3>1. f = [k \in Keys(s) \cup {key} |->
                 IF k # key THEN reg[k] ELSE Changed(IF k \in Keys(s) THEN reg[k] ELSE New(k), op)]
      BY <1>5, <1>9
    <3>2. QED
      BY <1>7, <1>9, <3>1 DEF new
  <2>2. Len(t) = Len(s) + 1 /\ t[Len(s) + 1] = new /\ \A i \in 1 .. Len(s) : t[i] = s[i]
    BY <1>2, <1>9
  <2>3. 1 .. Len(t) = 1 .. Len(s) \cup {Len(s) + 1}
    BY <1>2, <2>2
  <2>4. Keys(t) = Keys(s) \cup {key}
    BY <1>2, <2>2, <2>3 DEF Keys
  <2>5. \A i \in 1 .. Len(t) : f[t[i].key] = t[i]
    <3>1. \A i \in 1 .. Len(s) : s[i].key # key
      BY <1>1, <1>9
    <3>2. \A i \in 1 .. Len(s) : f[s[i].key] = s[i]
      BY <1>4, <2>1, <3>1
    <3>3. f[key] = new
      BY <2>1
    <3>4. QED
      BY <1>2, <2>2, <2>3, <3>2, <3>3
  <2>6. f = [k \in Keys(t) |-> f[k]]
    BY <2>1, <2>4
  <2>7. QED
    BY <1>3, <2>5, <2>6, RegistryIs
<1>10. CASE op.type \in {"add", "update"} /\ pos > 0 /\ t = [s EXCEPT ![pos] = Changed(s[pos], op)]
  <2> DEFINE w == Changed(s[pos], op)
  <2>0. /\ pos \in 1 .. Len(s) /\ s[pos].key = key /\ key \in Keys(s) /\ reg[key] = s[pos]
        /\ s[pos] \in Validator
    BY <1>8, <1>10
  <2>1. w \in Validator /\ w.key = key
    BY <2>0, ChangedType
  <2>2. f = [k \in Keys(s) |-> IF k # key THEN reg[k] ELSE w]
    <3>1. f = [k \in Keys(s) \cup {key} |->
                 IF k # key THEN reg[k] ELSE Changed(IF k \in Keys(s) THEN reg[k] ELSE New(k), op)]
      BY <1>5, <1>10, <2>0
    <3>2. Keys(s) \cup {key} = Keys(s)
      BY <2>0
    <3>3. QED
      BY <2>0, <3>1, <3>2
  <2>3. Len(t) = Len(s) /\ \A i \in 1 .. Len(s) : t[i] = IF i = pos THEN w ELSE s[i]
    BY <1>10, <2>0, <2>1, ExceptSeq
  <2> HIDE DEF w
  <2>4. \A i \in 1 .. Len(s) : t[i].key = s[i].key
    BY <2>0, <2>1, <2>3
  <2>5. Keys(t) = Keys(s)
    BY <2>3, <2>4 DEF Keys
  <2>6. \A i \in 1 .. Len(s) : i # pos => s[i].key # key
    BY <2>0 DEF OnceEach
  <2>7. \A i \in 1 .. Len(t) : f[t[i].key] = t[i]
    BY <1>4, <2>0, <2>1, <2>2, <2>3, <2>4, <2>6
  <2>8. f = [k \in Keys(t) |-> f[k]]
    BY <2>2, <2>5
  <2>9. QED
    BY <1>3, <2>7, <2>8, RegistryIs
<1>11. CASE op.type = "remove" /\ pos > 0 /\ t = RemoveAt(s, pos)
  <2>0. pos \in 1 .. Len(s) /\ s[pos].key = key
    BY <1>8, <1>11
  <2>1. f = [k \in Keys(s) \ {key} |-> reg[k]]
    BY <1>5, <1>11
  <2>2. /\ Len(t) = Len(s) - 1
        /\ \A j \in 1 .. Len(s) - 1 : t[j] = IF j < pos THEN s[j] ELSE s[j + 1]
    BY <1>11, <2>0, RemoveAtProperties
  <2> DEFINE at(j) == IF j < pos THEN j ELSE j + 1
             from(i) == IF i < pos THEN i ELSE i - 1
  <2>3. \A j \in 1 .. Len(t) : at(j) \in 1 .. Len(s) /\ at(j) # pos /\ t[j] = s[at(j)]
    BY <1>2, <2>0, <2>2
  <2>4. \A i \in 1 .. Len(s) : i # pos => from(i) \in 1 .. Len(t) /\ at(from(i)) = i
    BY <1>2, <2>0, <2>2
  <2> HIDE DEF at, from
  <2>5. \A i \in 1 .. Len(s) : i # pos => s[i].key # key
    BY <2>0 DEF OnceEach
  <2>6. \A j \in 1 .. Len(t) : t[j].key \in Keys(s) \ {key} /\ reg[t[j].key] = t[j]
    BY <1>4, <2>3, <2>5
  <2>7. Keys(t) = Keys(s) \ {key}
    <3>1. ASSUME NEW k \in Keys(t) PROVE k \in Keys(s) \ {key}
      BY <2>6 DEF Keys
    <3>2. ASSUME NEW k \in Keys(s) \ {key} PROVE k \in Keys(t)
      <4>1. PICK i \in 1 .. Len(s) : k = s[i].key
        BY DEF Keys
      <4>2. i # pos
        BY <2>0, <4>1
      <4>3. from(i) \in 1 .. Len(t) /\ t[from(i)] = s[i]
        BY <2>3, <2>4, <4>2
      <4>4. QED
        BY <4>1, <4>3 DEF Keys
    <3>3. QED
      BY <3>1, <3>2
  <2>8. \A j \in 1 .. Len(t) : f[t[j].key] = t[j]
    BY <2>1, <2>6
  <2>9. f = [k \in Keys(t) |-> f[k]]
    BY <2>1, <2>7
  <2>10. QED
    BY <1>3, <2>8, <2>9, RegistryIs
<1>12. CASE op.type \in {"update", "remove"} /\ pos = 0 /\ t = s
  <2>1. key \notin Keys(s)
    BY <1>7, <1>12
  <2>2. CASE op.type = "update"
    <3>1. f = reg
      BY <1>5, <2>1, <2>2
    <3>2. QED
      BY <1>12, <3>1 DEF reg
  <2>3. CASE op.type = "remove"
    <3>1. Keys(s) \ {key} = Keys(s)
      BY <2>1
    <3>2. f = [k \in Keys(s) |-> reg[k]]
      BY <1>5, <2>3, <3>1
    <3>3. QED
      BY <1>6, <1>12, <3>2 DEF reg
  <2>4. QED
    BY <1>12, <2>2, <2>3
<1>13. QED
  BY <1>1, <1>9, <1>10, <1>11, <1>12

\* An operation that adds nothing leaves a sorted slice sorted.
LEMMA ApplyOpAscends ==
    ASSUME NEW s \in Seq(Validator), NEW op \in Op, Ascending(s),
           ~ (op.type = "add" /\ op.key \notin Keys(s))
    PROVE  Ascending(ApplyOp(s, op))
<1> DEFINE pos == FindIndex(s, op.key) + 1
           t == ApplyOp(s, op)
<1> SUFFICES Ascending(t)
  OBVIOUS
<1>1. Findable(s, op.key)
  BY DEF Findable
<1>2. /\ pos \in 0 .. Len(s)
      /\ pos = 0 => \A i \in 1 .. Len(s) : s[i].key # op.key
      /\ \/ op.type = "add" /\ pos = 0
         \/ pos > 0 /\ t = [s EXCEPT ![pos] = Changed(s[pos], op)]
         \/ pos > 0 /\ t = RemoveAt(s, pos)
         \/ t = s
  BY <1>1, ApplyOpCases
<1>3. Len(s) \in Nat
  OBVIOUS
<1> HIDE DEF pos, t
<1>4. CASE op.type = "add" /\ pos = 0
  <2>1. op.key \notin Keys(s)
    BY <1>2, <1>4 DEF Keys
  <2>2. QED
    BY <1>4, <2>1
<1>5. CASE pos > 0 /\ t = [s EXCEPT ![pos] = Changed(s[pos], op)]
  <2>1. pos \in 1 .. Len(s)
    BY <1>2, <1>5
  <2>2. s[pos] \in Validator
    BY <2>1
  <2>3. Changed(s[pos], op) \in Validator /\ Changed(s[pos], op).key = s[pos].key
    BY <2>2, ChangedType
  <2>4. Len(t) = Len(s) /\ \A i \in 1 .. Len(s) : t[i] = IF i = pos THEN Changed(s[pos], op) ELSE s[i]
    BY <1>5, <2>1, <2>3, ExceptSeq
  <2>5. \A i \in 1 .. Len(s) : t[i].key = s[i].key
    BY <2>3, <2>4
  <2>6. QED
    BY <2>4, <2>5 DEF Ascending
<1>6. CASE pos > 0 /\ t = RemoveAt(s, pos)
  <2>1. pos \in 1 .. Len(s)
    BY <1>2, <1>6
  <2>2. /\ Len(t) = Len(s) - 1
        /\ \A j \in 1 .. Len(s) - 1 : t[j] = IF j < pos THEN s[j] ELSE s[j + 1]
    BY <1>6, <2>1, RemoveAtProperties
  <2> DEFINE at(j) == IF j < pos THEN j ELSE j + 1
  <2>3. \A j \in 1 .. Len(t) : at(j) \in 1 .. Len(s) /\ t[j] = s[at(j)]
    BY <1>3, <2>1, <2>2
  <2>4. \A i, j \in 1 .. Len(t) : i < j => at(i) < at(j)
    BY <1>3, <2>1, <2>2
  <2> HIDE DEF at
  <2>5. QED
    BY <2>3, <2>4 DEF Ascending
<1>7. QED
  BY <1>2, <1>4, <1>5, <1>6

\* The recursive function by which Meanings is defined.
MeaningAt(g, reg, ops, i) == IF i = 0 THEN reg ELSE Meant(g[i - 1], ops[i])

\* Meanings gives the map after every operation.
LEMMA MeaningsUnfold ==
    ASSUME NEW n \in Nat, NEW ops \in [1 .. n -> Op], NEW reg
    PROVE  /\ Meanings(reg, ops)[0] = reg
           /\ \A i \in 1 .. n : Meanings(reg, ops)[i] = Meant(Meanings(reg, ops)[i - 1], ops[i])
<1> DEFINE Solves(g, k) == g = [i \in 0 .. k |-> MeaningAt(g, reg, ops, i)]
           Bad == {k \in Nat : ~ \E g : Solves(g, k)}
           it == CHOOSE g : Solves(g, n)
<1>1. Bad = {}
  <2> SUFFICES ASSUME Bad # {} PROVE FALSE
    OBVIOUS
  <2>1. PICK k \in Bad : \A j \in Bad : k <= j
    BY NatMin
  <2>2. k \in Nat /\ ~ \E g : Solves(g, k)
    BY <2>1
  <2>3. CASE k = 0
    <3> DEFINE h == [i \in 0 .. 0 |-> reg]
    <3>1. Solves(h, 0)
      BY DEF MeaningAt
    <3>2. QED
      BY <2>2, <2>3, <3>1
  <2>4. CASE k # 0
    <3>1. k - 1 \in Nat /\ k - 1 \notin Bad
      <4> HIDE DEF Bad
      <4>1. QED
        BY <2>1, <2>2, <2>4
    <3>2. PICK g : Solves(g, k - 1)
      BY <3>1
    <3> DEFINE h == [i \in 0 .. k |-> MeaningAt(g, reg, ops, i)]
    <3>3. \A i \in 0 .. k - 1 : h[i] = g[i]
      BY <2>2, <3>2
    <3>4. \A i \in 0 .. k : i = 0 \/ i - 1 \in 0 .. k - 1
      BY <2>2
    <3>5. \A i \in 0 .. k : MeaningAt(g, reg, ops, i) = MeaningAt(h, reg, ops, i)
      <4> HIDE DEF h
      <4>1. QED
        BY <3>3, <3>4 DEF MeaningAt
    <3>6. Solves(h, k)
      BY <3>5
    <3>7. QED
      BY <2>2, <3>6
  <2>5. QED
    BY <2>3, <2>4
<1>2. \E g : Solves(g, n)
  BY <1>1
<1>3. Solves(it, n)
  <2> HIDE DEF Solves
  <2>1. QED
    BY <1>2
<1>4. Len(ops) = n
  BY ListType
<1>5. Meanings(reg, ops) = it
  BY <1>4 DEF Meanings, MeaningAt
<1>6. it[0] = reg /\ \A i \in 1 .. n : it[i] = Meant(it[i - 1], ops[i])
  <2> HIDE DEF it
  <2>1. \A i \in 0 .. n : it[i] = MeaningAt(it, reg, ops, i)
    BY <1>3
  <2>2. 0 \in 0 .. n /\ \A i \in 1 .. n : i \in 0 .. n /\ i # 0
    OBVIOUS
  <2>3. QED
    BY <2>1, <2>2 DEF MeaningAt
<1>7. QED
  BY <1>5, <1>6

\* t[i] is the slice s after the first i operations, and f the last of them.
Runs(t, s, ops, n, f) ==
    /\ t[0] = s /\ t[n] = f
    /\ \A i \in 1 .. n : t[i] = ApplyOp(t[i - 1], ops[i])

\* The fold, one operation after the other.
LEMMA FoldSteps ==
    ASSUME NEW n \in Nat, NEW ops \in [1 .. n -> Op], NEW s
    PROVE  \E t : Runs(t, s, ops, n, FoldLeft(ApplyOp, s, ops))
<1>1. PICK g : IsFold(g, s, ops) /\ FoldLeft(ApplyOp, s, ops) = g[DOMAIN ops]
  BY FoldUnfold
<1> DEFINE t == [i \in 0 .. n |-> g[1 .. i]]
<1>2. DOMAIN ops = 1 .. n
  OBVIOUS
<1>3. \A I \in SUBSET (1 .. n) : g[I] = FoldAt(g, s, ops, I)
  BY <1>1, <1>2 DEF IsFold
<1>4. t[0] = s
  <2>1. 1 .. 0 = {} /\ t[0] = g[1 .. 0]
    OBVIOUS
  <2>2. g[{}] = s
    BY <1>3 DEF FoldAt
  <2>3. QED
    BY <2>1, <2>2
<1>5. ASSUME NEW i \in 1 .. n PROVE t[i] = ApplyOp(t[i - 1], ops[i])
  <2>1. t[i] = g[1 .. i] /\ t[i - 1] = g[1 .. i - 1]
    OBVIOUS
  <2>2. 1 .. i \in SUBSET (1 .. n) /\ 1 .. i # {} /\ i \in 1 .. i
    <3>1. i \in 1 .. i
      OBVIOUS
    <3>2. \A j \in 1 .. i : j \in 1 .. n
      OBVIOUS
    <3> HIDE DEF t
    <3>3. QED
      BY <3>1, <3>2
  <2>3. Max(1 .. i) = i
    <3>1. Max(1 .. i) \in 1 .. i /\ Max(1 .. i) >= i
      BY <2>2, MaxType
    <3>2. QED
      BY <3>1
  <2>4. (1 .. i) \ {i} = 1 .. i - 1
    OBVIOUS
  <2>5. g[1 .. i] = ApplyOp(g[(1 .. i) \ {Max(1 .. i)}], ops[Max(1 .. i)])
    BY <1>3, <2>2 DEF FoldAt
  <2>6. QED
    BY <2>1, <2>3, <2>4, <2>5
<1>6. t[n] = FoldLeft(ApplyOp, s, ops)
  BY <1>1, <1>2
<1> HIDE DEF t
<1>7. Runs(t, s, ops, n, FoldLeft(ApplyOp, s, ops))
  BY <1>4, <1>5, <1>6 DEF Runs
<1>8. QED
  BY <1>7

\* t, the slice after i operations, is what they mean, and sorted if none of them added
\* a key: m is the map after each of them.
Tracks(t, m, ops, i) ==
    /\ t \in Seq(Validator) /\ OnceEach(t)
    /\ Registry(t) = m[i]
    /\ (\A j \in 1 .. i : ~ Adds(m, ops, j)) => Ascending(t)

\* One operation of an orderly batch.
LEMMA TrackStep ==
    ASSUME NEW n \in Nat, NEW ops \in [1 .. n -> Op], NEW m, NEW i \in 1 .. n, NEW t,
           Tracks(t, m, ops, i - 1), m[i] = Meant(m[i - 1], ops[i]),
           (\E j \in 1 .. i - 1 : Adds(m, ops, j)) => ops[i].key \notin DOMAIN m[i - 1]
    PROVE  Tracks(ApplyOp(t, ops[i]), m, ops, i)
<1>1. ops[i] \in Op /\ t \in Seq(Validator) /\ OnceEach(t) /\ Registry(t) = m[i - 1]
  BY DEF Tracks
<1>2. DOMAIN m[i - 1] = Keys(t)
  BY <1>1, RegistryAt
<1>3. Findable(t, ops[i].key)
  <2>1. CASE \E j \in 1 .. i - 1 : Adds(m, ops, j)
    <3>1. ops[i].key \notin Keys(t)
      BY <1>2, <2>1
    <3>2. QED
      BY <3>1 DEF Findable, Keys
  <2>2. CASE \A j \in 1 .. i - 1 : ~ Adds(m, ops, j)
    BY <2>2 DEF Tracks, Findable
  <2>3. QED
    BY <2>1, <2>2
<1>4. /\ ApplyOp(t, ops[i]) \in Seq(Validator) /\ OnceEach(ApplyOp(t, ops[i]))
      /\ Registry(ApplyOp(t, ops[i])) = m[i]
  BY <1>1, <1>3, ApplyOpType, ApplyOpOnceEach, ApplyOpMeant
<1>5. ASSUME \A j \in 1 .. i : ~ Adds(m, ops, j)
      PROVE  Ascending(ApplyOp(t, ops[i]))
  <2>1. i \in 1 .. i /\ \A j \in 1 .. i - 1 : j \in 1 .. i
    OBVIOUS
  <2>2. Ascending(t)
    BY <1>5, <2>1 DEF Tracks
  <2>3. ~ (ops[i].type = "add" /\ ops[i].key \notin Keys(t))
    BY <1>2, <1>5, <2>1 DEF Adds
  <2>4. QED
    BY <1>1, <2>2, <2>3, ApplyOpAscends
<1>6. QED
  BY <1>4, <1>5 DEF Tracks

\* An orderly batch on a sorted set with distinct keys leaves distinct keys and what its
\* operations mean: by induction over the operations.
LEMMA FoldMeant ==
    ASSUME NEW n \in Nat, NEW ops \in [1 .. n -> Op],
           NEW s \in Seq(Validator), Ascending(s), OnceEach(s), Orderly(Registry(s), ops)
    PROVE  /\ OnceEach(FoldLeft(ApplyOp, s, ops))
           /\ Registry(FoldLeft(ApplyOp, s, ops)) = Meanings(Registry(s), ops)[n]
<1>1. PICK m : m = Meanings(Registry(s), ops)
  OBVIOUS
<1>2. m[0] = Registry(s) /\ \A i \in 1 .. n : m[i] = Meant(m[i - 1], ops[i])
  BY <1>1, MeaningsUnfold
<1>3. \E t : Runs(t, s, ops, n, FoldLeft(ApplyOp, s, ops))
  BY FoldSteps
<1>4. PICK t : Runs(t, s, ops, n, FoldLeft(ApplyOp, s, ops))
  BY <1>3
<1>5. /\ t[0] = s /\ t[n] = FoldLeft(ApplyOp, s, ops)
       /\ \A i \in 1 .. n : t[i] = ApplyOp(t[i - 1], ops[i])
  BY <1>4 DEF Runs
<1>6. \A i \in 1 .. n : (\E j \in 1 .. i - 1 : Adds(m, ops, j)) => ops[i].key \notin DOMAIN m[i - 1]
  <2>1. Len(ops) = n
    BY ListType
  <2>2. QED
    BY <1>1, <2>1 DEF Orderly
<1> DEFINE Bad == {i \in 0 .. n : ~ Tracks(t[i], m, ops, i)}
<1>7. Bad = {}
  <2> SUFFICES ASSUME Bad # {} PROVE FALSE
    OBVIOUS
  <2>1. PICK i \in Bad : \A j \in Bad : i <= j
    <3>1. Bad \subseteq Nat
      OBVIOUS
    <3> HIDE DEF Bad
    <3>2. QED
      BY <3>1, NatMin
  <2>2. i \in 0 .. n /\ ~ Tracks(t[i], m, ops, i)
    BY <2>1
  <2>3. i # 0
    <3>1. Tracks(t[0], m, ops, 0)
      BY <1>2, <1>5 DEF Tracks
    <3>2. QED
      BY <2>2, <3>1
  <2>4. i \in 1 .. n /\ i - 1 \in 0 .. n
    BY <2>2, <2>3
  <2>5. i - 1 \notin Bad
    <3> HIDE DEF Bad
    <3>1. QED
      BY <2>1, <2>4
  <2>6. Tracks(t[i - 1], m, ops, i - 1)
    BY <2>4, <2>5
  <2>7. Tracks(ApplyOp(t[i - 1], ops[i]), m, ops, i)
    BY <1>2, <1>6, <2>4, <2>6, TrackStep
  <2>8. QED
    BY <1>5, <2>2, <2>4, <2>7
<1>8. Tracks(t[n], m, ops, n)
  BY <1>7
<1>9. QED
  BY <1>1, <1>5, <1>8 DEF Tracks

\* After any history of batches, of any length, and of events, a batch that names no key
\* of the set once it has added one does to the set what its operations, taken in order,
\* do to a map, and no key is in the set twice (internal/stake/ops.go).
THEOREM OpsMeanWhatTheySay ==
    ValSpec => []BatchesMeanTheirOps
<1>1. ValInv /\ OrderInv => BatchesMeanTheirOps
  <2> SUFFICES ASSUME ValInv, OrderInv, OnceEach(vals), NEW ops \in Batch,
                      Orderly(Registry(vals), ops),
                      NEW t \in Sorted(FoldLeft(ApplyOp, vals, ops))
               PROVE  Holds(t, Meanings(Registry(vals), ops)[Len(ops)])
    BY DEF BatchesMeanTheirOps
  <2>1. PICK n \in Nat : ops \in [1 .. n -> Op]
    BY ValSetAssumption DEF Batch
  <2>2. PICK x, y : x = vals /\ y = t
    OBVIOUS
  <2>3. x \in Seq(Validator) /\ Ascending(x) /\ OnceEach(x) /\ Orderly(Registry(x), ops)
    BY <2>2 DEF ValInv, OrderInv
  <2>4. PICK f : f = FoldLeft(ApplyOp, x, ops)
    OBVIOUS
  <2>5. f \in Seq(Validator) /\ OnceEach(f) /\ Registry(f) = Meanings(Registry(x), ops)[n]
    BY <2>1, <2>3, <2>4, FoldType, FoldMeant
  <2>6. y \in Sorted(f)
    BY <2>2, <2>4
  <2>7. OnceEach(y) /\ Registry(y) = Registry(f)
    BY <2>5, <2>6, SortedOrder, SortedRegistry
  <2>8. Len(ops) = n
    BY <2>1, ListType
  <2>9. QED
    BY <2>2, <2>5, <2>7, <2>8 DEF Holds
<1>2. QED
  BY <1>1, ValInvHolds, OrderInvHolds, PTL
-------------------------------------------------------------------------------
(***************************************************************************)
(* What the validators root says.                                          *)
(***************************************************************************)
\* What leafFor hashes.
Payload(v) == <<v.key, v.stake, NormalizeNodeType(v.ntype), v.score, v.jailed>>

Payloads(s) == [i \in 1 .. Len(s) |-> Payload(s[i])]

\* A payload fixes the key, the stake, the class and the score, and so the power.
LEMMA PayloadFixesPower ==
    ASSUME NEW v \in Validator, NEW w \in Validator, Payload(v) = Payload(w)
    PROVE  v.key = w.key /\ EffectivePower(v) = EffectivePower(w)
<1>1. /\ Payload(v)[1] = v.key /\ Payload(v)[2] = v.stake
      /\ Payload(v)[3] = NormalizeNodeType(v.ntype) /\ Payload(v)[4] = v.score
  BY DEF Payload
<1>2. /\ Payload(w)[1] = w.key /\ Payload(w)[2] = w.stake
      /\ Payload(w)[3] = NormalizeNodeType(w.ntype) /\ Payload(w)[4] = w.score
  BY DEF Payload
<1>3. /\ v.key = w.key /\ v.stake = w.stake /\ v.score = w.score
      /\ NormalizeNodeType(v.ntype) = NormalizeNodeType(w.ntype)
  BY <1>1, <1>2
<1>4. GetNodeTypeWeight(v.ntype) = GetNodeTypeWeight(w.ntype)
  BY <1>3 DEF GetNodeTypeWeight
<1>5. QED
  BY <1>3, <1>4 DEF EffectivePower

\* The payloads of a set are a list, and its root is that of the tree over them.
LEMMA ValidatorsRootIsTop ==
    ASSUME NEW s \in Seq(Validator)
    PROVE  /\ IsList(Payloads(s)) /\ Len(Payloads(s)) = Len(s)
           /\ Members(Payloads(s)) = {Payload(s[i]) : i \in 1 .. Len(s)}
           /\ <<>> \notin Members(Payloads(s))
           /\ s # <<>> => /\ Len(s) >= 1
                          /\ ComputeValidatorsRoot(s) = TreeTop(Hashed(Payloads(s)))
<1>1. PICK n \in Nat : n = Len(s)
  OBVIOUS
<1>2. Payloads(s) \in [1 .. n -> {Payload(s[i]) : i \in 1 .. n}]
  BY <1>1 DEF Payloads
<1>3. IsList(Payloads(s)) /\ Len(Payloads(s)) = n
  BY <1>2, ListType
<1>4. \A i \in 1 .. n : Payloads(s)[i] = Payload(s[i])
  BY <1>1 DEF Payloads
<1>5. Members(Payloads(s)) = {Payload(s[i]) : i \in 1 .. n}
  BY <1>3, <1>4 DEF Members
<1>6. ASSUME NEW v PROVE Payload(v) # <<>>
  <2>1. Len(Payload(v)) = 5 /\ Len(<<>>) = 0
    BY DEF Payload
  <2>2. QED
    BY <2>1
<1>7. ASSUME s # <<>>
      PROVE  n >= 1 /\ ComputeValidatorsRoot(s) = TreeTop(Hashed(Payloads(s)))
  <2>1. n # 0
    BY <1>1, <1>7
  <2>2. \A i \in 1 .. n : LeafFor(s[i]) = Blake3Leaf(Payloads(s)[i])
    BY <1>4 DEF LeafFor, Payload
  <2>3. [i \in 1 .. n |-> LeafFor(s[i])] = Hashed(Payloads(s))
    BY <1>3, <2>2 DEF Hashed
  <2>4. QED
    BY <1>1, <1>7, <2>1, <2>3 DEF ComputeValidatorsRoot
<1>8. QED
  BY <1>1, <1>3, <1>5, <1>6, <1>7

\* Equal roots, equal leaves.
LEMMA RootFixesValidators ==
    ASSUME NEW s \in Seq(Validator), NEW t \in Seq(Validator),
           ComputeValidatorsRoot(s) = ComputeValidatorsRoot(t)
    PROVE  \A i \in 1 .. Len(s) : \E j \in 1 .. Len(t) : Payload(s[i]) = Payload(t[j])
<1>1. CASE s = <<>>
  <2>1. Len(s) = 0
    BY <1>1
  <2>2. QED
    BY <2>1
<1>2. CASE s # <<>>
  <2>1. /\ IsList(Payloads(s)) /\ Len(Payloads(s)) = Len(s) /\ Len(s) >= 1
        /\ Members(Payloads(s)) = {Payload(s[i]) : i \in 1 .. Len(s)}
        /\ <<>> \notin Members(Payloads(s))
        /\ ComputeValidatorsRoot(s) = TreeTop(Hashed(Payloads(s)))
    BY <1>2, ValidatorsRootIsTop
  <2>2. t # <<>>
    <3> SUFFICES ASSUME t = <<>> PROVE FALSE
      OBVIOUS
    <3>1. TreeTop(Hashed(Payloads(s))) = <<>>
      BY <2>1 DEF ComputeValidatorsRoot
    <3>2. /\ IsList(Hashed(Payloads(s))) /\ Len(Hashed(Payloads(s))) = Len(s)
          /\ \A i \in 1 .. Len(s) : Hashed(Payloads(s))[i] = Blake3Leaf(Payloads(s)[i])
      BY <2>1, TreeOverPayloads
    <3>3. <<>> \in Nodes(Hashed(Payloads(s)))
      BY <2>1, <3>1, <3>2, TopIsANode
    <3>4. \/ <<>> \in Members(Hashed(Payloads(s)))
          \/ \E a, b : <<>> = Blake3Node(a, b)
      BY <2>1, <3>2, <3>3, NodesAreClosed
    <3>5. ASSUME NEW x PROVE <<>> # Blake3Leaf(x)
      <4>1. Len(Blake3Leaf(x)) = 2 /\ Len(<<>>) = 0
        BY DEF Blake3Leaf
      <4>2. QED
        BY <4>1
    <3>6. ASSUME NEW a, NEW b PROVE <<>> # Blake3Node(a, b)
      <4>1. Len(Blake3Node(a, b)) = 3 /\ Len(<<>>) = 0
        BY DEF Blake3Node
      <4>2. QED
        BY <4>1
    <3>7. <<>> \notin Members(Hashed(Payloads(s)))
      BY <3>2, <3>5 DEF Members
    <3>8. QED
      BY <3>4, <3>6, <3>7
  <2>3. /\ IsList(Payloads(t)) /\ Len(Payloads(t)) = Len(t) /\ Len(t) >= 1
        /\ Members(Payloads(t)) = {Payload(t[i]) : i \in 1 .. Len(t)}
        /\ <<>> \notin Members(Payloads(t))
        /\ ComputeValidatorsRoot(t) = TreeTop(Hashed(Payloads(t)))
    BY <2>2, ValidatorsRootIsTop
  <2>4. Blake3RootFromRaw(Payloads(s)) = Blake3RootFromRaw(Payloads(t))
    <3>1. PICK m, n : m = Len(s) /\ n = Len(t)
      OBVIOUS
    <3>2. m # 0 /\ n # 0
      BY <2>1, <2>3, <3>1
    <3>3. /\ Blake3RootFromRaw(Payloads(s)) = TreeTop(Hashed(Payloads(s)))
          /\ Blake3RootFromRaw(Payloads(t)) = TreeTop(Hashed(Payloads(t)))
      BY <2>1, <2>3, <3>1, <3>2, RootIsTop
    <3>4. QED
      BY <2>1, <2>3, <3>3
  <2>5. Members(Payloads(s)) \subseteq Members(Payloads(t))
    BY <2>1, <2>3, <2>4, RootFixesPayloads
  <2>6. QED
    BY <2>1, <2>3, <2>5
<1>3. QED
  BY <1>1, <1>2

\* Sets with the leaves of each other give every key the same powers.
LEMMA LeavesFixPowers ==
    ASSUME NEW s \in Seq(Validator), NEW t \in Seq(Validator),
           \A i \in 1 .. Len(s) : \E j \in 1 .. Len(t) : Payload(s[i]) = Payload(t[j])
    PROVE  Powers(s) \subseteq Powers(t)
<1> SUFFICES ASSUME NEW i \in 1 .. Len(s)
             PROVE  <<s[i].key, EffectivePower(s[i])>> \in Powers(t)
  BY DEF Powers
<1>1. PICK j \in 1 .. Len(t) : Payload(s[i]) = Payload(t[j])
  OBVIOUS
<1>2. s[i] \in Validator /\ t[j] \in Validator
  OBVIOUS
<1>3. s[i].key = t[j].key /\ EffectivePower(s[i]) = EffectivePower(t[j])
  BY <1>1, <1>2, PayloadFixesPower
<1>4. QED
  BY <1>3 DEF Powers

\* Sorting changes nothing in the powers.
LEMMA SortedPowers ==
    ASSUME NEW s \in Seq(Validator), NEW t \in Sorted(s)
    PROVE  t \in Seq(Validator) /\ Powers(t) = Powers(s)
<1>1. PICK p : Permutes(p, s, t)
  BY SortedPermutes
<1>2. /\ t \in Seq(Validator) /\ Len(t) = Len(s)
      /\ \A i \in 1 .. Len(s) : p[i] \in 1 .. Len(s) /\ t[i] = s[p[i]]
      /\ \A j \in 1 .. Len(s) : \E i \in 1 .. Len(s) : p[i] = j
  BY <1>1 DEF Permutes
<1>3. Powers(t) \subseteq Powers(s)
  BY <1>2 DEF Powers
<1>4. Powers(s) \subseteq Powers(t)
  <2> SUFFICES ASSUME NEW j \in 1 .. Len(s)
               PROVE  <<s[j].key, EffectivePower(s[j])>> \in Powers(t)
    BY DEF Powers
  <2>1. PICK i \in 1 .. Len(s) : p[i] = j
    BY <1>2
  <2>2. t[i] = s[j] /\ i \in 1 .. Len(t)
    BY <1>2, <2>1
  <2>3. QED
    BY <2>2 DEF Powers
<1>5. QED
  BY <1>2, <1>3, <1>4

\* RootFixesPower: when a batch, of any length, or an event changes the power of a key,
\* no order in which SortValidators may leave the two sets gives them the same
\* ComputeValidatorsRoot, even when a key is in a set twice.
THEOREM RootsTellPowersApart ==
    ValSpec => RootFixesPower
<1>1. ValInv /\ ValInv' => RootsDiffer
  <2> SUFFICES ASSUME ValInv, ValInv', Roots(vals) \cap Roots(vals') # {}
               PROVE  Powers(vals) = Powers(vals')
    BY DEF RootsDiffer
  <2>1. PICK x, y : x = vals /\ y = vals'
    OBVIOUS
  <2>2. x \in Seq(Validator) /\ y \in Seq(Validator)
    BY <2>1 DEF ValInv
  <2>3. Roots(x) \cap Roots(y) # {}
    BY <2>1
  <2>4. PICK s \in Sorted(x), t \in Sorted(y) :
          ComputeValidatorsRoot(s) = ComputeValidatorsRoot(t)
    BY <2>3 DEF Roots
  <2>5. /\ s \in Seq(Validator) /\ Powers(s) = Powers(x)
        /\ t \in Seq(Validator) /\ Powers(t) = Powers(y)
    BY <2>2, SortedPowers
  <2>6. /\ \A i \in 1 .. Len(s) : \E j \in 1 .. Len(t) : Payload(s[i]) = Payload(t[j])
        /\ \A j \in 1 .. Len(t) : \E i \in 1 .. Len(s) : Payload(t[j]) = Payload(s[i])
    BY <2>4, <2>5, RootFixesValidators
  <2>7. Powers(s) \subseteq Powers(t) /\ Powers(t) \subseteq Powers(s)
    BY <2>5, <2>6, LeavesFixPowers
  <2>8. Powers(x) = Powers(y)
    <3>1. PICK a, b : a = Powers(s) /\ b = Powers(t)
      OBVIOUS
    <3>2. a \subseteq b /\ b \subseteq a
      BY <2>7, <3>1
    <3>3. a = b
      BY <3>2
    <3>4. QED
      BY <2>5, <3>1, <3>3
  <2>9. QED
    BY <2>1, <2>8
<1>2. QED
  BY <1>1, ValInvHolds, PTL DEF RootFixesPower
===============================================================================
