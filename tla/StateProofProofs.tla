--------------------------- MODULE StateProofProofs ---------------------------
(***************************************************************************)
(* Theorems about module StateProof, for accounts and trees of any size:   *)
(* state roots tell states apart, VerifyBinary accepts the truth alone,    *)
(* and it accepts the proofs built from the accounts as they are.          *)
(***************************************************************************)
EXTENDS StateProof, BaseProofs, SequenceTheorems

(***************************************************************************)
(* The leaves of a state.                                                  *)
(***************************************************************************)
Rank(k, S) == Cardinality({j \in S : j < k})

\* As many keys are below a key as its index says, and no two keys share an index.
LEMMA RankType ==
    ASSUME NEW S \in SUBSET Nat, IsFiniteSet(S), NEW n \in Nat, n = Cardinality(S)
    PROVE  /\ \A k \in S : Rank(k, S) \in 0 .. n - 1
           /\ \A k, l \in S : k # l => Rank(k, S) # Rank(l, S)
<1> DEFINE B(k) == {j \in S : j < k}
<1>1. ASSUME NEW k \in S
      PROVE  IsFiniteSet(B(k)) /\ Cardinality(B(k)) \in Nat /\ Cardinality(B(k)) <= n - 1
  <2>1. B(k) \subseteq S \ {k}
    OBVIOUS
  <2>2. IsFiniteSet(S \ {k}) /\ Cardinality(S \ {k}) = n - 1
    BY FS_RemoveElement
  <2>3. QED
    BY <2>1, <2>2, FS_Subset, FS_CardinalityType
<1>2. ASSUME NEW k \in S, NEW l \in S, k < l
      PROVE  Cardinality(B(k)) < Cardinality(B(l))
  <2>1. B(k) \cup {k} \subseteq B(l) /\ k \notin B(k)
    <3>1. k \in Nat /\ l \in Nat /\ \A j \in S : j \in Nat
      OBVIOUS
    <3>2. ~ (k < k) /\ \A j \in S : j < k => j < l
      BY <1>2, <3>1
    <3>3. QED
      BY <1>2, <3>2, Zenon
  <2>2. Cardinality(B(k) \cup {k}) = Cardinality(B(k)) + 1 /\ IsFiniteSet(B(k) \cup {k})
    BY <1>1, <2>1, FS_AddElement
  <2>3. Cardinality(B(k) \cup {k}) <= Cardinality(B(l))
    BY <1>1, <2>1, FS_Subset
  <2>4. QED
    BY <1>1, <2>2, <2>3
<1>3. ASSUME NEW k \in S, NEW l \in S, k # l
      PROVE  Cardinality(B(k)) # Cardinality(B(l))
  <2>1. k < l \/ l < k
    BY <1>3
  <2> HIDE DEF B
  <2>2. QED
    BY <1>1, <1>2, <2>1
<1>4. QED
  BY <1>1, <1>3 DEF Rank

\* SortedKeys lists every key.
LEMMA SortedKeysList ==
    ASSUME NEW S \in SUBSET Nat, IsFiniteSet(S), NEW n \in Nat, n = Cardinality(S)
    PROVE  /\ SortedKeys(S) \in [1 .. n -> S]
           /\ \A k \in S : \E i \in 1 .. n : SortedKeys(S)[i] = k
<1>1. /\ \A k \in S : Rank(k, S) \in 0 .. n - 1
      /\ \A k, l \in S : k # l => Rank(k, S) # Rank(l, S)
  BY RankType
<1>2. ASSUME NEW i \in 1 .. n PROVE \E k \in S : Rank(k, S) = i - 1
  <2> SUFFICES ASSUME \A k \in S : Rank(k, S) # i - 1 PROVE FALSE
    OBVIOUS
  <2> DEFINE E == (0 .. n - 1) \ {i - 1}
             r == [k \in S |-> Rank(k, S)]
  <2>1. IsFiniteSet(0 .. n - 1) /\ Cardinality(0 .. n - 1) = n
    <3>1. 0 \in Int /\ n - 1 \in Int
      OBVIOUS
    <3>2. QED
      BY <3>1, FS_Interval
  <2>2. IsFiniteSet(E) /\ Cardinality(E) = n - 1
    <3>1. PICK T, x : T = 0 .. n - 1 /\ x = i - 1
      OBVIOUS
    <3>2. x \in T
      BY <3>1
    <3>3. IsFiniteSet(T) /\ Cardinality(T) = n
      BY <2>1, <3>1
    <3>4. IsFiniteSet(T \ {x}) /\ Cardinality(T \ {x}) = n - 1
      BY <3>2, <3>3, FS_RemoveElement
    <3>5. QED
      BY <3>1, <3>4
  <2>3. r \in [S -> E]
    BY <1>1
  <2>4. \E k, l \in S : k # l /\ r[k] = r[l]
    <3>1. Cardinality(E) < Cardinality(S)
      BY <2>2
    <3> HIDE DEF E, r
    <3>2. QED
      BY <2>2, <2>3, <3>1, FS_PigeonHole
  <2>5. QED
    BY <1>1, <2>4
<1>3. ASSUME NEW i \in 1 .. n
      PROVE  SortedKeys(S)[i] \in S /\ Rank(SortedKeys(S)[i], S) = i - 1
  <2>1. SortedKeys(S)[i] = CHOOSE k \in S : Rank(k, S) = i - 1
    BY DEF SortedKeys, Rank
  <2>2. QED
    BY <1>2, <2>1
<1>4. SortedKeys(S) \in [1 .. n -> S]
  <2>1. SortedKeys(S) = [i \in 1 .. n |-> SortedKeys(S)[i]]
    BY DEF SortedKeys
  <2>2. QED
    BY <1>3, <2>1
<1>5. ASSUME NEW k \in S PROVE \E i \in 1 .. n : SortedKeys(S)[i] = k
  <2>1. PICK i : i = Rank(k, S) + 1
    OBVIOUS
  <2>2. Rank(k, S) \in 0 .. n - 1
    BY <1>1
  <2>3. i \in 1 .. n /\ i - 1 = Rank(k, S)
    BY <2>1, <2>2
  <2>4. QED
    BY <1>1, <1>3, <2>3
<1>6. QED
  BY <1>4, <1>5

\* A leaf: the bytes of the key, the NUL and the bytes of the value.
LEMMA LeafInputIs ==
    ASSUME NEW x \in Seq(Byte), NEW v \in Seq(Byte)
    PROVE  /\ LeafInput(x, v) \in Seq(Byte) /\ LeafInput(x, v) # <<>>
           /\ Len(LeafInput(x, v)) = Len(x) + 1 + Len(v)
           /\ \A i \in 1 .. Len(x) : LeafInput(x, v)[i] = x[i]
           /\ LeafInput(x, v)[Len(x) + 1] = Nul
           /\ \A i \in 1 .. Len(v) : LeafInput(x, v)[Len(x) + 1 + i] = v[i]
<1>1. <<Nul>> \in Seq(Byte) /\ Len(<<Nul>>) = 1 /\ <<Nul>>[1] = Nul
  BY StateProofAssumption
<1>2. PICK y : y = x \o <<Nul>>
  OBVIOUS
<1>3. PICK m \in Nat, n \in Nat : m = Len(x) /\ n = Len(v)
  OBVIOUS
<1>4. /\ y \in Seq(Byte) /\ Len(y) = m + 1
      /\ \A i \in 1 .. m + 1 : y[i] = IF i <= m THEN x[i] ELSE <<Nul>>[i - m]
  BY <1>1, <1>2, <1>3, ConcatProperties
<1>5. PICK z : z = y \o v
  OBVIOUS
<1>6. /\ z \in Seq(Byte) /\ Len(z) = (m + 1) + n
      /\ \A i \in 1 .. (m + 1) + n : z[i] = IF i <= m + 1 THEN y[i] ELSE v[i - (m + 1)]
  <2>1. /\ z \in Seq(Byte) /\ Len(z) = Len(y) + Len(v)
        /\ \A i \in 1 .. Len(y) + Len(v) : z[i] = IF i <= Len(y) THEN y[i] ELSE v[i - Len(y)]
    BY <1>4, <1>5, ConcatProperties
  <2>2. QED
    BY <1>3, <1>4, <2>1
<1>7. z = LeafInput(x, v)
  BY <1>2, <1>5 DEF LeafInput
<1>8. ASSUME NEW i \in 1 .. m PROVE z[i] = x[i]
  <2>1. i \in 1 .. (m + 1) + n /\ i \in 1 .. m + 1 /\ i <= m + 1 /\ i <= m
    OBVIOUS
  <2>2. QED
    BY <1>4, <1>6, <2>1
<1>9. z[m + 1] = Nul
  <2>1. m + 1 \in 1 .. (m + 1) + n /\ m + 1 \in 1 .. m + 1 /\ ~ (m + 1 <= m) /\ (m + 1) - m = 1
    OBVIOUS
  <2>2. QED
    BY <1>1, <1>4, <1>6, <2>1
<1>10. ASSUME NEW i \in 1 .. n PROVE z[m + 1 + i] = v[i]
  <2>1. /\ m + 1 + i \in 1 .. (m + 1) + n /\ ~ (m + 1 + i <= m + 1)
        /\ (m + 1 + i) - (m + 1) = i
    OBVIOUS
  <2>2. QED
    BY <1>6, <2>1
<1>11. z # <<>>
  <2>1. Len(z) # 0 /\ Len(<<>>) = 0
    BY <1>6
  <2>2. QED
    BY <2>1
<1>12. QED
  BY <1>3, <1>6, <1>7, <1>8, <1>9, <1>10, <1>11

\* z is the key x, a NUL and the value v, byte by byte.
IsLeafOf(z, x, v) ==
    /\ Len(z) = Len(x) + 1 + Len(v)
    /\ \A i \in 1 .. Len(x) : z[i] = x[i]
    /\ z[Len(x) + 1] = Nul
    /\ \A i \in 1 .. Len(v) : z[Len(x) + 1 + i] = v[i]

LEMMA LeafParts ==
    ASSUME NEW x \in Seq(Byte), NEW v \in Seq(Byte)
    PROVE  IsLeafOf(LeafInput(x, v), x, v)
  BY LeafInputIs, Zenon DEF IsLeafOf

\* A leaf has its last NUL where its key ends, if its value has none.
LEMMA LastNul ==
    ASSUME NEW x \in Seq(Byte), NEW v \in Seq(Byte), NEW y \in Seq(Byte), NEW w \in Seq(Byte),
           NulFree(v), LeafInput(x, v) = LeafInput(y, w)
    PROVE  Len(y) <= Len(x)
<1> SUFFICES ASSUME ~ (Len(y) <= Len(x)) PROVE FALSE
  OBVIOUS
<1>1. PICK m \in Nat, n \in Nat, k \in Nat, l \in Nat :
        m = Len(x) /\ n = Len(v) /\ k = Len(y) /\ l = Len(w)
  OBVIOUS
<1>2. PICK z : z = LeafInput(x, v)
  OBVIOUS
<1>3. Len(z) = m + 1 + n /\ \A i \in 1 .. n : z[m + 1 + i] = v[i]
  <2>1. IsLeafOf(z, x, v)
    BY <1>2, LeafParts
  <2>2. QED
    BY <1>1, <2>1 DEF IsLeafOf
<1>4. Len(z) = k + 1 + l /\ z[k + 1] = Nul
  <2>1. z = LeafInput(y, w)
    BY <1>2
  <2>2. IsLeafOf(z, y, w)
    BY <2>1, LeafParts
  <2>3. QED
    BY <1>1, <2>2 DEF IsLeafOf
<1>5. PICK i : i = k - m
  OBVIOUS
<1>6. i \in 1 .. n /\ m + 1 + i = k + 1
  BY <1>1, <1>3, <1>4, <1>5
<1>7. v[i] = Nul
  BY <1>3, <1>4, <1>6
<1>8. QED
  BY <1>1, <1>6, <1>7 DEF NulFree

\* Sequences with the same length and elements are the same.
LEMMA SameBytes ==
    ASSUME NEW x \in Seq(Byte), NEW y \in Seq(Byte), Len(x) = Len(y),
           \A i \in 1 .. Len(x) : x[i] = y[i]
    PROVE  x = y
<1>1. x = [i \in 1 .. Len(x) |-> x[i]] /\ y = [i \in 1 .. Len(y) |-> y[i]]
  OBVIOUS
<1>2. QED
  BY <1>1

\* A leaf splits in one way into a key and a value without NUL.
LEMMA OneSplit ==
    ASSUME NEW x \in Seq(Byte), NEW v \in Seq(Byte), NEW y \in Seq(Byte), NEW w \in Seq(Byte),
           NulFree(v), NulFree(w), LeafInput(x, v) = LeafInput(y, w)
    PROVE  x = y /\ v = w
<1>1. PICK m \in Nat, n \in Nat, k \in Nat, l \in Nat :
        m = Len(x) /\ n = Len(v) /\ k = Len(y) /\ l = Len(w)
  OBVIOUS
<1>2. m = k
  <2>1. Len(y) <= Len(x) /\ Len(x) <= Len(y)
    BY LastNul
  <2>2. QED
    BY <1>1, <2>1
<1>3. PICK z : z = LeafInput(x, v)
  OBVIOUS
<1>4. /\ Len(z) = m + 1 + n /\ \A i \in 1 .. m : z[i] = x[i]
      /\ \A i \in 1 .. n : z[m + 1 + i] = v[i]
  <2>1. IsLeafOf(z, x, v)
    BY <1>3, LeafParts
  <2>2. QED
    BY <1>1, <2>1 DEF IsLeafOf
<1>5. /\ Len(z) = k + 1 + l /\ \A i \in 1 .. k : z[i] = y[i]
      /\ \A i \in 1 .. l : z[k + 1 + i] = w[i]
  <2>1. z = LeafInput(y, w)
    BY <1>3
  <2>2. IsLeafOf(z, y, w)
    BY <2>1, LeafParts
  <2>3. QED
    BY <1>1, <2>2 DEF IsLeafOf
<1>6. n = l
  BY <1>2, <1>4, <1>5
<1>7. \A i \in 1 .. m : x[i] = y[i]
  BY <1>2, <1>4, <1>5
<1>8. \A i \in 1 .. n : v[i] = w[i]
  BY <1>2, <1>4, <1>5, <1>6
<1>9. x = y
  BY <1>1, <1>2, <1>7, SameBytes
<1>10. v = w
  BY <1>1, <1>6, <1>8, SameBytes
<1>11. QED
  BY <1>9, <1>10

\* A state: contents of some of the accounts.
IsState(a) ==
    /\ a = [k \in DOMAIN a |-> a[k]] /\ DOMAIN a \subseteq Holder
    /\ \A k \in DOMAIN a : a[k] \in Content

\* Names and contents are bytes, and contents have no NUL.
LEMMA StateBytes ==
    ASSUME NEW a, IsState(a), NEW k \in DOMAIN a
    PROVE  /\ k \in Holder /\ NameOf[k] \in Seq(Byte)
           /\ a[k] \in Seq(Byte) /\ NulFree(a[k])
<1>1. k \in Holder /\ a[k] \in Content
  BY DEF IsState
<1>2. QED
  BY <1>1, StateProofAssumption, ContentAssumption

\* The payloads of the leaves are the accounts, each with its name.
LEMMA LeavesList ==
    ASSUME NEW a, IsState(a)
    PROVE  /\ IsList(Leaves(a)) /\ Len(Leaves(a)) = Len(SortedKeys(DOMAIN a))
           /\ \A i \in 1 .. Len(Leaves(a)) :
                /\ SortedKeys(DOMAIN a)[i] \in DOMAIN a
                /\ Leaves(a)[i] = LeafInput(NameOf[SortedKeys(DOMAIN a)[i]], a[SortedKeys(DOMAIN a)[i]])
           /\ \A k \in DOMAIN a : \E i \in 1 .. Len(Leaves(a)) : SortedKeys(DOMAIN a)[i] = k
           /\ Members(Leaves(a)) = {LeafInput(NameOf[k], a[k]) : k \in DOMAIN a}
           /\ <<>> \notin Members(Leaves(a))
<1> DEFINE S == DOMAIN a
           leaf(k) == LeafInput(NameOf[k], a[k])
           e(i) == leaf(SortedKeys(S)[i])
<1>1. S \in SUBSET Nat /\ IsFiniteSet(S)
  BY StateProofAssumption, FS_Subset DEF IsState
<1>2. PICK n \in Nat : n = Cardinality(S)
  BY <1>1, FS_CardinalityType
<1>3. /\ SortedKeys(S) \in [1 .. n -> S]
      /\ \A k \in S : \E i \in 1 .. n : SortedKeys(S)[i] = k
  BY <1>1, <1>2, SortedKeysList
<1>4. Len(SortedKeys(S)) = n
  BY <1>3, ListType
<1>5. Leaves(a) = [i \in 1 .. n |-> e(i)]
  BY <1>4 DEF Leaves
<1>6. Leaves(a) \in [1 .. n -> {e(i) : i \in 1 .. n}]
  BY <1>5
<1>7. IsList(Leaves(a)) /\ Len(Leaves(a)) = n
  BY <1>6, ListType
<1>8. Members(Leaves(a)) = {e(i) : i \in 1 .. n}
  BY <1>5, <1>7 DEF Members
<1>9. ASSUME NEW k \in S PROVE leaf(k) # <<>>
  <2>1. NameOf[k] \in Seq(Byte) /\ a[k] \in Seq(Byte)
    BY StateBytes
  <2>2. QED
    BY <2>1, LeafInputIs
<1>10. \A i \in 1 .. n : SortedKeys(S)[i] \in S /\ Leaves(a)[i] = e(i)
  BY <1>3, <1>5
<1> HIDE DEF leaf
<1>11. {e(i) : i \in 1 .. n} = {leaf(k) : k \in S}
  <2>1. ASSUME NEW i \in 1 .. n PROVE e(i) \in {leaf(k) : k \in S}
    BY <1>3
  <2>2. ASSUME NEW k \in S PROVE leaf(k) \in {e(i) : i \in 1 .. n}
    BY <1>3
  <2>3. QED
    BY <2>1, <2>2
<1>12. <<>> \notin Members(Leaves(a))
  BY <1>8, <1>9, <1>11
<1>13. QED
  BY <1>3, <1>4, <1>7, <1>8, <1>10, <1>11, <1>12 DEF leaf

\* What is a leaf of a state is an account of it, if the value has no NUL.
LEMMA LeafIsAccount ==
    ASSUME NEW a, IsState(a), NEW x \in Seq(Byte), NEW v \in Seq(Byte),
           LeafInput(x, v) \in Members(Leaves(a))
    PROVE  \E k \in DOMAIN a : /\ LeafInput(x, v) = LeafInput(NameOf[k], a[k])
                               /\ NulFree(v) => x = NameOf[k] /\ v = a[k]
<1>1. PICK k \in DOMAIN a : LeafInput(x, v) = LeafInput(NameOf[k], a[k])
  BY LeavesList
<1>2. NameOf[k] \in Seq(Byte) /\ a[k] \in Seq(Byte) /\ NulFree(a[k])
  BY StateBytes
<1>3. ASSUME NulFree(v) PROVE x = NameOf[k] /\ v = a[k]
  BY <1>1, <1>2, <1>3, OneSplit
<1>4. QED
  BY <1>1, <1>3

\* An account that is a leaf of a state is in that state.
LEMMA AccountIsShared ==
    ASSUME NEW a, IsState(a), NEW b, IsState(b), NEW k \in DOMAIN a,
           Members(Leaves(a)) \subseteq Members(Leaves(b))
    PROVE  k \in DOMAIN b /\ b[k] = a[k]
<1>1. k \in Holder /\ NameOf[k] \in Seq(Byte) /\ a[k] \in Seq(Byte) /\ NulFree(a[k])
  BY StateBytes
<1>2. LeafInput(NameOf[k], a[k]) \in Members(Leaves(a))
  BY LeavesList
<1>3. LeafInput(NameOf[k], a[k]) \in Members(Leaves(b))
  BY <1>2
<1>4. PICK j \in DOMAIN b : NameOf[k] = NameOf[j] /\ a[k] = b[j]
  BY <1>1, <1>3, LeafIsAccount
<1>5. j \in Holder
  BY StateBytes
<1>6. j = k
  BY <1>1, <1>4, <1>5, StateProofAssumption
<1>7. QED
  BY <1>4, <1>6

\* States with the same root are the same.
LEMMA RootFixesState ==
    ASSUME NEW a, IsState(a), NEW b, IsState(b), StateRoot(a) = StateRoot(b)
    PROVE  a = b
<1>1. /\ IsList(Leaves(a)) /\ <<>> \notin Members(Leaves(a))
      /\ IsList(Leaves(b)) /\ <<>> \notin Members(Leaves(b))
  BY LeavesList
<1>2. Members(Leaves(a)) \subseteq Members(Leaves(b))
  BY <1>1, RootFixesPayloads DEF StateRoot
<1>3. Members(Leaves(b)) \subseteq Members(Leaves(a))
  BY <1>1, RootFixesPayloads DEF StateRoot
<1>4. \A k \in DOMAIN a : k \in DOMAIN b /\ b[k] = a[k]
  BY <1>2, AccountIsShared
<1>5. \A k \in DOMAIN b : k \in DOMAIN a
  BY <1>3, AccountIsShared
<1>6. DOMAIN a = DOMAIN b
  BY <1>4, <1>5
<1>7. QED
  BY <1>4, <1>6 DEF IsState
-------------------------------------------------------------------------------
(***************************************************************************)
(* ComputeBlake3Root.                                                      *)
(***************************************************************************)
\* The parent of node, whose sibling is the i-th one of the proof.
Parent(node, sib, dir, i) ==
    IF dir[i] = 0 THEN Blake3Node(node, sib[i]) ELSE Blake3Node(sib[i], node)

Steps(n) == [i \in 1 .. n |-> i]

\* The recursive function of the loop: g[I] is the leaf after the siblings at I.
ClimbAt(g, leaf, sib, dir, n, I) ==
    IF I = {} THEN leaf ELSE Parent(g[I \ {Max(I)}], sib, dir, Steps(n)[Max(I)])

IsClimb(g, leaf, sib, dir, n) ==
    g = [I \in SUBSET DOMAIN Steps(n) |-> ClimbAt(g, leaf, sib, dir, n, I)]

\* The recursion has a solution.
LEMMA ClimbExists ==
    ASSUME NEW n \in Nat, NEW leaf, NEW sib, NEW dir
    PROVE  \E g : IsClimb(g, leaf, sib, dir, n)
<1> DEFINE D == 1 .. n
           Small(k) == {I \in SUBSET D : Cardinality(I) <= k}
           Solves(g, k) == g = [I \in Small(k) |-> ClimbAt(g, leaf, sib, dir, n, I)]
           Bad == {k \in Nat : ~ \E g : Solves(g, k)}
<1>0. IsFiniteSet(D) /\ Cardinality(D) \in Nat
  BY FS_Interval, FS_CardinalityType
<1>1. Bad = {}
  <2> SUFFICES ASSUME Bad # {} PROVE FALSE
    OBVIOUS
  <2>1. PICK k \in Bad : \A m \in Bad : k <= m
    BY NatMin
  <2>2. k \in Nat /\ ~ \E g : Solves(g, k)
    BY <2>1
  <2>3. CASE k = 0
    <3> DEFINE h == [I \in Small(0) |-> leaf]
    <3>1. \A I \in Small(0) : I = {}
      <4> TAKE I \in Small(0)
      <4>1. IsFiniteSet(I) /\ Cardinality(I) \in Nat /\ Cardinality(I) <= 0
        BY <1>0, FS_Subset, FS_CardinalityType
      <4>2. QED
        BY <4>1, FS_EmptySet
    <3>2. Solves(h, 0)
      BY <3>1 DEF ClimbAt
    <3>3. QED
      BY <2>2, <2>3, <3>2
  <2>4. CASE k # 0
    <3>1. k - 1 \in Nat /\ k - 1 \notin Bad
      <4> HIDE DEF Bad
      <4>1. QED
        BY <2>1, <2>2, <2>4
    <3>2. PICK g : Solves(g, k - 1)
      BY <3>1
    <3> DEFINE h == [I \in Small(k) |-> ClimbAt(g, leaf, sib, dir, n, I)]
    <3>3. \A I \in Small(k) : I # {} => I \ {Max(I)} \in Small(k - 1) \cap Small(k)
      <4> TAKE I \in Small(k)
      <4> HAVE I # {}
      <4>1. Max(I) \in I
        BY MaxType
      <4>2. /\ Cardinality(I \ {Max(I)}) \in Nat /\ Cardinality(I) \in Nat
            /\ Cardinality(I \ {Max(I)}) = Cardinality(I) - 1
        BY <1>0, <4>1, Smaller
      <4>3. I \ {Max(I)} \in SUBSET D /\ Cardinality(I) <= k
        OBVIOUS
      <4>4. QED
        BY <2>2, <4>2, <4>3
    <3>4. \A I \in Small(k - 1) : g[I] = ClimbAt(g, leaf, sib, dir, n, I)
      BY <3>2
    <3>5. \A I \in Small(k - 1) \cap Small(k) : h[I] = g[I]
      BY <3>4
    <3>6. \A I \in Small(k) :
            ClimbAt(g, leaf, sib, dir, n, I) = ClimbAt(h, leaf, sib, dir, n, I)
      <4> TAKE I \in Small(k)
      <4> HIDE DEF h, Small
      <4>1. QED
        BY <3>3, <3>5 DEF ClimbAt
    <3>7. Solves(h, k)
      BY <3>6
    <3>8. QED
      BY <2>2, <3>7
  <2>5. QED
    BY <2>3, <2>4
<1>2. PICK g : Solves(g, Cardinality(D))
  BY <1>0, <1>1
<1>3. Small(Cardinality(D)) = SUBSET D /\ DOMAIN Steps(n) = D
  BY <1>0, FS_Subset DEF Steps
<1>4. QED
  BY <1>2, <1>3 DEF IsClimb

\* h is the chain of hashes from the leaf up to the result of HashedUp.
IsChain(h, leaf, sib, dir, n) ==
    /\ h[0] = leaf /\ h[n] = HashedUp(leaf, sib, dir)
    /\ \A i \in 1 .. n : h[i] = Parent(h[i - 1], sib, dir, i)

\* HashedUp climbs one level per sibling.
LEMMA HashedUpClimbs ==
    ASSUME NEW n \in Nat, NEW leaf, NEW sib, Len(sib) = n, NEW dir
    PROVE  \E h : IsChain(h, leaf, sib, dir, n)
<1> DEFINE g == CHOOSE g : IsClimb(g, leaf, sib, dir, n)
           h == [i \in 0 .. n |-> g[1 .. i]]
<1>1. IsClimb(g, leaf, sib, dir, n)
  BY ClimbExists
<1>2. HashedUp(leaf, sib, dir) = g[DOMAIN Steps(n)]
  BY DEF HashedUp, FoldLeft, MapThenFoldSet, IsClimb, ClimbAt, Parent, Steps
<1> HIDE DEF g
<1>3. DOMAIN Steps(n) = 1 .. n /\ \A i \in 1 .. n : Steps(n)[i] = i
  BY DEF Steps
<1>4. \A I \in SUBSET (1 .. n) : g[I] = ClimbAt(g, leaf, sib, dir, n, I)
  BY <1>1, <1>3 DEF IsClimb
<1>5. h[0] = leaf
  <2>1. 1 .. 0 = {} /\ 0 \in 0 .. n
    OBVIOUS
  <2>2. g[{}] = leaf
    BY <1>4 DEF ClimbAt
  <2>3. QED
    BY <2>1, <2>2
<1>6. h[n] = HashedUp(leaf, sib, dir)
  BY <1>2, <1>3
<1>7. ASSUME NEW i \in 1 .. n PROVE h[i] = Parent(h[i - 1], sib, dir, i)
  <2>1. /\ i \in 0 .. n /\ i - 1 \in 0 .. n /\ 1 .. i \in SUBSET (1 .. n)
        /\ i \in 1 .. i /\ (1 .. i) \ {i} = 1 .. i - 1
    OBVIOUS
  <2>2. Max(1 .. i) = i
    <3>1. Max(1 .. i) \in 1 .. i /\ \A j \in 1 .. i : Max(1 .. i) >= j
      <4>1. 1 .. i # {}
        BY <2>1
      <4>2. QED
        BY <2>1, <4>1, MaxType
    <3>2. QED
      BY <2>1, <3>1
  <2>3. g[1 .. i] = Parent(g[1 .. i - 1], sib, dir, i)
    <3>1. PICK I : I = 1 .. i
      OBVIOUS
    <3>2. I # {} /\ I \in SUBSET (1 .. n) /\ Max(I) = i /\ I \ {Max(I)} = 1 .. i - 1
      BY <2>1, <2>2, <3>1
    <3>3. g[I] = Parent(g[I \ {Max(I)}], sib, dir, Steps(n)[Max(I)])
      BY <1>4, <3>2 DEF ClimbAt
    <3>4. QED
      BY <1>3, <3>1, <3>2, <3>3
  <2>4. QED
    BY <2>1, <2>3
<1>8. IsChain(h, leaf, sib, dir, n)
  BY <1>5, <1>6, <1>7 DEF IsChain
<1>9. QED
  BY <1>8

\* VerifyBinary accepts, for the root of a state, nothing but its leaves.
LEMMA AcceptedIsLeaf ==
    ASSUME NEW a, IsState(a), NEW p, Len(p.siblings) \in Nat,
           p.key \in Seq(Byte), p.value \in Seq(Byte),
           VerifyBinary(p, StateRoot(a)) = "yes"
    PROVE  LeafInput(p.key, p.value) \in Members(Leaves(a))
<1> DEFINE raw == Leaves(a)
           pair == LeafInput(p.key, p.value)
           N == Nodes(Hashed(raw))
<1>1. HashedUp(Blake3Leaf(pair), p.siblings, p.directions) = StateRoot(a)
  BY DEF VerifyBinary
<1>2. PICK n \in Nat : n = Len(p.siblings)
  OBVIOUS
<1>3. PICK h : /\ h[0] = Blake3Leaf(pair)
               /\ h[n] = HashedUp(Blake3Leaf(pair), p.siblings, p.directions)
               /\ \A i \in 1 .. n : h[i] = Parent(h[i - 1], p.siblings, p.directions, i)
  <2> HIDE DEF pair
  <2>1. PICK leaf, sib, dir : leaf = Blake3Leaf(pair) /\ sib = p.siblings /\ dir = p.directions
    OBVIOUS
  <2>2. n \in Nat /\ Len(sib) = n
    BY <1>2, <2>1
  <2>3. PICK h : IsChain(h, leaf, sib, dir, n)
    BY <2>2, HashedUpClimbs
  <2>4. QED
    BY <2>1, <2>3 DEF IsChain
<1>4. IsList(raw) /\ <<>> \notin Members(raw)
  BY LeavesList
<1>5. Len(raw) # 0
  <2> SUFFICES ASSUME Len(raw) = 0 PROVE FALSE
    OBVIOUS
  <2>1. h[n] = Blake3Leaf(<<>>)
    BY <1>1, <1>3, <1>4, RootIsTop DEF StateRoot
  <2>2. CASE n = 0
    <3>1. pair = <<>>
      <4> HIDE DEF pair
      <4>1. QED
        BY <1>3, <2>1, <2>2, HashesAreTerms
    <3>2. pair # <<>>
      BY LeafInputIs
    <3>3. QED
      BY <3>1, <3>2
  <2>3. CASE n # 0
    <3>1. n \in 1 .. n
      BY <2>3
    <3>2. \E x, y : h[n] = Blake3Node(x, y)
      BY <1>3, <3>1 DEF Parent
    <3>3. QED
      BY <2>1, <3>2, HashesAreTerms
  <2>4. QED
    BY <2>2, <2>3
<1>6. Len(raw) >= 1 /\ StateRoot(a) = TreeTop(Hashed(raw))
  BY <1>4, <1>5, RootIsTop DEF StateRoot
<1> HIDE DEF raw, pair
<1>7. /\ IsList(Hashed(raw)) /\ Len(Hashed(raw)) = Len(raw)
      /\ \A x : Blake3Leaf(x) \in N => x \in Members(raw)
      /\ \A x, y : Blake3Node(x, y) \in N => x \in N /\ y \in N
  BY <1>4, <1>6, TreeOverPayloads
<1>8. TreeTop(Hashed(raw)) \in N
  BY <1>6, <1>7, TopIsANode
<1> HIDE DEF N
<1> DEFINE Bad == {k \in 0 .. n : h[n - k] \notin N}
<1>9. Bad = {}
  <2> SUFFICES ASSUME Bad # {} PROVE FALSE
    OBVIOUS
  <2>1. PICK k \in Bad : \A m \in Bad : k <= m
    <3>1. Bad \subseteq Nat
      OBVIOUS
    <3> HIDE DEF Bad
    <3>2. QED
      BY <3>1, NatMin
  <2>2. k \in 0 .. n /\ h[n - k] \notin N
    BY <2>1
  <2>3. k # 0
    <3>1. n - 0 = n
      OBVIOUS
    <3>2. QED
      BY <1>1, <1>3, <1>6, <1>8, <2>2, <3>1
  <2>4. k - 1 \in 0 .. n /\ k - 1 < k
    BY <2>2, <2>3
  <2>5. k - 1 \notin Bad
    <3> HIDE DEF Bad
    <3>1. QED
      BY <2>1, <2>2, <2>4
  <2>6. PICK i : i = n - (k - 1)
    OBVIOUS
  <2>7. i \in 1 .. n /\ i - 1 = n - k
    BY <2>2, <2>3, <2>6
  <2>8. h[i] \in N
    BY <2>4, <2>5, <2>6
  <2>9. h[i] = Parent(h[i - 1], p.siblings, p.directions, i)
    BY <1>3, <2>7
  <2>10. h[i - 1] \in N
    BY <1>7, <2>8, <2>9 DEF Parent
  <2>11. QED
    BY <2>2, <2>7, <2>10
<1>10. h[n - n] \in N
  <2>1. n \in 0 .. n
    OBVIOUS
  <2>2. QED
    BY <1>9, <2>1
<1>11. n - n = 0
  OBVIOUS
<1>12. pair \in Members(raw)
  BY <1>3, <1>7, <1>10, <1>11
<1>13. QED
  BY <1>12 DEF raw, pair
-------------------------------------------------------------------------------
(***************************************************************************)
(* Proofs that are built from the state.                                   *)
(***************************************************************************)
\* The 0-based index, on each level, of the ancestor of leaf i.
IsIndex(at, i, n) ==
    at = [d \in 0 .. n |-> IF d = 0 THEN i - 1 ELSE at[d - 1] \div 2]

\* The recursion has a solution.
LEMMA IndexExists ==
    ASSUME NEW i, NEW n \in Nat
    PROVE  \E at : IsIndex(at, i, n)
<1> DEFINE Val(g, d) == IF d = 0 THEN i - 1 ELSE g[d - 1] \div 2
           Solves(g, k) == g = [d \in 0 .. k |-> Val(g, d)]
           Bad == {k \in Nat : ~ \E g : Solves(g, k)}
<1>1. Bad = {}
  <2> SUFFICES ASSUME Bad # {} PROVE FALSE
    OBVIOUS
  <2>1. PICK k \in Bad : \A m \in Bad : k <= m
    BY NatMin
  <2>2. k \in Nat /\ ~ \E g : Solves(g, k)
    BY <2>1
  <2>3. CASE k = 0
    <3> DEFINE h == [d \in 0 .. 0 |-> i - 1]
    <3>1. Solves(h, 0)
      OBVIOUS
    <3>2. QED
      BY <2>2, <2>3, <3>1
  <2>4. CASE k # 0
    <3>1. k - 1 \in Nat /\ k - 1 \notin Bad
      <4> HIDE DEF Bad
      <4>1. QED
        BY <2>1, <2>2, <2>4
    <3>2. PICK g : Solves(g, k - 1)
      BY <3>1
    <3> DEFINE h == [d \in 0 .. k |-> Val(g, d)]
    <3>3. \A d \in 0 .. k - 1 : g[d] = Val(g, d) /\ h[d] = g[d]
      BY <2>2, <3>2
    <3>4. \A d \in 0 .. k : d # 0 => d - 1 \in 0 .. k - 1
      BY <2>2
    <3>5. \A d \in 0 .. k : Val(g, d) = Val(h, d)
      <4> HIDE DEF h
      <4>1. QED
        BY <3>3, <3>4
    <3>6. Solves(h, k)
      BY <3>5
    <3>7. QED
      BY <2>2, <3>6
  <2>5. QED
    BY <2>3, <2>4
<1>2. QED
  BY <1>1 DEF IsIndex

\* The levels below the top, and the top.
IsDepth(d, L, n) ==
    d \in 0 .. n /\ Len(L[d]) = 1 /\ \A e \in 0 .. d - 1 : Len(L[e]) > 1

\* Some level is the first that holds one node.
LEMMA DepthExists ==
    ASSUME NEW s, IsList(s), Len(s) >= 1, NEW L, IsLevels(L, s)
    PROVE  \E d : IsDepth(d, L, Len(s))
<1> DEFINE Ones == {d \in 0 .. Len(s) : Len(L[d]) = 1}
<1>1. PICK n \in Nat : n = Len(s)
  BY DEF IsList
<1>2. /\ \A d \in 0 .. n : IsList(L[d]) /\ Len(L[d]) >= 1
      /\ Len(L[n]) = 1
  BY <1>1, LevelsShrink
<1>3. Ones \subseteq Nat /\ Ones # {}
  <2>1. n \in 0 .. n
    OBVIOUS
  <2>2. QED
    BY <1>1, <1>2, <2>1
<1>4. PICK d \in Ones : \A e \in Ones : d <= e
  <2> HIDE DEF Ones
  <2>1. QED
    BY <1>3, NatMin
<1>5. d \in 0 .. n /\ Len(L[d]) = 1
  BY <1>1, <1>4
<1>6. ASSUME NEW e \in 0 .. d - 1 PROVE Len(L[e]) > 1
  <2>1. e \in 0 .. n /\ ~ (d <= e)
    BY <1>5
  <2>2. e \notin Ones
    <3> HIDE DEF Ones
    <3>1. QED
      BY <1>4, <2>1
  <2>3. PICK m : m = Len(L[e])
    OBVIOUS
  <2>4. m \in Nat /\ m >= 1 /\ m # 1
    BY <1>1, <1>2, <2>1, <2>2, <2>3 DEF IsList
  <2>5. m > 1
    BY <2>4
  <2>6. QED
    BY <2>3, <2>5
<1>7. QED
  BY <1>1, <1>5, <1>6 DEF IsDepth

\* From that level on nothing changes, so its node is the top.
LEMMA TopAtDepth ==
    ASSUME NEW s, IsList(s), Len(s) >= 1, NEW d, IsDepth(d, LevelAt(s), Len(s))
    PROVE  TreeTop(s) = LevelAt(s)[d][1]
<1>1. PICK L : L = LevelAt(s)
  OBVIOUS
<1>2. PICK n \in Nat : n = Len(s)
  BY DEF IsList
<1>3. IsLevels(L, s)
  BY <1>1, <1>2, LevelsExist
<1>4. d \in 0 .. n /\ Len(L[d]) = 1
  BY <1>1, <1>2 DEF IsDepth
<1> DEFINE Bad == {e \in d .. n : L[e] # L[d]}
<1>5. Bad = {}
  <2> SUFFICES ASSUME Bad # {} PROVE FALSE
    OBVIOUS
  <2>1. PICK e \in Bad : \A m \in Bad : e <= m
    <3>1. Bad \subseteq Nat
      BY <1>4
    <3> HIDE DEF Bad
    <3>2. QED
      BY <3>1, NatMin
  <2>2. e \in d .. n /\ L[e] # L[d]
    BY <2>1
  <2>3. e # d
    BY <2>2
  <2>4. e - 1 \in d .. n /\ e \in 1 .. n /\ ~ (e <= e - 1)
    BY <1>4, <2>2, <2>3
  <2>5. e - 1 \notin Bad
    <3> HIDE DEF Bad
    <3>1. QED
      BY <2>1, <2>4
  <2>6. L[e - 1] = L[d]
    BY <2>4, <2>5
  <2>7. L[e] = Up(L[e - 1])
    BY <1>2, <1>3, <2>4 DEF IsLevels
  <2>8. Len(L[d]) <= 1
    BY <1>4
  <2>9. QED
    BY <2>2, <2>6, <2>7, <2>8 DEF Up
<1>6. n \in d .. n
  BY <1>4
<1>7. L[n] = L[d]
  BY <1>5, <1>6
<1>8. QED
  BY <1>1, <1>2, <1>7 DEF TreeTop

\* The sibling of the node with 0-based index a on level t.
Sibling(t, a) ==
    t[(IF a % 2 = 1 THEN a - 1 ELSE IF a + 2 <= Len(t) THEN a + 1 ELSE a) + 1]

\* The siblings and their sides, up to level d, for the indices at.
IsPath(sib, dir, L, at, d) ==
    /\ sib = [e \in 1 .. d |-> Sibling(L[e - 1], at[e - 1])]
    /\ dir = [e \in 1 .. d |-> at[e - 1] % 2]

\* What Path returns.
LEMMA PathIs ==
    ASSUME NEW s, IsList(s), Len(s) >= 1, NEW i
    PROVE  \E at, d : /\ IsIndex(at, i, Len(s)) /\ IsDepth(d, LevelAt(s), Len(s))
                      /\ IsPath(Path(s, i).siblings, Path(s, i).directions, LevelAt(s), at, d)
<1> DEFINE n == Len(s)
           L == LevelAt(s)
           at == CHOOSE g : IsIndex(g, i, n)
           d == CHOOSE c \in 0 .. n : Len(L[c]) = 1 /\ \A e \in 0 .. c - 1 : Len(L[e]) > 1
<1>1. n \in Nat
  BY DEF IsList
<1>2. IsIndex(at, i, n)
  BY <1>1, IndexExists
<1>3. IsDepth(d, L, n)
  <2>1. IsLevels(L, s)
    BY <1>1, LevelsExist
  <2> HIDE DEF L
  <2>2. \E c : IsDepth(c, L, n)
    BY <2>1, DepthExists
  <2>3. QED
    BY <2>2 DEF IsDepth
<1>4. Path(s, i) = [siblings |-> [e \in 1 .. d |-> Sibling(L[e - 1], at[e - 1])],
                    directions |-> [e \in 1 .. d |-> at[e - 1] % 2]]
  BY DEF Path, IsIndex, Sibling
<1> HIDE DEF d, at, L
<1>5. IsPath(Path(s, i).siblings, Path(s, i).directions, L, at, d)
  BY <1>4 DEF IsPath
<1>6. QED
  BY <1>2, <1>3, <1>5 DEF L

\* One level up: the parent of a node and its sibling is the node above.
LEMMA ParentIsAbove ==
    ASSUME NEW t, IsList(t), NEW a \in 0 .. Len(t) - 1, NEW sib, NEW dir, NEW e,
           sib[e] = Sibling(t, a), dir[e] = a % 2
    PROVE  /\ Parent(t[a + 1], sib, dir, e) = Level(t)[a \div 2 + 1]
           /\ a \div 2 \in 0 .. Len(Level(t)) - 1
<1>1. PICK m \in Nat : m = Len(t)
  BY DEF IsList
<1>2. a \in Nat /\ a <= m - 1
  BY <1>1
<1>3. PICK j : j = a \div 2 + 1
  OBVIOUS
<1>4. /\ j \in Nat /\ j \in 1 .. (m + 1) \div 2 /\ a \div 2 = j - 1
      /\ a % 2 \in {0, 1}
      /\ a % 2 = 0 => 2 * j - 1 = a + 1 /\ 2 * j = a + 2
      /\ a % 2 = 1 => 2 * j - 1 = a /\ 2 * j = a + 1
  BY <1>2, <1>3
<1>5. /\ Len(Level(t)) = (m + 1) \div 2
      /\ Level(t)[j] = Blake3Node(t[2 * j - 1], IF 2 * j <= m THEN t[2 * j] ELSE t[2 * j - 1])
  BY <1>1, <1>4, LevelType
<1>6. a \div 2 \in 0 .. Len(Level(t)) - 1
  <2>1. (m + 1) \div 2 \in Nat
    OBVIOUS
  <2>2. QED
    BY <1>4, <1>5, <2>1
<1>7. CASE a % 2 = 0
  <2>1. Level(t)[j] = Blake3Node(t[a + 1], IF a + 2 <= m THEN t[a + 2] ELSE t[a + 1])
    BY <1>4, <1>5, <1>7
  <2>2. /\ a + 2 <= m => sib[e] = t[(a + 1) + 1]
        /\ ~ (a + 2 <= m) => sib[e] = t[a + 1]
    BY <1>1, <1>7 DEF Sibling
  <2>3. (a + 1) + 1 = a + 2
    BY <1>2
  <2>4. Parent(t[a + 1], sib, dir, e) = Blake3Node(t[a + 1], sib[e])
    BY <1>7 DEF Parent
  <2>5. QED
    BY <1>3, <1>6, <2>1, <2>2, <2>3, <2>4
<1>8. CASE a % 2 = 1
  <2>1. 2 * j <= m
    BY <1>2, <1>4, <1>8
  <2>2. Level(t)[j] = Blake3Node(t[a], t[a + 1])
    BY <1>4, <1>5, <1>8, <2>1
  <2>3. sib[e] = t[(a - 1) + 1] /\ (a - 1) + 1 = a
    BY <1>2, <1>8 DEF Sibling
  <2>4. Parent(t[a + 1], sib, dir, e) = Blake3Node(sib[e], t[a + 1])
    BY <1>8 DEF Parent
  <2>5. QED
    BY <1>3, <1>6, <2>2, <2>3, <2>4
<1>9. QED
  BY <1>4, <1>7, <1>8

\* The path of a leaf leads from it to the top.
LEMMA PathsLeadUp ==
    ASSUME NEW s, IsList(s), Len(s) >= 1, NEW i \in 1 .. Len(s),
           NEW sib, NEW dir, sib = Path(s, i).siblings, dir = Path(s, i).directions,
           Truncated \notin Nodes(s)
    PROVE  /\ IsList(sib) /\ IsList(dir) /\ ~ BadPath(sib, dir)
           /\ HashedUp(s[i], sib, dir) = TreeTop(s)
<1>1. PICK n \in Nat : n = Len(s)
  BY DEF IsList
<1>2. PICK L : L = LevelAt(s)
  OBVIOUS
<1>3. IsLevels(L, s)
  BY <1>1, <1>2, LevelsExist
<1>4. \A c \in 0 .. n : IsList(L[c])
  BY <1>1, <1>3, LevelsShrink
<1>5. PICK at, d : IsIndex(at, i, n) /\ IsDepth(d, L, n) /\ IsPath(sib, dir, L, at, d)
  BY <1>1, <1>2, PathIs
<1>6. d \in Nat /\ d <= n /\ Len(L[d]) = 1 /\ \A e \in 0 .. d - 1 : Len(L[e]) > 1
  <2>1. d \in 0 .. n
    BY <1>5 DEF IsDepth
  <2>2. QED
    BY <1>5, <2>1 DEF IsDepth
<1>7. /\ IsList(sib) /\ Len(sib) = d /\ IsList(dir) /\ Len(dir) = d
      /\ \A e \in 1 .. d : sib[e] = Sibling(L[e - 1], at[e - 1]) /\ dir[e] = at[e - 1] % 2
  <2>1. /\ sib \in [1 .. d -> {Sibling(L[e - 1], at[e - 1]) : e \in 1 .. d}]
        /\ dir \in [1 .. d -> {at[e - 1] % 2 : e \in 1 .. d}]
    BY <1>5 DEF IsPath
  <2>2. IsList(sib) /\ Len(sib) = d /\ IsList(dir) /\ Len(dir) = d
    BY <1>6, <2>1, ListType
  <2>3. QED
    BY <1>5, <2>2 DEF IsPath
<1>8. PICK h : /\ h[0] = s[i] /\ h[d] = HashedUp(s[i], sib, dir)
               /\ \A e \in 1 .. d : h[e] = Parent(h[e - 1], sib, dir, e)
  <2>1. d \in Nat /\ Len(sib) = d
    BY <1>6, <1>7
  <2>2. QED
    BY <2>1, HashedUpClimbs DEF IsChain
<1> DEFINE Good(e) == at[e] \in 0 .. Len(L[e]) - 1 /\ h[e] = L[e][at[e] + 1]
           Bad == {e \in 0 .. d : ~ Good(e)}
<1>9. Good(0)
  <2>1. at[0] = i - 1
    BY <1>5 DEF IsIndex
  <2>2. L[0] = s
    BY <1>3 DEF IsLevels
  <2>3. i - 1 \in 0 .. n - 1 /\ (i - 1) + 1 = i
    BY <1>1
  <2>4. QED
    BY <1>1, <1>8, <2>1, <2>2, <2>3
<1>10. ASSUME NEW e \in 1 .. d, Good(e - 1) PROVE Good(e)
  <2>1. e \in 1 .. n /\ e - 1 \in 0 .. n /\ e - 1 \in 0 .. d - 1 /\ e \in 0 .. n /\ e # 0
    BY <1>6
  <2>2. PICK t, a : t = L[e - 1] /\ a = at[e - 1]
    OBVIOUS
  <2>3. IsList(t) /\ Len(t) > 1
    BY <1>4, <1>6, <2>1, <2>2
  <2>4. L[e] = Level(t)
    <3>1. L[e] = Up(t)
      BY <1>1, <1>3, <2>1, <2>2 DEF IsLevels
    <3>2. PICK m \in Nat : m = Len(t)
      BY <2>3 DEF IsList
    <3>3. ~ (m <= 1)
      BY <2>3, <3>2
    <3>4. QED
      BY <3>1, <3>2, <3>3 DEF Up
  <2>5. at[e] = a \div 2
    BY <1>5, <2>1, <2>2 DEF IsIndex
  <2>6. a \in 0 .. Len(t) - 1 /\ h[e - 1] = t[a + 1]
    BY <1>10, <2>2
  <2>7. sib[e] = Sibling(t, a) /\ dir[e] = a % 2
    BY <1>7, <2>2
  <2>8. /\ Parent(t[a + 1], sib, dir, e) = Level(t)[a \div 2 + 1]
        /\ a \div 2 \in 0 .. Len(Level(t)) - 1
    BY <2>3, <2>6, <2>7, ParentIsAbove
  <2>9. h[e] = Parent(h[e - 1], sib, dir, e)
    BY <1>8
  <2>10. QED
    BY <2>4, <2>5, <2>6, <2>8, <2>9
<1> HIDE DEF Good
<1>11. Bad = {}
  <2> SUFFICES ASSUME Bad # {} PROVE FALSE
    OBVIOUS
  <2>1. PICK e \in Bad : \A m \in Bad : e <= m
    <3>1. Bad \subseteq Nat
      BY <1>6
    <3> HIDE DEF Bad
    <3>2. QED
      BY <3>1, NatMin
  <2>2. e \in 0 .. d /\ ~ Good(e)
    BY <2>1
  <2>3. e \in 1 .. d /\ e - 1 \in 0 .. d /\ ~ (e <= e - 1)
    <3>1. e # 0
      BY <1>9, <2>2
    <3>2. QED
      BY <1>6, <2>2, <3>1
  <2>4. e - 1 \notin Bad
    <3> HIDE DEF Bad
    <3>1. QED
      BY <2>1, <2>3
  <2>5. Good(e - 1)
    BY <2>3, <2>4
  <2>6. QED
    BY <1>10, <2>2, <2>3, <2>5
<1>12. d \in 0 .. d /\ \A e \in 1 .. d : e - 1 \in 0 .. d
  BY <1>6
<1>13. h[d] = L[d][1]
  <2>1. Good(d)
    BY <1>11, <1>12
  <2>2. at[d] \in 0 .. Len(L[d]) - 1 /\ h[d] = L[d][at[d] + 1]
    BY <2>1 DEF Good
  <2>3. PICK m : m = Len(L[d])
    OBVIOUS
  <2>4. m = 1 /\ at[d] \in 0 .. m - 1
    BY <1>6, <2>2, <2>3
  <2>5. at[d] = 0
    BY <2>4
  <2>6. QED
    BY <2>2, <2>5
<1>14. ASSUME NEW e \in 1 .. d PROVE dir[e] \in {0, 1}
  <2>1. Good(e - 1)
    BY <1>11, <1>12
  <2>2. PICK a, m : a = at[e - 1] /\ m = Len(L[e - 1])
    OBVIOUS
  <2>3. a \in 0 .. m - 1
    BY <2>1, <2>2 DEF Good
  <2>4. a \in Int
    BY <2>3
  <2>5. a % 2 \in {0, 1}
    BY <2>4
  <2>6. QED
    BY <1>7, <2>2, <2>5
<1>15. TreeTop(s) = L[d][1]
  BY <1>1, <1>2, <1>5, TopAtDepth
<1>16. ASSUME NEW e \in 1 .. d PROVE sib[e] # Truncated
  <2>1. Good(e - 1) /\ e - 1 \in 0 .. n
    BY <1>6, <1>11, <1>12
  <2>2. PICK a, t : a = at[e - 1] /\ t = L[e - 1]
    OBVIOUS
  <2>3. PICK m \in Nat : m = Len(t)
    BY <1>4, <2>1, <2>2 DEF IsList
  <2>4. a \in 0 .. m - 1
    BY <2>1, <2>2, <2>3 DEF Good
  <2>5. PICK j : j = (IF a % 2 = 1 THEN a - 1 ELSE IF a + 2 <= m THEN a + 1 ELSE a) + 1
    OBVIOUS
  <2>6. j \in 1 .. m
    <3>1. a % 2 = 1 => a >= 1
      BY <2>4
    <3>2. QED
      BY <2>4, <2>5, <3>1
  <2>7. sib[e] = t[j]
    BY <1>7, <2>2, <2>3, <2>5 DEF Sibling
  <2>8. sib[e] \in Members(LevelAt(s)[e - 1])
    BY <1>2, <2>2, <2>3, <2>6, <2>7 DEF Members
  <2>9. sib[e] \in Nodes(s)
    BY <1>1, <2>1, <2>8 DEF Nodes
  <2>10. QED
    BY <2>9
<1>17. ~ BadPath(sib, dir)
  BY <1>7, <1>14, <1>16 DEF BadPath
<1>18. QED
  BY <1>7, <1>8, <1>13, <1>15, <1>17

\* A proof of the builder: what Prove(k) puts together from the accounts a.
Built(a, k) ==
    LET s == Leaves(a)
        i == CHOOSE j \in 1 .. Len(s) : SortedKeys(DOMAIN a)[j] = k
        path == Path([j \in 1 .. Len(s) |-> Blake3Leaf(s[j])], i)
    IN  [key |-> NameOf[k], value |-> a[k],
         siblings |-> path.siblings, directions |-> path.directions]

\* Nothing in a tree over payloads is shorter than a hash.
LEMMA NodesAreHashes ==
    ASSUME NEW raw, IsList(raw), Len(raw) >= 1
    PROVE  Truncated \notin Nodes(Hashed(raw))
<1> SUFFICES ASSUME Truncated \in Nodes(Hashed(raw)) PROVE FALSE
  OBVIOUS
<1>1. /\ IsList(Hashed(raw)) /\ Len(Hashed(raw)) = Len(raw)
      /\ \A i \in 1 .. Len(raw) : Hashed(raw)[i] = Blake3Leaf(raw[i])
  BY TreeOverPayloads
<1>2. Truncated \in Members(Hashed(raw)) \/ \E a, b : Truncated = Blake3Node(a, b)
  BY <1>1, NodesAreClosed
<1>3. Len(Truncated) = 1
  BY DEF Truncated
<1>4. ASSUME NEW x PROVE Truncated # Blake3Leaf(x)
  <2>1. Len(Blake3Leaf(x)) = 2
    BY DEF Blake3Leaf
  <2>2. QED
    BY <1>3, <2>1
<1>5. ASSUME NEW a, NEW b PROVE Truncated # Blake3Node(a, b)
  <2>1. Len(Blake3Node(a, b)) = 3
    BY DEF Blake3Node
  <2>2. QED
    BY <1>3, <2>1
<1>6. Truncated \notin Members(Hashed(raw))
  BY <1>1, <1>4 DEF Members
<1>7. QED
  BY <1>2, <1>5, <1>6

\* VerifyBinary accepts it.
LEMMA BuiltVerifies ==
    ASSUME NEW a, IsState(a), NEW k \in DOMAIN a
    PROVE  /\ IsList(Built(a, k).siblings) /\ IsList(Built(a, k).directions)
           /\ VerifyBinary(Built(a, k), StateRoot(a)) = "yes"
<1> DEFINE raw == Leaves(a)
           keys == SortedKeys(DOMAIN a)
           i == CHOOSE j \in 1 .. Len(raw) : keys[j] = k
           path == Path(Hashed(raw), i)
           b == Built(a, k)
<1>1. /\ IsList(raw)
      /\ \A j \in 1 .. Len(raw) : raw[j] = LeafInput(NameOf[keys[j]], a[keys[j]])
      /\ \E j \in 1 .. Len(raw) : keys[j] = k
  BY LeavesList
<1>2. b = [key |-> NameOf[k], value |-> a[k],
           siblings |-> path.siblings, directions |-> path.directions]
  BY DEF Built, Hashed
<1>3. /\ b.key = NameOf[k] /\ b.value = a[k]
      /\ b.siblings = path.siblings /\ b.directions = path.directions
  <2> HIDE DEF path
  <2>1. QED
    BY <1>2
<1> HIDE DEF b, raw, keys
<1>4. i \in 1 .. Len(raw) /\ keys[i] = k
  BY <1>1
<1> HIDE DEF i
<1>5. raw[i] = LeafInput(NameOf[k], a[k])
  BY <1>1, <1>4
<1>6. Len(raw) >= 1 /\ Len(raw) # 0
  <2>1. PICK m \in Nat : m = Len(raw)
    BY <1>1 DEF IsList
  <2>2. m >= 1 /\ m # 0
    BY <1>4, <2>1
  <2>3. QED
    BY <2>1, <2>2
<1>7. StateRoot(a) = TreeTop(Hashed(raw))
  BY <1>1, <1>6, RootIsTop DEF StateRoot, raw
<1>8. /\ IsList(Hashed(raw)) /\ Len(Hashed(raw)) = Len(raw)
      /\ Hashed(raw)[i] = Blake3Leaf(raw[i])
  BY <1>1, <1>4, <1>6, TreeOverPayloads
<1>9. PICK sib, dir : sib = path.siblings /\ dir = path.directions
  OBVIOUS
<1>10. /\ IsList(sib) /\ IsList(dir) /\ ~ BadPath(sib, dir)
       /\ HashedUp(Hashed(raw)[i], sib, dir) = TreeTop(Hashed(raw))
  <2>1. Truncated \notin Nodes(Hashed(raw))
    BY <1>1, <1>6, NodesAreHashes
  <2>2. QED
    BY <1>4, <1>6, <1>8, <1>9, <2>1, PathsLeadUp
<1>11. VerifyBinary(b, StateRoot(a)) = "yes"
  BY <1>3, <1>5, <1>7, <1>8, <1>9, <1>10 DEF VerifyBinary
<1>12. QED
  BY <1>3, <1>9, <1>10, <1>11 DEF b
-------------------------------------------------------------------------------
(***************************************************************************)
(* The specification.                                                      *)
(***************************************************************************)
\* A proof has its fields: two byte strings and two lists.
IsProof(p) ==
    /\ p = [key |-> p.key, value |-> p.value,
            siblings |-> p.siblings, directions |-> p.directions]
    /\ p.key \in Seq(Byte) /\ p.value \in Seq(Byte)
    /\ IsList(p.siblings) /\ IsList(p.directions)

\* The accounts are a state, and what the verifier holds is a proof.
StateInv ==
    /\ IsState(accts)
    /\ age \in Nat
    /\ proof # NoProof => IsProof(proof)

\* A record with these fields is a proof.
LEMMA MakesProof ==
    ASSUME NEW k \in Seq(Byte), NEW v \in Seq(Byte), NEW sib, IsList(sib), NEW dir, IsList(dir),
           NEW q, q = [key |-> k, value |-> v, siblings |-> sib, directions |-> dir]
    PROVE  IsProof(q)
<1>1. q.key = k /\ q.value = v /\ q.siblings = sib /\ q.directions = dir
  OBVIOUS
<1>2. QED
  BY <1>1 DEF IsProof

\* A list stays one when its first element goes or one of its elements changes.
LEMMA ListEdits ==
    ASSUME NEW s, IsList(s), NEW i \in DOMAIN s, NEW x
    PROVE  IsList([s EXCEPT ![i] = x]) /\ (1 \in DOMAIN s => IsList(Tail(s)))
<1>1. PICK n \in Nat : n = Len(s)
  BY DEF IsList
<1>2. s \in [1 .. n -> Members(s)] /\ DOMAIN s = 1 .. n
  BY <1>1 DEF IsList
<1>3. [s EXCEPT ![i] = x] \in [1 .. n -> Members(s) \cup {x}]
  BY <1>2
<1>4. IsList([s EXCEPT ![i] = x])
  BY <1>3, ListType
<1>5. ASSUME 1 \in DOMAIN s PROVE IsList(Tail(s))
  <2>1. s \in Seq(Members(s)) /\ s # <<>>
    BY <1>1, <1>2, <1>5
  <2>2. Tail(s) \in Seq(Members(s))
    BY <2>1
  <2>3. PICK t, T : t = Tail(s) /\ T = Members(s)
    OBVIOUS
  <2>4. t \in Seq(T)
    BY <2>2, <2>3
  <2>5. Len(t) \in Nat /\ t \in [1 .. Len(t) -> T]
    BY <2>4
  <2>6. QED
    BY <2>3, <2>5, ListType
<1>6. QED
  BY <1>4, <1>5

\* An altered proof still has its fields and lists.
LEMMA AlteredIsProof ==
    ASSUME NEW p, IsProof(p), NEW q \in Altered(p)
    PROVE  IsProof(q)
<1>1. PICK k, v, sib, dir : k = p.key /\ v = p.value /\ sib = p.siblings /\ dir = p.directions
  OBVIOUS
<1>2. /\ p = [key |-> k, value |-> v, siblings |-> sib, directions |-> dir]
      /\ k \in Seq(Byte) /\ v \in Seq(Byte) /\ IsList(sib) /\ IsList(dir)
  BY <1>1 DEF IsProof
<1>3. ASSUME NEW j \in Seq(Byte), q = [p EXCEPT !.key = j] PROVE IsProof(q)
  <2>1. q = [key |-> j, value |-> v, siblings |-> sib, directions |-> dir]
    BY <1>2, <1>3
  <2>2. QED
    BY <1>2, <2>1, MakesProof
<1>4. ASSUME NEW j \in Seq(Byte), q = [p EXCEPT !.value = j] PROVE IsProof(q)
  <2>1. q = [key |-> k, value |-> j, siblings |-> sib, directions |-> dir]
    BY <1>2, <1>4
  <2>2. QED
    BY <1>2, <2>1, MakesProof
<1>5. ASSUME 1 \in DOMAIN sib, q = [p EXCEPT !.siblings = Tail(@)] PROVE IsProof(q)
  <2>1. q = [key |-> k, value |-> v, siblings |-> Tail(sib), directions |-> dir]
    BY <1>2, <1>5
  <2>2. IsList(Tail(sib))
    BY <1>2, <1>5, ListEdits
  <2>3. QED
    BY <1>2, <2>1, <2>2, MakesProof
<1>6. ASSUME NEW i \in DOMAIN dir, NEW d, q = [p EXCEPT !.directions[i] = d] PROVE IsProof(q)
  <2>1. q = [key |-> k, value |-> v, siblings |-> sib, directions |-> [dir EXCEPT ![i] = d]]
    BY <1>2, <1>6
  <2>2. IsList([dir EXCEPT ![i] = d])
    BY <1>2, ListEdits
  <2>3. QED
    BY <1>2, <2>1, <2>2, MakesProof
<1>7. ASSUME NEW i \in DOMAIN sib, NEW x, q = [p EXCEPT !.siblings[i] = x] PROVE IsProof(q)
  <2>1. q = [key |-> k, value |-> v, siblings |-> [sib EXCEPT ![i] = x], directions |-> dir]
    BY <1>2, <1>7
  <2>2. IsList([sib EXCEPT ![i] = x])
    BY <1>2, ListEdits
  <2>3. QED
    BY <1>2, <2>1, <2>2, MakesProof
<1>8. ASSUME 1 \in DOMAIN sib, 1 \in DOMAIN dir,
             q = [p EXCEPT !.siblings = Tail(@), !.directions = Tail(dir)]
      PROVE  IsProof(q)
  <2>1. q = [key |-> k, value |-> v, siblings |-> Tail(sib), directions |-> Tail(dir)]
    BY <1>2, <1>8
  <2>2. IsList(Tail(sib)) /\ IsList(Tail(dir))
    BY <1>2, <1>8, ListEdits
  <2>3. QED
    BY <1>2, <2>1, <2>2, MakesProof
<1>9. ASSUME q \in Splits(p) PROVE IsProof(q)
  <2>1. PICK l : l = LeafInput(p.key, p.value)
    OBVIOUS
  <2>2. l \in Seq(Byte)
    BY <1>1, <1>2, <2>1, LeafInputIs
  <2>3. PICK i \in 1 .. Len(l) :
          q = [p EXCEPT !.key = SubSeq(l, 1, i - 1), !.value = SubSeq(l, i + 1, Len(l))]
    BY <1>9, <2>1 DEF Splits
  <2>4. PICK x, w : x = SubSeq(l, 1, i - 1) /\ w = SubSeq(l, i + 1, Len(l))
    OBVIOUS
  <2>5. x \in Seq(Byte) /\ w \in Seq(Byte)
    BY <2>2, <2>4
  <2>6. q = [key |-> x, value |-> w, siblings |-> sib, directions |-> dir]
    BY <1>2, <2>3, <2>4
  <2>7. QED
    BY <1>2, <2>5, <2>6, MakesProof
<1> DEFINE A1 == {[p EXCEPT !.key = NameOf[j]] : j \in Holder}
           A2 == {[p EXCEPT !.value = j] : j \in Content}
           A3 == {[p EXCEPT !.siblings = Tail(@)] : i \in {1} \cap DOMAIN p.siblings}
           A4 == {[p EXCEPT !.directions[i] = d] : i \in DOMAIN p.directions, d \in 0 .. 2}
           A5 == {[p EXCEPT !.siblings[i] = x] : i \in DOMAIN p.siblings, x \in OtherSibling}
           A6 == {[p EXCEPT !.siblings = Tail(@), !.directions = Tail(p.directions)] :
                    i \in {1} \cap DOMAIN p.siblings \cap DOMAIN p.directions}
<1>10. q \in A1 \/ q \in A2 \/ q \in Splits(p) \/ q \in A3 \/ q \in A4 \/ q \in A5 \/ q \in A6
  <2>1. Altered(p) = A1 \cup A2 \cup Splits(p) \cup A3 \cup A4 \cup A5 \cup A6
    BY DEF Altered
  <2> HIDE DEF A1, A2, A3, A4, A5, A6
  <2>2. QED
    BY <2>1
<1>11. CASE q \in A1
  <2>1. PICK j \in Holder : q = [p EXCEPT !.key = NameOf[j]]
    BY <1>11
  <2>2. NameOf[j] \in Seq(Byte)
    BY StateProofAssumption
  <2>3. QED
    BY <1>3, <2>1, <2>2
<1>12. CASE q \in A2
  <2>1. \A j \in Content : j \in Seq(Byte)
    BY ContentAssumption
  <2>2. QED
    BY <1>4, <1>12, <2>1
<1>13. CASE q \in A3
  BY <1>1, <1>5, <1>13
<1>14. CASE q \in A4
  BY <1>1, <1>6, <1>14
<1>15. CASE q \in A5
  BY <1>1, <1>7, <1>15
<1>16. CASE q \in A6
  BY <1>1, <1>8, <1>16
<1> HIDE DEF A1, A2, A3, A4, A5, A6
<1>17. QED
  BY <1>9, <1>10, <1>11, <1>12, <1>13, <1>14, <1>15, <1>16

\* One account more or changed gives a state.
LEMMA SetAccountStep ==
    ASSUME NEW k \in Holder, NEW v \in Content, SetAccount(k, v), StateInv
    PROVE  IsState(accts')
<1>1. PICK f, a : f = accts' /\ a = accts
  OBVIOUS
<1>2. /\ f = [j \in DOMAIN a \cup {k} |-> IF j = k THEN v ELSE a[j]]
      /\ DOMAIN a \subseteq Holder /\ \A j \in DOMAIN a : a[j] \in Content
  BY <1>1 DEF SetAccount, StateInv, IsState
<1>3. IsState(f)
  BY <1>2 DEF IsState
<1>4. QED
  BY <1>1, <1>3

\* A step that builds a proof builds it from the accounts.
LEMMA ProveStep ==
    ASSUME NEW k \in Holder, Prove(k)
    PROVE  k \in DOMAIN accts /\ accts' = accts /\ proof' = Built(accts, k) /\ age' = 0
BY DEF Prove, Built

\* The invariant holds.
LEMMA StateInvHolds == ProofSpec => []StateInv
<1>1. ProofInit => StateInv
  <2> SUFFICES ASSUME ProofInit PROVE StateInv
    OBVIOUS
  <2>1. DOMAIN accts = {} /\ accts = [k \in DOMAIN accts |-> accts[k]]
    BY DEF ProofInit
  <2>2. QED
    BY <2>1 DEF ProofInit, StateInv, IsState
<1>2. StateInv /\ [ProofNext]_proofVars => StateInv'
  <2> SUFFICES ASSUME StateInv, [ProofNext]_proofVars PROVE StateInv'
    OBVIOUS
  <2>1. ASSUME NEW k \in Holder, NEW v \in Content, SetAccount(k, v) PROVE StateInv'
    <3>1. IsState(accts')
      BY <2>1, SetAccountStep
    <3>2. age' \in Nat
      BY <2>1 DEF SetAccount, StateInv
    <3>3. proof' = proof
      BY <2>1 DEF SetAccount
    <3>4. QED
      BY <3>1, <3>2, <3>3 DEF StateInv
  <2>2. ASSUME NEW k \in Holder, Prove(k) PROVE StateInv'
    <3>1. PICK a : a = accts
      OBVIOUS
    <3>2. k \in DOMAIN a /\ accts' = a /\ proof' = Built(a, k) /\ age' = 0 /\ IsState(a)
      BY <2>2, <3>1, ProveStep DEF StateInv
    <3>3. IsList(Built(a, k).siblings) /\ IsList(Built(a, k).directions)
      BY <3>2, BuiltVerifies
    <3>4. \E sib, dir : Built(a, k) = [key |-> NameOf[k], value |-> a[k],
                                       siblings |-> sib, directions |-> dir]
      BY DEF Built
    <3>5. IsProof(Built(a, k))
      <4>1. PICK b, sib, dir : /\ b = Built(a, k)
                               /\ b = [key |-> NameOf[k], value |-> a[k],
                                       siblings |-> sib, directions |-> dir]
        BY <3>4
      <4>2. b.siblings = sib /\ b.directions = dir
        BY <4>1
      <4>3. IsProof(b)
        BY <3>2, <3>3, <4>1, <4>2, StateBytes, MakesProof
      <4>4. QED
        BY <4>1, <4>3
    <3>6. QED
      BY <3>2, <3>5 DEF StateInv
  <2>3. CASE Alter
    <3>1. PICK p, q : p = proof /\ q = proof'
      OBVIOUS
    <3>2. /\ p # NoProof /\ q \in Altered(p) /\ age' = age + 1 /\ accts' = accts
      BY <2>3, <3>1 DEF Alter
    <3>3. IsProof(q)
      BY <3>1, <3>2, AlteredIsProof DEF StateInv
    <3>4. QED
      BY <3>1, <3>2, <3>3 DEF StateInv
  <2>4. CASE UNCHANGED proofVars
    BY <2>4 DEF proofVars, StateInv
  <2>5. QED
    BY <2>1, <2>2, <2>3, <2>4 DEF ProofNext
<1>3. QED
  BY <1>1, <1>2, PTL DEF ProofSpec

\* RootsIdentifyStates: whenever an account appears or changes, DB.StateRoot changes,
\* although the tree repeats the last node of an odd level.
THEOREM StateRootsIdentifyStates == ProofSpec => RootsIdentifyStates
<1>1. StateInv /\ StateInv' /\ accts # accts' => StateRoot(accts) # StateRoot(accts')
  <2> SUFFICES ASSUME StateInv, StateInv', StateRoot(accts) = StateRoot(accts')
               PROVE  accts = accts'
    OBVIOUS
  <2>1. PICK a, b : a = accts /\ b = accts'
    OBVIOUS
  <2>2. IsState(a) /\ IsState(b)
    BY <2>1 DEF StateInv
  <2>3. StateRoot(a) = StateRoot(b)
    BY <2>1
  <2>4. a = b
    BY <2>2, <2>3, RootFixesState
  <2>5. QED
    BY <2>1, <2>4
<1>2. QED
  BY <1>1, StateInvHolds, PTL DEF RootsIdentifyStates

\* What a proof says is so: its leaf is an account's, and so are its key and its value.
IsTrueOf(p, a) ==
    \E k \in DOMAIN a :
        /\ LeafInput(p.key, p.value) = LeafInput(NameOf[k], a[k])
        /\ NulFree(p.value) => p.key = NameOf[k] /\ p.value = a[k]

\* AcceptedIsTrue: whatever was done to a proof on the way, and however old it is,
\* VerifyBinary accepts it only for a leaf of the state, and, if its value has no NUL,
\* only for the account of that name with that value.  Names are any byte strings.
THEOREM VerifierAcceptsTruthOnly == ProofSpec => []AcceptedIsTrue
<1>1. StateInv => AcceptedIsTrue
  <2> SUFFICES ASSUME StateInv, proof # NoProof,
                      VerifyBinary(proof, StateRoot(accts)) = "yes"
               PROVE  IsTrueOf(proof, accts)
    BY DEF AcceptedIsTrue, IsTrueOf
  <2>1. PICK a, p : a = accts /\ p = proof
    OBVIOUS
  <2>2. /\ IsState(a) /\ Len(p.siblings) \in Nat /\ VerifyBinary(p, StateRoot(a)) = "yes"
        /\ p.key \in Seq(Byte) /\ p.value \in Seq(Byte)
    BY <2>1 DEF StateInv, IsProof, IsList
  <2>3. LeafInput(p.key, p.value) \in Members(Leaves(a))
    BY <2>2, AcceptedIsLeaf
  <2>4. IsTrueOf(p, a)
    BY <2>2, <2>3, LeafIsAccount DEF IsTrueOf
  <2>5. QED
    BY <2>1, <2>4
<1>2. QED
  BY <1>1, StateInvHolds, PTL

\* FreshProofsVerify: a proof built from the accounts as they are leads to their root,
\* for every number of accounts and every key.
THEOREM FreshProofsAreAccepted == ProofSpec => []FreshProofsVerify
<1>1. ProofInit => FreshProofsVerify
  BY DEF ProofInit, FreshProofsVerify
<1>2. StateInv /\ FreshProofsVerify /\ [ProofNext]_proofVars => FreshProofsVerify'
  <2> SUFFICES ASSUME StateInv, FreshProofsVerify, [ProofNext]_proofVars PROVE FreshProofsVerify'
    OBVIOUS
  <2>1. ASSUME NEW k \in Holder, NEW v \in Content, SetAccount(k, v) PROVE FreshProofsVerify'
    <3>1. proof' = proof /\ age \in Nat
      BY <2>1 DEF SetAccount, StateInv
    <3>2. CASE proof = NoProof
      BY <3>1, <3>2 DEF FreshProofsVerify
    <3>3. CASE proof # NoProof /\ accts' = accts
      <4>1. age' = age
        BY <2>1, <3>3 DEF SetAccount
      <4>2. QED
        BY <3>1, <3>3, <4>1 DEF FreshProofsVerify
    <3>4. CASE proof # NoProof /\ accts' # accts
      <4>1. age' = age + 1
        BY <2>1, <3>4 DEF SetAccount
      <4>2. age' # 0
        BY <3>1, <4>1
      <4>3. QED
        BY <4>2 DEF FreshProofsVerify
    <3>5. QED
      BY <3>2, <3>3, <3>4
  <2>2. ASSUME NEW k \in Holder, Prove(k) PROVE FreshProofsVerify'
    <3>1. PICK a, b : a = accts /\ b = proof'
      OBVIOUS
    <3>2. k \in DOMAIN a /\ accts' = a /\ b = Built(a, k) /\ IsState(a)
      BY <2>2, <3>1, ProveStep DEF StateInv
    <3>3. VerifyBinary(b, StateRoot(a)) = "yes"
      BY <3>2, BuiltVerifies
    <3>4. QED
      BY <3>1, <3>2, <3>3 DEF FreshProofsVerify
  <2>3. CASE Alter
    <3>1. age' = age + 1 /\ age \in Nat
      BY <2>3 DEF Alter, StateInv
    <3>2. age' # 0
      BY <3>1
    <3>3. QED
      BY <3>2 DEF FreshProofsVerify
  <2>4. CASE UNCHANGED proofVars
    BY <2>4 DEF proofVars, FreshProofsVerify
  <2>5. QED
    BY <2>1, <2>2, <2>3, <2>4 DEF ProofNext
<1>3. QED
  BY <1>1, <1>2, StateInvHolds, PTL DEF ProofSpec
===============================================================================
