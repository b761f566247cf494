------------------------------ MODULE BaseProofs ------------------------------
(***************************************************************************)
(* What the proofs of several modules share: least elements, sums over     *)
(* finite sets, and hash trees.                                            *)
(*                                                                         *)
(* MapThenSumSet, with which the properties add up balances, amounts and   *)
(* mints, picks the elements by CHOOSE, through a recursive function on    *)
(* the subsets of its set.  That the function exists, that the order of    *)
(* the picks does not matter and that subsets have their own sums is shown *)
(* by taking a counterexample of least cardinality.  The levels of a tree  *)
(* are a recursive function too, and are treated in the same way.          *)
(***************************************************************************)
EXTENDS Integers, Sequences, FiniteSetsExt, Merkle,
        FiniteSetTheorems, WellFoundedInduction, TLAPS

\* Every set of natural numbers that is not empty has a least element: induction, in
\* the form in which the proofs below use it.
LEMMA NatMin ==
    ASSUME NEW T, T \subseteq Nat, T # {}
    PROVE  \E n \in T : \A m \in T : n <= m
<1>1. IsWellFoundedOn(OpToRel(<, Nat), Nat)
  BY NatLessThanWellFounded
<1>2. PICK n \in T : \A m \in T : ~ (<<m, n>> \in OpToRel(<, Nat))
  BY <1>1, WFMin
<1>3. ASSUME NEW m \in T PROVE n <= m
  <2>1. <<m, n>> \notin OpToRel(<, Nat)
    BY <1>2
  <2>2. ~(m < n)
    BY <2>1 DEF OpToRel
  <2>3. QED
    BY <2>2
<1>4. QED
  BY <1>3

\* Among the subsets of a finite set some have the fewest elements.
LEMMA SubsetMin ==
    ASSUME NEW S, IsFiniteSet(S), NEW B, B \subseteq SUBSET S, B # {}
    PROVE  \E s \in B : \A r \in B : Cardinality(s) <= Cardinality(r)
<1> DEFINE C == {Cardinality(s) : s \in B}
<1>1. C \subseteq Nat
  BY FS_Subset, FS_CardinalityType
<1>2. C # {}
  OBVIOUS
<1>3. PICK n \in C : \A m \in C : n <= m
  BY <1>1, <1>2, NatMin
<1>4. QED
  BY <1>3

\* Taking an element away makes a finite set smaller.
LEMMA Smaller ==
    ASSUME NEW S, IsFiniteSet(S), NEW s \in SUBSET S, NEW x \in s
    PROVE  /\ IsFiniteSet(s) /\ IsFiniteSet(s \ {x})
           /\ Cardinality(s) \in Nat /\ Cardinality(s \ {x}) \in Nat
           /\ Cardinality(s \ {x}) = Cardinality(s) - 1
BY FS_Subset, FS_RemoveElement, FS_CardinalityType

\* The last of some indices is one of them.
LEMMA MaxUpTo ==
    ASSUME NEW n \in Nat, NEW I \in SUBSET (0 .. n), I # {}
    PROVE  Max(I) \in I /\ \A j \in I : Max(I) >= j
<1> DEFINE T == {n - i : i \in I}
<1>1. T \subseteq Nat /\ T # {}
  <2>1. \A i \in I : n - i \in Nat
    OBVIOUS
  <2>2. \E i \in I : n - i \in T
    OBVIOUS
  <2>3. QED
    BY <2>1, <2>2
<1>2. PICK m \in T : \A k \in T : m <= k
  BY <1>1, NatMin
<1>3. PICK i \in I : m = n - i
  BY <1>2
<1>4. ASSUME NEW j \in I PROVE i >= j
  <2>1. n - j \in T
    OBVIOUS
  <2>2. n - i <= n - j
    BY <1>2, <1>3, <2>1
  <2>3. i \in Int /\ j \in Int
    OBVIOUS
  <2>4. QED
    BY <2>2, <2>3
<1>5. QED
  BY <1>4 DEF Max

\* The same of a set of places.
LEMMA MaxType ==
    ASSUME NEW n \in Nat, NEW I \in SUBSET (1 .. n), I # {}
    PROVE  Max(I) \in I /\ \A j \in I : Max(I) >= j
<1>1. I \in SUBSET (0 .. n)
  OBVIOUS
<1>2. QED
  BY <1>1, MaxUpTo

\* A one-to-one map of an interval into itself reaches all of it.
LEMMA OneToOneIsOnto ==
    ASSUME NEW n \in Nat, NEW p \in [1 .. n -> 1 .. n],
           \A i, j \in 1 .. n : i # j => p[i] # p[j]
    PROVE  \A j \in 1 .. n : \E i \in 1 .. n : p[i] = j
<1> DEFINE D == 1 .. n
<1> SUFFICES ASSUME NEW j \in D, \A i \in D : p[i] # j PROVE FALSE
  OBVIOUS
<1>1. IsFiniteSet(D) /\ Cardinality(D) = n
  BY FS_Interval
<1>2. IsFiniteSet(D \ {j}) /\ Cardinality(D \ {j}) = n - 1
  BY <1>1, FS_RemoveElement
<1>3. p \in [D -> D \ {j}]
  OBVIOUS
<1>4. \E x, y \in D : x # y /\ p[x] = p[y]
  <2> DEFINE E == D \ {j}
  <2>1. Cardinality(E) < Cardinality(D) /\ IsFiniteSet(E) /\ p \in [D -> E]
    BY <1>1, <1>2, <1>3
  <2> HIDE DEF D, E
  <2>2. QED
    BY <1>1, <2>1, FS_PigeonHole
<1>5. QED
  BY <1>4
-------------------------------------------------------------------------------
\* The sum of f[x] over x in S, and the element it takes first.
Sum(f, S) == MapThenSumSet(LAMBDA x : f[x], S)

First(s) == CHOOSE x \in s : TRUE

\* What the recursive function of the sum is at s.
SumAt(g, f, s) == IF s = {} THEN 0 ELSE f[First(s)] + g[s \ {First(s)}]

\* g is the recursive function by which the sum over S is defined.
IsSum(g, f, S) == g = [s \in SUBSET S |-> SumAt(g, f, s)]

\* The element a sum takes first is one of the set.
LEMMA FirstType ==
    ASSUME NEW s, s # {}
    PROVE  First(s) \in s
BY DEF First

\* The recursion has a solution.
LEMMA SumExists ==
    ASSUME NEW S, IsFiniteSet(S), NEW f
    PROVE  \E g : IsSum(g, f, S)
<1> DEFINE Small(n) == {s \in SUBSET S : Cardinality(s) <= n}
           Solves(g, n) == g = [s \in Small(n) |-> SumAt(g, f, s)]
           Bad == {n \in Nat : ~ \E g : Solves(g, n)}
<1>1. Bad = {}
  <2> SUFFICES ASSUME Bad # {} PROVE FALSE
    OBVIOUS
  <2>1. PICK n \in Bad : \A m \in Bad : n <= m
    BY NatMin
  <2>2. n \in Nat /\ ~ \E g : Solves(g, n)
    BY <2>1
  <2>3. CASE n = 0
    <3> DEFINE h == [s \in Small(0) |-> 0]
    <3>1. \A s \in Small(0) : s = {}
      <4> TAKE s \in Small(0)
      <4>1. IsFiniteSet(s) /\ Cardinality(s) \in Nat /\ Cardinality(s) <= 0
        BY FS_Subset, FS_CardinalityType
      <4>2. QED
        BY <4>1, FS_EmptySet
    <3>2. Solves(h, 0)
      BY <3>1 DEF SumAt
    <3>3. QED
      BY <2>2, <2>3, <3>2
  <2>4. CASE n # 0
    <3>1. n - 1 \in Nat /\ n - 1 \notin Bad
      <4> HIDE DEF Bad
      <4>1. QED
        BY <2>1, <2>2, <2>4
    <3>2. PICK g : Solves(g, n - 1)
      BY <3>1
    <3> DEFINE h == [s \in Small(n) |-> SumAt(g, f, s)]
    <3>3. \A s \in Small(n) : s # {} => s \ {First(s)} \in Small(n - 1) \cap Small(n)
      <4> TAKE s \in Small(n)
      <4> HAVE s # {}
      <4>1. First(s) \in s
        BY FirstType
      <4>2. /\ Cardinality(s \ {First(s)}) \in Nat /\ Cardinality(s) \in Nat
            /\ Cardinality(s \ {First(s)}) = Cardinality(s) - 1
        BY <4>1, Smaller
      <4>3. s \ {First(s)} \in SUBSET S /\ Cardinality(s) <= n
        OBVIOUS
      <4>4. QED
        BY <2>2, <4>2, <4>3
    <3>4. \A s \in Small(n - 1) : g[s] = SumAt(g, f, s)
      BY <3>2
    <3>5. \A s \in Small(n - 1) \cap Small(n) : h[s] = g[s]
      BY <3>4
    <3>6. \A s \in Small(n) : SumAt(g, f, s) = SumAt(h, f, s)
      <4> TAKE s \in Small(n)
      <4> HIDE DEF h, Small
      <4>1. QED
        BY <3>3, <3>5 DEF SumAt
    <3>7. Solves(h, n)
      BY <3>6
    <3>8. QED
      BY <2>2, <3>7
  <2>5. QED
    BY <2>3, <2>4
<1>2. Cardinality(S) \in Nat
  BY FS_CardinalityType
<1>3. PICK g : Solves(g, Cardinality(S))
  BY <1>1, <1>2
<1>4. Small(Cardinality(S)) = SUBSET S
  BY FS_Subset
<1>5. QED
  BY <1>3, <1>4 DEF IsSum

\* The solutions for a set and for a larger one agree.
LEMMA SumUnique ==
    ASSUME NEW S, IsFiniteSet(S), NEW T \in SUBSET S, NEW f, NEW g, NEW h,
           IsSum(g, f, S), IsSum(h, f, T)
    PROVE  g[T] = h[T]
<1> DEFINE B == {s \in SUBSET T : g[s] # h[s]}
<1>1. B = {}
  <2> SUFFICES ASSUME B # {} PROVE FALSE
    OBVIOUS
  <2>1. IsFiniteSet(T)
    BY FS_Subset
  <2>2. PICK s \in B : \A r \in B : Cardinality(s) <= Cardinality(r)
    BY <2>1, SubsetMin
  <2>3. /\ s \in SUBSET T /\ s \in SUBSET S /\ g[s] # h[s]
        /\ g[s] = SumAt(g, f, s) /\ h[s] = SumAt(h, f, s)
    BY <2>2 DEF IsSum
  <2>4. s # {}
    BY <2>3 DEF SumAt
  <2>5. First(s) \in s
    BY <2>4, FirstType
  <2>6. s \ {First(s)} \notin B
    <3>1. /\ Cardinality(s) \in Nat /\ Cardinality(s \ {First(s)}) \in Nat
          /\ Cardinality(s \ {First(s)}) = Cardinality(s) - 1
      BY <2>1, <2>3, <2>5, Smaller
    <3> HIDE DEF B
    <3>2. QED
      BY <2>2, <3>1
  <2>7. g[s \ {First(s)}] = h[s \ {First(s)}]
    BY <2>3, <2>6
  <2>8. QED
    BY <2>3, <2>4, <2>7 DEF SumAt
<1>2. QED
  BY <1>1

\* The sum is the value of the recursive function at the whole set.
LEMMA SumUnfold ==
    ASSUME NEW S, IsFiniteSet(S), NEW f, NEW g, IsSum(g, f, S)
    PROVE  Sum(f, S) = g[S]
<1> DEFINE it == CHOOSE h : IsSum(h, f, S)
<1>1. IsSum(it, f, S)
  OBVIOUS
<1>2. Sum(f, S) = it[S]
  BY DEF Sum, MapThenSumSet, MapThenFoldSet, IsSum, SumAt, First
<1>3. QED
  BY <1>1, <1>2, SumUnique

\* The sum of nothing is zero.
LEMMA SumEmpty ==
    ASSUME NEW f
    PROVE  Sum(f, {}) = 0
<1>1. IsFiniteSet({})
  BY FS_EmptySet
<1>2. PICK g : IsSum(g, f, {})
  BY <1>1, SumExists
<1>3. QED
  BY <1>1, <1>2, SumUnfold DEF IsSum, SumAt

\* Functions that agree on a set have the same sum over it.
LEMMA SumEqual ==
    ASSUME NEW S, IsFiniteSet(S), NEW f, NEW h, \A x \in S : f[x] = h[x]
    PROVE  Sum(f, S) = Sum(h, S)
<1>1. PICK g : IsSum(g, f, S)
  BY SumExists
<1>2. \A s \in SUBSET S : SumAt(g, f, s) = SumAt(g, h, s)
  BY FirstType DEF SumAt
<1>3. IsSum(g, h, S)
  BY <1>1, <1>2 DEF IsSum
<1>4. QED
  BY <1>1, <1>3, SumUnfold

\* Sums of integers are integers, and of natural numbers natural numbers.
LEMMA SumType ==
    ASSUME NEW S, IsFiniteSet(S), NEW f
    PROVE  /\ (\A x \in S : f[x] \in Int) => Sum(f, S) \in Int
           /\ (\A x \in S : f[x] \in Nat) => Sum(f, S) \in Nat
<1>1. PICK g : IsSum(g, f, S)
  BY SumExists
<1>2. ASSUME NEW N \in {Int, Nat}, \A x \in S : f[x] \in N
      PROVE  g[S] \in N
  <2> DEFINE B == {s \in SUBSET S : g[s] \notin N}
  <2> SUFFICES ASSUME B # {} PROVE FALSE
    OBVIOUS
  <2>1. PICK s \in B : \A r \in B : Cardinality(s) <= Cardinality(r)
    BY SubsetMin
  <2>2. s \in SUBSET S /\ g[s] = SumAt(g, f, s) /\ g[s] \notin N
    BY <1>1, <2>1 DEF IsSum
  <2>3. s # {}
    BY <1>2, <2>2 DEF SumAt
  <2>4. First(s) \in s
    BY <2>3, FirstType
  <2>5. /\ Cardinality(s) \in Nat /\ Cardinality(s \ {First(s)}) \in Nat
        /\ Cardinality(s \ {First(s)}) = Cardinality(s) - 1
    BY <2>2, <2>4, Smaller
  <2>6. s \ {First(s)} \notin B
    <3> HIDE DEF B
    <3>1. QED
      BY <2>1, <2>5
  <2>7. g[s \ {First(s)}] \in N /\ f[First(s)] \in N
    BY <1>2, <2>2, <2>4, <2>6
  <2>8. g[s] = f[First(s)] + g[s \ {First(s)}]
    BY <2>2, <2>3 DEF SumAt
  <2>9. \A a, b \in N : a + b \in N
    BY <1>2
  <2>10. QED
    BY <2>2, <2>7, <2>8, <2>9
<1>3. QED
  BY <1>1, <1>2, SumUnfold

\* Any element can be taken first.
LEMMA SumAny ==
    ASSUME NEW S, IsFiniteSet(S), NEW f, \A x \in S : f[x] \in Int,
           NEW g, IsSum(g, f, S)
    PROVE  \A s \in SUBSET S : \A x \in s : g[s] = f[x] + g[s \ {x}]
<1> DEFINE B == {s \in SUBSET S : ~ \A x \in s : g[s] = f[x] + g[s \ {x}]}
<1> SUFFICES ASSUME B # {} PROVE FALSE
  OBVIOUS
<1>1. PICK s \in B : \A r \in B : Cardinality(s) <= Cardinality(r)
  BY SubsetMin
<1>2. s \in SUBSET S /\ g[s] = SumAt(g, f, s)
  BY <1>1 DEF IsSum
<1>3. PICK x \in s : g[s] # f[x] + g[s \ {x}]
  BY <1>1
<1> DEFINE c == First(s)
           r == s \ {x}
           d == (s \ {x}) \ {c}
<1>4. c \in s /\ g[s] = f[c] + g[s \ {c}]
  BY <1>2, <1>3, FirstType DEF SumAt
<1>5. c # x
  BY <1>3, <1>4
<1>6. ASSUME NEW y \in s PROVE s \ {y} \notin B
  <2>1. /\ Cardinality(s) \in Nat /\ Cardinality(s \ {y}) \in Nat
        /\ Cardinality(s \ {y}) = Cardinality(s) - 1
    BY <1>2, Smaller
  <2> HIDE DEF B
  <2>2. QED
    BY <1>1, <2>1
<1>7. g[s \ {x}] = f[c] + g[d]
  BY <1>2, <1>4, <1>5, <1>6
<1>8. g[s \ {c}] = f[x] + g[d]
  <2>1. (s \ {c}) \ {x} = d /\ x \in s \ {c} /\ s \ {c} \in SUBSET S
    BY <1>2, <1>5
  <2>2. QED
    BY <1>4, <1>6, <2>1
<1>9. g[d] \in Int
  <2>1. d \in SUBSET S /\ IsFiniteSet(d)
    BY <1>2, FS_Subset
  <2>2. PICK k : IsSum(k, f, d)
    BY <2>1, SumExists
  <2>3. g[d] = k[d] /\ Sum(f, d) = k[d]
    BY <2>1, <2>2, SumUnique, SumUnfold
  <2>4. Sum(f, d) \in Int
    BY <2>1, SumType
  <2>5. QED
    BY <2>3, <2>4
<1>10. f[c] \in Int /\ f[x] \in Int
  BY <1>2, <1>4
<1>11. QED
  BY <1>3, <1>4, <1>7, <1>8, <1>9, <1>10

\* The sum over a set is the sum over the rest of it and the element left out.
LEMMA SumSplit ==
    ASSUME NEW S, IsFiniteSet(S), NEW f, \A x \in S : f[x] \in Int, NEW a \in S
    PROVE  Sum(f, S) = f[a] + Sum(f, S \ {a})
<1>1. PICK g : IsSum(g, f, S)
  BY SumExists
<1>2. PICK h : IsSum(h, f, S \ {a})
  BY SumExists, FS_Subset
<1>3. g[S] = f[a] + g[S \ {a}]
  BY <1>1, SumAny
<1>4. g[S \ {a}] = h[S \ {a}]
  BY <1>1, <1>2, SumUnique
<1>5. QED
  BY <1>1, <1>2, <1>3, <1>4, SumUnfold, FS_Subset

\* A new element adds its value.
LEMMA SumAdd ==
    ASSUME NEW S, IsFiniteSet(S), NEW f, NEW a, a \notin S,
           \A x \in S \cup {a} : f[x] \in Int
    PROVE  Sum(f, S \cup {a}) = f[a] + Sum(f, S)
<1> DEFINE T == S \cup {a}
<1>1. T \ {a} = S /\ a \in T
  OBVIOUS
<1>2. IsFiniteSet(T) /\ \A x \in T : f[x] \in Int
  BY FS_AddElement
<1> HIDE DEF T
<1>3. Sum(f, T) = f[a] + Sum(f, T \ {a})
  BY <1>1, <1>2, SumSplit
<1>4. QED
  BY <1>1, <1>3 DEF T

\* Changing one value changes the sum by as much.
LEMMA SumUpdate ==
    ASSUME NEW S, IsFiniteSet(S), NEW f, NEW h, NEW a \in S,
           \A x \in S : f[x] \in Int, \A x \in S : h[x] \in Int,
           \A x \in S \ {a} : h[x] = f[x]
    PROVE  Sum(h, S) = Sum(f, S) + h[a] - f[a]
<1>1. IsFiniteSet(S \ {a})
  BY FS_Subset
<1>2. Sum(h, S \ {a}) = Sum(f, S \ {a})
  BY <1>1, SumEqual
<1>3. Sum(h, S) = h[a] + Sum(h, S \ {a}) /\ Sum(f, S) = f[a] + Sum(f, S \ {a})
  BY SumSplit
<1>4. Sum(f, S \ {a}) \in Int /\ f[a] \in Int /\ h[a] \in Int
  BY <1>1, SumType
<1>5. QED
  BY <1>2, <1>3, <1>4

\* No summand exceeds a sum of natural numbers.
LEMMA SumBounds ==
    ASSUME NEW S, IsFiniteSet(S), NEW f, \A x \in S : f[x] \in Nat, NEW a \in S
    PROVE  f[a] <= Sum(f, S)
<1>1. Sum(f, S) = f[a] + Sum(f, S \ {a})
  BY SumSplit
<1>2. Sum(f, S \ {a}) \in Nat /\ f[a] \in Nat
  BY SumType, FS_Subset
<1>3. QED
  BY <1>1, <1>2
\* Induction over the subsets of a finite set: what holds of a set when it holds of the
\* set without any one element holds of all of them.
LEMMA SubsetInduction ==
    ASSUME NEW S, IsFiniteSet(S), NEW G,
           \A s \in SUBSET S : (\A x \in s : s \ {x} \in G) => s \in G
    PROVE  S \in G
<1> DEFINE B == {s \in SUBSET S : s \notin G}
<1> SUFFICES ASSUME B # {} PROVE FALSE
  OBVIOUS
<1>1. PICK s \in B : \A r \in B : Cardinality(s) <= Cardinality(r)
  BY SubsetMin
<1>2. PICK x \in s : s \ {x} \notin G
  BY <1>1
<1>3. s \ {x} \in B
  BY <1>1, <1>2
<1>4. /\ Cardinality(s) \in Nat /\ Cardinality(s \ {x}) \in Nat
      /\ Cardinality(s \ {x}) = Cardinality(s) - 1
  BY <1>1, Smaller
<1> HIDE DEF B
<1>5. QED
  BY <1>1, <1>3, <1>4

\* A sum is no larger than another whose terms are no smaller.
LEMMA SumLe ==
    ASSUME NEW S, IsFiniteSet(S), NEW f, NEW h,
           \A x \in S : f[x] \in Int /\ h[x] \in Int /\ f[x] <= h[x]
    PROVE  Sum(f, S) <= Sum(h, S)
<1> DEFINE G == {s \in SUBSET S : Sum(f, s) <= Sum(h, s)}
<1>1. ASSUME NEW s \in SUBSET S, \A x \in s : s \ {x} \in G
      PROVE  s \in G
  <2>1. IsFiniteSet(s)
    BY FS_Subset
  <2>2. CASE s = {}
    BY <2>2, SumEmpty
  <2>3. CASE s # {}
    <3>1. PICK x : x \in s
      BY <2>3
    <3>2. Sum(f, s) = f[x] + Sum(f, s \ {x}) /\ Sum(h, s) = h[x] + Sum(h, s \ {x})
      BY <2>1, <3>1, SumSplit
    <3>3. Sum(f, s \ {x}) \in Int /\ Sum(h, s \ {x}) \in Int
      BY <2>1, <3>1, SumType, FS_Subset
    <3>4. Sum(f, s \ {x}) <= Sum(h, s \ {x})
      BY <1>1, <3>1
    <3>5. f[x] \in Int /\ h[x] \in Int /\ f[x] <= h[x]
      BY <3>1
    <3>6. Sum(f, s) <= Sum(h, s)
      BY <3>2, <3>3, <3>4, <3>5
    <3>7. QED
      BY <3>6
  <2>4. QED
    BY <2>2, <2>3
<1>2. S \in G
  <2> HIDE DEF G
  <2>1. QED
    BY <1>1, SubsetInduction
<1>3. QED
  BY <1>2

\* Two sums over one set, added term by term.
LEMMA SumPlus ==
    ASSUME NEW S, IsFiniteSet(S), NEW f, NEW g, NEW h,
           \A x \in S : f[x] \in Int /\ g[x] \in Int /\ h[x] = f[x] + g[x]
    PROVE  Sum(h, S) = Sum(f, S) + Sum(g, S)
<1> DEFINE G == {s \in SUBSET S : Sum(h, s) = Sum(f, s) + Sum(g, s)}
<1>1. ASSUME NEW s \in SUBSET S, \A x \in s : s \ {x} \in G
      PROVE  s \in G
  <2>1. IsFiniteSet(s)
    BY FS_Subset
  <2>2. CASE s = {}
    BY <2>2, SumEmpty
  <2>3. CASE s # {}
    <3>1. PICK x : x \in s
      BY <2>3
    <3>2. /\ Sum(f, s) = f[x] + Sum(f, s \ {x}) /\ Sum(g, s) = g[x] + Sum(g, s \ {x})
          /\ Sum(h, s) = h[x] + Sum(h, s \ {x})
      BY <2>1, <3>1, SumSplit
    <3>3. Sum(f, s \ {x}) \in Int /\ Sum(g, s \ {x}) \in Int
      BY <2>1, <3>1, SumType, FS_Subset
    <3>4. Sum(h, s \ {x}) = Sum(f, s \ {x}) + Sum(g, s \ {x})
      BY <1>1, <3>1
    <3>5. f[x] \in Int /\ g[x] \in Int /\ h[x] = f[x] + g[x]
      BY <3>1
    <3>6. Sum(h, s) = Sum(f, s) + Sum(g, s)
      BY <3>2, <3>3, <3>4, <3>5
    <3>7. QED
      BY <3>6
  <2>4. QED
    BY <2>2, <2>3
<1>2. S \in G
  <2> HIDE DEF G
  <2>1. QED
    BY <1>1, SubsetInduction
<1>3. QED
  BY <1>2

\* A factor can be taken out of a sum, and what is added to each term counts once for
\* each.
LEMMA SumScale ==
    ASSUME NEW S, IsFiniteSet(S), NEW f, NEW h, NEW c \in Int, NEW d \in Int,
           \A x \in S : f[x] \in Int /\ h[x] = c * f[x] + d
    PROVE  Sum(h, S) = c * Sum(f, S) + d * Cardinality(S)
<1> DEFINE G == {s \in SUBSET S : Sum(h, s) = c * Sum(f, s) + d * Cardinality(s)}
<1>1. ASSUME NEW s \in SUBSET S, \A x \in s : s \ {x} \in G
      PROVE  s \in G
  <2>1. IsFiniteSet(s)
    BY FS_Subset
  <2>2. CASE s = {}
    BY <2>2, SumEmpty, FS_EmptySet
  <2>3. CASE s # {}
    <3>1. PICK x : x \in s
      BY <2>3
    <3>2. f[x] \in Int /\ h[x] = c * f[x] + d
      BY <3>1
    <3>3. \A y \in s : h[y] \in Int
      <4> TAKE y \in s
      <4>1. PICK b \in Int : b = f[y]
        OBVIOUS
      <4>2. h[y] = c * b + d /\ c * b \in Int
        BY <4>1
      <4>3. QED
        BY <4>2
    <3>4. /\ Sum(f, s) = f[x] + Sum(f, s \ {x})
          /\ Sum(h, s) = h[x] + Sum(h, s \ {x})
      BY <2>1, <3>1, <3>3, SumSplit
    <3>5. PICK u \in Int, k \in Nat : u = Sum(f, s \ {x}) /\ k = Cardinality(s \ {x})
      BY <2>1, <3>1, SumType, FS_Subset, FS_CardinalityType
    <3>6. Cardinality(s) = k + 1
      <4>1. /\ Cardinality(s) \in Nat /\ Cardinality(s \ {x}) \in Nat
            /\ Cardinality(s \ {x}) = Cardinality(s) - 1
        BY <3>1, Smaller
      <4>2. QED
        BY <3>5, <4>1
    <3>7. Sum(h, s \ {x}) = c * u + d * k
      BY <1>1, <3>1, <3>5
    <3>8. PICK a \in Int : a = f[x]
      BY <3>2
    <3>9. c * (a + u) = c * a + c * u /\ d * (k + 1) = d * k + d
      BY <3>5, <3>8
    <3>10. c * a \in Int /\ c * u \in Int /\ d * k \in Int
      BY <3>5, <3>8
    <3>11. Sum(h, s) = c * (a + u) + d * (k + 1)
      BY <3>2, <3>4, <3>7, <3>8, <3>9, <3>10
    <3>12. QED
      BY <3>4, <3>5, <3>6, <3>8, <3>11
  <2>4. QED
    BY <2>2, <2>3
<1>2. S \in G
  <2> HIDE DEF G
  <2>1. QED
    BY <1>1, SubsetInduction
<1>3. QED
  BY <1>2

\* Terms that are zero can be left out.
LEMMA SumSupport ==
    ASSUME NEW S, IsFiniteSet(S), NEW T \in SUBSET S, NEW f, \A x \in S : f[x] \in Int,
           \A x \in S \ T : f[x] = 0
    PROVE  Sum(f, S) = Sum(f, T)
<1> DEFINE G == {s \in SUBSET S : Sum(f, s) = Sum(f, s \cap T)}
<1>1. ASSUME NEW s \in SUBSET S, \A x \in s : s \ {x} \in G
      PROVE  s \in G
  <2>1. IsFiniteSet(s) /\ IsFiniteSet(s \cap T)
    BY FS_Subset
  <2>2. CASE s \subseteq T
    <3>1. s \cap T = s
      BY <2>2
    <3>2. QED
      BY <3>1
  <2>3. CASE ~(s \subseteq T)
    <3>1. PICK x : x \in s /\ x \notin T
      BY <2>3
    <3>2. Sum(f, s) = f[x] + Sum(f, s \ {x})
      BY <2>1, <3>1, SumSplit
    <3>3. Sum(f, s \ {x}) \in Int
      BY <2>1, SumType, FS_Subset
    <3>4. (s \ {x}) \cap T = s \cap T
      BY <3>1
    <3>5. Sum(f, s \ {x}) = Sum(f, s \cap T)
      BY <1>1, <3>1, <3>4
    <3>6. f[x] = 0
      BY <3>1
    <3>7. QED
      BY <3>2, <3>3, <3>5, <3>6
  <2>4. QED
    BY <2>2, <2>3
<1>2. S \in G
  <2> HIDE DEF G
  <2>1. QED
    BY <1>1, SubsetInduction
<1>3. S \cap T = T
  OBVIOUS
<1>4. QED
  BY <1>2, <1>3

\* A sum over the image of a set under a one-to-one map is a sum over the set.
LEMMA SumImage ==
    ASSUME NEW S, IsFiniteSet(S), NEW f, NEW g, NEW p,
           \A x, y \in S : p[x] = p[y] => x = y,
           \A x \in S : f[x] \in Int /\ g[p[x]] = f[x]
    PROVE  /\ IsFiniteSet({p[x] : x \in S})
           /\ Sum(g, {p[x] : x \in S}) = Sum(f, S)
<1> DEFINE Im(s) == {p[x] : x \in s}
           G == {s \in SUBSET S : IsFiniteSet(Im(s)) /\ Sum(g, Im(s)) = Sum(f, s)}
<1>1. ASSUME NEW s \in SUBSET S, \A x \in s : s \ {x} \in G
      PROVE  s \in G
  <2>1. IsFiniteSet(s)
    BY FS_Subset
  <2>2. CASE s = {}
    <3>1. Im(s) = {}
      BY <2>2
    <3>2. QED
      BY <2>2, <3>1, SumEmpty, FS_EmptySet
  <2>3. CASE s # {}
    <3>1. PICK x : x \in s
      BY <2>3
    <3>2. Sum(f, s) = f[x] + Sum(f, s \ {x})
      BY <2>1, <3>1, SumSplit
    <3>3. Im(s) = Im(s \ {x}) \cup {p[x]} /\ p[x] \notin Im(s \ {x})
      BY <3>1
    <3>4. IsFiniteSet(Im(s \ {x}))
      BY <1>1, <3>1
    <3>5. \A z \in Im(s \ {x}) \cup {p[x]} : g[z] \in Int
      BY <3>1
    <3> HIDE DEF Im
    <3>6. Sum(g, Im(s \ {x}) \cup {p[x]}) = g[p[x]] + Sum(g, Im(s \ {x}))
      BY <3>3, <3>4, <3>5, SumAdd
    <3>7. Sum(g, Im(s \ {x})) = Sum(f, s \ {x})
      BY <1>1, <3>1
    <3>8. g[p[x]] = f[x]
      BY <3>1
    <3>9. IsFiniteSet(Im(s))
      <4>1. IsFiniteSet(Im(s \ {x}) \cup {p[x]})
        BY <3>4, FS_AddElement
      <4>2. QED
        BY <3>3, <4>1
    <3>10. QED
      BY <3>2, <3>3, <3>6, <3>7, <3>8, <3>9
  <2>4. QED
    BY <2>2, <2>3
<1>2. S \in G
  <2> HIDE DEF G
  <2>1. QED
    BY <1>1, SubsetInduction
<1>3. QED
  BY <1>2

\* A sum of ones and zeros counts the ones.
LEMMA SumCounts ==
    ASSUME NEW S, IsFiniteSet(S), NEW f, \A x \in S : f[x] \in {0, 1}
    PROVE  Sum(f, S) = Cardinality({x \in S : f[x] = 1})
<1> DEFINE T == {x \in S : f[x] = 1}
           k == [x \in T |-> 0]
<1>1. IsFiniteSet(T) /\ T \in SUBSET S
  BY FS_Subset
<1>2. Sum(f, S) = Sum(f, T)
  BY <1>1, SumSupport
<1>3. Sum(f, T) = 0 * Sum(k, T) + 1 * Cardinality(T)
  <2>1. \A x \in T : k[x] \in Int /\ f[x] = 0 * k[x] + 1
    OBVIOUS
  <2> HIDE DEF T, k
  <2>2. QED
    BY <1>1, <2>1, SumScale
<1>4. Sum(k, T) \in Int /\ Cardinality(T) \in Nat
  <2>1. \A x \in T : k[x] \in Int
    OBVIOUS
  <2> HIDE DEF T, k
  <2>2. QED
    BY <1>1, <2>1, SumType, FS_CardinalityType
<1> HIDE DEF T, k
<1>5. Sum(f, S) = Cardinality(T)
  BY <1>2, <1>3, <1>4
<1>6. QED
  BY <1>5 DEF T

\* A sum is bounded by a number that bounds the size of the set times each value.
LEMMA SumAtMost ==
    ASSUME NEW S, IsFiniteSet(S), S # {}, NEW f, NEW b \in Int,
           \A x \in S : f[x] \in Int /\ Cardinality(S) * f[x] <= b
    PROVE  Sum(f, S) <= b
<1>1. PICK n \in Nat \ {0} : n = Cardinality(S)
  BY FS_CardinalityType, FS_EmptySet
<1>2. PICK z \in Int : z = 0
  OBVIOUS
<1> DEFINE g == [x \in S |-> n * f[x] + z]
           h == [x \in S |-> z * f[x] + b]
<1>3. \A x \in S : f[x] \in Int /\ g[x] = n * f[x] + z
  OBVIOUS
<1>4. \A x \in S : f[x] \in Int /\ h[x] = z * f[x] + b
  OBVIOUS
<1>5. \A x \in S : g[x] \in Int /\ h[x] \in Int /\ g[x] <= h[x]
  BY <1>1, <1>2
<1> HIDE DEF g, h
<1>6. Sum(g, S) = n * Sum(f, S) + z * n
  BY <1>1, <1>3, SumScale
<1>7. Sum(h, S) = z * Sum(f, S) + b * n
  BY <1>1, <1>4, SumScale
<1>8. Sum(g, S) <= Sum(h, S)
  BY <1>5, SumLe
<1>9. PICK x \in Int : x = Sum(f, S)
  BY SumType
<1>10. Sum(g, S) = n * x /\ Sum(h, S) = n * b
  BY <1>2, <1>6, <1>7, <1>9
<1>11. ASSUME x > b PROVE FALSE
  <2>1. PICK d \in Nat : x = b + 1 + d
    <3>1. x - b - 1 \in Nat /\ x = b + 1 + (x - b - 1)
      BY <1>11
    <3>2. QED
      BY <3>1
  <2>2. n * x = n * b + n + n * d /\ n * d \in Nat /\ n * b \in Int
    BY <2>1
  <2>3. QED
    BY <1>8, <1>10, <2>2
<1>12. QED
  BY <1>9, <1>11
-------------------------------------------------------------------------------
(***************************************************************************)
(* Hash trees (module Merkle).                                             *)
(***************************************************************************)
Members(s) == {s[i] : i \in 1 .. Len(s)}

\* s is a finite sequence of whatever it holds.
IsList(s) == Len(s) \in Nat /\ s \in [1 .. Len(s) -> Members(s)]

\* The level above t, or t where it is the top.
Up(t) == IF Len(t) <= 1 THEN t ELSE Level(t)

\* A sequence built by a formula is a list.
LEMMA ListType ==
    ASSUME NEW n \in Nat, NEW T, NEW s \in [1 .. n -> T]
    PROVE  IsList(s) /\ Len(s) = n
<1>1. s \in Seq(T) /\ Len(s) = n
  OBVIOUS
<1>2. QED
  BY <1>1 DEF IsList, Members

\* A level has half as many nodes as the one below, rounded up.
LEMMA LevelType ==
    ASSUME NEW t, IsList(t)
    PROVE  /\ IsList(Level(t)) /\ Len(Level(t)) = (Len(t) + 1) \div 2
           /\ \A i \in 1 .. (Len(t) + 1) \div 2 :
                /\ 2 * i - 1 \in 1 .. Len(t)
                /\ Level(t)[i] = Blake3Node(t[2 * i - 1],
                                            IF 2 * i <= Len(t) THEN t[2 * i] ELSE t[2 * i - 1])
<1> DEFINE n == (Len(t) + 1) \div 2
           e(i) == Blake3Node(t[2 * i - 1], IF 2 * i <= Len(t) THEN t[2 * i] ELSE t[2 * i - 1])
<1>1. n \in Nat /\ \A i \in 1 .. n : 2 * i - 1 \in 1 .. Len(t)
  BY DEF IsList
<1>2. Level(t) = [i \in 1 .. n |-> e(i)]
  BY DEF Level
<1>3. Level(t) \in [1 .. n -> {e(i) : i \in 1 .. n}]
  BY <1>2
<1>4. IsList(Level(t)) /\ Len(Level(t)) = n
  BY <1>1, <1>3, ListType
<1>5. QED
  BY <1>1, <1>2, <1>4

\* L lists the levels of the tree over s, from the hashes s on.
IsLevels(L, s) ==
    /\ L[0] = s
    /\ \A n \in 1 .. Len(s) : L[n] = Up(L[n - 1])

\* The recursion has a solution, and LevelAt is one.
LEMMA LevelsExist ==
    ASSUME NEW s, Len(s) \in Nat
    PROVE  IsLevels(LevelAt(s), s)
<1> DEFINE D == 0 .. Len(s)
           At(g, n) == IF n = 0 THEN s
                       ELSE IF Len(g[n - 1]) <= 1 THEN g[n - 1]
                       ELSE Level(g[n - 1])
           Solves(g, k) == g = [n \in 0 .. k |-> At(g, n)]
           Bad == {k \in Nat : ~ \E g : Solves(g, k)}
           it == CHOOSE g : g = [n \in D |-> At(g, n)]
<1>1. Bad = {}
  <2> SUFFICES ASSUME Bad # {} PROVE FALSE
    OBVIOUS
  <2>1. PICK k \in Bad : \A m \in Bad : k <= m
    BY NatMin
  <2>2. k \in Nat /\ ~ \E g : Solves(g, k)
    BY <2>1
  <2>3. CASE k = 0
    <3> DEFINE h == [n \in 0 .. 0 |-> s]
    <3>1. Solves(h, 0)
      OBVIOUS
    <3>2. QED
      BY <2>2, <2>3, <3>1
  <2>4. CASE k # 0
    <3>1. k - 1 \in Nat /\ k - 1 \notin Bad
      <4> HIDE DEF Bad
      <4>1. QED
        BY <2>1, <2>2, <2>4
    <3>2. PICK g : Solves(g, k - 1)
      BY <3>1
    <3> DEFINE h == [n \in 0 .. k |-> At(g, n)]
    <3>3. \A n \in 0 .. k - 1 : g[n] = At(g, n) /\ h[n] = g[n]
      BY <2>2, <3>2
    <3>4. \A n \in 0 .. k : n # 0 => n - 1 \in 0 .. k - 1
      BY <2>2
    <3>5. \A n \in 0 .. k : At(g, n) = At(h, n)
      <4> HIDE DEF h
      <4>1. QED
        BY <3>3, <3>4
    <3>6. Solves(h, k)
      BY <3>5
    <3>7. QED
      BY <2>2, <3>6
  <2>5. QED
    BY <2>3, <2>4
<1>2. \E g : g = [n \in D |-> At(g, n)]
  BY <1>1
<1>3. it = [n \in D |-> At(it, n)]
  BY <1>2
<1>4. LevelAt(s) = it
  BY DEF LevelAt
<1> HIDE DEF it
<1>5. it[0] = s
  BY <1>3
<1>6. \A n \in 1 .. Len(s) : it[n] = Up(it[n - 1])
  <2> TAKE n \in 1 .. Len(s)
  <2>1. n \in D /\ n # 0
    OBVIOUS
  <2>2. it[n] = At(it, n)
    BY <1>3, <2>1
  <2>3. QED
    BY <2>1, <2>2 DEF Up
<1>7. QED
  BY <1>4, <1>5, <1>6 DEF IsLevels

\* The levels shrink, and the last has one node.
LEMMA LevelsShrink ==
    ASSUME NEW s, IsList(s), Len(s) >= 1, NEW L, IsLevels(L, s)
    PROVE  /\ \A n \in 0 .. Len(s) : /\ IsList(L[n]) /\ Len(L[n]) >= 1
                                     /\ Len(L[n]) = 1 \/ Len(L[n]) <= Len(s) - n
           /\ Len(L[Len(s)]) = 1
<1> DEFINE Good(n) == /\ IsList(L[n]) /\ Len(L[n]) >= 1
                      /\ Len(L[n]) = 1 \/ Len(L[n]) <= Len(s) - n
           Bad == {n \in 0 .. Len(s) : ~ Good(n)}
<1>0. Len(s) \in Nat
  BY DEF IsList
<1>1. Bad = {}
  <2> SUFFICES ASSUME Bad # {} PROVE FALSE
    OBVIOUS
  <2>1. PICK n \in Bad : \A m \in Bad : n <= m
    <3>1. Bad \subseteq Nat
      BY <1>0
    <3> HIDE DEF Bad
    <3>2. QED
      BY <3>1, NatMin
  <2>2. n \in 0 .. Len(s) /\ ~ Good(n)
    BY <2>1
  <2>3. Good(0)
    BY <1>0 DEF IsLevels
  <2>4. n - 1 \in 0 .. Len(s) /\ n \in 1 .. Len(s)
    <3> HIDE DEF Good
    <3>1. n # 0
      BY <2>2, <2>3
    <3>2. QED
      BY <1>0, <2>2, <3>1
  <2>5. Good(n - 1)
    <3>1. n - 1 \notin Bad
      <4> HIDE DEF Bad, Good
      <4>1. QED
        BY <1>0, <2>1, <2>2, <2>4
    <3> HIDE DEF Good
    <3>2. QED
      BY <2>4, <3>1
  <2>6. L[n] = Up(L[n - 1])
    BY <2>4 DEF IsLevels
  <2>7. PICK t : t = L[n - 1]
    OBVIOUS
  <2>8. /\ IsList(t) /\ Len(t) \in Nat /\ Len(t) >= 1
        /\ Len(t) = 1 \/ Len(t) <= Len(s) - (n - 1)
    BY <2>5, <2>7 DEF IsList
  <2>9. PICK m : m = Len(t)
    OBVIOUS
  <2>10. /\ m \in Nat /\ m >= 1
         /\ m = 1 \/ m <= Len(s) - (n - 1)
    BY <2>8, <2>9
  <2>11. CASE m <= 1
    <3>1. m = 1
      <4> HIDE DEF Bad
      <4>1. QED
        BY <2>10, <2>11
    <3>2. L[n] = t
      BY <2>6, <2>7, <2>9, <2>11 DEF Up
    <3>3. Good(n)
      BY <2>8, <2>9, <3>1, <3>2
    <3> HIDE DEF Good
    <3>4. QED
      BY <2>2, <3>3
  <2>12. CASE ~ (m <= 1)
    <3>1. L[n] = Level(t)
      BY <2>6, <2>7, <2>9, <2>12 DEF Up
    <3>2. IsList(L[n]) /\ Len(L[n]) = (m + 1) \div 2
      BY <2>8, <2>9, <3>1, LevelType
    <3> HIDE DEF Bad
    <3>3. m >= 2 /\ m <= Len(s) - (n - 1)
      BY <2>10, <2>12
    <3>4. (m + 1) \div 2 \in Nat /\ (m + 1) \div 2 >= 1 /\ (m + 1) \div 2 <= m - 1
      BY <2>10, <3>3
    <3>5. PICK k : k = Len(L[n])
      OBVIOUS
    <3>6. k >= 1 /\ k <= Len(s) - n
      BY <1>0, <2>4, <2>10, <3>2, <3>3, <3>4, <3>5
    <3>7. Good(n)
      BY <3>2, <3>5, <3>6
    <3> HIDE DEF Good
    <3>8. QED
      BY <2>2, <3>7
  <2>13. QED
    BY <2>11, <2>12
<1>2. \A n \in 0 .. Len(s) : Good(n)
  <2> HIDE DEF Good
  <2>1. QED
    BY <1>1
<1>3. Len(L[Len(s)]) = 1
  <2>1. Len(s) \in 0 .. Len(s)
    BY <1>0
  <2>2. Good(Len(s))
    BY <1>2, <2>1
  <2>3. Len(L[Len(s)]) \in Nat
    BY <2>2 DEF IsList
  <2>4. QED
    BY <1>0, <2>2, <2>3
<1>4. QED
  BY <1>2, <1>3

\* Hashes are terms: the tag tells leaves from inner nodes, and a hash fixes what it
\* is computed from.
LEMMA HashesAreTerms ==
    /\ \A x, a, b : Blake3Leaf(x) # Blake3Node(a, b)
    /\ \A x, y : Blake3Leaf(x) = Blake3Leaf(y) => x = y
    /\ \A a, b, c, d : Blake3Node(a, b) = Blake3Node(c, d) => a = c /\ b = d
<1>1. ASSUME NEW x, NEW a, NEW b PROVE Blake3Leaf(x) # Blake3Node(a, b)
  <2>1. Blake3Leaf(x)[1] = "leaf" /\ Blake3Node(a, b)[1] = "node" /\ "leaf" # "node"
    BY DEF Blake3Leaf, Blake3Node
  <2>2. QED
    BY <2>1
<1>2. ASSUME NEW x, NEW y, Blake3Leaf(x) = Blake3Leaf(y) PROVE x = y
  <2>1. Blake3Leaf(x)[2] = x /\ Blake3Leaf(y)[2] = y
    BY DEF Blake3Leaf
  <2>2. QED
    BY <1>2, <2>1
<1>3. ASSUME NEW a, NEW b, NEW c, NEW d, Blake3Node(a, b) = Blake3Node(c, d)
      PROVE  a = c /\ b = d
  <2>1. /\ Blake3Node(a, b)[2] = a /\ Blake3Node(a, b)[3] = b
        /\ Blake3Node(c, d)[2] = c /\ Blake3Node(c, d)[3] = d
    BY DEF Blake3Node
  <2>2. QED
    BY <1>3, <2>1
<1>4. QED
  BY <1>1, <1>2, <1>3

\* Everything that occurs on a level of the tree over s.
Nodes(s) == UNION {Members(LevelAt(s)[d]) : d \in 0 .. Len(s)}

\* What is not on the lowest level has its children in the tree.
LEMMA NodesAreClosed ==
    ASSUME NEW s, IsList(s), Len(s) >= 1, NEW e \in Nodes(s)
    PROVE  e \in Members(s) \/ \E a, b \in Nodes(s) : e = Blake3Node(a, b)
<1> DEFINE L == LevelAt(s)
           At == {d \in 0 .. Len(s) : e \in Members(L[d])}
<1>1. Len(s) \in Nat
  BY DEF IsList
<1>2. IsLevels(L, s)
  BY <1>1, LevelsExist
<1>3. \A n \in 0 .. Len(s) : IsList(L[n]) /\ Len(L[n]) >= 1
  <2> HIDE DEF L
  <2>1. QED
    BY <1>2, LevelsShrink
<1>4. \A n \in 0 .. Len(s) : Members(L[n]) \subseteq Nodes(s)
  BY DEF Nodes
<1>5. PICK n \in At : \A m \in At : n <= m
  <2>1. At \subseteq Nat /\ At # {}
    BY <1>1 DEF Nodes
  <2> HIDE DEF At
  <2>2. QED
    BY <2>1, NatMin
<1>6. n \in 0 .. Len(s) /\ e \in Members(L[n])
  OBVIOUS
<1> HIDE DEF L
<1>7. CASE n = 0
  BY <1>2, <1>6, <1>7 DEF IsLevels
<1>8. CASE n # 0
  <2>1. n \in 1 .. Len(s) /\ n - 1 \in 0 .. Len(s) /\ n - 1 < n
    BY <1>1, <1>6, <1>8
  <2>2. e \notin Members(L[n - 1])
    <3>1. n - 1 \notin At
      <4> HIDE DEF At
      <4>1. QED
        BY <1>5, <2>1, <1>6
    <3>2. QED
      BY <2>1, <3>1
  <2>3. PICK t : t = L[n - 1]
    OBVIOUS
  <2>4. L[n] = Up(t)
    BY <1>2, <2>1, <2>3 DEF IsLevels
  <2>5. L[n] = Level(t)
    BY <1>6, <2>2, <2>3, <2>4 DEF Up
  <2>6. IsList(t) /\ Members(t) \subseteq Nodes(s)
    BY <1>3, <1>4, <2>1, <2>3
  <2>7. PICK i \in 1 .. Len(L[n]) : e = L[n][i]
    BY <1>6 DEF Members
  <2>8. i \in 1 .. (Len(t) + 1) \div 2
    BY <2>5, <2>6, <2>7, LevelType
  <2>9. /\ 2 * i - 1 \in 1 .. Len(t)
        /\ Level(t)[i] = Blake3Node(t[2 * i - 1],
                                    IF 2 * i <= Len(t) THEN t[2 * i] ELSE t[2 * i - 1])
    BY <2>6, <2>8, LevelType
  <2>10. PICK b : b = IF 2 * i <= Len(t) THEN t[2 * i] ELSE t[2 * i - 1]
    OBVIOUS
  <2>11. t[2 * i - 1] \in Members(t)
    BY <2>9 DEF Members
  <2>12. b \in Members(t)
    <3>1. CASE 2 * i <= Len(t)
      <4>1. 2 * i \in 1 .. Len(t)
        BY <2>9, <2>6, <3>1 DEF IsList
      <4>2. QED
        BY <2>10, <3>1, <4>1 DEF Members
    <3>2. QED
      BY <2>10, <2>11, <3>1
  <2>13. e = Blake3Node(t[2 * i - 1], b)
    BY <2>5, <2>7, <2>9, <2>10
  <2>14. QED
    BY <2>6, <2>11, <2>12, <2>13
<1>9. QED
  BY <1>7, <1>8

\* The top is a node of the tree.
LEMMA TopIsANode ==
    ASSUME NEW s, IsList(s), Len(s) >= 1
    PROVE  TreeTop(s) \in Nodes(s)
<1>1. Len(s) \in Nat
  BY DEF IsList
<1>2. PICK L : L = LevelAt(s)
  OBVIOUS
<1>3. IsLevels(L, s)
  BY <1>1, <1>2, LevelsExist
<1>4. Len(L[Len(s)]) = 1
  BY <1>3, LevelsShrink
<1>5. L[Len(s)][1] \in Members(L[Len(s)])
  <2>1. PICK n : n = Len(L[Len(s)])
    OBVIOUS
  <2>2. 1 \in 1 .. n
    BY <1>4, <2>1
  <2>3. QED
    BY <2>1, <2>2 DEF Members
<1>6. Len(s) \in 0 .. Len(s)
  BY <1>1
<1>7. QED
  BY <1>2, <1>5, <1>6 DEF Nodes, TreeTop

\* Whatever holds the top and, with a node, its children, holds every leaf.
LEMMA TopSpansLeaves ==
    ASSUME NEW s, IsList(s), Len(s) >= 1, NEW X, TreeTop(s) \in X,
           \A a, b : Blake3Node(a, b) \in X => a \in X /\ b \in X
    PROVE  Members(s) \subseteq X
<1>1. Len(s) \in Nat
  BY DEF IsList
<1>2. PICK L : L = LevelAt(s)
  OBVIOUS
<1>3. IsLevels(L, s)
  BY <1>1, <1>2, LevelsExist
<1>4. /\ \A n \in 0 .. Len(s) : IsList(L[n])
      /\ Len(L[Len(s)]) = 1
  BY <1>3, LevelsShrink
<1> DEFINE Bad == {k \in 0 .. Len(s) : ~ (Members(L[Len(s) - k]) \subseteq X)}
<1>5. Bad = {}
  <2> SUFFICES ASSUME Bad # {} PROVE FALSE
    OBVIOUS
  <2>1. PICK k \in Bad : \A m \in Bad : k <= m
    <3>1. Bad \subseteq Nat
      BY <1>1
    <3> HIDE DEF Bad
    <3>2. QED
      BY <3>1, NatMin
  <2>2. k \in 0 .. Len(s) /\ ~ (Members(L[Len(s) - k]) \subseteq X)
    BY <2>1
  <2>3. k # 0
    <3>1. PICK t : t = L[Len(s)]
      OBVIOUS
    <3>2. t[1] \in X
      BY <1>2, <3>1 DEF TreeTop
    <3>3. PICK n : n = Len(t)
      OBVIOUS
    <3>4. n = 1
      BY <1>4, <3>1, <3>3
    <3>5. Members(t) \subseteq X
      BY <3>2, <3>3, <3>4 DEF Members
    <3>6. Len(s) - 0 = Len(s)
      BY <1>1
    <3>7. QED
      BY <2>2, <3>1, <3>5, <3>6
  <2>4. k - 1 \in 0 .. Len(s) /\ k - 1 < k
    BY <1>1, <2>2, <2>3
  <2>5. k - 1 \notin Bad
    <3> HIDE DEF Bad
    <3>1. QED
      BY <1>1, <2>1, <2>2, <2>4
  <2>6. PICK n : n = Len(s) - k + 1
    OBVIOUS
  <2>7. n \in 1 .. Len(s) /\ n - 1 = Len(s) - k /\ n = Len(s) - (k - 1)
        /\ n - 1 \in 0 .. Len(s)
    BY <1>1, <2>2, <2>3, <2>6
  <2> HIDE DEF Bad
  <2>8. PICK t : t = L[n - 1]
    OBVIOUS
  <2>9. Members(L[n]) \subseteq X
    BY <2>4, <2>5, <2>7 DEF Bad
  <2>10. L[n] = Up(t) /\ IsList(t) /\ ~ (Members(t) \subseteq X)
    BY <1>3, <1>4, <2>2, <2>7, <2>8 DEF IsLevels
  <2>11. L[n] = Level(t)
    BY <2>9, <2>10 DEF Up
  <2>12. ASSUME NEW i \in 1 .. Len(t) PROVE t[i] \in X
    <3>1. PICK z \in Nat : z = Len(t)
      BY <2>10 DEF IsList
    <3>2. PICK j : j = (i + 1) \div 2
      OBVIOUS
    <3>3. /\ i \in Nat /\ i >= 1 /\ i <= z
      BY <3>1
    <3>4. /\ j \in 1 .. (z + 1) \div 2
          /\ i = 2 * j - 1 \/ (i = 2 * j /\ 2 * j <= z)
      BY <3>1, <3>2, <3>3
    <3>5. /\ Len(Level(t)) = (z + 1) \div 2
          /\ Level(t)[j] = Blake3Node(t[2 * j - 1],
                                      IF 2 * j <= z THEN t[2 * j] ELSE t[2 * j - 1])
      BY <2>10, <3>1, <3>4, LevelType
    <3>6. Level(t)[j] \in X
      BY <2>9, <2>11, <3>4, <3>5 DEF Members
    <3>7. t[2 * j - 1] \in X /\ (IF 2 * j <= z THEN t[2 * j] ELSE t[2 * j - 1]) \in X
      BY <3>5, <3>6
    <3>8. QED
      BY <3>4, <3>7
  <2>13. QED
    BY <2>10, <2>12 DEF Members
<1>6. Members(L[Len(s) - Len(s)]) \subseteq X
  <2>1. Len(s) \in 0 .. Len(s)
    BY <1>1
  <2>2. QED
    BY <1>5, <2>1
<1>7. Len(s) - Len(s) = 0
  BY <1>1
<1>8. QED
  BY <1>3, <1>6, <1>7 DEF IsLevels

\* The hashes of the payloads raw.
Hashed(raw) == [i \in 1 .. Len(raw) |-> Blake3Leaf(raw[i])]

\* In a tree over payloads a leaf stands for one of them, and inner nodes have their
\* children in the tree.
LEMMA TreeOverPayloads ==
    ASSUME NEW raw, IsList(raw), Len(raw) >= 1
    PROVE  /\ IsList(Hashed(raw)) /\ Len(Hashed(raw)) = Len(raw)
           /\ \A i \in 1 .. Len(raw) : Hashed(raw)[i] = Blake3Leaf(raw[i])
           /\ \A x : Blake3Leaf(x) \in Nodes(Hashed(raw)) => x \in Members(raw)
           /\ \A a, b : Blake3Node(a, b) \in Nodes(Hashed(raw)) =>
                a \in Nodes(Hashed(raw)) /\ b \in Nodes(Hashed(raw))
<1>1. PICK n \in Nat : n = Len(raw)
  BY DEF IsList
<1>2. PICK s : s = Hashed(raw)
  OBVIOUS
<1>3. s \in [1 .. n -> {Blake3Leaf(raw[i]) : i \in 1 .. n}]
  BY <1>1, <1>2 DEF Hashed
<1>4. IsList(s) /\ Len(s) = n
  BY <1>3, ListType
<1>5. \A i \in 1 .. n : s[i] = Blake3Leaf(raw[i])
  BY <1>1, <1>2 DEF Hashed
<1>6. \A e \in Members(s) : \E x \in Members(raw) : e = Blake3Leaf(x)
  BY <1>1, <1>4, <1>5 DEF Members
<1>7. n >= 1
  BY <1>1
<1>8. \A e \in Nodes(s) : e \in Members(s) \/ \E a, b \in Nodes(s) : e = Blake3Node(a, b)
  BY <1>4, <1>7, NodesAreClosed
<1>9. ASSUME NEW x, Blake3Leaf(x) \in Nodes(s) PROVE x \in Members(raw)
  BY <1>6, <1>8, <1>9, HashesAreTerms
<1>10. ASSUME NEW a, NEW b, Blake3Node(a, b) \in Nodes(s)
       PROVE  a \in Nodes(s) /\ b \in Nodes(s)
  BY <1>6, <1>8, <1>10, HashesAreTerms
<1>11. QED
  BY <1>1, <1>2, <1>4, <1>5, <1>9, <1>10

\* The root of some payloads is the top of the tree over them.
LEMMA RootIsTop ==
    ASSUME NEW raw, IsList(raw)
    PROVE  /\ Len(raw) = 0 => Blake3RootFromRaw(raw) = Blake3Leaf(<<>>)
           /\ Len(raw) # 0 => /\ Len(raw) >= 1
                              /\ Blake3RootFromRaw(raw) = TreeTop(Hashed(raw))
<1>1. raw \in Seq(Members(raw)) /\ Len(raw) \in Nat
  BY DEF IsList
<1>2. Len(raw) = 0 <=> raw = <<>>
  BY <1>1
<1>3. ASSUME Len(raw) # 0 PROVE Len(raw) >= 1
  BY <1>1, <1>3
<1>4. QED
  BY <1>2, <1>3 DEF Blake3RootFromRaw, Hashed

\* A root stands for one set of payloads, unless one of them is empty: no set of
\* payloads has the root of another, although the tree does not tell how often its
\* last payloads are repeated.
LEMMA RootFixesPayloads ==
    ASSUME NEW raw, IsList(raw), <<>> \notin Members(raw),
           NEW other, IsList(other), <<>> \notin Members(other),
           Blake3RootFromRaw(raw) = Blake3RootFromRaw(other)
    PROVE  Members(raw) \subseteq Members(other)
<1>1. CASE Len(raw) = 0
  <2>1. Members(raw) = {}
    <3>1. PICK n : n = Len(raw)
      OBVIOUS
    <3>2. 1 .. n = {}
      BY <1>1, <3>1
    <3>3. QED
      BY <3>1, <3>2 DEF Members
  <2>2. QED
    BY <2>1
<1>2. CASE Len(raw) # 0
  <2>1. Len(raw) >= 1 /\ Blake3RootFromRaw(raw) = TreeTop(Hashed(raw))
    BY <1>2, RootIsTop
  <2>2. /\ IsList(Hashed(raw)) /\ Len(Hashed(raw)) = Len(raw)
        /\ \A i \in 1 .. Len(raw) : Hashed(raw)[i] = Blake3Leaf(raw[i])
        /\ \A x : Blake3Leaf(x) \in Nodes(Hashed(raw)) => x \in Members(raw)
    BY <2>1, TreeOverPayloads
  <2>3. Len(other) # 0
    <3> SUFFICES ASSUME Len(other) = 0 PROVE FALSE
      OBVIOUS
    <3>1. TreeTop(Hashed(raw)) = Blake3Leaf(<<>>)
      BY <2>1, RootIsTop
    <3>2. TreeTop(Hashed(raw)) \in Nodes(Hashed(raw))
      BY <2>1, <2>2, TopIsANode
    <3>3. QED
      BY <2>2, <3>1, <3>2
  <2>4. Len(other) >= 1 /\ Blake3RootFromRaw(other) = TreeTop(Hashed(other))
    BY <2>3, RootIsTop
  <2>5. /\ IsList(Hashed(other)) /\ Len(Hashed(other)) = Len(other)
        /\ \A x : Blake3Leaf(x) \in Nodes(Hashed(other)) => x \in Members(other)
        /\ \A a, b : Blake3Node(a, b) \in Nodes(Hashed(other)) =>
             a \in Nodes(Hashed(other)) /\ b \in Nodes(Hashed(other))
    BY <2>4, TreeOverPayloads
  <2>6. TreeTop(Hashed(raw)) \in Nodes(Hashed(other))
    BY <2>1, <2>4, <2>5, TopIsANode
  <2>7. Members(Hashed(raw)) \subseteq Nodes(Hashed(other))
    BY <2>1, <2>2, <2>5, <2>6, TopSpansLeaves
  <2>8. ASSUME NEW x \in Members(raw) PROVE x \in Members(other)
    <3>1. PICK i \in 1 .. Len(raw) : x = raw[i]
      BY DEF Members
    <3>2. Blake3Leaf(x) \in Members(Hashed(raw))
      BY <2>2, <3>1 DEF Members
    <3>3. QED
      BY <2>5, <2>7, <3>2
  <2>9. QED
    BY <2>8
<1>3. QED
  BY <1>1, <1>2
===============================================================================
