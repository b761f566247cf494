-------------------------------- MODULE ValSet --------------------------------
(***************************************************************************)
(* The validator set: the batches of operations that change it             *)
(* (internal/stake/ops.go and types.go), the consensus events that move    *)
(* its scores, and its root (internal/stake/root.go).  A set is a sequence *)
(* of validators; findIndex searches it by bisection, which finds a key    *)
(* only where the sequence is sorted, and ApplyOps sorts at the end of a   *)
(* batch: an operation that follows an addition searches a slice that need *)
(* not be sorted.  Nothing in the default build calls ApplyOps or          *)
(* ApplyEvent yet: the actions are the calls the packages offer, in any    *)
(* order.                                                                  *)
(***************************************************************************)
EXTENDS Participation, Merkle, SequencesExt, FiniteSets

CONSTANTS
    Key,        \* public keys: natural numbers, ordered as bytes.Compare does
    Nil,        \* a nil pointer in an operation
    Op,         \* the operations
    MaxBatch,   \* bound: operations in a batch
    MaxVals,    \* bound: entries of the set
    MaxEvents   \* bound: consensus events in a run

ASSUME ValSetAssumption ==
    /\ Key \subseteq Nat /\ Nil \notin Nat
    /\ MaxBatch \in Nat \ {0} /\ MaxVals \in Nat /\ MaxEvents \in Nat
    /\ Op \subseteq [type : {"add", "update", "remove"}, key : Key,
                     stake : Nat \cup {Nil}, ntype : (0 .. 255) \cup {Nil},
                     score : Nat \cup {Nil}, jailed : BOOLEAN \cup {Nil}]

VARIABLES
    vals,     \* ValSet.Validators
    misses,   \* the missCount of each key, kept by the caller of ApplyEvent
    events    \* events so far

valVars == <<vals, misses, events>>

\* findIndex: the 0-based index of key k between lo and hi, or -1.
FindIndex(s, k) ==
    LET n == Len(s)
        search[r \in (0 .. n) \X (0 .. n)] ==
          LET lo == r[1]
              hi == r[2]
              m == (lo + hi) \div 2
          IN  IF lo >= hi THEN -1
              ELSE IF s[m + 1].key = k THEN m
              ELSE IF s[m + 1].key < k THEN search[<<m + 1, hi>>]
              ELSE search[<<lo, m>>]
    IN  search[<<0, n>>]

New(k) == [key |-> k, stake |-> 0, ntype |-> NodeLight, score |-> One, jailed |-> FALSE]

\* The fields of the operation that are not nil replace those of the validator.
Changed(v, op) ==
    [key    |-> v.key,
     stake  |-> IF op.stake = Nil THEN v.stake ELSE op.stake,
     ntype  |-> IF op.ntype = Nil THEN v.ntype ELSE NormalizeNodeType(op.ntype),
     score  |-> IF op.score = Nil THEN v.score ELSE ClampScoreQ(op.score),
     jailed |-> IF op.jailed = Nil THEN v.jailed ELSE op.jailed]

\* Mutant: add does not look for the key.
ApplyOpAddsAlways(s, op) ==
    LET pos == FindIndex(s, op.key) + 1
    IN  CASE op.type = "add" -> Append(s, Changed(New(op.key), op))
          [] op.type = "update" -> IF pos > 0 THEN [s EXCEPT ![pos] = Changed(@, op)] ELSE s
          [] OTHER -> IF pos > 0 THEN RemoveAt(s, pos) ELSE s

\* one operation of the loop in ApplyOps
ApplyOp(s, op) ==
    LET pos == FindIndex(s, op.key) + 1
    IN  CASE op.type = "add" /\ pos = 0 -> Append(s, Changed(New(op.key), op))
          [] op.type \in {"add", "update"} /\ pos > 0 -> [s EXCEPT ![pos] = Changed(@, op)]
          [] op.type = "remove" /\ pos > 0 -> RemoveAt(s, pos)
          [] OTHER -> s

\* SortPubKeyAsc: slices.SortFunc is not stable, equal keys end in any order.
Sorted(s) ==
    LET n == Len(s)
    IN  {[i \in 1 .. n |-> s[p[i]]] :
          p \in {q \in [1 .. n -> 1 .. n] :
                  /\ \A i, j \in 1 .. n : i # j => q[i] # q[j]
                  /\ \A i \in 1 .. n - 1 : s[q[i]].key <= s[q[i + 1]].key}}

\* Mutant: a leaf without the score.
LeafWithoutScore(v) ==
    Blake3Leaf(<<v.key, v.stake, NormalizeNodeType(v.ntype), v.jailed>>)

\* leafFor normalises the node type, which the set stores normalised already.
LeafFor(v) ==
    Blake3Leaf(<<v.key, v.stake, NormalizeNodeType(v.ntype), v.score, v.jailed>>)

\* ComputeValidatorsRoot, for one of the orders SortValidators may return
ComputeValidatorsRoot(s) ==
    IF s = <<>> THEN <<>> ELSE TreeTop([i \in 1 .. Len(s) |-> LeafFor(s[i])])

Roots(s) == {ComputeValidatorsRoot(t) : t \in Sorted(s)}

ValInit ==
    /\ vals = <<>>
    /\ misses = [k \in Key |-> 0]
    /\ events = 0

ApplyOps(ops) ==
    /\ Len(FoldLeft(ApplyOp, vals, ops)) <= MaxVals
    /\ vals' \in Sorted(FoldLeft(ApplyOp, vals, ops))
    /\ UNCHANGED <<misses, events>>

\* ApplyEvent on a validator of the set, with its caller's counter.
Event(i, ev) ==
    LET k == vals[i].key
        next == ApplyEvent(ev, vals[i].score, misses[k])
    IN  /\ events < MaxEvents
        /\ events' = events + 1
        /\ vals' = [vals EXCEPT ![i].score = next.score]
        /\ misses' = [misses EXCEPT ![k] = next.misses]

Batch == UNION {[1 .. n -> Op] : n \in 1 .. MaxBatch}

ValNext ==
    \/ \E ops \in Batch : ApplyOps(ops)
    \/ \E i \in 1 .. Len(vals), ev \in Events : Event(i, ev)

ValSpec == ValInit /\ [][ValNext]_valVars
-------------------------------------------------------------------------------
\* What a batch means: operations on a map from keys to validators.
Registry(s) == [k \in {s[i].key : i \in 1 .. Len(s)} |->
                  s[CHOOSE i \in 1 .. Len(s) : s[i].key = k]]

Meant(reg, op) ==
    CASE op.type = "remove" -> [k \in DOMAIN reg \ {op.key} |-> reg[k]]
      [] op.type = "update" /\ op.key \notin DOMAIN reg -> reg
      [] OTHER -> [k \in DOMAIN reg \cup {op.key} |->
                     IF k # op.key THEN reg[k]
                     ELSE Changed(IF k \in DOMAIN reg THEN reg[k] ELSE New(k), op)]

\* the map after the first i operations, for every i
Meanings(reg, ops) ==
    LET m[i \in 0 .. Len(ops)] == IF i = 0 THEN reg ELSE Meant(m[i - 1], ops[i])
    IN  m

\* every key once
OnceEach(s) == \A i, j \in 1 .. Len(s) : i # j => s[i].key # s[j].key

\* operation i of the batch adds a key that is not in the set
Adds(m, ops, i) == ops[i].type = "add" /\ ops[i].key \notin DOMAIN m[i - 1]

\* After the first addition, which leaves the slice unsorted, the batch names no key
\* that is in the set.
Orderly(reg, ops) ==
    LET m == Meanings(reg, ops)
    IN  \A j \in 1 .. Len(ops) :
            (\E i \in 1 .. j - 1 : Adds(m, ops, i)) => ops[j].key \notin DOMAIN m[j - 1]

\* s is the set reg, with every key once.
Holds(s, reg) == OnceEach(s) /\ Registry(s) = reg

\* the powers under every key: more than one where a key is in the set twice
Powers(s) == {<<s[i].key, EffectivePower(s[i])>> : i \in 1 .. Len(s)}

\* However operations, rewards and deductions follow one another, a score is a
\* Q16.16 fraction: the uint32 arithmetic of AddPointsQ neither underflows nor
\* exceeds 1.0, and so no validator votes with more than twice its stake.
ScoresAndPowerBounded ==
    \A i \in 1 .. Len(vals) :
        /\ vals[i].score \in 0 .. One
        /\ EffectivePower(vals[i]) <= 2 * vals[i].stake

\* Whatever came before, a batch does to a set what its operations, taken in order,
\* do to a map, if it names no key of the set once it has added one.
BatchesMeanTheirOps ==
    OnceEach(vals) =>
        \A ops \in Batch :
            Orderly(Registry(vals), ops) =>
                \A s \in Sorted(FoldLeft(ApplyOp, vals, ops)) :
                    Holds(s, Meanings(Registry(vals), ops)[Len(ops)])

\* "Validators []Validator // 항상 PubKey 오름차순 유지" (always kept ascending by
\* PubKey), which findIndex relies on to find a key that is there: every batch does
\* to the set what its operations, taken in order, do to a map, and no key is in the
\* set twice.  ApplyOps appends and sorts only at its end.
EveryBatchMeansItsOps ==
    \A ops \in Batch : \A s \in Sorted(FoldLeft(ApplyOp, vals, ops)) :
        Holds(s, Meanings(Registry(vals), ops)[Len(ops)])

\* the miss of key k that this step counts is the fourth in a row or a later one
FourthMiss(k) == misses'[k] >= 4 /\ misses'[k] > misses[k]

SilencedByMiss ==
    \A k \in Key : FourthMiss(k) =>
        \E i \in 1 .. Len(vals) : vals[i].key = k /\ EffectivePower(vals'[i]) = 0

\* "miss >=4: -100 (클램프 0)": every miss from the fourth in a row on takes all power
\* of the validator it is counted for, even when an operation or another event
\* restored some in between.
FourthMissSilences == [][SilencedByMiss]_valVars

RootsDiffer == Powers(vals) # Powers(vals') => Roots(vals) \cap Roots(vals') = {}

\* Two sets that follow one another under the same validators root give every key
\* the same power, although a leaf holds the node type normalised a second time, an
\* odd level repeats its last node and a key may be in the set twice.
RootFixesPower == [][RootsDiffer]_valVars
===============================================================================
