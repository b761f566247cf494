------------------------------ MODULE StateProof ------------------------------
(***************************************************************************)
(* Proofs that an account is part of the state: StateProof.VerifyBinary    *)
(* (internal/types/proof.go) over ComputeBlake3Root, against the root      *)
(* DB.StateRoot (internal/state/merkle.go) computes.                       *)
(*                                                                         *)
(* The repository verifies proofs and builds none; Prove is the obvious    *)
(* builder, external.  A verifier may hold a proof while the accounts      *)
(* change, and may receive it altered.                                     *)
(*                                                                         *)
(* A leaf is the byte string of name, NUL and contents.  The contents are  *)
(* JSON and hold no NUL; a name may hold one, and then its leaf can be     *)
(* split into a key and a value in two ways.                               *)
(***************************************************************************)
EXTENDS Merkle, FiniteSets, SequencesExt

CONSTANTS
    Byte,      \* bytes
    Nul,       \* 0x00
    Holder,    \* accounts: natural numbers, in the order of sort.Strings on their addresses
    NameOf,    \* of each the bytes of "account/" and its address
    Content,   \* account contents, as json.Marshal writes them
    NoProof,   \* no proof yet
    MaxAge     \* bound: changes to the accounts or the proof since it was built

ASSUME StateProofAssumption ==
    /\ Holder \subseteq Nat /\ IsFiniteSet(Holder) /\ MaxAge \in Nat
    /\ Nul \in Byte
    /\ NameOf \in [Holder -> Seq(Byte)]
    /\ \A j, k \in Holder : j # k => NameOf[j] # NameOf[k]

\* A string has no NUL in it.
NulFree(s) == \A i \in 1 .. Len(s) : s[i] # Nul

ASSUME ContentAssumption == Content \subseteq Seq(Byte) /\ \A c \in Content : NulFree(c)

VARIABLES
    accts,     \* the accounts: a function from those known to their contents
    proof,     \* the proof the verifier holds
    age        \* changes to the accounts or the proof since it was built

proofVars == <<accts, proof, age>>

-------------------------------------------------------------------------------
\* sort.Strings: the i-th key is the one with i - 1 keys below it.
SortedKeys(S) ==
    [i \in 1 .. Cardinality(S) |->
        CHOOSE k \in S : Cardinality({j \in S : j < k}) = i - 1]

\* key || 0x00 || value
LeafInput(key, value) == key \o <<Nul>> \o value

\* DB.StateRoot: the accounts in the order of their addresses, one leaf each.
Leaves(a) ==
    LET keys == SortedKeys(DOMAIN a)
    IN  [i \in 1 .. Len(keys) |-> LeafInput(NameOf[keys[i]], a[keys[i]])]

StateRoot(a) == Blake3RootFromRaw(Leaves(a))

\* Mutant: the side of the sibling is ignored.
HashedUpLeft(leaf, siblings, directions) ==
    FoldLeft(LAMBDA node, i : Blake3Node(node, siblings[i]), leaf,
             [i \in 1 .. Len(siblings) |-> i])

\* The loop of ComputeBlake3Root: direction 0 has the node on the left.
HashedUp(leaf, siblings, directions) ==
    FoldLeft(LAMBDA node, i : IF directions[i] = 0
                              THEN Blake3Node(node, siblings[i])
                              ELSE Blake3Node(siblings[i], node),
             leaf, [i \in 1 .. Len(siblings) |-> i])

\* a sibling that BytesTo32 refuses: not 32 bytes
Truncated == <<"short">>

\* ComputeBlake3Root returns an error for lengths that differ, before it looks at
\* any sibling, for a sibling that is not a hash and for a direction other than 0 and 1.
BadPath(siblings, directions) ==
    \/ Len(siblings) # Len(directions)
    \/ \E i \in 1 .. Len(siblings) : siblings[i] = Truncated \/ directions[i] \notin {0, 1}

\* StateProof.VerifyBinary
VerifyBinary(p, root) ==
    IF BadPath(p.siblings, p.directions) THEN "error"
    ELSE IF HashedUp(Blake3Leaf(LeafInput(p.key, p.value)), p.siblings, p.directions) = root
    THEN "yes" ELSE "no"
-------------------------------------------------------------------------------
\* The path from leaf i to the top: on each level the other child of the parent,
\* which is the node itself at the end of an odd level.
Path(s, i) ==
    LET levels == LevelAt(s)
        depth == CHOOSE d \in 0 .. Len(s) :
                   Len(levels[d]) = 1 /\ \A e \in 0 .. d - 1 : Len(levels[e]) > 1
        at[d \in 0 .. Len(s)] == IF d = 0 THEN i - 1 ELSE at[d - 1] \div 2
        other(d) == IF at[d] % 2 = 1 THEN at[d] - 1
                    ELSE IF at[d] + 2 <= Len(levels[d]) THEN at[d] + 1 ELSE at[d]
    IN  [siblings |-> [d \in 1 .. depth |-> levels[d - 1][other(d - 1) + 1]],
         directions |-> [d \in 1 .. depth |-> at[d - 1] % 2]]

ProofInit ==
    /\ accts = <<>>
    /\ proof = NoProof
    /\ age = 0

\* a transfer, a reward or a first read: an account appears or changes
SetAccount(k, v) ==
    /\ proof = NoProof \/ age < MaxAge
    /\ accts' = [j \in DOMAIN accts \cup {k} |-> IF j = k THEN v ELSE accts[j]]
    /\ age' = IF proof = NoProof \/ accts' = accts THEN age ELSE age + 1
    /\ UNCHANGED proof

Prove(k) ==
    LET s == Leaves(accts)
        i == CHOOSE j \in 1 .. Len(s) : SortedKeys(DOMAIN accts)[j] = k
        path == Path([j \in 1 .. Len(s) |-> Blake3Leaf(s[j])], i)
    IN  /\ k \in DOMAIN accts
        /\ proof' = [key |-> NameOf[k], value |-> accts[k],
                     siblings |-> path.siblings, directions |-> path.directions]
        /\ age' = 0
        /\ UNCHANGED accts

\* the ways to split the leaf of a proof into a key and a value
Splits(p) ==
    LET l == LeafInput(p.key, p.value)
    IN  {[p EXCEPT !.key = SubSeq(l, 1, i - 1), !.value = SubSeq(l, i + 1, Len(l))] :
            i \in {j \in 1 .. Len(l) : l[j] = Nul}}

\* what another sibling may be: the hash of any leaf, or no hash at all
OtherSibling ==
    {Blake3Leaf(LeafInput(NameOf[k], v)) : k \in Holder, v \in Content} \cup {Truncated}

\* the proof reaches the verifier with one field altered, its leaf split at another
\* NUL, or its path shortened
Altered(p) ==
    {[p EXCEPT !.key = NameOf[k]] : k \in Holder}
      \cup {[p EXCEPT !.value = v] : v \in Content}
      \cup Splits(p)
      \cup {[p EXCEPT !.siblings = Tail(@)] : i \in {1} \cap DOMAIN p.siblings}
      \cup {[p EXCEPT !.directions[i] = d] : i \in DOMAIN p.directions, d \in 0 .. 2}
      \cup {[p EXCEPT !.siblings[i] = x] : i \in DOMAIN p.siblings, x \in OtherSibling}
      \cup {[p EXCEPT !.siblings = Tail(@), !.directions = Tail(p.directions)] :
               i \in {1} \cap DOMAIN p.siblings \cap DOMAIN p.directions}

Alter ==
    /\ proof # NoProof
    /\ age < MaxAge
    /\ \E p \in Altered(proof) \ {proof} : proof' = p
    /\ age' = age + 1
    /\ UNCHANGED accts

ProofNext ==
    \/ \E k \in Holder, v \in Content : SetAccount(k, v)
    \/ \E k \in Holder : Prove(k)
    \/ Alter

ProofSpec == ProofInit /\ [][ProofNext]_proofVars
-------------------------------------------------------------------------------
\* A proof built from the accounts as they are is accepted, whatever the shape of
\* the tree: the duplicated last node of an odd level included.
FreshProofsVerify ==
    (proof # NoProof /\ age = 0) => VerifyBinary(proof, StateRoot(accts)) = "yes"

\* VerifyBinary accepts nothing but leaves of the state: neither a stale nor an altered
\* proof passes for an account that does not hold what the proof says.  A value with a
\* NUL, which no account holds, can be the rest of a name: only a verifier that refuses
\* it (any JSON parser does) knows the account.
AcceptedIsTrue ==
    (proof # NoProof /\ VerifyBinary(proof, StateRoot(accts)) = "yes") =>
        \E k \in DOMAIN accts :
            /\ LeafInput(proof.key, proof.value) = LeafInput(NameOf[k], accts[k])
            /\ NulFree(proof.value) => proof.key = NameOf[k] /\ proof.value = accts[k]

\* The state root of a header stands for one state: accounts that differ have
\* different roots, although Root(<<a, b, c>>) = Root(<<a, b, c, c>>) for the tree.
RootsIdentifyStates ==
    [][accts # accts' => StateRoot(accts) # StateRoot(accts')]_proofVars
===============================================================================
