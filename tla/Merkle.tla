-------------------------------- MODULE Merkle --------------------------------
(***************************************************************************)
(* Binary hash trees: internal/merkle/blake3tree.go and merkle.go, which   *)
(* differ in the hash function alone, and merkleRoot of                    *)
(* internal/stake/root.go, the same tree with CBOR in place of tags.       *)
(*                                                                         *)
(* A hash is the term it is computed from: hashes are free of collisions,  *)
(* and the tag byte keeps a leaf from being taken for an inner node.  A    *)
(* payload is a tuple.                                                     *)
(***************************************************************************)
EXTENDS Integers, Sequences

\* Mutant: the hash covers the first field of the payload.
Blake3LeafOfKey(data) == <<"leaf", SubSeq(data, 1, 1)>>

Blake3Leaf(data) == <<"leaf", data>>

Blake3Node(left, right) == <<"node", left, right>>

\* Mutant: an odd level loses its last node.
LevelDropsOdd(s) == [i \in 1 .. Len(s) \div 2 |-> Blake3Node(s[2 * i - 1], s[2 * i])]

\* The level above s; an odd level is extended by its last node.
Level(s) ==
    [i \in 1 .. (Len(s) + 1) \div 2 |->
        Blake3Node(s[2 * i - 1], IF 2 * i <= Len(s) THEN s[2 * i] ELSE s[2 * i - 1])]

\* The n-th level of the tree over the hashes s, and its top from level Len(s) on.
LevelAt(s) ==
    LET at[n \in 0 .. Len(s)] ==
          IF n = 0 THEN s
          ELSE IF Len(at[n - 1]) <= 1 THEN at[n - 1]
          ELSE Level(at[n - 1])
    IN  at

TreeTop(s) == LevelAt(s)[Len(s)][1]

\* Blake3RootFromRaw; Root of merkle.go.  No leaf at all hashes as an empty payload.
Blake3RootFromRaw(raw) ==
    IF raw = <<>> THEN Blake3Leaf(<<>>)
    ELSE TreeTop([i \in 1 .. Len(raw) |-> Blake3Leaf(raw[i])])
===============================================================================
