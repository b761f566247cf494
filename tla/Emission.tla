------------------------------- MODULE Emission -------------------------------
(***************************************************************************)
(* What a block mints and how the mint is split (internal/rewards/engine.go*)
(* with internal/params).  The decay by the golden ratio is floating point:*)
(* its rounded results are a table, one entry for each emission interval;  *)
(* the last entry stands for every later interval.                         *)
(***************************************************************************)
EXTENDS Naturals, Sequences

CONSTANTS
    EmissionInterval,   \* EmissionIntervalBlocks (20,000,000)
    EpochMint           \* the mint of each interval: a sequence

ASSUME EmissionAssumption ==
    /\ EmissionInterval \in Nat \ {0}
    /\ EpochMint \in Seq(Nat) /\ EpochMint # <<>>

BlockMintAt(h) ==
    LET e == h \div EmissionInterval + 1
    IN  EpochMint[IF e <= Len(EpochMint) THEN e ELSE Len(EpochMint)]

\* SplitPercentages
Percent == [network |-> 80, foundation |-> 10, exchange |-> 10]

Share(t, p) == (t * p) \div 100

\* Mutant: what the division drops is lost.
SplitMintRounded(t) ==
    [network |-> Share(t, Percent.network), foundation |-> Share(t, Percent.foundation),
     exchange |-> Share(t, Percent.exchange)]

\* The network gets its share and what the three divisions drop.
SplitMint(t) ==
    LET f == Share(t, Percent.foundation)
        x == Share(t, Percent.exchange)
        n == Share(t, Percent.network)
        rest == IF n + f + x < t THEN t - (n + f + x) ELSE 0
    IN  [network |-> n + rest, foundation |-> f, exchange |-> x]
===============================================================================
