-------------------------------- MODULE Weights --------------------------------
(***************************************************************************)
(* Scores, node types and voting power of validators                       *)
(* (internal/stake/weights.go).  A score is a Q16.16 number in 0 .. 65536; *)
(* One is 1.0, which is 100 points.                                        *)
(***************************************************************************)
EXTENDS Integers

CONSTANT PowerWord   \* 2^64 in the code: power is a uint64

ASSUME WeightsAssumption == PowerWord \in Nat \ {0}

One == 65536

NodeLight == 1
NodePool == 2
NodeFull == 3

\* Legacy inputs 0 and 1 become light and full; 1 is also the canonical light.
NormalizeNodeType(nt) ==
    CASE nt = 0 -> NodeLight
      [] nt = 1 -> NodeFull
      [] nt \in {2, 3} -> nt
      [] OTHER -> NodeLight

\* in thousandths
GetNodeTypeWeight(nt) ==
    CASE NormalizeNodeType(nt) = NodePool -> 2000
      [] NormalizeNodeType(nt) = NodeFull -> 1500
      [] OTHER -> 1000

ClampScoreQ(q) == IF q > One THEN One ELSE q

Abs(n) == IF n < 0 THEN -n ELSE n

\* Mutant: a deduction may go below zero.
AddPointsQSigned(q, num, denom) ==
    IF num < 0 THEN q - (One * Abs(num)) \div (100 * denom)
    ELSE ClampScoreQ(q + (One * num) \div (100 * denom))

\* num / denom points more or fewer; the quotient is truncated toward zero.
AddPointsQ(q, num, denom) ==
    LET delta == (One * Abs(num)) \div (100 * denom)
    IN  CASE denom = 0 -> q
          [] denom # 0 /\ num < 0 -> IF delta >= q THEN 0 ELSE q - delta
          [] OTHER -> ClampScoreQ(q + delta)

\* floor(stake * weight / 1000 * score): a big.Int, cut to a uint64 at the end
EffectivePower(v) ==
    ((v.stake * GetNodeTypeWeight(v.ntype) * v.score) \div (One * 1000)) % PowerWord
===============================================================================
