---------------------------- MODULE Participation ----------------------------
(***************************************************************************)
(* How taking part in consensus moves a validator's score and its count of *)
(* consecutive misses (internal/consensus/participation.go, dispatched by  *)
(* ApplyEvent of internal/state/validators/stub_nolegacy.go).  An event    *)
(* maps a pair of score q and miss count n to the next pair.               *)
(***************************************************************************)
EXTENDS Weights

UpdateScoreOnSuccess(q, n) == [score |-> AddPointsQ(q, 10, 1), misses |-> 0]

\* Mutant: the fatal miss is the fifth.
DeductedLate(q, n) ==
    CASE n = 1 -> q
      [] n = 2 -> AddPointsQ(q, -1, 2)
      [] n \in 3 .. 4 -> AddPointsQ(q, -2, 1)
      [] OTHER -> AddPointsQ(q, -100, 1)

\* the deduction for the n-th miss in a row
Deducted(q, n) ==
    CASE n = 1 -> q
      [] n = 2 -> AddPointsQ(q, -1, 2)
      [] n = 3 -> AddPointsQ(q, -2, 1)
      [] OTHER -> AddPointsQ(q, -100, 1)

UpdateScoreOnMiss(q, n) == [score |-> Deducted(q, n + 1), misses |-> n + 1]

UpdateScoreOnRefusedAsBackup(q, n) == [score |-> AddPointsQ(q, -10, 1), misses |-> n]

UpdateEpochBonus(q, n) == [score |-> AddPointsQ(q, 1, 1000), misses |-> n]

Events == {"success", "miss_prevote", "miss_precommit", "refused", "epoch"}

\* ApplyEvent; the epoch bonus has no event and is called by itself.
ApplyEvent(ev, q, n) ==
    CASE ev = "success" -> UpdateScoreOnSuccess(q, n)
      [] ev \in {"miss_prevote", "miss_precommit"} -> UpdateScoreOnMiss(q, n)
      [] ev = "refused" -> UpdateScoreOnRefusedAsBackup(q, n)
      [] ev = "epoch" -> UpdateEpochBonus(q, n)
===============================================================================
