-------------------------------- MODULE Rewards --------------------------------
(***************************************************************************)
(* The reward engine: RewardEngine.Compute and Apply (internal/rewards)    *)
(* over the storage adapter (internal/state/rewards, the key/value part of *)
(* internal/state/state.go).                                               *)
(*                                                                         *)
(* Apply lists the score records, computes the payouts and stores, one     *)
(* call after the other, the summary of the epoch, the payouts and the     *)
(* records with their participation cleared; it returns at the first call  *)
(* that fails, and its caller may try again.  The list comes out of a Go   *)
(* map, in any order.  Apply has the build tag legacy_penalty and no       *)
(* caller; docs/reward_integration.md gives the order of calls modelled    *)
(* here: score changes during a block, Apply at its end.  A record stands  *)
(* under the key of its normalised address.                                *)
(***************************************************************************)
EXTENDS Emission, Integers, FiniteSetsExt, SequencesExt

CONSTANTS
    Member,          \* validators with a score record
    StakeBase,       \* WeightConfig.StakeBase: stake class -> weight
    PoolMultiplier,  \* WeightConfig.PoolMultiplier
    RewardWord,      \* 2^64
    EpochBlocks,     \* EmissionSchedule.EpochBlocks; 0 = the schedule does not decay
    ScheduleMint,    \* EmissionSchedule: its emission in each of its epochs
    EpochLength,     \* params.EpochLengthBlocks
    FirstScores,     \* the records at the start: a set of functions on Member
    FirstBlock,      \* the height at which Apply is first called, past epoch 0: a record
                     \* that was never rewarded reads as rewarded for epoch 0
    MaxBlock,        \* bound on the height
    MaxTries,        \* bound on failed calls
    MaxParticipation \* bound on the participation within an epoch

\* ScoreRecord
Score == [addr : Member, class : DOMAIN StakeBase, consensus : Int,
          participation : 0 .. MaxParticipation, pool : BOOLEAN, rewarded : Nat, updated : Nat]

ASSUME RewardsAssumption ==
    /\ \A c \in DOMAIN StakeBase : StakeBase[c] \in Nat
    /\ PoolMultiplier \in Nat /\ RewardWord \in Nat /\ RewardWord > 100
    /\ EpochBlocks \in Nat /\ EpochLength \in Nat
    /\ ScheduleMint \in Seq(Nat) /\ ScheduleMint # <<>>
    /\ IsFiniteSet(Member)
    /\ \A s \in FirstScores :
         s \in [Member -> Score] /\ \A v \in Member : s[v].addr = v /\ s[v].rewarded = 0
    /\ FirstBlock \in Nat /\ MaxBlock \in Nat /\ MaxTries \in Nat /\ MaxParticipation \in Nat

VARIABLES
    block,       \* the height whose rewards are due
    scores,      \* validators/{addr}/score
    payouts,     \* reward/{epoch}/v/{addr}: a function on <<epoch, addr>>
    summaries,   \* reward/{epoch}/summary
    treasury,    \* balances of the foundation's and the exchange's accounts
    apply,       \* where Apply is: its phase, the listed records and what is left to store
    tries        \* failed calls so far

rewardVars == <<block, scores, payouts, summaries, treasury, apply, tries>>

Idle == [phase |-> "idle"]

RewardInit ==
    /\ block = FirstBlock
    /\ scores \in FirstScores
    /\ payouts = [k \in {} |-> 0]
    /\ summaries = [e \in {} |-> 0]
    /\ treasury = [foundation |-> 0, exchange |-> 0]
    /\ apply = Idle
    /\ tries = 0
-------------------------------------------------------------------------------
EpochOf(h) == IF EpochLength = 0 THEN 0 ELSE h \div EpochLength

CurrentEpoch(h) == IF EpochBlocks # 0 THEN h \div EpochBlocks ELSE EpochOf(h)

EmissionAt(h) ==
    LET e == IF EpochBlocks = 0 THEN 1 ELSE h \div EpochBlocks + 1
    IN  ScheduleMint[IF e <= Len(ScheduleMint) THEN e ELSE Len(ScheduleMint)]

\* Compute: a schedule that has run dry falls back to the block mint.
Minted(h) == IF EmissionAt(h) = 0 THEN BlockMintAt(h) ELSE EmissionAt(h)

SummaryAt(h) ==
    LET split == SplitMint(Minted(h))
    IN  [height |-> h, epoch |-> CurrentEpoch(h), total |-> Minted(h),
         validators |-> split.network, foundation |-> split.foundation,
         exchange |-> split.exchange]

\* the weight, and what a word holds of it
RawWeight(rec) ==
    LET sum == StakeBase[rec.class] + rec.consensus + rec.participation
        out == IF sum < 0 THEN 0 ELSE sum
    IN  IF rec.pool THEN out * PoolMultiplier ELSE out
WeightOf(rec) == RawWeight(rec) % RewardWord

SumOf(f) == MapThenSumSet(LAMBDA i : f[i], DOMAIN f)

\* the positions of the listed records that weigh something
HeavyAt(list) == {i \in DOMAIN list : WeightOf(list[i]) > 0}
WeightSum(list) == SumOf([i \in DOMAIN list |-> WeightOf(list[i])])
TotalWeight(list) == WeightSum(list) % RewardWord

\* the share of one record, the product taken modulo the word
Portion(share, rec, total) == ((share * WeightOf(rec)) % RewardWord) \div total

\* the positions that get a payout
PaidAt(share, list) == IF TotalWeight(list) = 0 \/ share = 0 THEN {} ELSE HeavyAt(list)

\* Mutant: what the divisions drop is lost.
ComputeRounded(share, list) ==
    [i \in PaidAt(share, list) |->
        [addr |-> list[i].addr, amount |-> Portion(share, list[i], TotalWeight(list))]]

\* Compute: the portions, and what their divisions drop handed out one by one in the
\* order of the list, at most one to each.  A function on the positions that are paid.
Compute(share, list) ==
    LET paid == PaidAt(share, list)
        floor == [i \in paid |-> Portion(share, list[i], TotalWeight(list))]
        remaining == (share - SumOf(floor)) % RewardWord
    IN  [i \in paid |->
            [addr |-> list[i].addr,
             amount |-> floor[i] + (IF Cardinality({j \in paid : j <= i}) <= remaining
                                    THEN 1 ELSE 0)]]

\* ListValidatorScores: every record once, in the order of a Go map
Listings ==
    {[i \in 1 .. Cardinality(Member) |-> scores[s[i]]] : s \in SetToSeqs(Member)}

\* DB.SetKey
SetKey(kv, key, value) == [k \in DOMAIN kv \cup {key} |-> IF k = key THEN value ELSE kv[k]]

\* ValidatorPayoutKey
PayoutKey(epoch, addr) == <<epoch, addr>>

\* ScoreRecord.Clone and ResetForEpoch
ResetForEpoch(rec, epoch, h) ==
    [rec EXCEPT !.participation = 0, !.rewarded = epoch, !.updated = h]
-------------------------------------------------------------------------------
\* Apply: list and compute.  A list that fails leaves no trace.
Begin ==
    /\ apply.phase = "idle"
    /\ \E list \in Listings :
         apply' = [phase |-> "summary", list |-> list, height |-> block,
                   summary |-> SummaryAt(block),
                   pay |-> Compute(SummaryAt(block).validators, list), reset |-> list]
    /\ UNCHANGED <<block, scores, payouts, summaries, treasury, tries>>

\* PersistEpochSummary: the summary, and the treasury's two accounts credited (both
\* are configured).
PersistEpochSummary ==
    /\ apply.phase = "summary"
    /\ LET s == apply.summary
       IN  /\ summaries' = SetKey(summaries, s.epoch, s)
           /\ treasury' = [foundation |-> treasury.foundation + s.foundation,
                           exchange |-> treasury.exchange + s.exchange]
    /\ apply' = [apply EXCEPT !.phase = "payouts"]
    /\ UNCHANGED <<block, scores, payouts, tries>>

\* PersistValidatorPayout, in the order of the payouts.
PersistValidatorPayout ==
    /\ apply.phase = "payouts" /\ DOMAIN apply.pay # {}
    /\ LET i == Min(DOMAIN apply.pay)
           p == apply.pay[i]
       IN  /\ payouts' = SetKey(payouts, PayoutKey(apply.summary.epoch, p.addr), p.amount)
           /\ apply' = [apply EXCEPT !.pay = Restrict(@, DOMAIN @ \ {i})]
    /\ UNCHANGED <<block, scores, summaries, treasury, tries>>

\* PutValidatorScore of the record that was listed, with ResetForEpoch.
PutValidatorScore ==
    /\ apply.phase = "payouts" /\ DOMAIN apply.pay = {} /\ apply.reset # <<>>
    /\ LET rec == Head(apply.reset)
       IN  scores' = SetKey(scores, rec.addr,
                            ResetForEpoch(rec, apply.summary.epoch, apply.height))
    /\ apply' = [apply EXCEPT !.reset = Tail(@)]
    /\ UNCHANGED <<block, payouts, summaries, treasury, tries>>

\* Apply returns, and the next block begins.
Return ==
    /\ apply.phase = "payouts" /\ DOMAIN apply.pay = {} /\ apply.reset = <<>>
    /\ block < MaxBlock
    /\ apply' = Idle
    /\ block' = block + 1
    /\ UNCHANGED <<scores, payouts, summaries, treasury, tries>>

\* A call of RewardState fails: Apply returns an error and undoes nothing.
Fail ==
    /\ apply.phase # "idle" /\ ~(DOMAIN apply.pay = {} /\ apply.reset = <<>>)
    /\ tries < MaxTries
    /\ tries' = tries + 1
    /\ apply' = Idle
    /\ UNCHANGED <<block, scores, payouts, summaries, treasury>>

\* External: a consensus hook stores a record with more participation, between two
\* calls of Apply.
Participate(v) ==
    /\ apply.phase = "idle"
    /\ scores[v].participation < MaxParticipation
    /\ scores' = [scores EXCEPT ![v].participation = @ + 1, ![v].updated = block]
    /\ UNCHANGED <<block, payouts, summaries, treasury, apply, tries>>

RewardNext ==
    \/ Begin \/ PersistEpochSummary \/ PersistValidatorPayout \/ PutValidatorScore
    \/ Return \/ Fail
    \/ \E v \in Member : Participate(v)

RewardSpec == RewardInit /\ [][RewardNext]_rewardVars
-------------------------------------------------------------------------------
Paid(v) == payouts[PayoutKey(apply.summary.epoch, v)]
Heavy == {apply.list[i].addr : i \in HeavyAt(apply.list)}
NoWrap == \A i \in DOMAIN apply.list : apply.summary.validators * WeightOf(apply.list[i]) < RewardWord

\* When Apply has stored its payouts they are, to the last mas, the validators' share of
\* the emission, and in proportion to the weights but for one mas each; whatever the
\* order of the list, and after failed attempts too.  Where a uint64 product wraps they
\* are less than the share, never more.
PayoutsAddUp ==
    /\ apply.phase = "payouts" /\ DOMAIN apply.pay = {}
    /\ Heavy # {} /\ WeightSum(apply.list) < RewardWord
    /\ apply.summary.validators > 0
    => LET share == apply.summary.validators
           total == TotalWeight(apply.list)
           sum == SumOf([v \in Heavy |-> Paid(v)])
       IN  /\ sum <= share
           /\ NoWrap => /\ sum = share
                        /\ \A i \in DOMAIN apply.list :
                             LET rec == apply.list[i]
                             IN  rec.addr \in Heavy =>
                                   /\ Paid(rec.addr) * total <= share * WeightOf(rec) + total
                                   /\ Paid(rec.addr) * total + total > share * WeightOf(rec)

\* Wherever an attempt was cut off, a record that says it was rewarded for an epoch, its
\* participation gone, has a payout stored for it; or there was nothing to share, or it
\* weighed nothing.
RewardedArePaid ==
    \A v \in Member :
        LET e == scores[v].rewarded
        IN  e > 0 => \/ PayoutKey(e, v) \in DOMAIN payouts
                     \/ summaries[e].validators = 0
                     \/ WeightOf([scores[v] EXCEPT !.participation = 0]) = 0

\* The treasury's accounts cover the summaries that are stored.
TreasuryCovers ==
    /\ treasury.foundation >= SumOf([e \in DOMAIN summaries |-> summaries[e].foundation])
    /\ treasury.exchange >= SumOf([e \in DOMAIN summaries |-> summaries[e].exchange])

\* Rewards are accounted for through failures, retries and any order of the records.
RewardsAddUp == PayoutsAddUp /\ RewardedArePaid /\ TreasuryCovers
===============================================================================
