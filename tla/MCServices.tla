------------------------------- MODULE MCServices -------------------------------
(***************************************************************************)
(* Instances of the parts around the engine: the gate of POST /tx (TxGate) *)
(* and the limiter (Limiter) of thomasd, the light router (LightRouter),   *)
(* the reward engine (Rewards) and the proofs of accounts (StateProof).    *)
(* They share no state: a behaviour exercises one of them and leaves the   *)
(* others in a fixed initial state.                                        *)
(***************************************************************************)
EXTENDS TxGate, Limiter, LightRouter, Rewards, MCStateProof, TLC

VARIABLE running    \* the part this behaviour exercises
-------------------------------------------------------------------------------
\* Requests for TxGate: a bound sender and an unbound one, the amounts around which
\* the minimum fee steps, the largest int64, and every combination of key, signature
\* and commitment.
MCBound == [a \in {"alice"} |-> "k1"]

Bodies == [chain : {"", "ours", "other"}, amount : {-1, 0, 1, 400, 401, HalfWord - 1},
           fee : {-1, 0, 1, 2, HalfWord - 1}, from : {"alice", "x"}, to : {"bob", "x"},
           expiry : {0, 2}]

\* what the headers carry, on one body that passes the precheck
Headers == [key : {NoKey, BadKey, "k1", "k2"},
            by : {NoKey, BadKey, "k1", "k2"}, over : {"this", "other"},
            commit : {"", "this", "other"}, from : {"alice", "bob"}]

Numbers == {[json |-> TRUE, chain |-> b.chain, amount |-> b.amount, fee |-> b.fee,
             from |-> b.from, to |-> b.to, expiry |-> b.expiry, key |-> "k1",
             sig |-> [by |-> "k1", over |-> "this"], commit |-> "this"] : b \in Bodies}

Credentials == {[json |-> TRUE, chain |-> "ours", amount |-> 400, fee |-> 1,
                 from |-> h.from, to |-> "bob", expiry |-> 0, key |-> h.key,
                 sig |-> [by |-> h.by, over |-> h.over], commit |-> h.commit] : h \in Headers}

Garbled == {[c EXCEPT !.json = FALSE] : c \in {CHOOSE c \in Credentials : TRUE}}

MCReq == Numbers \cup Credentials \cup Garbled

MCEnv == [verifySig : BOOLEAN, requireKey : BOOLEAN, requireCommit : BOOLEAN]
-------------------------------------------------------------------------------
\* Requests for Limiter: restores, a path the limiter does not know, a preflight.
MCHttpReq == {[path |-> "restore", method |-> "POST", body |-> "valid"],
              [path |-> "create", method |-> "POST", body |-> "valid"],
              [path |-> "restore", method |-> "OPTIONS", body |-> "valid"]}

\* Transactions for LightRouter: two senders, one of which sends two different
\* transactions with its first nonce, and one for another chain.
MCLcTx == {[from |-> "a", nonce |-> n, chain |-> 777, note |-> x] : n \in 0 .. 1, x \in {1, 2}}
          \cup {[from |-> "b", nonce |-> 0, chain |-> c, note |-> 1] : c \in {777, 1}}

\* Records for Rewards: a common validator, one whose weight times the share reaches
\* RewardWord once it has participated twice, and a pool that weighs nothing until it
\* has participated twice.  The schedule runs dry in epoch 2.
Rec(a, c, s, p) == [addr |-> a, class |-> c, consensus |-> s, participation |-> 0, pool |-> p,
                    rewarded |-> 0, updated |-> 0]
MCFirstScores == {("u" :> Rec("u", "g1", 1, FALSE)) @@ ("v" :> Rec("v", "g2", 0, FALSE))
                    @@ ("w" :> Rec("w", "g1", -4, TRUE))}
MCStakeBase == [c \in {"g1", "g2"} |-> IF c = "g1" THEN 3 ELSE 98]
MCScheduleMint == <<9, 12, 0>>
MCEpochMint == <<11>>
-------------------------------------------------------------------------------
Parts == {"gate", "limiter", "light", "rewards", "proofs"}

MCInit ==
    /\ running \in Parts
    /\ Init /\ RlInit /\ LcInit /\ RewardInit /\ ProofInit
    /\ running = "gate" \/ /\ req = (CHOOSE r \in Garbled : TRUE)
                           /\ env = (CHOOSE e \in Env : TRUE)
                           /\ height = 0

MCNext ==
    \/ /\ running = "gate" /\ Next
       /\ UNCHANGED <<running, rlVars, lcVars, rewardVars, proofVars>>
    \/ /\ running = "limiter" /\ RlNext
       /\ UNCHANGED <<running, vars, lcVars, rewardVars, proofVars>>
    \/ /\ running = "light" /\ LcNext
       /\ UNCHANGED <<running, vars, rlVars, rewardVars, proofVars>>
    \/ /\ running = "rewards" /\ RewardNext
       /\ UNCHANGED <<running, vars, rlVars, lcVars, proofVars>>
    \/ /\ running = "proofs" /\ ProofNext
       /\ UNCHANGED <<running, vars, rlVars, lcVars, rewardVars>>

MCSpec ==
    MCInit /\ [][MCNext]_<<running, vars, rlVars, lcVars, rewardVars, proofVars>>

CallSym == Permutations(Call) \cup Permutations(LcCall)
===============================================================================
