-------------------------------- MODULE Probes --------------------------------
(***************************************************************************)
(* The handlers of internal/rpc/router.go that look at the engine through  *)
(* several calls, each of which takes and releases a lock: GET             *)
(* /health/chain, /merkle, /stats.json, /stats.sys, /stats.plus, /metrics, *)
(* /minting, /block/{height}/light-proof, and POST /round/commit_safe and  *)
(* /round/commit_safe2.  Between two calls of a probe the engine (module   *)
(* Engine) takes any steps.                                                *)
(*                                                                         *)
(* One probe at a time is enough: probes do not touch one another's state, *)
(* and the commit of another commit_safe is a CommitRound of the engine.   *)
(***************************************************************************)
EXTENDS Engine

CONSTANT MintAccounts      \* the four accounts /minting adds up, in the order it reads them

ASSUME ProbesAssumption ==
    /\ MintAccounts \in Seq(Addr) /\ Len(MintAccounts) > 0
    /\ \A i, j \in 1 .. Len(MintAccounts) : MintAccounts[i] = MintAccounts[j] => i = j

VARIABLES
    at,       \* the next call of the probe
    saw,      \* what its calls returned so far
    reply     \* what it answered last

probeVars == <<at, saw, reply>>
allVars == <<vars, probeVars>>

\* n is the first number read and m the second; root and ready are the answer of
\* LatestCommitRoot; leaves0, chain0 and nonces0 are the receipts, the headers and
\* the sum of all nonces when the probe began.
NothingSeen == [n |-> 0, m |-> 0, ready |-> FALSE, root |-> 0,
                leaves0 |-> 0, chain0 |-> 0, nonces0 |-> 0]

\* how many transfers were ever applied to these accounts
Nonces(d) == MapThenSumSet(LAMBDA a : d.acct[a].nonce, Addr)

NoReply == [kind |-> "none", reason |-> "none"]

ProbeInit == Init /\ at = "idle" /\ saw = NothingSeen /\ reply = NoReply

\* A probe begins with its first call, which returns n.
Begin(n, next) ==
    /\ up /\ at = "idle"
    /\ at' = next
    /\ saw' = [NothingSeen EXCEPT !.n = n, !.leaves0 = Len(leaves), !.chain0 = Len(chain)]
    /\ reply' = NoReply
    /\ UNCHANGED vars

Answer(kind, reason) ==
    /\ at' = "idle"
    /\ reply' = [kind |-> kind, reason |-> reason]
-------------------------------------------------------------------------------
(***************************************************************************)
(* GET /health/chain                                                       *)
(***************************************************************************)
HealthHeight == Begin(height, "health_receipts")

\* Mutant: the receipts map is counted, which holds one receipt per transfer.
HealthReceiptsOfMap ==
    /\ at = "health_receipts"
    /\ saw' = [saw EXCEPT !.m = Cardinality(Stored)]
    /\ at' = "health_root"
    /\ UNCHANGED <<vars, reply>>

HealthReceipts ==
    /\ at = "health_receipts"
    /\ saw' = [saw EXCEPT !.m = Len(leaves)]
    /\ at' = "health_root"
    /\ UNCHANGED <<vars, reply>>

HealthRoot ==
    /\ at = "health_root"
    /\ saw' = [saw EXCEPT !.ready = tip.ready, !.root = tip.root]
    /\ at' = "health_header"
    /\ UNCHANGED <<vars, reply>>

\* LatestEternityHeader, and the answer: a later reason overwrites an earlier one.
\* The header has no validators root and the score records hash to zero in the
\* default build, so those two always agree.
HealthHeader ==
    /\ at = "health_header"
    /\ Answer("health",
              IF Len(chain) = born THEN "header_unavailable"
              ELSE IF saw.ready /\ chain[Len(chain)].commitRoot # saw.root
              THEN "commit_root_mismatch"
              ELSE IF ~saw.ready THEN "commit_root_unavailable"
              ELSE IF saw.n # saw.m THEN "height_mismatch"
              ELSE "ok")
    /\ UNCHANGED <<vars, saw>>
-------------------------------------------------------------------------------
(***************************************************************************)
(* GET /merkle                                                             *)
(***************************************************************************)
\* The root stands for the leaves it covers; n is how many they are.
MerkleRoot == Begin(Len(leaves), "merkle_count")

MerkleCount ==
    /\ at = "merkle_count"
    /\ saw' = [saw EXCEPT !.m = Len(leaves)]
    /\ Answer("merkle", "none")
    /\ UNCHANGED vars
-------------------------------------------------------------------------------
(***************************************************************************)
(* GET /stats.json, /stats.sys, /stats.plus and /metrics                   *)
(***************************************************************************)
\* /stats.plus asks for the merkle root first; of the other methods it and /metrics
\* look for by name the engine has none.
StatsPlusRoot == Begin(Len(leaves), "stats_height")

StatsPlusHeight ==
    /\ at = "stats_height"
    /\ saw' = [saw EXCEPT !.n = height]
    /\ at' = "stats_receipts"
    /\ UNCHANGED <<vars, reply>>

StatsHeight == Begin(height, "stats_receipts")

StatsReceipts ==
    /\ at = "stats_receipts"
    /\ saw' = [saw EXCEPT !.m = Len(leaves)]
    /\ Answer("stats", "none")
    /\ UNCHANGED vars

\* /metrics prints both numbers and reads the height again for thomas_ready.
MetricsReceipts ==
    /\ at = "stats_receipts"
    /\ saw' = [saw EXCEPT !.m = Len(leaves)]
    /\ at' = "metrics_ready"
    /\ UNCHANGED <<vars, reply>>

MetricsReady ==
    /\ at = "metrics_ready"
    /\ Answer("metrics", IF height > 0 THEN "ready" ELSE "starting")
    /\ UNCHANGED <<vars, saw>>
-------------------------------------------------------------------------------
(***************************************************************************)
(* GET /minting                                                            *)
(***************************************************************************)
MintingStart ==
    /\ up /\ at = "idle"
    /\ at' = "minting"
    /\ saw' = [NothingSeen EXCEPT !.nonces0 = Nonces(db)]
    /\ reply' = NoReply
    /\ UNCHANGED vars

\* Mutant: the last account read is read again.
MintingReadTwice ==
    LET a == MintAccounts[IF saw.m = 0 THEN 1 ELSE saw.m]
    IN  /\ at = "minting"
        /\ saw' = [saw EXCEPT !.n = (@ + db.acct[a].bal) % Word, !.m = @ + 1]
        /\ IF saw.m + 1 = Len(MintAccounts) THEN Answer("minting", "none") ELSE UNCHANGED <<at, reply>>
        /\ db' = Touch(db, {a})
        /\ UNCHANGED <<up, ledgerVars, commitVars, stateFile, ledgerFile, workerVars, crashes>>

\* One GetAccount after another, under the database lock of each: n is the sum so
\* far, m the accounts read.  Each read leaves an entry behind.
MintingRead ==
    LET a == MintAccounts[saw.m + 1]
    IN  /\ at = "minting"
        /\ saw' = [saw EXCEPT !.n = (@ + db.acct[a].bal) % Word, !.m = @ + 1]
        /\ IF saw.m + 1 = Len(MintAccounts) THEN Answer("minting", "none") ELSE UNCHANGED <<at, reply>>
        /\ db' = Touch(db, {a})
        /\ UNCHANGED <<up, ledgerVars, commitVars, stateFile, ledgerFile, workerVars, crashes>>
-------------------------------------------------------------------------------
(***************************************************************************)
(* GET /block/{height}/light-proof                                         *)
(***************************************************************************)
\* EternityHeaderAt: the newest header of this process with that height.
HeadersAt(h) == {k \in born + 1 .. Len(chain) : chain[k].height = h}

\* The handler keeps the header: its index in `chain`.
LightProofHeader(h) ==
    \/ /\ up /\ at = "idle" /\ HeadersAt(h) # {}
       /\ at' = "light_bundle"
       /\ saw' = [NothingSeen EXCEPT !.n = Max(HeadersAt(h)), !.leaves0 = Len(leaves),
                                     !.chain0 = Len(chain)]
       /\ reply' = NoReply
       /\ UNCHANGED vars
    \/ /\ up /\ at = "idle" /\ HeadersAt(h) = {}
       /\ Answer("light_proof", "not_found")
       /\ UNCHANGED <<vars, saw>>

Records(h) == {i \in 1 .. Len(feed) : feed[i].height = h}

\* CommitBundleAt, called by name: m is the bundle.  With a bundle the handler goes on
\* to take the address of a value that has none, and reflection panics.
LightProofBundle ==
    LET found == Records(chain[saw.n].height)
    IN  /\ at = "light_bundle"
        /\ IF found = {} THEN Answer("light_proof", "commit_not_found") /\ UNCHANGED saw
           ELSE /\ Answer("light_proof", "panic")
                /\ saw' = [saw EXCEPT !.m = feed[Max(found)].bundle]
        /\ UNCHANGED vars

\* light.Verify of a header, a bundle and a validators root.  A bundle of the engine
\* varies in its round alone, which stands for its hash too; its quorum hash is zero.
Verify(hdr, bundle, validatorsRoot) ==
    CASE hdr.round # bundle -> "commit metadata mismatch"
      [] hdr.round = bundle /\ bundle # hdr.commitRoot -> "commit root mismatch"
      [] hdr.round = bundle /\ bundle = hdr.commitRoot /\ hdr.stateRoot # validatorsRoot ->
           "validators root mismatch"
      [] OTHER -> "ok"
-------------------------------------------------------------------------------
(***************************************************************************)
(* POST /round/commit_safe and /round/commit_safe2.  The engine has none   *)
(* of the methods commit_safe2 looks for by name, so it goes on as         *)
(* commit_safe does.                                                       *)
(***************************************************************************)
CommitSafeReceipts == Begin(Len(leaves), "commit_height")

\* Mutant: the comparison is not strict.
CommitSafeHeightOffByOne ==
    /\ at = "commit_height"
    /\ saw' = [saw EXCEPT !.m = height]
    /\ IF height >= saw.n THEN Answer("commit", "inconsistent_state")
       ELSE at' = "commit" /\ UNCHANGED reply
    /\ UNCHANGED vars

\* More heights than receipts: the handler takes the state for inconsistent.
CommitSafeHeight ==
    /\ at = "commit_height"
    /\ saw' = [saw EXCEPT !.m = height]
    /\ IF height > saw.n THEN Answer("commit", "inconsistent_state")
       ELSE at' = "commit" /\ UNCHANGED reply
    /\ UNCHANGED vars

CommitSafeCommit ==
    /\ at = "commit"
    /\ CommitRound
    /\ Answer("commit", "committed")
    /\ UNCHANGED saw

CommitSafeNoPending ==
    /\ at = "commit"
    /\ lastCommitted >= Len(leaves)
    /\ Answer("commit", "no_pending")
    /\ UNCHANGED <<vars, saw>>
-------------------------------------------------------------------------------
\* A step of the engine.  A probe does not outlive its process, and a reply that was
\* sent is forgotten.
EngineStep ==
    /\ Next
    /\ IF up' /\ at # "idle" THEN UNCHANGED probeVars
       ELSE at' = "idle" /\ saw' = NothingSeen /\ reply' = NoReply

ProbeStep ==
    \/ HealthReceipts \/ HealthRoot \/ HealthHeader
    \/ MerkleCount
    \/ StatsPlusHeight \/ StatsReceipts \/ MetricsReceipts \/ MetricsReady
    \/ MintingRead
    \/ LightProofBundle
    \/ CommitSafeHeight \/ CommitSafeCommit \/ CommitSafeNoPending

ProbeNext ==
    \/ HealthHeight \/ MerkleRoot \/ CommitSafeReceipts
    \/ StatsPlusRoot \/ StatsHeight \/ MintingStart
    \/ \E h \in 0 .. Len(leaves) : LightProofHeader(h)
    \/ ProbeStep
    \/ EngineStep

ProbeSpec == ProbeInit /\ [][ProbeNext]_allVars
-------------------------------------------------------------------------------
Answered(kind) == at # "idle" /\ at' = "idle" /\ up' /\ reply'.kind = kind

\* Nothing was stored or committed since the probe began.
Quiet == Len(leaves) = saw.leaves0 /\ Len(chain) = saw.chain0

\* GET /health/chain raises no false alarm at rest: a process that has committed a
\* round is reported healthy unless a receipt or a round came in while the handler
\* was between its calls, with transfers sent twice.
HealthyAtRest ==
    [][Answered("health") /\ Quiet /\ Len(chain) > born => reply'.reason = "ok"]_allVars

\* The receipt of height i - 1 is under the root of some round.
InARound(i, rs) == \E k \in 1 .. Len(rs) : \E j \in 1 .. Len(rs[k].root) :
                      rs[k].root[j] = leaves[i]

\* What /round/commit_safe answers is about the receipts its caller could know of:
\* "committed" and "no_pending" both mean that every receipt it counted is under the
\* root of a round, and it refuses only if a receipt came between its two reads.
CommitSafeKeepsItsWord ==
    [][Answered("commit") =>
         IF reply'.reason = "inconsistent_state" THEN ~Quiet
         ELSE \A i \in 1 .. saw.n : InARound(i, rounds')]_allVars

\* The counts of GET /merkle, /stats.* and /metrics never fall short of what the
\* handler read before them, exceed it only by receipts stored in between, and the
\* node that shows a height above zero shows itself ready.
CountsFit ==
    \A kind \in {"merkle", "stats", "metrics"} :
        Answered(kind) =>
          /\ saw'.m >= saw'.n
          /\ Quiet => saw'.m = saw'.n
          /\ kind = "metrics" /\ saw'.n > 0 => reply'.reason = "ready"

\* The most a transfer moves out of or into one account.
Largest == Max({Need(t) : t \in Transfer})

\* The total GET /minting reports, read account by account while transfers run, is
\* off by at most what the transfers applied meanwhile have moved; with none it is
\* the money of its accounts to the last mas.
MintingFits ==
    Answered("minting") =>
      LET real == MapThenSumSet(LAMBDA a : db.acct[a].bal, {MintAccounts[i] : i \in 1 .. Len(MintAccounts)})
          slack == Largest * (Nonces(db) - saw.nonces0)
      IN  saw'.n <= real + slack /\ real <= saw'.n + slack

\* What the handlers report that read the engine piece by piece (/merkle, /stats.*,
\* /metrics, /minting) is off by no more than what happened between their calls.
ReadingsFit == [][CountsFit /\ MintingFits]_allVars

\* What light.Verify may say of a header and a bundle that belong together, depending
\* on the validators root it is given.
Paired == {"ok", "validators root mismatch"}

\* A bundle that the light-proof handler finds is that of its header, whatever was
\* committed or dropped between its two calls, and one of the FeedCap newest is missing
\* only if a commit came between them.
LightAnswerFits ==
    Answered("light_proof") =>
      /\ reply'.reason = "commit_not_found" => ~Quiet \/ saw.n <= Len(chain) - FeedCap
      /\ reply'.reason # "commit_not_found" =>
           \A k \in 1 .. Len(chain) :
             Verify(chain[saw.n], saw'.m, chain[k].stateRoot) \in Paired

\* The two calls of the light-proof handler agree: light.Verify never rejects the header
\* and the bundle for their commit.  What the handler makes of them is LightProofServed.
LightPairsAgree == [][LightAnswerFits]_allVars

\* "Light clients can fetch GET /block/{height}/light-proof, which returns the canonical
\* header, commit bundle and validator root" (docs/reward_integration.md:66): a height
\* whose header and bundle the handler has found is answered with them.
LightProofServed ==
    /\ reply.kind = "light_proof" /\ reply.reason # "not_found"
    /\ Records(chain[saw.n].height) # {}
    => reply.reason = "ok"
===============================================================================
