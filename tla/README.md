# thomasd: TLA+ models, checks and proofs

This directory holds a formal model of the thomasd node: TLA+ modules translated
from the Go source, TLC configurations that model-check them on small instances,
and theorems that TLAPS proves for every value of the constants.

`PROJECT.json` maps each definition to the source lines it models, and lists the
runs, the mutants, the hazards, the findings and the theorems.

    tlc -workers 2 -config EngineFaults.cfg MCEngine    # a run: config and module
    tlapm EngineProofs.tla                              # the proofs of a module

## 1. The system

thomasd is one process: an HTTP server (`internal/rpc/router.go`) in front of one
engine (`internal/app/engine.go`). There is no mempool and no peer-to-peer layer;
every transfer is applied in the HTTP handler that received it, and a "block" is
cut when `POST /round/commit` is called.

| Component | State | Operations | Interacts with |
|---|---|---|---|
| Accounts `internal/state` | balances and nonces by address, a key/value map; one lock | `ApplyTransfer`, `Get` (creates the entry), `Snapshot`, `StateRoot` | called by the engine; saved to `data/state_v2.json` |
| Engine `internal/app` | height, receipts (map and list), committed rounds, headers, commit feed, supply; lock `mu` | `NewEngine`, `ApplyTransfer`, `StoreReceipt`, `CommitRound`, `RecordCommitBundle` | accounts, `data/ledger_v1.json` |
| Emission `internal/rewards`, `internal/params` | none | `BlockMintAt`, `SplitMint` | called by `CommitRound` |
| Reward engine `internal/rewards`, `internal/state/rewards` | score records, payouts and summaries by epoch in the key/value map, treasury balances | `Compute`, `Apply`, the storage adapter | no caller in the server yet (`Apply` has the build tag `legacy_penalty`) |
| Transaction gate (`POST /tx`) | none of its own | a chain of five wrappers around `txPostHandler` | reads the height, calls the engine |
| Request-to-pay (`/r2p/*`) | `r2pStore` under `r2pMu`, `data/r2p.json` | create, approve, decline, cancel, get, list | approve pays through the engine |
| Probes (`/health/chain`, `/merkle`, `/stats.*`, `/metrics`, `/minting`, `/round/commit_safe*`, `/block/{h}/light-proof`) | none | several locked engine reads each | engine |
| Validator set `internal/stake`, `internal/consensus` | a sorted list of validators, counts of misses | `ApplyOps`, score updates, validators root | no caller in the server yet |
| Rate limiter `cmd/thomasd/main.go` | token buckets by client address; lock `rlMu` | `withRateLimitRestore`, installed twice | in front of the wallet handlers |
| Light router `internal/rpc/router_lightclient.go` | nonces, receipts, headers, bundles in memory; lock `lcMu` | `POST /tx`, `POST /round/commit`, reads | a program of its own (`cmd/lightrouter`) |
| Merkle trees and proofs `internal/merkle`, `internal/types/proof.go` | none | roots, proof verification | state root, light clients |

What is hard to get right, and what a unit test hardly reaches:

* **Lock grain.** A `POST /tx` handler applies under the database lock, saves the
  state file under *no* lock, and stores its receipt under `mu`. Other handlers and
  `CommitRound` run between any two of these steps.
* **Crashes.** Three files are written at three different moments, two of them in
  place (`os.WriteFile` truncates first). The supply, the headers and the block id
  are in no file at all.
* **Overlapping handlers.** Approve looks a request up, releases the lock, tests the
  status, pays, then takes the lock again to mark it paid.
* **Reads in pieces.** The probes call the engine several times per answer.
* **Numbers.** uint64 sums, Q16.16 scores in uint32, divisions that drop remainders.
* **One lock, taken twice.** The two layers of the rate limiter charge the same bucket in
  two locked sections; the light router reads its receipts once more after unlocking.
* **Several stores, no undo.** The reward engine stores a summary, payouts and reset
  records one call after the other; a failed call leaves the earlier ones behind.

`PROJECT.json` lists 40 hazards with their lines and the properties aimed at them.

## 2. Modules

| Module | Models | Proved about |
|---|---|---|
| `Accounts` | the account database: entries, the verdict and effect of a transfer, state root | `EngineProofs`, `LedgerProofs` |
| `Emission` | the mint of a height and its split | `EngineProofs` |
| `Engine` | the engine, `POST /tx` workers, commits, files, crashes (extends the two above) | `EngineProofs`, `LedgerProofs` |
| `Locks` | the mutexes the handlers of the server wait for: every handler as the sequence of its lock operations | model-checked |
| `EngineInv` | its properties, and the environments the theorems need (`NoCrashes`, `CleanCrashes`, `SentOnce`, `OneHandler`, `MoneyFits`) | |
| `Fees` | the minimum fee | `ServicesProofs` |
| `R2P`, `R2PInv` | request-to-pay composed with `Engine` | `R2PProofs` |
| `R2PReads` | `/r2p/list`, `/r2p/get` and `/tx/get` beside the handlers of `R2P` | `R2PProofs` |
| `R2PLifecycle` | what a request promises, through restarts too: the abstract specification `R2P` implements | `R2PProofs` |
| `TxGate` | the wrapper chain of `POST /tx` | `ServicesProofs` |
| `Limiter` | the rate limit of `/wallet/restore` and the wallet handlers behind it | `ServicesProofs` |
| `LightRouter` | the light router, with the unlocked read and the death it can cause | `ServicesProofs` |
| `Rewards` | `RewardEngine.Compute` and `Apply` over the storage adapter (extends `Emission`) | `ServicesProofs` |
| `Probes` | handlers that read the engine in pieces, composed with `Engine` | `ProbesProofs` |
| `Weights`, `Participation`, `ValSet` | node weights, scores, validator set and its root | `ValSetProofs` |
| `Merkle`, `StateProof` | the hash tree, state proofs | `BaseProofs`, `StateProofProofs` |
| `MCEngine`, `MCR2P`, `MCR2PReads`, `MCProbes`, `MCValSet`, `MCStateProof` | values for the constants of the runs | |
| `MCEngineParts`, `MCServices` | several parts that share no state in one run; a behaviour exercises one of them | |
| `BaseProofs` | lemmas the other proofs use: least elements, sums over finite sets, levels and roots of the hash tree | |
| `EngineProofs` | theorems about the engine: types, rounds and vaults; money; headers, feed and supply | |
| `LedgerProofs` | more about the engine: receipts, nonces and balances (extends `EngineProofs`) | |
| `R2PProofs`, `ProbesProofs` | theorems about request-to-pay and its readers, and about the probes (both extend `LedgerProofs`, since they run the engine's actions) | |
| `ServicesProofs` | theorems about the gate, the limiter, the light router and the reward engine | |
| `ValSetProofs`, `StateProofProofs` | theorems about the validator set and its root; about state roots and proofs | |

### How state and actions correspond to the code

*Engine.* `db`, `height`, `leaves`, `receipts`, `lastCommitted`, `rounds`, `supply`,
`feed` and `tip` are the fields of `Engine`; `supplyLog` is the `supply/history/` part
of the key/value map; `stateFile` and `ledgerFile` are the two files. A **worker** is
one goroutine inside `POST /tx`, with program counter `pc` and locals `txOf`,
`status`, `snap`. Its actions are the code between two points at which the scheduler
or the disk can intervene:

    Submit          precheck reads the height (expiry)
    Apply           DB.ApplyTransfer, under the database lock
    TakeSnapshot    DB.Snapshot, under the database lock
    OpenStateFile   os.WriteFile: open and truncate, no lock
    WriteStateFile  os.WriteFile: write, no lock
    SaveStateFails  any of the last three returns an error
    StoreReceipt    append, map, saveLedger, all under mu

`CommitRound` is one step, since it holds `mu` from end to end; the account lock it
takes for the state root is inside it, so workers between `Apply` and `StoreReceipt`
are visible in that root. `ReadAccount` is a step because `DB.get` *creates* the
entry it reads and thereby changes the next state root. `Boot` is `NewEngine`.
`Crash` (the fault `crash`) may come between any two steps at which `state_v2.json` is
not open for writing. With the fault `torn` it may come between the truncation and the
write as well, and leaves a file no boot can read; `CrashInSaveLedger` leaves the
truncated ledger. The variable `chain` (with `born`) is the history of every header ever
published: it is there for the properties, the code keeps the part after `born`.

When two handlers overlap in `os.WriteFile`, the later write replaces a prefix of
the earlier one's bytes; the file is then the later document or garbage (`Mixed`),
and the model allows both.

*Hashes* are free of collisions: a merkle root stands for the sequence it is computed
over, a block id for the index of its header. In `Merkle` and `StateProof`, where
the shape of the tree is the subject, hashes are terms, built as the code builds them
(a leaf and a node are different terms because the code tags them differently). What a
leaf is computed over is kept as bytes, `key || 0x00 || value`, since an address may
contain a NUL: two claims can share one leaf.

*Locks.* A goroutine holds what is left of its lock operations in `todo`; `Lock` is
enabled only while nobody holds the mutex. A broadcast runs on a goroutine of its own
and takes `mu`, which the handler that started it still holds. What the handlers do
between the locks is in the other modules.

*Request-to-pay.* `store` is `r2pStore`; records are shared through pointers, so the
check of the status reads the value of that moment, without the lock, as in the code.
`payments` (transfers applied for a request) and `acked` (answers clients have got)
are history variables. `R2P` runs the *same* actions of `Engine` for the payment.
`R2PLifecycle` has a `Restart`: it may reopen a closed request, since decline and cancel
save nothing, and a payment a dead process made without marking it may be made again; it
never takes back `paid`. The mapping counts the transfers of the living process apart from
those of dead ones (`payments[q]` is `[made, before]`), and between a crash and the next
boot it reads a request from the file, as the boot will.
`R2PReads` adds one reader. The list selects records under `r2pMu` and encodes their
pointers after releasing it, so what it shows (`Shown`) is every mixture of the fields
before and after the write of a handler that is about to mark the record.

*TxGate.* `stage` is the wrapper the request is in. The reply is what the client gets
after `jsonizeSigErrors` has rewritten signature refusals to status 200. Integers are
signed and unsigned with a word of 2^16 in place of 2^64 (`HalfWord`): every comparison
and wrap keeps its form.

*Limiter.* A request is in the outer layer, the inner layer or the handler; each layer is
one section of `rlMu`. `int(elapsed.Minutes() * rpm)` is an integer division by the time
one token takes (`TokenTime`): the float product can fall a hair below a whole number, and
the token then comes a moment later. `spans` is a history variable.

*LightRouter.* `POST /tx` is the lock, the write of the receipt, the release, and the
second, unlocked read. Go ends the process when it notices that read beside a write
(`Die`); nothing is on disk. The other handlers are one locked section each.

*Rewards.* `Apply` is one action per call of the storage adapter, and any of them may fail
(`Fail`); a later `Apply` is the retry. The list of records comes out of a Go map, in any
order. Products, and the sum of the weights, are taken modulo `RewardWord`. `Compute` is a
function on the positions of the list that are paid (`PaidAt`); what the divisions drop goes
to the first of them, one each.

*Probes.* Each handler is one action per engine call; `saw` holds its local variables.

*ValSet.* `FindIndex` is the bisection of the code, also on a slice that is not sorted;
a batch is the fold of its operations and one sort at the end, which returns any order of
equal keys. A power is the quotient modulo `PowerWord`, as `num.Uint64()` truncates it.

*StateProof.* `BadPath` is every error `ComputeBlake3Root` returns, a sibling that is not
32 bytes included; a proof in transit may be altered in any field, and its leaf may be
split into key and value at another NUL.

## 3. Runs

| Run | Instance | Shows |
|---|---|---|
| `Probes` | 2 handlers, 2 rival transfers that may be sent twice, 3 receipts, one probe of any kind, no faults | accounts, receipts, rounds, headers, bundles and supply agree at every step; the probes raise no false alarm at rest, answer for what they saw, and err by no more than what moved between their calls |
| `EngineCrash` | one part per behaviour: the engine with 1 handler, 4 chained transfers and 2 crashes while no file is open for writing; the mutexes with 2 requests of any kind; the validator set with 2 keys, batches of 2 operations, 4 events | a restart rebuilds the ledger the dead process had, and accounts are never older than the receipts; every handler finishes; orderly batches mean what they say, scores and power stay in range, the fourth miss takes all power, the root fixes the powers |
| `EngineFaults` | 2 handlers, v1 state file, crashes, torn, failed and overlapping writes, outside bundles | rounds partition the heights whatever happens; the headers of a process are linked |
| `EngineTornHeight` | crash inside the ledger write | **violation**: header heights start again |
| `EngineTornState` | crash inside the write of the state file | **violation**: a nonce that was spent is accepted again |
| `EngineRestartLink` | one clean crash | **violation**: the first header after it names no predecessor |
| `R2PCrash` | 1 handler, 1 reader, a crash while no file is open for writing, dev mode | a paid request has its receipt; a payment that was answered reads paid for ever and its hash can be looked up; lists show the status they were asked for; the handlers implement `R2PLifecycle` through restarts |
| `R2PFaults` | overlapping calls for one request, every fault | nothing reads paid without an applied transfer |
| `R2PCloseRace` | approve and decline overlap | **violation**: a declined request was paid |
| `Services` | the parts around the engine, one per behaviour: the gate with some 900 requests (bodies, keys, signatures, commitments) x 8 settings; the limiter; the light router; the reward engine; state proofs of up to 5 accounts, one of them with a NUL in its name | admitted means in range and authorised, replies are truthful; restores stay within the rate and a patient client is served; the light router's answers agree; rewards add up through failures and retries; fresh proofs verify, accepted ones are leaves of the state, roots identify states |
| `ValidatorsBatch` | batches of 2 operations | **violation**: a batch does not mean what its operations say |
| `LightProofPanic` | a committed round, `GET /block/{height}/light-proof` | **violation**: header and bundle are found and not answered |

Each property of a passing run has a mutant: a definition commented `Mutant:` that
stands for a plausible bug in the code, under which TLC finds the property violated.
Mutants are used by nothing else.

### Bounds, and why they are enough

* *Handlers: 2.* All races in the code are between two parties (a handler and a
  handler, or a handler and a commit); the locks make a third one wait.
* *Transfers: 2 to 4*, chosen to collide: two on one nonce, one that needs the money
  of another, one to the sender itself, one to the fee receiver, one that expires.
* *Receipts: 2 to 4* (`MaxReceipts`): enough for three rounds, a round of two receipts
  and a round across an emission interval (`EmissionInterval` is 2).
* *Feed: 2* (`FeedCap`, 64 in the code), so that it overflows.
* *Crashes: 1 or 2* (`MaxCrashes`): the second hits a restarted process.
* *Accounts in state proofs: 5*, the smallest number whose tree has odd levels at two
  heights; the name of the second is that of the first, a NUL and one byte more.
* *Validators: 2 keys, batches of 2* (`MaxBatch`)*, 3 entries* (`MaxVals`)*, 4 events*: an
  addition and an operation that follows it are the shortest batch that searches an unsorted
  slice, its outcome holds one key twice, and four misses in a row take all power. A word of
  8 (`PowerWord`) lets the power of the larger stake wrap.
* *Requests in `Locks`: 2.* The only nesting in the code is `db` inside `mu`, so that a
  cycle of waiting goroutines needs no third; each request brings its broadcast along.
* *Limiter: 2 calls of one client, 7 units of time, a bucket of 3, 2 units per token.* The
  bucket is odd, so that it is emptied between the two layers, and refills from empty. Each
  client has a bucket of its own, so a second one adds nothing.
* *Light router: 2 calls, 6 transactions* (two with the same nonce, one for another chain),
  *2 commits, 2 deaths.*
* *Rewards: 3 records, blocks 2 to 4, 1 failed call, participation up to 2, a word of 1000.*
  One record weighs nothing until it participates, one reaches a product that wraps, the
  schedule runs dry in the last epoch.
* `BatchesMeanTheirOps` is about batches of any kind that name no key of the set after
  their first addition (`Orderly`). For the others the code does *not* do what the
  operations say: `ValidatorsBatch` shows it.
* `R2PCrash` has one handler; calls on different requests that overlap, which the lifecycle
  allows too, are covered by the theorem `RefinesLifecycle`, and by `R2PFaults` for the
  payments.
* `EngineCrash` has one handler and no transfer sent twice. With two handlers an older
  snapshot can overwrite a newer one in `state_v2.json`, and with transfers sent twice
  the ledger loses a leaf at restart; both are what the code does, and
  `ReceiptsCovered` and `HistoryGrows` are not claimed there.

Symmetry over the handlers is used only in runs whose properties treat them alike and
are not liveness properties. `CHECK_DEADLOCK FALSE` is set where the bounds (receipts,
crashes) end a behaviour: the server would wait for the next request.

### Fairness

`EngineCrash` assumes weak fairness of each goroutine of `Locks` and of nothing else: Go's
preemptive scheduler runs every goroutine that can run. A goroutine that waits for a mutex
cannot, and weak fairness says nothing of it while another one holds the mutex; it would be
starved only if others took the mutex again and again. Requests are finitely many here, so
nothing is asked of the order in which a mutex is handed over (Go's starvation mode sees to
that for an endless stream of requests). No request need arrive. `EveryHandlerFinishes` can
fail in this model: with the broadcast called in place of started, the handler waits for
the mutex it holds.

## 4. Proofs

The theorems hold for every value of the constants: any accounts, transfers, handlers,
requests, clients and calls, any word size, feed capacity, emission table and rate, and any
bound on receipts and crashes. Some need a condition on the environment, which `EngineInv`
names and the theorem states as its assumption:

| Condition | Means |
|---|---|
| `NoCrashes` | one process; its writes may fail |
| `CleanCrashes` | processes die while no file is open for writing; no write fails |
| `SentOnce` | no transfer is sent again while it has, or is about to have, a receipt |
| `OneHandler` | `POST /tx` requests do not overlap |
| `MoneyFits` | genesis, and what each transfer needs, fit a word (the gate admits no other) |
| `InTurn` (`R2PProofs`) | `CleanCrashes`, `OneHandler` and `SentOnce` together |
| `Gentle` (`R2PProofs`) | calls about one request do not overlap; crashes while no file is open for writing, no failed or torn write |
| `ExtBundle = {}` (`ProbesProofs`) | no commit bundle is recorded from outside |
| `MintingBounds` (`ProbesProofs`) | `MoneyFits`, and the money once per account `/minting` reads fits a word |
| `Decays` (`ServicesProofs`) | no emission interval mints more than an earlier one, as a decay by a ratio below 1 gives |
| `WeightsFit` (`ServicesProofs`) | the largest weight a record can reach, once per record, fits a word |

The conditions exclude what the code really does wrong: sections 3 ("Bounds") and 6 name
the behaviour behind each. The runs `Probes`, `EngineCrash`, `R2PCrash` and `Services` are
instances that satisfy them; `EngineTornHeight`, `EngineTornState` and `R2PCloseRace` show
what happens without `CleanCrashes` and `Gentle`.

### Engine: types, rounds, vaults (`EngineProofs`), under every fault

* **`TypeCorrect`** (`TypeOK`). `TypeOK` alone is not inductive: `StoreReceipt`
  builds a receipt from the worker's transfer, which must be a transfer and not `NoTx`
  at that point, and `Boot` counts and orders the receipts of the file, which must be
  finite. `TypeInv` adds both: `WorkerShape` (what a worker's locals hold at each `pc`)
  and `FileFinite`. The part with content is that balances stay in `0 .. Word - 1`: a
  debit happens only after the check of funds (`DebitType`), credits wrap (`CreditType`).
* **`RoundsPartitionHeights`** (`RoundsContiguous`). The committed rounds, in
  memory *and* in any readable ledger file, partition `1 .. lastCommittedHeight`. The
  file has to be part of the invariant, since `Boot` replaces memory by it. A commit
  extends the partition by one adjoining interval (`ContiguousAppend`), and a ledger
  write leaves the old file, an unreadable one, or a contiguous one.
* **`VaultsBalance`** (`VaultsHoldSupply`). `SplitConserves`: rounding in `SplitMint`
  never hands out more than the mint, and the remainder goes to the network.

### Engine: money (`EngineProofs`), under every fault

* **`MoneyIsConserved`** (`MoneyConserved`; `MoneyFits`, no v1 file). The invariant
  `MoneyInv` adds the snapshots on their way to the disk, because a readable state file is
  one of them. A credit does not wrap because one balance is at most the total; a transfer
  to oneself or to the fee receiver changes one or two entries instead of three, and each
  case is a lemma on the sum over the accounts.

### Engine: headers, feed, supply (`EngineProofs`)

* **`HeadersAreLinked`** (`HeadersLinked`, every fault). `LinkInv`: the tip names the last
  header of the process, also after `RecordCommitBundle`. Nothing is claimed of the first
  header after a restart, which is unlinked (`EngineRestartLink`).
* **`HeightsIncrease`** (`HeaderHeightsIncrease`; `NoCrashes` or `CleanCrashes`).
  `HeightInv`: no header is above the committed height, and the file holds it.
* **`RecentBundlesAreServed`** (`RecentBundlesServed`, every fault). `FeedInv` aligns the
  feed with the end of the chain: entry `i` from the end is header `i` from the end.
* **`SupplyKeepsToSchedule`** (`SupplyWithinSchedule`, every fault). `SupplyInv`: of any two
  supplies in the history, the later has at least the mint of its own height more and at most
  the emission of the heights between them (`MintFollows`). The property holds for a mint per
  round and for a mint per height, and so takes no side in what section 6 says of the two.

### Engine: receipts, nonces, balances (`LedgerProofs`)

* **`HistoryOnlyGrows`** (`HistoryGrows`, an action property) and **`RootsMatch`**
  (`CommittedRootsMatch`); `NoCrashes`, or `CleanCrashes` and `SentOnce`. `LedgerInv`:
  the file mirrors memory, each receipt carries its position, no two handlers have the same
  transfer. `loadLedger` sorts by position, so there is exactly one order it can end in,
  the list the dead process had (`HeightOrders`, by taking a first position at which they
  differ). `RootInv` ties each round to the receipts at its heights.
* **`ReceiptsAreCovered`** (`ReceiptsCovered`) and **`HeadersCoverTheReceipts`**
  (`HeadersCoverReceipts`); `NoCrashes`, or `CleanCrashes` and `OneHandler`. `CoverInv`:
  the accounts in memory, each snapshot and the state file have the settled transfers;
  a file never lags behind the ledger since the state is saved before the receipt.
* **`NoncesAreAccounted`** (`NoncesAccounted`; no faults, no v1 file). Handlers are
  classified by what they do to the transfers that have taken effect: one enters, one
  settles, or nothing changes.
* **`ReceiptsExplainBalances`** (`LedgerExplainsBalances`; the same and `MoneyFits`).
  `ExplainInv` builds on the nonces (a transfer takes effect once, so the set of effects
  has each one) and on the conservation of money (no credit wraps).

### Request-to-pay (`R2PProofs`)

* **`PaidByTransfer`** (`PaidOnlyByTransfer`, every fault and overlap). `PaidInv` adds the
  handlers that have been paid and have not marked yet.
* **`RefinesLifecycle`** (`ImplementsLifecycle`: `R2P` implements `R2PLifecycle`),
  **`PaymentsSurvive`** (`AckedPaymentsSurvive`) and **`ListsKeepTheirFilter`**
  (`ListKeepsItsFilter`, of `ReadSpec`), under `Gentle`. `LifeInv`: one handler per
  request (`Exclusive`); what it has read without the lock is still so (`Holds`); the
  living process has made one transfer for a request in payment and none for another that
  is not paid (`Counts`); the file lacks at most that a request was closed (`FileBehind`).
  The refinement has one lemma per group of actions: quiet steps stutter; a transfer
  applied is `Pay`; a mark is `Settle` or `Close`; a creation is `Ask`; a crash is `Restart`.
* **`PaidRequestsAreBacked`** (`PaidIsBacked`; one process, failed writes and any overlap).
  `BackedInv` carries the receipt from `StoreReceipt` to the mark.
* **`PaidStaysBacked`** (`PaidIsBacked` again, through restarts; `InTurn`). `KeptInv`
  carries the engine's `CoverInv` over to the composed system and adds that the receipts
  map, the ledger file and the leaves agree on what is applied, and that no handler holds a
  transfer that already is. So the map `NewEngine` rebuilds is the map that was lost, and no
  later receipt takes the place of an applied one. `R2PCrash` is an instance.
* **`ApprovedPaymentsAreFound`** (`PaymentsCanBeLookedUp`; `Gentle`, `OneHandler`,
  `SentOnce`). `LookInv` joins `LifeInv` (an answered payment stays paid) and the invariant
  above (a paid request has its receipt); the search that falls between the two locks of
  `/tx/get` still has its record to find, since a paid record never changes.

### Probes (`ProbesProofs`)

* **`ProbesAreEngineSteps`**. A probe's steps are the engine's own (a read, a commit, the
  creation of an account entry) or leave the engine alone, so the theorems above hold beside
  probes; the proofs below use them.
* **`HealthIsTrueAtRest`** (`HealthyAtRest`) and **`LightPairsDoAgree`** (`LightPairsAgree`);
  `ExtBundle = {}`, every fault. `ReadInv`: the counts of a probe are in the order of its
  reads and below the receipts there are now, and the tip it read is the tip as long as no
  header came (`SeenInv`); the tip is the newest header (`TipInv`); the feed is aligned with
  the chain (`FeedInv`).
* **`CommitSafeIsTrue`** (`CommitSafeKeepsItsWord`; `NoCrashes`, or `CleanCrashes` and
  `SentOnce`). From `LedgerInv`, `RootInv` and the partition of the heights.
* **`ReadingsDoFit`** (`ReadingsFit`; `MintingBounds`). `MintInv`: the sum of the accounts
  read so far is what they hold now, but for one transfer's worth of money per nonce used since.

### Gate, limiter, light router (`ServicesProofs`), unconditionally

* **`AdmittedTransfersFit`**, **`AdmittedTransfersAuthorised`**, **`RepliesAreTruthful`**.
  `GateInv` says what each wrapper has established when the request is past it.
* **`LightAnswersAgreeAlways`** (`LightAnswersAgree`). `LcInv`: the goroutine that is
  writing holds `lcMu`; the nonces are those the receipts explain; a goroutine in its
  unlocked read has its receipt.
* **`PatientClientsAreServed`** (`PatientIsServed`). While a patient call is in flight it is
  the only one of its client, and its bucket holds or is owed what the two layers take.
* **`RestoresAreBounded`** (`RestoresBounded`). An amortised argument: for every moment
  `t`, the tokens charged to a client since `t` (two per restore, one per restore that is
  between the layers) and those left in its bucket are at most a full bucket and what was
  refilled since (`Charged`); refills round down, so their sum over a stretch is at most
  the quotient of the stretch.

### Reward engine (`ServicesProofs`)

* **`PayoutsDoAddUp`** (`PayoutsAddUp` and `TreasuryCovers`), unconditionally. `RewardInv`:
  while `Apply` runs, the payouts it has computed and no longer holds are stored with their
  amounts (`Stored`); every summary is that of a block of its epoch; a stored summary adds to
  the sum of the summaries at most what it adds to the treasury (`SumStored`), less when it
  replaces one. That payouts are the share is arithmetic on sums of any length: the portions
  add up to at most the share, since each is at most its proportion (`PortionsFit`); where no
  product wraps they leave less than one for each record that is paid, and exactly that many
  get one more (`EarlyCount`, `SharesAddUp`).
* **`RewardsDoAddUp`** (`RewardsAddUp`; `Decays`, `WeightsFit`) adds `RewardedArePaid`.
  `SettledInv`: a record that says it was rewarded is settled, wherever an attempt was cut
  off. Both conditions are needed. A later block of the epoch replaces the summary, and if it
  had something to share where the earlier one had nothing, records reset by the earlier one
  would have no payout (`DryStays`). A sum of weights that wraps to zero pays no one while
  every record is reset (`FittingWeights`).

### Validator set (`ValSetProofs`)

* **`ScoresStayFractions`** (`ScoresAndPowerBounded`; batches of any length). `ValInv`: the
  set holds validators with a score in `0 .. One` and a normalised node type. It rests on
  `AddPointsType` and `ClampType` (no event or operation leaves the range), `FoldType` (a
  batch of any length ends in a slice of validators) and `PowerBounded`.
* **`OpsMeanWhatTheySay`** (`BatchesMeanTheirOps`; batches of any length). `OrderInv`:
  between batches the set is sorted. `FindIndexFinds`: on any slice the bisection returns an
  index of the key or none, and on a sorted one none only if the key is not there; by the
  width of the range. Up to the first addition the slice stays sorted (`ApplyOpAscends`),
  after it an orderly batch names only keys that are not there, which the bisection does not
  find either; so each operation does what it means (`ApplyOpMeant`), and the fold of the
  batch follows the fold of its meanings (`FoldMeant`, by the least operation at which they
  part). `SortedPermutes`: sorting, in whatever order it leaves equal keys, is a permutation.
* **`FourthMissTakesAllPower`** (`FourthMissSilences`; batches of any length, sets with a key
  twice included). The deduction of a fourth miss is at least 1.0 (`FourthMissScore`), and
  without a score there is no power (`NoScoreNoPower`).
* **`RootsTellPowersApart`** (`RootFixesPower`; batches of any length, sets with a key twice
  included). Equal roots mean equal leaves (`RootFixesPayloads`, below), and leaves carry
  key and power (`PayloadFixesPower`).

### State roots and proofs (`StateProofProofs`, over `BaseProofs`), unconditionally

* **`StateRootsIdentifyStates`** (`RootsIdentifyStates`). `RootFixesPayloads`: two lists
  with one root have the same members, for lists of any length. Repeating the last node of an
  odd level does make longer lists with the same root; leaves sorted by distinct keys exclude
  them. The levels of the tree are a recursive function; that each level exists, is half as
  long and spans the leaves below it is shown by the least level at which it would fail.
* **`VerifierAcceptsTruthOnly`** (`AcceptedIsTrue`). A path that leads from a leaf hash to
  the root goes down through nodes of the tree, since leaf and node hashes differ in their
  tag, so it ends in one of its leaves, whatever siblings and directions the proof lists
  (`AcceptedIsLeaf`). The bytes of that leaf are those of an account. Contents hold no NUL,
  so the separator is the last NUL of the leaf (`LastNul`), and a proof whose value has none
  splits it there as well (`OneSplit`): it states the account's own name and contents.
  Without that condition key and value are not determined; section 6 says what that means.
* **`FreshProofsAreAccepted`** (`FreshProofsVerify`). The index on each level is the parent
  of the index below (`ParentIsAbove`), to the top (`PathsLeadUp`).

### Assumptions

`AccountsAssumption` (finitely many addresses and transfers, over known addresses, with
natural amounts; genesis fits a word), `EmissionAssumption` (positive interval, nonempty
table), `EngineAssumption` (finitely many handlers; the marker values are no databases and
no transfers), `LedgerFileAssumption` and `StoreFileAssumption` (a missing or truncated file
is none of the documents), `R2PAssumption`, `TxGateAssumption`, `LimiterAssumption` (two
requests a minute or more; the code has five), `LightRouterAssumption`, `WeightsAssumption`
(a word is not empty), `ValSetAssumption`
(keys are numbers, operations have the fields of `Op`), `StateProofAssumption` and
`ContentAssumption` (finitely many accounts with names of their own; JSON has no NUL),
`ProbesAssumption` (`/minting` reads
distinct accounts, as the code's four are), `RewardsAssumption` (finitely many validators,
each with a record of its own that was never rewarded; natural weights and emissions). TLC evaluates each in
the runs of its module. Finiteness is no restriction: an account map and the set of
goroutines are finite, and the theorems are about every finite set.

### Induction

The library's induction theorems take an operator as a parameter, which the installed
provers cannot instantiate. `BaseProofs` uses induction in the form of sets instead: a set of
natural numbers that is not empty has a least element (`NatMin`, from `WFMin` and
`NatLessThanWellFounded`), so a counterexample of least cardinality can be taken. In this way
it proves, for every finite set, what `MapThenSumSet` computes (it exists, any element may be
taken first, sums of disjoint sets add, a sum bounds its terms; sums of sums, of multiples and
along a bijection), and for every list what the
levels of the hash tree are. `ValSetProofs` does the same for the bisection of `FindIndex` and
the fold of a batch, `StateProofProofs` for the walk up a path.

### Only model-checked

* Liveness (`EveryHandlerFinishes`): fairness and `ENABLED` are beyond the prover.

## 5. Plan

The engine and its files came first, then what is composed with it (request-to-pay, the
probes), then the parts around it. Every invariant and action property of the passing runs
is a theorem; liveness is model-checked. What is left is to extend the model to the parts
section 7 lists.

## 6. Where the code and its documents disagree

Shown by a run:

* `EngineTornHeight`: `saveLedger` (engine.go:579) rewrites the ledger in place. After a
  crash inside the write the next boot finds no ledger, and header heights start again
  at 1, against "Monotonic block height." (docs/consensus_headers.md:15).
* `R2PCloseRace`: an approval (router.go:1361) that overlaps a decline pays, and the
  record reads `declined`. The opposite order also exists: a decline that was answered
  is overwritten by `paid`.
* `EngineTornState`: `saveStateMas` (engine.go:522) rewrites the state file in place. After
  a crash inside the write the accounts start from genesis while the ledger keeps its
  receipts, and a transfer on a spent nonce is applied again, where
  server/static/openapi/tx.json:63 documents "apply:bad_nonce".
* `EngineRestartLink`: `prev_hash` is zero in the first header after every restart
  (engine.go:369), against "BLAKE3-256 hash of the previous header."
  (docs/consensus_headers.md:18). `HeadersLinked` is stated per process.
* `ValidatorsBatch`: `ApplyOps` bisects a slice to which the same batch has appended
  (stake/ops.go:27), so that a key of the set is not found: it is left unchanged, not removed,
  or added a second time, against "always kept ascending by PubKey" (in Korean,
  stake/types.go:20).
* `LightProofPanic`: the light-proof handler panics once header and bundle are found
  (`reflect.Value.Addr` of a value that cannot be addressed, router.go:1095), where
  docs/reward_integration.md:66 promises header, bundle and validator root.

Met while reading or modelling, without a run of their own:

* Supply totals are lost at restart: they live in the key/value map, which is in no file
  (state_reward.go:69 against :16).
* `CommitRound` mints once per round at the round's last height, not once per height
  (engine.go:217), where docs/reward_integration.md:86 counts the mints by the height.
  `SupplyWithinSchedule` is true of both: it bounds the supply from above by a mint per
  height and from below by a mint per round served.
* A leaf of the state does not determine its key and value: names may hold NULs
  (state/merkle.go:25, types/proof.go:50), so that `VerifyBinary` accepts the name up to a
  NUL as the key and the rest as its value. `AcceptedIsTrue` says what is sure all the same:
  the bytes are those of an account, and a value without NUL is the account's own.
* Decline and cancel answer success and save nothing: `saveR2P` is empty (router.go:132).
* The epoch bonus "+0.001" is 65536/100000 in integers, zero (consensus/participation.go:40).
* A light node's code, normalised a second time in the leaf and the weight, reads as full
  (stake/weights.go:18, :32; stake/types.go:14).
* A transfer sent twice overwrites its receipt in the map: `/tx/get` then shows the
  rejected one, and the ledger restored after a restart is shorter than
  `lastCommittedHeight`, so that later receipts fall in no round (engine.go:182, :592).
  So does a transfer of the same content as a payment in flight: two equal requests
  approved at once build the same transfer, and `/tx/get` of the one that was paid may
  show the rejection of the other. `PaymentsCanBeLookedUp` is checked with one handler.
* The rate limiter wraps `/wallet/restore` twice over one bucket: a request costs two
  tokens of five (cmd/thomasd/main.go:143). A refusal by the inner layer has cost a token
  already, so a client that comes back as soon as one token is there is refused for ever;
  `PatientIsServed` is about clients that wait for two.
* No alias resolves to an address: `ResolveAlias` returns a record with the key `owner`
  (engine.go:683) and its caller reads `address` (router.go:415), where the smoke test
  creates a request from `@alice` to `@bob` (r2p-smoke.ps1:13). For an unknown name it
  returns an empty record as found.
* The light router reads a map after it has released the lock that guards it. When the
  process dies of it, hashes it has handed out are unknown to the next one.
* `RewardEngine.Apply` at two blocks of one epoch overwrites the payouts of the first,
  while the treasury gets both; a retry after a failed call credits the treasury again and
  pays records that were already reset by their smaller weights. A record that was never
  rewarded reads as rewarded for epoch 0. `TreasuryCovers` is an inequality for this reason.
* `light.Verify` compares the validators root with the header's *state root*
  (light/verify.go:57), where docs/consensus_headers.md:79 says `header.ProposerSetHash`.
* `/minting` adds up accounts read one after the other; `MintingFits` (in
  `ReadingsFit`) bounds the error.
* `router.go` imports `thomasd/internal/health`, which the repository does not contain.

## 7. Not modelled

* The event stream: `/events/stream` answers 500 before it subscribes, because the
  wrappers' writer is no `http.Flusher`, so no subscriber exists in any reachable state and
  a broadcast (in `Locks`) finds no channel to send on.
* Legacy validator scoring, behind the build tag `legacy_penalty`: it names types that
  package `stake` no longer has and does not compile. `Apply` has the same tag; it is
  modelled, since it is the documented use of the reward state.
* Parts of the reward state with no caller at all: removal of score records, setters of
  the treasury accounts, the tables of `state/reward.go`.
* `TxInclusionProof`: the path of `StateProof` without the leaf. The cursor and the client
  of request-to-pay, which the server does not use. `POST /block/light-verify`, which
  decodes JSON for `light.Verify`.
* Cryptography, key recovery, CBOR: a signature is a predicate of the request.
* Aliases (a lookup in a static file), signed header endpoints (not attached to the
  server), documentation server, proxies and command line tools (no state).
* Timestamps, wording and layout of replies, logging.
