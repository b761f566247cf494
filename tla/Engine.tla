-------------------------------- MODULE Engine --------------------------------
(***************************************************************************)
(* The node's engine (internal/app/engine.go) as POST /tx, GET /account,   *)
(* POST /round/commit and process restarts drive it.                       *)
(*                                                                         *)
(* A worker is one HTTP handler goroutine inside POST /tx.  Its steps are  *)
(* cut where the code gives up a lock or touches the disk: the precheck    *)
(* reads the height under mu; ApplyTransfer runs under the database lock;  *)
(* the state file is then saved with no lock at all (snapshot, open with   *)
(* truncation, write); StoreReceipt runs under mu and saves the ledger     *)
(* file while it holds it.  CommitRound runs under mu from end to end.     *)
(*                                                                         *)
(* Hashes are free of collisions: a merkle root stands for the sequence it *)
(* is computed over, a block id for the index of its header in `chain`.    *)
(* Timestamps, signatures and the wording of replies are left out.         *)
(***************************************************************************)
EXTENDS Accounts, Emission, Sequences

CONSTANTS
    Worker,          \* concurrent POST /tx handlers
    NoTx,            \* a worker that has no transfer
    NoFile,          \* a file that does not exist
    Empty,           \* a file truncated and not yet written
    Mixed,           \* a file whose bytes are not one JSON document
    V1File,          \* state.json of the v1 format (micro-THO), or NoFile
    FeedCap,         \* commit bundles kept in memory (64)
    ExtBundle,       \* bundles RecordCommitBundle may be called with
    Faults,          \* which of {"crash", "torn", "io"} may happen
    Resubmit,        \* may a client send a transfer that already has a receipt
    MaxReceipts,     \* bound: receipts stored in a run
    MaxCrashes       \* bound: crashes in a run

ASSUME EngineAssumption ==
    /\ IsFiniteSet(Worker)
    /\ NoTx \notin Transfer
    /\ {NoFile, Empty, Mixed} \cap DB = {}
    /\ V1File \in DB \cup {NoFile}
    /\ FeedCap \in Nat \ {0}
    /\ ExtBundle \subseteq Nat
    /\ Faults \subseteq {"crash", "torn", "io"}
    /\ Resubmit \in BOOLEAN
    /\ MaxReceipts \in Nat /\ MaxCrashes \in Nat

VARIABLES
    up,             \* the process runs
    db,             \* Engine.db: the accounts in memory
    height,         \* Engine.height
    leaves,         \* Engine.leaves: every receipt, in order of storage
    receipts,       \* Engine.receipts: the last receipt of each transfer
    lastCommitted,  \* Engine.lastCommittedHeight
    rounds,         \* Engine.rounds
    supply,         \* Engine.supply
    supplyLog,      \* the supply/history/ keys: one supply state per height
    feed,           \* Engine.commitFeed
    tip,            \* lastBlockID, lastCommitRoot, lastCommitHeight, commitRootReady
    born,           \* how many headers of `chain` earlier processes published
    chain,          \* every Eternity header ever published, by any process
    stateFile,      \* data/state_v2.json
    ledgerFile,     \* data/ledger_v1.json
    pc,             \* where each worker stands
    txOf,           \* the transfer each worker handles
    status,         \* what ApplyTransfer told each worker
    snap,           \* the snapshot each worker is about to write
    crashes         \* crashes so far

ledgerVars == <<height, leaves, receipts, lastCommitted, rounds>>
commitVars == <<supply, supplyLog, feed, tip, born, chain>>
workerVars == <<pc, txOf, status, snap>>
vars == <<up, db, height, leaves, receipts, lastCommitted, rounds,
          supply, supplyLog, feed, tip, born, chain,
          stateFile, ledgerFile, pc, txOf, status, snap, crashes>>

-------------------------------------------------------------------------------
Status == {"applied", "bad_nonce", "insufficient_funds", "io_error"}

\* types.TxReceipt; Height is the number of receipts stored before this one.
Receipt == [tx : Transfer, status : Status, height : Nat]

\* types.RoundHeader; root stands for the receipts it is computed over.
Round == [round : Nat, from : Nat, to : Nat, count : Nat, root : Seq(Receipt)]

\* types.EternityHeader: the fields that differ between headers.
Header == [height : Nat, round : Nat, prev : Nat,
           stateRoot : Root,
           txRoot : Seq(Receipt), commitRoot : Nat]

\* SupplyState: the total minted, the vaults it is split over, and the height.
Supply == [total : Nat, network : Nat, foundation : Nat, exchange : Nat, last : Nat]

\* ledgerV1: the receipts in the file are the values of the receipts map, which
\* loadLedger sorts again, so their order in the file does not matter; its
\* height field is never read.
LedgerFile == [receipts : SUBSET Receipt, last : Nat, rounds : Seq(Round)]

\* A file that is missing or truncated is no ledger.
ASSUME LedgerFileAssumption == {NoFile, Empty, Mixed} \cap LedgerFile = {}

NoReceipt == [tx |-> NoTx, status |-> "none", height |-> 0]

NoSupply == [total |-> 0, network |-> 0, foundation |-> 0, exchange |-> 0, last |-> 0]

NoTip == [id |-> 0, root |-> 0, height |-> 0, ready |-> FALSE]

Stored == {receipts[t] : t \in {u \in Transfer : receipts[u] # NoReceipt}}

Busy == {w \in Worker : pc[w] # "idle"}

\* A worker whose transfer is applied in memory and has no receipt yet.
InFlight == {w \in Worker : \/ pc[w] \in {"snapshot", "open", "write"}
                            \/ pc[w] = "store" /\ status[w] = "applied"}
-------------------------------------------------------------------------------
(***************************************************************************)
(* The disk.                                                               *)
(***************************************************************************)
Readable(file) == file \notin {NoFile, Empty, Mixed}

\* os.WriteFile opens with truncation and then writes.  When another handler
\* wrote after our truncation, our bytes replace a prefix of its bytes: what is
\* left is our document if ours is at least as long, and garbage otherwise.
Written(file, d) == IF file \in {Empty, d} THEN {d} ELSE {d, Mixed}

\* Mutant: no write.
SaveLedgerSkipped(stored, last, rs) == ledgerFile' = ledgerFile

\* saveLedger inside mu; its error is dropped by every caller.
SaveLedger(stored, last, rs) ==
    ledgerFile' \in {[receipts |-> stored, last |-> last, rounds |-> rs]}
                      \cup (IF "io" \in Faults THEN {ledgerFile, Empty} ELSE {})

\* NewEngine: the v2 file, else the v1 file promoted from micro-THO to mas,
\* else genesis.
Promoted(d) ==
    [d EXCEPT !.acct = [a \in Addr |->
                          [d.acct[a] EXCEPT !.bal = (@ * 10) % Word]]]

LoadedState ==
    IF Readable(stateFile) THEN stateFile
    ELSE IF V1File # NoFile THEN Promoted(V1File)
    ELSE GenesisDB

\* Mutant: the committed height, or the rounds too, are not restored.
LoadedLedgerWithoutLast ==
    [receipts |-> IF Readable(ledgerFile) THEN ledgerFile.receipts ELSE {},
     last |-> 0,
     rounds |-> IF Readable(ledgerFile) THEN ledgerFile.rounds ELSE <<>>]

LoadedLedgerWithoutRounds == [LoadedLedgerWithoutLast EXCEPT !.rounds = <<>>]

LoadedLedger ==
    IF Readable(ledgerFile) THEN ledgerFile
    ELSE [receipts |-> {}, last |-> 0, rounds |-> <<>>]

\* Mutant: the receipts are not sorted.
UnsortedOrders(R) ==
    {s \in [1 .. Cardinality(R) -> R] : \A r \in R : \E i \in DOMAIN s : s[i] = r}

\* sort.Slice by Height: receipts of equal height end in any order.
HeightOrders(R) ==
    {s \in [1 .. Cardinality(R) -> R] :
        /\ \A i, j \in DOMAIN s : i < j => s[i].height <= s[j].height
        /\ \A r \in R : \E i \in DOMAIN s : s[i] = r}
-------------------------------------------------------------------------------
Init ==
    /\ up = FALSE
    /\ db = [known |-> {}, acct |-> [a \in Addr |-> [bal |-> 0, nonce |-> 0]]]
    /\ height = 0
    /\ leaves = <<>>
    /\ receipts = [t \in Transfer |-> NoReceipt]
    /\ lastCommitted = 0
    /\ rounds = <<>>
    /\ supply = NoSupply
    /\ supplyLog = {}
    /\ feed = <<>>
    /\ tip = NoTip
    /\ born = 0
    /\ chain = <<>>
    /\ stateFile = NoFile
    /\ ledgerFile = NoFile
    /\ pc = [w \in Worker |-> "idle"]
    /\ txOf = [w \in Worker |-> NoTx]
    /\ status = [w \in Worker |-> "none"]
    /\ snap = [w \in Worker |-> NoFile]
    /\ crashes = 0

\* NewEngine.  The supply state lives in the database's key/value map, which is
\* in no file, so every process starts from a zero supply.
Boot ==
    /\ ~up
    /\ up' = TRUE
    /\ db' = LoadedState
    /\ stateFile' \in {LoadedState}
                        \cup (IF "io" \in Faults THEN {stateFile} ELSE {})
    /\ leaves' \in HeightOrders(LoadedLedger.receipts)
    /\ height' = Cardinality(LoadedLedger.receipts)
    /\ receipts' = [t \in Transfer |->
                      IF \E r \in LoadedLedger.receipts : r.tx = t
                      THEN CHOOSE r \in LoadedLedger.receipts : r.tx = t
                      ELSE NoReceipt]
    /\ lastCommitted' = LoadedLedger.last
    /\ rounds' = LoadedLedger.rounds
    /\ supply' = NoSupply
    /\ supplyLog' = {}
    /\ feed' = <<>>
    /\ tip' = NoTip
    /\ born' = Len(chain)
    /\ UNCHANGED <<chain, ledgerFile, pc, txOf, status, snap, crashes>>

\* The process dies.  What was in memory is gone; the variables keep their last
\* values, unread, until Boot replaces them.
Die ==
    /\ up
    /\ crashes < MaxCrashes
    /\ crashes' = crashes + 1
    /\ up' = FALSE
    /\ pc' = [w \in Worker |-> "idle"]
    /\ txOf' = [w \in Worker |-> NoTx]
    /\ status' = [w \in Worker |-> "none"]
    /\ snap' = [w \in Worker |-> NoFile]
    /\ UNCHANGED <<db, ledgerVars, commitVars, stateFile>>

\* The fault "crash": death between any two steps at which state_v2.json is not open
\* for writing.  Death between the truncation and the end of the write in saveStateMas,
\* which leaves a file no boot can read, needs the fault "torn" as well.
Crash ==
    /\ "crash" \in Faults
    /\ Readable(stateFile) \/ "torn" \in Faults
    /\ Die
    /\ UNCHANGED ledgerFile

\* The process dies inside saveLedger, called by StoreReceipt or by CommitRound.
CrashInSaveLedger ==
    /\ "torn" \in Faults
    /\ (\E w \in Worker : pc[w] = "store") \/ lastCommitted < Len(leaves)
    /\ Die
    /\ ledgerFile' = Empty
-------------------------------------------------------------------------------
(***************************************************************************)
(* POST /tx: txPrecheckWith, then txPostHandler.                           *)
(***************************************************************************)
\* The checks that depend on the transfer alone are in module TxGate; a
\* transfer that has expired is answered here and changes nothing.
Submit(w, t) ==
    /\ up
    /\ pc[w] = "idle"
    /\ Resubmit \/ (receipts[t] = NoReceipt /\ \A v \in Worker : txOf[v] # t)
    /\ Len(leaves) + Cardinality(Busy) < MaxReceipts
    /\ t.expiry = 0 \/ t.expiry > height
    /\ pc' = [pc EXCEPT ![w] = "apply"]
    /\ txOf' = [txOf EXCEPT ![w] = t]
    /\ UNCHANGED <<up, db, ledgerVars, commitVars, stateFile, ledgerFile,
                   status, snap, crashes>>

\* Mutant: the state is not saved; a handler waits until its
\* transfer can be applied.
ApplyUnsaved(w) ==
    /\ pc[w] = "apply"
    /\ db' = ApplyTransfer(db, txOf[w])
    /\ status' = [status EXCEPT ![w] = Verdict(db, txOf[w])]
    /\ pc' = [pc EXCEPT ![w] = "store"]
    /\ UNCHANGED <<up, ledgerVars, commitVars, stateFile, ledgerFile,
                   txOf, snap, crashes>>

ApplyWaits(w) ==
    /\ pc[w] = "apply"
    /\ Verdict(db, txOf[w]) = "applied"
    /\ db' = ApplyTransfer(db, txOf[w])
    /\ status' = [status EXCEPT ![w] = "applied"]
    /\ pc' = [pc EXCEPT ![w] = "snapshot"]
    /\ UNCHANGED <<up, ledgerVars, commitVars, stateFile, ledgerFile,
                   txOf, snap, crashes>>

\* Engine.ApplyTransfer up to the end of DB.ApplyTransfer.
Apply(w) ==
    LET t == txOf[w]
        v == Verdict(db, t)
    IN  /\ pc[w] = "apply"
        /\ db' = ApplyTransfer(db, t)
        /\ status' = [status EXCEPT ![w] = v]
        /\ pc' = [pc EXCEPT ![w] = IF v = "applied" THEN "snapshot" ELSE "store"]
        /\ UNCHANGED <<up, ledgerVars, commitVars, stateFile, ledgerFile,
                       txOf, snap, crashes>>

\* saveStateMas: DB.Snapshot, under the database lock ...
TakeSnapshot(w) ==
    /\ pc[w] = "snapshot"
    /\ snap' = [snap EXCEPT ![w] = db]
    /\ pc' = [pc EXCEPT ![w] = "open"]
    /\ UNCHANGED <<up, db, ledgerVars, commitVars, stateFile, ledgerFile,
                   txOf, status, crashes>>

\* ... then os.WriteFile, under none: open with truncation ...
OpenStateFile(w) ==
    /\ pc[w] = "open"
    /\ stateFile' = Empty
    /\ pc' = [pc EXCEPT ![w] = "write"]
    /\ UNCHANGED <<up, db, ledgerVars, commitVars, ledgerFile,
                   txOf, status, snap, crashes>>

\* ... and write.
WriteStateFile(w) ==
    /\ pc[w] = "write"
    /\ stateFile' \in Written(stateFile, snap[w])
    /\ pc' = [pc EXCEPT ![w] = "store"]
    /\ snap' = [snap EXCEPT ![w] = NoFile]
    /\ UNCHANGED <<up, db, ledgerVars, commitVars, ledgerFile,
                   txOf, status, crashes>>

\* MkdirAll, the open or the write fails: ApplyTransfer returns the error and
\* the handler stores a rejected receipt, whatever memory holds by now.
SaveStateFails(w) ==
    /\ "io" \in Faults
    /\ pc[w] \in {"snapshot", "open", "write"}
    /\ stateFile' \in IF pc[w] = "write" THEN {stateFile, Mixed} ELSE {stateFile}
    /\ status' = [status EXCEPT ![w] = "io_error"]
    /\ pc' = [pc EXCEPT ![w] = "store"]
    /\ snap' = [snap EXCEPT ![w] = NoFile]
    /\ UNCHANGED <<up, db, ledgerVars, commitVars, ledgerFile, txOf, crashes>>

\* Engine.StoreReceipt, under mu.  The receipts map is keyed by the hash: a
\* second receipt of the same transfer replaces the first, while leaves keeps both.
StoreReceipt(w) ==
    LET t == txOf[w]
        r == [tx |-> t, status |-> status[w], height |-> Len(leaves)]
        stored == [receipts EXCEPT ![t] = r]
    IN  /\ pc[w] = "store"
        /\ height' = height + 1
        /\ leaves' = Append(leaves, r)
        /\ receipts' = stored
        /\ SaveLedger({stored[u] : u \in {v \in Transfer : stored[v] # NoReceipt}},
                      lastCommitted, rounds)
        /\ pc' = [pc EXCEPT ![w] = "idle"]
        /\ txOf' = [txOf EXCEPT ![w] = NoTx]
        /\ status' = [status EXCEPT ![w] = "none"]
        /\ UNCHANGED <<up, db, lastCommitted, rounds, commitVars, stateFile,
                       snap, crashes>>

\* GET /account and GET /nonce: DB.get creates the entry it reads.
ReadAccount(a) ==
    /\ up
    /\ db' = Touch(db, {a})
    /\ UNCHANGED <<up, ledgerVars, commitVars, stateFile, ledgerFile,
                   workerVars, crashes>>
-------------------------------------------------------------------------------
(***************************************************************************)
(* Rounds and headers.                                                     *)
(***************************************************************************)
\* Mutant: a record too many is dropped.
FeedDropsTwo(rec) == Append(IF Len(feed) >= FeedCap - 1 THEN Tail(feed) ELSE feed, rec)

\* appends to commitFeed, dropping the oldest record when the feed is full.
Feed(rec) == Append(IF Len(feed) >= FeedCap THEN Tail(feed) ELSE feed, rec)

\* persistSupplyState: the current supply, and the one of this height.
PersistSupplyState(h, s) == supplyLog' = {u \in supplyLog : u.last # h} \cup {s}

\* SupplyState.ApplyBlockMint
Minted(s, h) ==
    LET mint == BlockMintAt(h)
        split == SplitMint(mint)
    IN  [total |-> s.total + mint,
         network |-> s.network + split.network,
         foundation |-> s.foundation + split.foundation,
         exchange |-> s.exchange + split.exchange,
         last |-> h]

\* Mutant: the mint of the height is made twice.
MintTwice(h) ==
    LET s == Minted(Minted(supply, h), h)
    IN  supply' = s /\ PersistSupplyState(h, s)

\* applyBlockMint: one mint per round, at the round's last height.
Mint(h) ==
    LET s == Minted(supply, h)
    IN  supply' = s /\ PersistSupplyState(h, s)

\* SupplyAt: the supply in memory, else the record of that height.
SupplyAt(h) == IF h = supply.last THEN {supply} ELSE {s \in supplyLog : s.last = h}

\* Mutant: the root is computed over every receipt.
PendingFromStart == leaves

\* The receipts the next round covers.
Pending == SubSeq(leaves, lastCommitted + 1, Len(leaves))

\* Mutant: the commit root is that of the bundle before.
BuildEternityHeaderLate(h, n, sub) ==
    [height |-> h, round |-> n, prev |-> tip.id,
     stateRoot |-> StateRoot(db), txRoot |-> sub, commitRoot |-> tip.root]

\* buildEternityHeader: the state root is read from the accounts as they are now,
\* under the database lock only; the commit root hashes a bundle of which only
\* the round number varies.
BuildEternityHeader(h, n, sub) ==
    [height |-> h, round |-> n, prev |-> tip.id,
     stateRoot |-> StateRoot(db), txRoot |-> sub, commitRoot |-> n]

\* CommitRound.  When no receipt is pending (from > to) it sets height to
\* len(leaves), which it is already, and returns.
CommitRound ==
    LET from == lastCommitted + 1
        to == Len(leaves)
        sub == Pending
        n == Len(rounds) + 1
        hdr == [round |-> n, from |-> from, to |-> to, count |-> Len(sub), root |-> sub]
    IN  /\ up
        /\ from <= to
        /\ height' = Len(leaves)
        /\ Mint(to)
        /\ rounds' = Append(rounds, hdr)
        /\ lastCommitted' = to
        /\ SaveLedger(Stored, to, Append(rounds, hdr))
        /\ chain' = Append(chain, BuildEternityHeader(to, n, sub))
        /\ tip' = [id |-> Len(chain) + 1, root |-> n, height |-> to, ready |-> TRUE]
        /\ feed' = Feed([height |-> to, root |-> n, bundle |-> n])
        /\ UNCHANGED <<up, db, leaves, receipts, born, stateFile, workerVars, crashes>>

\* Mutant: the block id is reset with the commit root.
RecordCommitBundleResets(b) ==
    /\ up
    /\ tip' = [id |-> 0, root |-> b, height |-> height, ready |-> TRUE]
    /\ feed' = Feed([height |-> height, root |-> b, bundle |-> b])
    /\ UNCHANGED <<up, db, ledgerVars, supply, supplyLog, born, chain,
                   stateFile, ledgerFile, workerVars, crashes>>

\* RecordCommitBundle: a bundle from outside, recorded at the current height.
RecordCommitBundle(b) ==
    /\ up
    /\ tip' = [tip EXCEPT !.root = b, !.height = height, !.ready = TRUE]
    /\ feed' = Feed([height |-> height, root |-> b, bundle |-> b])
    /\ UNCHANGED <<up, db, ledgerVars, supply, supplyLog, born, chain,
                   stateFile, ledgerFile, workerVars, crashes>>

Step(w) ==
    \/ Apply(w) \/ TakeSnapshot(w) \/ OpenStateFile(w) \/ WriteStateFile(w)
    \/ SaveStateFails(w) \/ StoreReceipt(w)

Next ==
    \/ Boot
    \/ Crash
    \/ CrashInSaveLedger
    \/ \E w \in Worker : Step(w) \/ \E t \in Transfer : Submit(w, t)
    \/ \E a \in Addr : ReadAccount(a)
    \/ CommitRound
    \/ \E b \in ExtBundle : RecordCommitBundle(b)

Spec == Init /\ [][Next]_vars
===============================================================================
