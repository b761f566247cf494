------------------------------ MODULE EngineInv ------------------------------
(***************************************************************************)
(* What the engine guarantees: the invariants and step properties of       *)
(* module Engine that the runs check and EngineProofs proves.              *)
(***************************************************************************)
EXTENDS Engine, SequencesExt

\* Every variable has the shape of the field or file it models.
TypeOK ==
    /\ up \in BOOLEAN
    /\ db \in DB
    /\ height \in Nat
    /\ leaves \in Seq(Receipt)
    /\ receipts \in [Transfer -> Receipt \cup {NoReceipt}]
    /\ lastCommitted \in Nat
    /\ rounds \in Seq(Round)
    /\ supply \in Supply
    /\ supplyLog \subseteq Supply
    /\ feed \in Seq([height : Nat, root : Nat, bundle : Nat])
    /\ tip \in [id : Nat, root : Nat, height : Nat, ready : BOOLEAN]
    /\ born \in Nat
    /\ chain \in Seq(Header)
    /\ stateFile \in DB \cup {NoFile, Empty, Mixed}
    /\ ledgerFile \in LedgerFile \cup {NoFile, Empty}
    /\ pc \in [Worker -> {"idle", "apply", "snapshot", "open", "write", "store"}]
    /\ txOf \in [Worker -> Transfer \cup {NoTx}]
    /\ status \in [Worker -> Status \cup {"none"}]
    /\ snap \in [Worker -> DB \cup {NoFile}]
    /\ crashes \in Nat
-------------------------------------------------------------------------------
(***************************************************************************)
(* The environments the theorems that need one are about.                  *)
(***************************************************************************)
\* One process from the first request to the last; its writes may fail.
NoCrashes == Faults \cap {"crash", "torn"} = {}

\* Processes die at any moment at which no file is open for writing, and no write fails.
\* A process that dies between the truncation and the write of a file is the fault "torn",
\* which this excludes: the runs EngineTornState and EngineTornHeight show what it does.
CleanCrashes == Faults \subseteq {"crash"}

\* ... and no client sends a transfer again that has, or is about to have, a receipt.
SentOnce == ~ Resubmit

\* ... and POST /tx requests are handled one at a time.
OneHandler == \A v, w \in Worker : v = w
-------------------------------------------------------------------------------
(***************************************************************************)
(* Rounds.                                                                 *)
(***************************************************************************)
\* rs are numbered from 1, adjoin one another from height 1 on without a gap or
\* an overlap, are not empty, and end at height `last`.
Contiguous(rs, last) ==
    /\ \A i \in 1 .. Len(rs) :
         /\ rs[i].round = i
         /\ rs[i].from = (IF i = 1 THEN 1 ELSE rs[i - 1].to + 1)
         /\ rs[i].from <= rs[i].to
         /\ rs[i].count = rs[i].to - rs[i].from + 1
    /\ last = IF rs = <<>> THEN 0 ELSE rs[Len(rs)].to

\* The rounds CommitRound has cut, in memory and in the ledger file, always
\* partition the committed heights: through crashes, torn and failed writes.
RoundsContiguous ==
    /\ Contiguous(rounds, lastCommitted)
    /\ Readable(ledgerFile) => Contiguous(ledgerFile.rounds, ledgerFile.last)

\* Within the life of a process, and across restarts when clients do not send a
\* transfer twice, each round's root is the root over the receipts that now sit
\* at its heights: no committed receipt is ever moved, lost or rewritten.
CommittedRootsMatch ==
    up => /\ lastCommitted <= Len(leaves)
          /\ \A i \in 1 .. Len(rounds) :
               rounds[i].root = SubSeq(leaves, rounds[i].from, rounds[i].to)
-------------------------------------------------------------------------------
(***************************************************************************)
(* Transfers, receipts and balances.                                       *)
(***************************************************************************)
AppliedIdx == {i \in 1 .. Len(leaves) : leaves[i].status = "applied"}

\* The transfers that memory must account for: those with an applied receipt
\* and those whose handler is between ApplyTransfer and StoreReceipt.
Effects == {leaves[i].tx : i \in AppliedIdx} \cup {txOf[w] : w \in InFlight}

SumOver(op(_), S) == MapThenSumSet(op, S)

\* Every nonce of a sender up to its account's nonce is used by exactly one
\* applied transfer, with a receipt or still in flight: no replay, no gap, no
\* two applied transfers on one nonce however the handlers interleave.
NoncesAccounted ==
    up => \A a \in Addr :
            /\ Cardinality({i \in AppliedIdx : leaves[i].tx.from = a})
                 + Cardinality({w \in InFlight : txOf[w].from = a}) = db.acct[a].nonce
            /\ {t.nonce : t \in {u \in Effects : u.from = a}} = 1 .. db.acct[a].nonce

\* Each balance is genesis plus what the receipts (and the handlers in flight)
\* say was received, minus what they say was spent, fees included.
LedgerExplainsBalances ==
    up => \A a \in Addr :
            db.acct[a].bal
              + SumOver(LAMBDA t : t.amount + t.fee, {t \in Effects : t.from = a})
            = Genesis[a]
              + SumOver(LAMBDA t : t.amount, {t \in Effects : t.to = a})
              + (IF a = FeeReceiver THEN SumOver(LAMBDA t : t.fee, Effects) ELSE 0)

\* The money there is, and that no uint64 sum of it can wrap: it fits a word, and so
\* does what a transfer needs (module TxGate: the gate of POST /tx admits no other).
Money == SumOver(LAMBDA a : Genesis[a], Addr)
MoneyFits == Money < Word /\ \A t \in Transfer : t.amount + t.fee < Word

\* No transfer creates or destroys money, in memory or in a state file that can
\* be read back: a snapshot never catches a transfer half done.
MoneyConserved ==
    /\ up => Total(db) = Money
    /\ Readable(stateFile) => Total(stateFile) = Money

\* After a restart the state is at least as new as the ledger: an applied receipt
\* that survived a crash has its transfer in the accounts, because the state file
\* is written before the receipt is stored.  It holds as long as no process dies inside
\* os.WriteFile (CleanCrashes); what such a death does is shown by NonceSpentOnce.
ReceiptsCovered ==
    up => \A i \in AppliedIdx :
            db.acct[leaves[i].tx.from].nonce >= leaves[i].tx.nonce

\* A nonce that was applied is not applied again: a transfer whose nonce is behind the
\* account's is answered "apply:bad_nonce" (server/static/openapi/tx.json:63).
NonceSpentOnce ==
    \A i, j \in AppliedIdx :
        /\ leaves[i].tx.from = leaves[j].tx.from
        /\ leaves[i].tx.nonce = leaves[j].tx.nonce
        => i = j
-------------------------------------------------------------------------------
(***************************************************************************)
(* Headers, commit bundles and supply.                                     *)
(***************************************************************************)
\* The headers this process published (Engine.eternityHeaders).
Headers == SubSeq(chain, born + 1, Len(chain))

\* A header's state root already contains every applied receipt at or below its
\* height, although CommitRound does not stop the handlers in ApplyTransfer.
HeadersCoverReceipts ==
    up => \A k \in 1 .. Len(Headers) : \A i \in AppliedIdx :
            i <= Headers[k].height =>
              /\ Headers[k].stateRoot[leaves[i].tx.from] # Absent
              /\ Headers[k].stateRoot[leaves[i].tx.from].nonce >= leaves[i].tx.nonce

\* Within a process, prev_hash of every header after its first is the hash of the header
\* published just before (lastBlockID in buildEternityHeader), and the very first header
\* there is has no predecessor.  This says nothing of the first header after a restart;
\* ChainIsLinked does.
HeadersLinked ==
    /\ \A k \in 2 .. Len(Headers) : Headers[k].prev = born + k - 1
    /\ chain # <<>> => chain[1].prev = 0

\* "prev_hash: BLAKE3-256 hash of the previous header" (docs/consensus_headers.md:18): every
\* header but the first names the one published before it, through restarts.
ChainIsLinked == \A k \in 2 .. Len(chain) : chain[k].prev = k - 1

\* "height: monotonic block height" (docs/consensus_headers.md): over every header
\* ever published, through restarts.
HeaderHeightsIncrease ==
    \A k \in 2 .. Len(chain) : chain[k - 1].height < chain[k].height

\* CommitBundleAt: the newest record of a height.
BundlesAt(h) == {i \in 1 .. Len(feed) : feed[i].height = h}
CommitBundleAt(h) == feed[CHOOSE i \in BundlesAt(h) : \A j \in BundlesAt(h) : j <= i].bundle

\* Whatever the feed drops when it is full, LatestCommitRoot always has its bundle
\* in the feed, and the last FeedCap headers of the process keep theirs.
RecentBundlesServed ==
    up => /\ tip.ready => /\ BundlesAt(tip.height) # {}
                          /\ CommitBundleAt(tip.height) = tip.root
          /\ ExtBundle = {} =>
               \A k \in 1 .. Len(Headers) :
                 k > Len(Headers) - FeedCap =>
                   /\ BundlesAt(Headers[k].height) # {}
                   /\ CommitBundleAt(Headers[k].height) = Headers[k].commitRoot

\* GET /supply/at: the supply record of a height, and the emission of that height
\* as its block_mint_mas.
SupplyReply(h) == [state : SupplyAt(h), blockMint : {BlockMintAt(h)}]

\* What the schedule emits for the heights after lo up to hi.
Emitted(lo, hi) == SumOver(LAMBDA h : BlockMintAt(h), lo + 1 .. hi)

\* What GET /supply/at answers keeps to the emission schedule, however rounds straddle the
\* emission intervals: no height has more than the emission of the heights up to it, and
\* from one height served to a later one the total grows by at least the block_mint_mas
\* shown beside it (no mint is lost) and by at most the emission of each height in
\* between (none is made twice).
SupplyWithinSchedule ==
    up => \A h \in 0 .. Len(leaves) : \A r \in SupplyReply(h) :
            /\ r.state.total <= Emitted(0, h)
            /\ \A g \in 0 .. h - 1 : \A q \in SupplyReply(g) :
                 /\ q.state.total + r.blockMint <= r.state.total
                 /\ r.state.total <= q.state.total + Emitted(g, h)

\* The three vaults hold exactly what was minted, now and at every height of the
\* history: no rounding loss builds up over the rounds.
VaultsHoldSupply ==
    \A s \in {supply} \cup supplyLog : s.network + s.foundation + s.exchange = s.total
-------------------------------------------------------------------------------
(***************************************************************************)
(* Steps.                                                                  *)
(***************************************************************************)
\* No step, a restart included, takes back a committed round or a stored
\* receipt: loadLedger rebuilds the very sequence the dead process had.
HistoryGrows ==
    [][IsPrefix(rounds, rounds') /\ IsPrefix(leaves, leaves')]_<<rounds, leaves>>
===============================================================================
