----------------------------- MODULE ProbesProofs -----------------------------
(***************************************************************************)
(* Theorems about the handlers that look at the engine through several     *)
(* calls (module Probes).  A probe takes the steps of the engine and none  *)
(* besides, so what is proved of the engine holds under its probes.        *)
(***************************************************************************)
EXTENDS Probes, LedgerProofs

\* What a probe has in hand.
Seen == [n : Nat, m : Nat, ready : BOOLEAN, root : Nat,
         leaves0 : Nat, chain0 : Nat, nonces0 : Nat]

Place == {"idle", "health_receipts", "health_root", "health_header", "merkle_count",
          "stats_height", "stats_receipts", "metrics_ready", "minting", "light_bundle",
          "commit_height", "commit"}

\* A probe runs in a process, and has accounts left to read while it is at /minting.
ProbeShape ==
    /\ at \in Place /\ saw \in Seen
    /\ at # "idle" => up
    /\ at = "minting" => saw.m \in 0 .. Len(MintAccounts) - 1

\* The actions of a probe that leave the engine alone.
LooksOnly ==
    \/ HealthHeight \/ MerkleRoot \/ CommitSafeReceipts
    \/ StatsPlusRoot \/ StatsHeight \/ MintingStart
    \/ (\E h \in 0 .. Len(leaves) : LightProofHeader(h))
    \/ HealthReceipts \/ HealthRoot \/ HealthHeader
    \/ MerkleCount
    \/ StatsPlusHeight \/ StatsReceipts \/ MetricsReceipts \/ MetricsReady
    \/ LightProofBundle
    \/ CommitSafeHeight \/ CommitSafeNoPending

\* They leave it alone.
LEMMA LooksChangeNothing == LooksOnly => UNCHANGED vars
BY DEF LooksOnly, HealthHeight, MerkleRoot, CommitSafeReceipts, StatsPlusRoot, StatsHeight,
       MintingStart, LightProofHeader, Begin, HealthReceipts, HealthRoot, HealthHeader,
       MerkleCount, StatsPlusHeight, StatsReceipts, MetricsReceipts, MetricsReady,
       LightProofBundle, CommitSafeHeight, CommitSafeNoPending

\* The kinds of step there are.
LEMMA ProbeSteps ==
    ASSUME [ProbeNext]_allVars
    PROVE  \/ LooksOnly \/ MintingRead \/ CommitSafeCommit \/ EngineStep
           \/ UNCHANGED allVars
BY DEF ProbeNext, ProbeStep, LooksOnly

\* While it reads accounts it reads those of the list, one GetAccount each.
LEMMA MintingReadsAccount ==
    ASSUME ProbeShape, MintingRead
    PROVE  /\ saw.m + 1 \in 1 .. Len(MintAccounts)
           /\ MintAccounts[saw.m + 1] \in Addr
           /\ ReadAccount(MintAccounts[saw.m + 1])
<1>1. MintAccounts \in Seq(Addr) /\ Len(MintAccounts) \in Nat
  BY ProbesAssumption
<1>2. saw.m \in 0 .. Len(MintAccounts) - 1 /\ up
  BY DEF MintingRead, ProbeShape
<1>3. saw.m + 1 \in 1 .. Len(MintAccounts)
  BY <1>1, <1>2
<1>4. QED
  BY <1>1, <1>2, <1>3 DEF MintingRead, ReadAccount

\* A step under probes is a step of the engine, or changes nothing of it.
LEMMA ProbeStepIsEngineStep ==
    ASSUME ProbeShape, [ProbeNext]_allVars
    PROVE  [Next]_vars
<1>1. CASE LooksOnly
  BY <1>1, LooksChangeNothing
<1>2. CASE MintingRead
  BY <1>2, MintingReadsAccount DEF Next
<1>3. CASE CommitSafeCommit
  BY <1>3 DEF CommitSafeCommit, Next
<1>4. CASE EngineStep
  BY <1>4 DEF EngineStep
<1>5. CASE UNCHANGED allVars
  BY <1>5 DEF allVars
<1>6. QED
  BY <1>1, <1>2, <1>3, <1>4, <1>5, ProbeSteps

\* The nonces of a database, as a function of its accounts.
NonceOf(acct) == [a \in Addr |-> acct[a].nonce]

\* The sum of all nonces, which tells how many transfers were applied.
LEMMA NoncesIsSum ==
    ASSUME NEW d \in DB
    PROVE  /\ \A a \in Addr : NonceOf(d.acct)[a] = d.acct[a].nonce /\ d.acct[a].nonce \in Nat
           /\ Nonces(d) = Sum(NonceOf(d.acct), Addr)
           /\ Nonces(d) \in Nat
<1> DEFINE f == NonceOf(d.acct)
           J(h) == h = [s \in SUBSET Addr |->
                          IF s = {} THEN 0
                          ELSE d.acct[First(s)].nonce + h[s \ {First(s)}]]
           it == CHOOSE h : J(h)
<1>1. IsFiniteSet(Addr)
  BY AccountsAssumption
<1>0. \A a \in Addr : f[a] = d.acct[a].nonce /\ f[a] \in Nat
  BY DEF NonceOf, DB, Account
<1>2. ASSUME NEW h PROVE J(h) <=> IsSum(h, f, Addr)
  <2>1. \A s \in SUBSET Addr : s # {} => f[First(s)] = d.acct[First(s)].nonce
    BY FirstType DEF NonceOf
  <2>2. \A s \in SUBSET Addr :
          SumAt(h, f, s) = IF s = {} THEN 0 ELSE d.acct[First(s)].nonce + h[s \ {First(s)}]
    BY <2>1 DEF SumAt
  <2>3. QED
    BY <2>2 DEF IsSum
<1>3. \E g : IsSum(g, f, Addr)
  BY <1>1, SumExists
<1>4. J(it)
  BY <1>2, <1>3
<1>5. IsSum(it, f, Addr)
  BY <1>2, <1>4
<1>6. Nonces(d) = it[Addr]
  BY DEF Nonces, MapThenSumSet, MapThenFoldSet, First
<1>7. Nonces(d) = Sum(f, Addr)
  BY <1>1, <1>5, <1>6, SumUnfold
<1> HIDE DEF f
<1>8. Sum(f, Addr) \in Nat
  BY <1>0, <1>1, SumType
<1>9. QED
  BY <1>0, <1>7, <1>8 DEF f

\* The header and the bundle that GET /block/{height}/light-proof reads exist.
LEMMA HeadersAtType ==
    ASSUME TypeOK, NEW h, HeadersAt(h) # {}
    PROVE  Max(HeadersAt(h)) \in HeadersAt(h) /\ Max(HeadersAt(h)) \in born + 1 .. Len(chain)
<1>1. Len(chain) \in Nat /\ born \in Nat
  BY DEF TypeOK
<1>2. HeadersAt(h) \in SUBSET (1 .. Len(chain))
  BY <1>1 DEF HeadersAt
<1>3. PICK n, H : n \in Nat /\ n = Len(chain) /\ H = HeadersAt(h) /\ H \in SUBSET (1 .. n)
  BY <1>1, <1>2
<1>4. Max(H) \in H
  BY <1>3, MaxType
<1>5. QED
  BY <1>3, <1>4 DEF HeadersAt

\* The record the handler takes is the newest of its height.
LEMMA RecordsType ==
    ASSUME TypeOK, NEW h, Records(h) # {}
    PROVE  /\ Max(Records(h)) \in Records(h)
           /\ feed[Max(Records(h))].bundle \in Nat
<1>1. feed \in Seq([height : Nat, root : Nat, bundle : Nat]) /\ Len(feed) \in Nat
  BY DEF TypeOK
<1>2. Records(h) \in SUBSET (1 .. Len(feed))
  BY <1>1 DEF Records
<1>3. PICK n, R : n \in Nat /\ n = Len(feed) /\ R = Records(h) /\ R \in SUBSET (1 .. n)
  BY <1>1, <1>2
<1>4. Max(R) \in R
  BY <1>3, MaxType
<1>5. Max(Records(h)) \in Records(h) /\ Max(Records(h)) \in 1 .. Len(feed)
  BY <1>3, <1>4
<1>6. feed[Max(Records(h))] \in [height : Nat, root : Nat, bundle : Nat]
  <2> DEFINE F == [height : Nat, root : Nat, bundle : Nat]
  <2>1. PICK k \in 1 .. Len(feed) : k = Max(Records(h))
    BY <1>5
  <2>2. feed \in Seq(F)
    BY <1>1
  <2> HIDE DEF F
  <2>3. \A i \in 1 .. Len(feed) : feed[i] \in F
    BY <2>2
  <2>4. feed[k] \in F
    BY <2>3
  <2>5. QED
    BY <2>1, <2>4 DEF F
<1>7. QED
  BY <1>5, <1>6

\* What a probe has in hand at first, and after it notes two numbers more.
LEMMA SeenUpdates ==
    /\ NothingSeen \in Seen
    /\ \A s \in Seen : \A n, m \in Nat : [s EXCEPT !.n = n, !.m = m] \in Seen
    /\ \A n, l, c \in Nat :
         [NothingSeen EXCEPT !.n = n, !.leaves0 = l, !.chain0 = c] \in Seen
<1>1. NothingSeen \in Seen
  BY DEF NothingSeen, Seen
<1>2. ASSUME NEW s \in Seen, NEW n \in Nat, NEW m \in Nat
      PROVE  [s EXCEPT !.n = n, !.m = m] \in Seen
  BY DEF Seen
<1>3. ASSUME NEW n \in Nat, NEW l \in Nat, NEW c \in Nat
      PROVE  [NothingSeen EXCEPT !.n = n, !.leaves0 = l, !.chain0 = c] \in Seen
  BY <1>1 DEF Seen
<1>4. QED
  BY <1>1, <1>2, <1>3

\* What a probe has in hand keeps its type.
LEMMA NextSeenType ==
    ASSUME TypeInv, ProbeShape, [ProbeNext]_allVars
    PROVE  saw' \in Seen
<1>0. /\ TypeOK /\ height \in Nat /\ Len(leaves) \in Nat /\ Len(chain) \in Nat /\ db \in DB
      /\ saw \in Seen /\ tip \in [id : Nat, root : Nat, height : Nat, ready : BOOLEAN]
  BY DEF TypeInv, TypeOK, ProbeShape
<1>1. ASSUME NEW n \in Nat, NEW next, Begin(n, next) PROVE saw' \in Seen
  BY <1>0, <1>1, SeenUpdates DEF Begin
<1>2. CASE HealthHeight \/ MerkleRoot \/ CommitSafeReceipts \/ StatsPlusRoot \/ StatsHeight
  <2>1. PICK n \in Nat, next \in Place : Begin(n, next)
    BY <1>0, <1>2 DEF HealthHeight, MerkleRoot, CommitSafeReceipts, StatsPlusRoot, StatsHeight,
                      Place
  <2>2. QED
    BY <1>1, <2>1
<1>3. CASE MintingStart
  <2>1. Nonces(db) \in Nat
    BY <1>0, NoncesIsSum
  <2>2. QED
    BY <1>3, <2>1 DEF MintingStart, NothingSeen, Seen
<1>4. ASSUME NEW h \in 0 .. Len(leaves), LightProofHeader(h) PROVE saw' \in Seen
  <2>1. CASE HeadersAt(h) # {}
    <3>1. Max(HeadersAt(h)) \in Nat
      BY <1>0, <2>1, HeadersAtType DEF TypeOK
    <3>2. PICK n \in Nat : n = Max(HeadersAt(h))
      BY <3>1
    <3>3. saw' = [NothingSeen EXCEPT !.n = n, !.leaves0 = Len(leaves), !.chain0 = Len(chain)]
      BY <1>4, <2>1, <3>2 DEF LightProofHeader
    <3>4. QED
      BY <1>0, <3>3, SeenUpdates
  <2>2. CASE HeadersAt(h) = {}
    BY <1>0, <1>4, <2>2 DEF LightProofHeader
  <2>3. QED
    BY <2>1, <2>2
<1>5. CASE HealthReceipts \/ HealthHeader \/ MerkleCount \/ StatsPlusHeight \/ StatsReceipts
           \/ MetricsReceipts \/ MetricsReady \/ CommitSafeHeight \/ CommitSafeNoPending
           \/ CommitSafeCommit
  BY <1>0, <1>5
     DEF HealthReceipts, HealthHeader, MerkleCount, StatsPlusHeight, StatsReceipts,
         MetricsReceipts, MetricsReady, CommitSafeHeight, CommitSafeNoPending,
         CommitSafeCommit, Seen
<1>6. CASE HealthRoot
  BY <1>0, <1>6 DEF HealthRoot, Seen
<1>7. CASE LightProofBundle
  <2> DEFINE h == chain[saw.n].height
  <2>1. CASE Records(h) = {}
    BY <1>0, <1>7, <2>1 DEF LightProofBundle
  <2>2. CASE Records(h) # {}
    <3>1. feed[Max(Records(h))].bundle \in Nat
      BY <1>0, <2>2, RecordsType
    <3>2. saw' = [saw EXCEPT !.m = feed[Max(Records(h))].bundle]
      BY <1>7, <2>2 DEF LightProofBundle
    <3>3. QED
      BY <1>0, <3>1, <3>2 DEF Seen
  <2>3. QED
    BY <2>1, <2>2
<1>8. CASE MintingRead
  <2> DEFINE a == MintAccounts[saw.m + 1]
  <2>1. a \in Addr
    BY <1>8, MintingReadsAccount
  <2>2. db.acct[a].bal \in Nat /\ saw.n \in Nat /\ saw.m \in Nat
    BY <1>0, <2>1 DEF DB, Account, Seen
  <2>3. saw' = [saw EXCEPT !.n = (saw.n + db.acct[a].bal) % Word, !.m = saw.m + 1]
    BY <1>8 DEF MintingRead
  <2> HIDE DEF a
  <2>4. (saw.n + db.acct[a].bal) % Word \in Nat
    BY <2>2, WordMod
  <2>5. PICK n \in Nat, m \in Nat :
          n = (saw.n + db.acct[a].bal) % Word /\ m = saw.m + 1
    BY <2>2, <2>4
  <2>6. saw' = [saw EXCEPT !.n = n, !.m = m]
    BY <2>3, <2>5
  <2>7. QED
    BY <1>0, <2>6, SeenUpdates
<1>9. CASE EngineStep \/ UNCHANGED allVars
  BY <1>0, <1>9, SeenUpdates DEF EngineStep, allVars, probeVars
<1>10. QED
  BY <1>2, <1>3, <1>4, <1>5, <1>6, <1>7, <1>8, <1>9 DEF ProbeNext, ProbeStep

\* A minting probe that goes on has accounts left, and no other step enters or leaves
\* a place the wrong way.
LEMMA NextProbeShape ==
    ASSUME TypeInv, ProbeShape, [ProbeNext]_allVars
    PROVE  ProbeShape'
<1>0. saw \in Seen /\ saw' \in Seen
  BY NextSeenType DEF ProbeShape
<1>1. CASE LooksOnly
  <2>1. up' = up
    BY <1>0, <1>1, LooksChangeNothing DEF vars
  <2>2. MintAccounts \in Seq(Addr) /\ Len(MintAccounts) \in Nat /\ Len(MintAccounts) > 0
    BY ProbesAssumption
  <2>3. CASE MintingStart
    BY <1>0, <2>1, <2>2, <2>3 DEF MintingStart, NothingSeen, ProbeShape, Place
  <2>4. CASE at' # "minting"
    BY <1>0, <1>1, <2>1, <2>4
       DEF LooksOnly, HealthHeight, MerkleRoot, CommitSafeReceipts, StatsPlusRoot, StatsHeight,
           MintingStart, LightProofHeader, Begin, HealthReceipts, HealthRoot, HealthHeader,
           MerkleCount, StatsPlusHeight, StatsReceipts, MetricsReceipts, MetricsReady,
           LightProofBundle, CommitSafeHeight, CommitSafeNoPending, Answer, ProbeShape, Place
  <2>5. QED
    BY <1>0, <1>1, <2>3, <2>4
       DEF LooksOnly, HealthHeight, MerkleRoot, CommitSafeReceipts, StatsPlusRoot, StatsHeight,
           LightProofHeader, Begin, HealthReceipts, HealthRoot, HealthHeader,
           MerkleCount, StatsPlusHeight, StatsReceipts, MetricsReceipts, MetricsReady,
           LightProofBundle, CommitSafeHeight, CommitSafeNoPending, Answer
<1>2. CASE MintingRead
  <2>1. up /\ up' = up /\ saw.m \in 0 .. Len(MintAccounts) - 1 /\ Len(MintAccounts) \in Nat
    BY <1>0, <1>2, ProbesAssumption DEF MintingRead, ProbeShape
  <2>2. CASE saw.m + 1 = Len(MintAccounts)
    BY <1>0, <1>2, <2>1, <2>2 DEF MintingRead, Answer, ProbeShape, Place
  <2>3. CASE saw.m + 1 # Len(MintAccounts)
    BY <1>0, <1>2, <2>1, <2>3 DEF MintingRead, Answer, ProbeShape, Place
  <2>4. QED
    BY <1>0, <2>2, <2>3
<1>3. CASE CommitSafeCommit
  BY <1>0, <1>3 DEF CommitSafeCommit, Answer, ProbeShape, Place
<1>4. CASE EngineStep
  BY <1>0, <1>4 DEF EngineStep, ProbeShape, Place, probeVars
<1>5. CASE UNCHANGED allVars
  BY <1>0, <1>5 DEF allVars, vars, probeVars, ProbeShape
<1>6. QED
  BY <1>0, <1>1, <1>2, <1>3, <1>4, <1>5, ProbeSteps

\* A node answers its probes by what the engine does anyway: the specification under
\* probes is the engine's, with TypeInv and the probe's shape invariant beside it, so
\* what is proved of the engine holds under probes.
THEOREM ProbesAreEngineSteps == ProbeSpec => Spec /\ [](TypeInv /\ ProbeShape)
<1>1. ProbeInit => Init /\ TypeInv /\ ProbeShape
  BY InitType, SeenUpdates DEF ProbeInit, ProbeShape, Place
<1>2. TypeInv /\ ProbeShape /\ [ProbeNext]_allVars => (TypeInv /\ ProbeShape)' /\ [Next]_vars
  BY ProbeStepIsEngineStep, NextType, NextProbeShape
<1>3. QED
  BY <1>1, <1>2, PTL DEF ProbeSpec, Spec
-------------------------------------------------------------------------------
(***************************************************************************)
(* What the engine keeps while a process runs.                             *)
(***************************************************************************)
\* Engine.height counts the receipts.
HeightInSync == up => height = Len(leaves)

\* NewEngine sets it from the receipts it loads, StoreReceipt and CommitRound keep it.
LEMMA NextHeight ==
    ASSUME TypeInv, HeightInSync, [Next]_vars
    PROVE  HeightInSync'
<1>0. height \in Nat /\ Len(leaves) \in Nat
  BY DEF TypeInv, TypeOK
<1>1. CASE Boot
  <2>1. LoadedLedger \in LedgerFile /\ IsFiniteSet(LoadedLedger.receipts)
    BY LoadedLedgerType
  <2>2. LoadedLedger.receipts \subseteq Receipt
    BY <2>1 DEF LedgerFile
  <2>3. PICK R, q : R = LoadedLedger.receipts /\ q = leaves'
    OBVIOUS
  <2>4. q \in HeightOrders(R) /\ height' = Cardinality(R)
    BY <1>1, <2>3 DEF Boot
  <2>5. Len(q) = Cardinality(R)
    BY <2>1, <2>2, <2>3, <2>4, HeightOrdersType
  <2>6. QED
    BY <2>3, <2>4, <2>5 DEF HeightInSync
<1>2. ASSUME NEW w \in Worker, StoreReceipt(w) PROVE HeightInSync'
  <2>1. Len(leaves') = Len(leaves) + 1
    BY <1>2, StoreAppends
  <2>2. height' = height + 1 /\ up' = up
    BY <1>2 DEF StoreReceipt
  <2>3. QED
    BY <1>0, <2>1, <2>2 DEF HeightInSync
<1>3. CASE CommitRound
  BY <1>3 DEF CommitRound, HeightInSync
<1>4. CASE UNCHANGED <<height, leaves>> /\ (up' => up)
  BY <1>4 DEF HeightInSync
<1>5. \/ Boot \/ (\E w \in Worker : StoreReceipt(w)) \/ CommitRound
      \/ UNCHANGED <<height, leaves>> /\ (up' => up)
  BY DEF Next, Step, Submit, Apply, TakeSnapshot, OpenStateFile, WriteStateFile,
         SaveStateFails, ReadAccount, RecordCommitBundle, Crash, CrashInSaveLedger, Die,
         ledgerVars, vars
<1>6. QED
  BY <1>1, <1>2, <1>3, <1>4, <1>5

\* LatestCommitRoot is the commit root of the newest header, once there is one.
TipInv ==
    up /\ ExtBundle = {} /\ Len(chain) > born =>
        tip.ready /\ tip.root = chain[Len(chain)].commitRoot

\* CommitRound sets both.
LEMMA NextTip ==
    ASSUME ProcessInv, TipInv, [Next]_vars
    PROVE  TipInv'
<1>0. TypeOK /\ Len(chain) \in Nat
  BY DEF ProcessInv, TypeInv, TypeOK
<1>1. CASE Boot
  BY <1>0, <1>1 DEF Boot, TipInv
<1>2. CASE CommitRound
  <2>1. tip' = [id |-> Len(chain) + 1, root |-> Len(rounds) + 1, height |-> Len(leaves),
                ready |-> TRUE]
    BY <1>2 DEF CommitRound
  <2>2. /\ Len(chain') = Len(chain) + 1
        /\ chain'[Len(chain) + 1].commitRoot = Len(rounds) + 1
    BY <1>0, <1>2, ChainGrows DEF BuildEternityHeader
  <2>3. QED
    BY <2>1, <2>2 DEF TipInv
<1>3. CASE \E b \in ExtBundle : RecordCommitBundle(b)
  BY <1>3 DEF TipInv
<1>4. CASE UNCHANGED <<commitVars, rounds, lastCommitted>> /\ (up' => up)
  BY <1>4 DEF commitVars, TipInv
<1>5. QED
  BY <1>1, <1>2, <1>3, <1>4, HeaderSteps

\* In the life of a process receipts and headers are only added, and the tip moves
\* with the headers.
LEMMA ProcessGrows ==
    ASSUME TypeInv, [Next]_vars, up, up'
    PROVE  /\ Len(leaves) <= Len(leaves') /\ Len(chain) <= Len(chain') /\ born' = born
           /\ \A j \in 1 .. Len(chain) : chain'[j] = chain[j]
           /\ \A i \in 1 .. Len(leaves) : leaves'[i] = leaves[i]
           /\ ExtBundle = {} /\ Len(chain') = Len(chain) => tip' = tip
<1>0. TypeOK /\ Len(leaves) \in Nat /\ Len(chain) \in Nat
  BY DEF TypeInv, TypeOK
<1>1. ~ Boot
  BY DEF Boot
<1>2. /\ Len(leaves) <= Len(leaves')
      /\ \A i \in 1 .. Len(leaves) : leaves'[i] = leaves[i]
  <2>1. ASSUME NEW w \in Worker, StoreReceipt(w) PROVE <1>2!1 /\ <1>2!2
    BY <1>0, <2>1, StoreAppends
  <2>2. CASE leaves' = leaves
    BY <1>0, <2>2
  <2>3. QED
    BY <1>1, <2>1, <2>2, LedgerSteps DEF CommitRound, CrashInSaveLedger, Die, ledgerVars
<1>3. /\ Len(chain) <= Len(chain') /\ born' = born
      /\ \A j \in 1 .. Len(chain) : chain'[j] = chain[j]
      /\ ExtBundle = {} /\ Len(chain') = Len(chain) => tip' = tip
  <2>1. CASE CommitRound
    <3>1. Len(chain') = Len(chain) + 1 /\ \A j \in 1 .. Len(chain) : chain'[j] = chain[j]
      BY <1>0, <2>1, ChainGrows
    <3>2. born' = born
      BY <2>1 DEF CommitRound
    <3>3. QED
      BY <1>0, <3>1, <3>2
  <2>2. CASE \E b \in ExtBundle : RecordCommitBundle(b)
    BY <1>0, <2>2 DEF RecordCommitBundle
  <2>3. CASE UNCHANGED <<commitVars, rounds, lastCommitted>>
    BY <1>0, <2>3 DEF commitVars
  <2>4. QED
    BY <1>1, <2>1, <2>2, <2>3, HeaderSteps
<1>4. QED
  BY <1>2, <1>3
-------------------------------------------------------------------------------
(***************************************************************************)
(* What a probe has seen stays below what there is.                        *)
(***************************************************************************)
\* The places in a handler that noted what there was when it began, and of those the
\* ones that have counted the receipts, once and twice.
Noted == Place \ {"idle", "minting"}
Counted == Noted \ {"stats_height", "light_bundle"}
Recounted == {"health_root", "health_header", "metrics_ready"}

\* The counts of a probe are in the order of its reads and below the receipts there
\* are now; the tip it read is the tip as long as no header came; its header exists.
SeenInv ==
    /\ at \in Noted => saw.leaves0 <= Len(leaves) /\ saw.chain0 <= Len(chain)
    /\ at \in Counted => saw.leaves0 <= saw.n /\ saw.n <= Len(leaves)
    /\ at \in Recounted => saw.n <= saw.m /\ saw.m <= Len(leaves)
    /\ at = "health_header" /\ ExtBundle = {} /\ Len(chain) = saw.chain0 =>
         saw.ready = tip.ready /\ saw.root = tip.root
    /\ at = "light_bundle" => saw.n \in born + 1 .. Len(chain)

ReadInv == ProcessInv /\ HeightInSync /\ TipInv /\ FeedInv /\ ProbeShape /\ SeenInv

\* A probe that was answered or has died has seen nothing.
LEMMA IdleSeen == at = "idle" \/ at = "minting" => SeenInv
BY DEF SeenInv, Noted, Counted, Recounted

\* Its first call.
LEMMA BeginSeen ==
    ASSUME ReadInv, NEW n \in Nat, NEW next \in Noted \ Recounted, Begin(n, next),
           next # "light_bundle", next = "stats_height" \/ n = Len(leaves)
    PROVE  SeenInv'
<1>1. /\ saw' = [NothingSeen EXCEPT !.n = n, !.leaves0 = Len(leaves), !.chain0 = Len(chain)]
      /\ at' = next /\ leaves' = leaves /\ chain' = chain
      /\ Len(leaves) \in Nat /\ Len(chain) \in Nat
  BY DEF Begin, vars, ReadInv, ProcessInv, TypeInv, TypeOK
<1>2. saw'.n = n /\ saw'.leaves0 = Len(leaves) /\ saw'.chain0 = Len(chain)
  BY <1>1 DEF NothingSeen
<1>3. QED
  BY <1>1, <1>2 DEF SeenInv, Noted, Counted, Recounted, Place

\* Its later calls, each of which reads what there is now.
LEMMA LookSeen ==
    ASSUME ReadInv, LooksOnly
    PROVE  SeenInv'
<1>0. /\ up \/ at = "idle"
      /\ Len(leaves) \in Nat /\ Len(chain) \in Nat /\ height \in Nat
      /\ saw.n \in Nat /\ saw.m \in Nat /\ saw.leaves0 \in Nat /\ saw.chain0 \in Nat
      /\ saw \in Seen /\ TypeOK
      /\ up => height = Len(leaves)
  BY DEF ReadInv, ProcessInv, TypeInv, TypeOK, ProbeShape, Seen, HeightInSync
<1>1. leaves' = leaves /\ chain' = chain /\ tip' = tip /\ born' = born
  BY LooksChangeNothing DEF vars
<1>2. CASE HealthHeight \/ MerkleRoot \/ CommitSafeReceipts \/ StatsPlusRoot \/ StatsHeight
  <2>1. PICK n \in Nat, next \in Noted \ Recounted :
          /\ Begin(n, next) /\ next # "light_bundle" /\ n = Len(leaves)
    BY <1>0, <1>2 DEF HealthHeight, MerkleRoot, CommitSafeReceipts, StatsPlusRoot, StatsHeight,
                      Begin, Noted, Place, Recounted
  <2>2. QED
    BY <2>1, BeginSeen
<1>3. CASE at' = "idle" \/ at' = "minting"
  BY <1>3, IdleSeen DEF SeenInv, Noted, Counted, Recounted
<1>4. ASSUME NEW h \in 0 .. Len(leaves), LightProofHeader(h), at' # "idle" PROVE SeenInv'
  <2>1. HeadersAt(h) # {} /\ at' = "light_bundle"
    BY <1>4 DEF LightProofHeader, Answer
  <2>2. PICK n : n = Max(HeadersAt(h)) /\ n \in born + 1 .. Len(chain)
    BY <1>0, <2>1, HeadersAtType
  <2>3. saw' = [NothingSeen EXCEPT !.n = n, !.leaves0 = Len(leaves), !.chain0 = Len(chain)]
    BY <1>4, <2>1, <2>2 DEF LightProofHeader
  <2>4. saw'.n = n /\ saw'.leaves0 = Len(leaves) /\ saw'.chain0 = Len(chain)
    BY <2>3 DEF NothingSeen
  <2>5. QED
    BY <1>0, <1>1, <2>1, <2>2, <2>4 DEF SeenInv, Noted, Counted, Recounted, Place
<1>5. CASE HealthReceipts \/ MetricsReceipts
  <2>1. /\ at \in {"health_receipts", "stats_receipts"} /\ at' \in {"health_root", "metrics_ready"}
        /\ saw' = [saw EXCEPT !.m = Len(leaves)]
    BY <1>5 DEF HealthReceipts, MetricsReceipts
  <2>2. /\ saw'.m = Len(leaves) /\ saw'.n = saw.n /\ saw'.leaves0 = saw.leaves0
        /\ saw'.chain0 = saw.chain0
    BY <1>0, <2>1 DEF Seen
  <2>3. SeenInv
    BY DEF ReadInv
  <2>4. QED
    BY <1>0, <1>1, <2>1, <2>2, <2>3 DEF SeenInv, Noted, Counted, Recounted, Place
<1>6. CASE HealthRoot
  <2>1. /\ at = "health_root" /\ at' = "health_header"
        /\ saw' = [saw EXCEPT !.ready = tip.ready, !.root = tip.root]
    BY <1>6 DEF HealthRoot
  <2>2. /\ saw'.m = saw.m /\ saw'.n = saw.n /\ saw'.leaves0 = saw.leaves0
        /\ saw'.chain0 = saw.chain0 /\ saw'.root = tip.root /\ saw'.ready = tip.ready
    BY <1>0, <2>1 DEF Seen
  <2>3. SeenInv
    BY DEF ReadInv
  <2>4. QED
    BY <1>0, <1>1, <2>1, <2>2, <2>3 DEF SeenInv, Noted, Counted, Recounted, Place
<1>7. CASE StatsPlusHeight
  <2>1. /\ at = "stats_height" /\ at' = "stats_receipts" /\ up
        /\ saw' = [saw EXCEPT !.n = height]
    BY <1>0, <1>7 DEF StatsPlusHeight
  <2>2. /\ saw'.n = Len(leaves) /\ saw'.leaves0 = saw.leaves0 /\ saw'.chain0 = saw.chain0
    BY <1>0, <2>1 DEF Seen
  <2>3. SeenInv
    BY DEF ReadInv
  <2>4. QED
    BY <1>0, <1>1, <2>1, <2>2, <2>3 DEF SeenInv, Noted, Counted, Recounted, Place
<1>8. CASE CommitSafeHeight /\ at' # "idle"
  <2>1. /\ at = "commit_height" /\ at' = "commit" /\ saw' = [saw EXCEPT !.m = height]
    BY <1>8 DEF CommitSafeHeight, Answer
  <2>2. /\ saw'.n = saw.n /\ saw'.leaves0 = saw.leaves0 /\ saw'.chain0 = saw.chain0
    BY <1>0, <2>1 DEF Seen
  <2>3. SeenInv
    BY DEF ReadInv
  <2>4. QED
    BY <1>0, <1>1, <2>1, <2>2, <2>3 DEF SeenInv, Noted, Counted, Recounted, Place
<1>9. QED
  BY <1>2, <1>3, <1>4, <1>5, <1>6, <1>7, <1>8
     DEF LooksOnly, MintingStart, HealthHeader, MerkleCount, StatsReceipts, MetricsReady,
         LightProofBundle, CommitSafeNoPending, Answer

\* The steps of the engine between two calls leave it in order.
LEMMA NextSeen ==
    ASSUME ReadInv, [ProbeNext]_allVars
    PROVE  SeenInv'
<1>0. TypeInv /\ ProbeShape /\ SeenInv /\ Len(leaves) \in Nat /\ Len(chain) \in Nat /\ born \in Nat
  BY DEF ReadInv, ProcessInv, TypeInv, TypeOK
<1>1. CASE LooksOnly
  BY <1>1, LookSeen
<1>2. CASE at' = "idle" \/ at' = "minting"
  BY <1>2 DEF SeenInv, Noted, Counted, Recounted
<1>3. CASE EngineStep /\ at' # "idle"
  <2>1. at' = at /\ saw' = saw /\ up' /\ up /\ Next
    BY <1>0, <1>3 DEF EngineStep, probeVars, ProbeShape
  <2>2. TypeInv'
    BY <1>0, <2>1, NextType
  <2>3. Len(leaves') \in Nat /\ Len(chain') \in Nat
    BY <2>2 DEF TypeInv, TypeOK
  <2>4. /\ Len(leaves) <= Len(leaves') /\ Len(chain) <= Len(chain') /\ born' = born
        /\ ExtBundle = {} /\ Len(chain') = Len(chain) => tip' = tip
    BY <1>0, <2>1, ProcessGrows
  <2>5. /\ saw.n \in Nat /\ saw.m \in Nat /\ saw.leaves0 \in Nat /\ saw.chain0 \in Nat
    BY <1>0 DEF ProbeShape, Seen
  <2>6. /\ at \in Noted => saw.leaves0 <= Len(leaves') /\ saw.chain0 <= Len(chain')
        /\ at \in Counted => saw.leaves0 <= saw.n /\ saw.n <= Len(leaves')
        /\ at \in Recounted => saw.n <= saw.m /\ saw.m <= Len(leaves')
        /\ at = "light_bundle" => saw.n \in born + 1 .. Len(chain')
    BY <1>0, <2>3, <2>4, <2>5 DEF SeenInv
  <2>7. ASSUME at = "health_header", ExtBundle = {}, Len(chain') = saw.chain0
        PROVE  saw.ready = tip'.ready /\ saw.root = tip'.root
    <3>1. at \in Noted
      BY <2>7 DEF Noted, Place
    <3>2. Len(chain) = saw.chain0 /\ Len(chain') = Len(chain)
      BY <1>0, <2>3, <2>4, <2>5, <2>7, <3>1 DEF SeenInv
    <3>3. QED
      BY <1>0, <2>4, <2>7, <3>2 DEF SeenInv
  <2>8. QED
    BY <2>1, <2>4, <2>6, <2>7 DEF SeenInv
<1>4. CASE UNCHANGED allVars
  BY <1>0, <1>4 DEF allVars, vars, probeVars, SeenInv
<1>5. CASE MintingRead \/ CommitSafeCommit
  BY <1>2, <1>5 DEF MintingRead, CommitSafeCommit, Answer
<1>6. QED
  BY <1>1, <1>2, <1>3, <1>4, <1>5, ProbeSteps

\* Together they are invariant.
LEMMA ReadingInvariant == ProbeSpec => []ReadInv
<1>1. ProbeInit => ReadInv
  BY InitProcess, SeenUpdates, IdleSeen
     DEF ProbeInit, Init, ReadInv, HeightInSync, TipInv, FeedInv, ProbeShape, Place
<1>2. ReadInv /\ [ProbeNext]_allVars => ReadInv'
  <2> SUFFICES ASSUME ReadInv, [ProbeNext]_allVars PROVE ReadInv'
    OBVIOUS
  <2>1. TypeInv /\ ProcessInv /\ HeightInSync /\ TipInv /\ FeedInv /\ ProbeShape
    BY DEF ReadInv, ProcessInv
  <2>2. [Next]_vars
    BY <2>1, ProbeStepIsEngineStep
  <2>3. QED
    BY <2>1, <2>2, NextProcess, NextHeight, NextTip, NextFeed, NextProbeShape, NextSeen
       DEF ReadInv
<1>3. QED
  BY <1>1, <1>2, PTL DEF ProbeSpec
-------------------------------------------------------------------------------
(***************************************************************************)
(* What the probes answer.                                                 *)
(***************************************************************************)
\* Which call an answer of each kind comes from.
LEMMA Answers ==
    ASSUME [ProbeNext]_allVars, NEW kind, Answered(kind)
    PROVE  \/ kind = "health" /\ HealthHeader
           \/ kind = "merkle" /\ MerkleCount
           \/ kind = "stats" /\ StatsReceipts
           \/ kind = "metrics" /\ MetricsReady
           \/ kind = "minting" /\ MintingRead
           \/ kind = "light_proof" /\ LightProofBundle
           \/ kind = "commit" /\ (CommitSafeHeight \/ CommitSafeCommit \/ CommitSafeNoPending)
           \/ kind = "none"
<1>1. at # "idle" /\ at' = "idle" /\ reply'.kind = kind
  BY DEF Answered
<1>2. CASE HealthHeader \/ MerkleCount \/ StatsReceipts \/ MetricsReady \/ CommitSafeNoPending
           \/ CommitSafeCommit
  BY <1>1, <1>2 DEF HealthHeader, MerkleCount, StatsReceipts, MetricsReady,
                    CommitSafeNoPending, CommitSafeCommit, Answer
<1>3. CASE MintingRead
  BY <1>1, <1>3 DEF MintingRead, Answer
<1>4. CASE LightProofBundle
  BY <1>1, <1>4 DEF LightProofBundle, Answer
<1>5. CASE CommitSafeHeight
  BY <1>1, <1>5 DEF CommitSafeHeight, Answer
<1>6. CASE EngineStep
  BY <1>1, <1>6 DEF EngineStep, probeVars, NoReply
<1>7. QED
  BY <1>1, <1>2, <1>3, <1>4, <1>5, <1>6, ProbeSteps
     DEF LooksOnly, HealthHeight, MerkleRoot, CommitSafeReceipts, StatsPlusRoot, StatsHeight,
         MintingStart, LightProofHeader, Begin, HealthReceipts, HealthRoot, StatsPlusHeight,
         MetricsReceipts, allVars, probeVars

\* Without commit bundles from outside, GET /health/chain raises no false alarm: if no
\* receipt and no header came between its four calls and there is a header, it answers
\* ok, through crashes, torn files, failed writes and transfers sent twice.
THEOREM HealthIsTrueAtRest ==
    ASSUME ExtBundle = {}
    PROVE  ProbeSpec => HealthyAtRest
<1>1. ReadInv /\ [ProbeNext]_allVars =>
        [Answered("health") /\ Quiet /\ Len(chain) > born => reply'.reason = "ok"]_allVars
  <2> SUFFICES ASSUME ReadInv, [ProbeNext]_allVars, Answered("health"), Quiet,
                      Len(chain) > born
               PROVE  reply'.reason = "ok"
    OBVIOUS
  <2>1. HealthHeader /\ at = "health_header"
    BY Answers DEF HealthHeader
  <2>2. /\ up /\ Len(leaves) \in Nat /\ saw.n \in Nat /\ saw.m \in Nat
        /\ born \in Nat /\ Len(chain) \in Nat
    BY <2>1 DEF ReadInv, ProcessInv, TypeInv, TypeOK, ProbeShape, Seen
  <2>3. /\ saw.leaves0 <= saw.n /\ saw.n <= saw.m /\ saw.m <= Len(leaves)
        /\ saw.ready = tip.ready /\ saw.root = tip.root
    BY <2>1 DEF ReadInv, SeenInv, Noted, Counted, Recounted, Place, Quiet
  <2>4. saw.n = saw.m
    BY <2>2, <2>3 DEF Quiet
  <2>5. tip.ready /\ tip.root = chain[Len(chain)].commitRoot
    BY <2>2 DEF ReadInv, TipInv
  <2>6. Len(chain) # born
    BY <2>2
  <2>7. saw.ready /\ saw.root = chain[Len(chain)].commitRoot
    BY <2>3, <2>5
  <2>8. QED
    BY <2>1, <2>4, <2>6, <2>7 DEF HealthHeader, Answer
<1>2. QED
  BY <1>1, ReadingInvariant, PTL DEF ProbeSpec, HealthyAtRest

\* The counts of GET /merkle, /stats.json, /stats.sys, /stats.plus and /metrics.
LEMMA CountsDoFit ==
    ASSUME ReadInv, [ProbeNext]_allVars
    PROVE  CountsFit
<1> SUFFICES ASSUME NEW kind \in {"merkle", "stats", "metrics"}, Answered(kind)
             PROVE  /\ saw'.m >= saw'.n
                    /\ Quiet => saw'.m = saw'.n
                    /\ kind = "metrics" /\ saw'.n > 0 => reply'.reason = "ready"
  BY DEF CountsFit
<1>0. /\ Len(leaves) \in Nat /\ saw.n \in Nat /\ saw.m \in Nat /\ saw.leaves0 \in Nat
      /\ saw \in Seen
  BY DEF ReadInv, ProcessInv, TypeInv, TypeOK, ProbeShape, Seen
<1>1. CASE kind \in {"merkle", "stats"}
  <2>1. at \in Counted /\ saw' = [saw EXCEPT !.m = Len(leaves)]
    BY <1>1, Answers DEF MerkleCount, StatsReceipts, Counted, Noted, Place
  <2>2. saw'.m = Len(leaves) /\ saw'.n = saw.n
    BY <1>0, <2>1 DEF Seen
  <2>3. saw.leaves0 <= saw.n /\ saw.n <= Len(leaves)
    BY <2>1 DEF ReadInv, SeenInv
  <2>4. QED
    BY <1>0, <1>1, <2>2, <2>3 DEF Quiet
<1>2. CASE kind = "metrics"
  <2>1. at = "metrics_ready" /\ saw' = saw /\ MetricsReady
    BY <1>2, Answers DEF MetricsReady
  <2>2. saw.leaves0 <= saw.n /\ saw.n <= saw.m /\ saw.m <= Len(leaves)
    BY <2>1 DEF ReadInv, SeenInv, Noted, Counted, Recounted, Place
  <2>3. height = Len(leaves)
    BY <2>1 DEF ReadInv, HeightInSync, ProbeShape
  <2>4. saw.n > 0 => reply'.reason = "ready"
    BY <1>0, <2>1, <2>2, <2>3 DEF MetricsReady, Answer
  <2>5. QED
    BY <1>0, <2>1, <2>2, <2>4 DEF Quiet
<1>3. QED
  BY <1>1, <1>2

\* The commit root of a header hashes the bundle of its own round.
RoundInv == \A k \in 1 .. Len(chain) : chain[k].round = chain[k].commitRoot

\* buildEternityHeader gives a header both.
LEMMA NextRound ==
    ASSUME TypeInv, RoundInv, [Next]_vars
    PROVE  RoundInv'
<1>0. TypeOK /\ Len(chain) \in Nat
  BY DEF TypeInv, TypeOK
<1>1. CASE CommitRound
  <2>1. /\ Len(chain') = Len(chain) + 1
        /\ \A j \in 1 .. Len(chain) : chain'[j] = chain[j]
        /\ chain'[Len(chain) + 1].commitRoot = Len(rounds) + 1
        /\ chain'[Len(chain) + 1].round = Len(rounds) + 1
    BY <1>0, <1>1, ChainGrows DEF BuildEternityHeader
  <2>2. ASSUME NEW k \in 1 .. Len(chain) + 1 PROVE chain'[k].round = chain'[k].commitRoot
    BY <1>0, <2>1 DEF RoundInv
  <2>3. QED
    BY <2>1, <2>2 DEF RoundInv
<1>2. CASE chain' = chain
  BY <1>2 DEF RoundInv
<1>3. QED
  BY <1>1, <1>2, HeaderSteps DEF Boot, RecordCommitBundle, commitVars

\* How many headers and records there are.
LEMMA Lengths ==
    ASSUME TypeOK
    PROVE  Len(chain) \in Nat /\ born \in Nat /\ Len(feed) \in Nat
BY DEF TypeOK

\* A record of the feed with the height of a header is that header's: no two headers
\* of a process have the same height.
LEMMA RecordOfHeader ==
    ASSUME ReadInv, ExtBundle = {}, up,
           NEW k \in born + 1 .. Len(chain), NEW i \in 1 .. Len(feed),
           feed[i].height = chain[k].height
    PROVE  feed[i].bundle = chain[k].commitRoot
<1>00. TypeOK /\ Rising(chain, born, lastCommitted)
  BY DEF ReadInv, ProcessInv, TypeInv
<1>0. /\ Len(chain) \in Nat /\ born \in Nat /\ Len(feed) \in Nat
      /\ Rising(chain, born, lastCommitted)
  BY <1>00, Lengths
<1>1. \A j \in born + 1 .. Len(chain) : chain[j].height \in Nat
  <2>1. chain \in Seq(Header)
    BY DEF ReadInv, ProcessInv, TypeInv, TypeOK
  <2>2. \A j \in 1 .. Len(chain) : chain[j] \in Header
    BY <2>1
  <2>3. \A j \in 1 .. Len(chain) : chain[j].height \in Nat
    BY <2>2 DEF Header
  <2>4. QED
    BY <1>0, <2>3
<1>2. /\ Len(feed) <= Len(chain) - born
      /\ feed[i].height = chain[Len(chain) - Len(feed) + i].height
      /\ feed[i].bundle = chain[Len(chain) - Len(feed) + i].commitRoot
  BY DEF ReadInv, FeedInv
<1>3. PICK j \in born + 1 .. Len(chain) : j = Len(chain) - Len(feed) + i
  BY <1>0, <1>2
<1>4. chain[j].height = chain[k].height
  BY <1>2, <1>3
<1>5. j = k
  BY <1>0, <1>1, <1>4 DEF Rising
<1>6. QED
  BY <1>2, <1>3, <1>5

\* Without commit bundles from outside, the handler of GET /block/{height}/light-proof finds
\* the bundle of any of the FeedCap newest headers, and never one that belongs to another
\* header than the one it read, whatever was committed or dropped from the feed between
\* its two calls.
THEOREM LightPairsDoAgree ==
    ASSUME ExtBundle = {}
    PROVE  ProbeSpec => LightPairsAgree
<1>1. ProbeSpec => []RoundInv
  <2>1. ProbeInit => RoundInv
    BY DEF ProbeInit, Init, RoundInv
  <2>2. ReadInv /\ RoundInv /\ [ProbeNext]_allVars => RoundInv'
    BY ProbeStepIsEngineStep, NextRound DEF ReadInv, ProcessInv
  <2>3. QED
    BY <2>1, <2>2, ReadingInvariant, PTL DEF ProbeSpec
<1>2. ReadInv /\ RoundInv /\ [ProbeNext]_allVars => [LightAnswerFits]_allVars
  <2> SUFFICES ASSUME ReadInv, RoundInv, [ProbeNext]_allVars, Answered("light_proof")
               PROVE  /\ reply'.reason = "commit_not_found" =>
                           ~Quiet \/ saw.n <= Len(chain) - FeedCap
                      /\ reply'.reason # "commit_not_found" =>
                           \A k \in 1 .. Len(chain) :
                             Verify(chain[saw.n], saw'.m, chain[k].stateRoot) \in Paired
    BY DEF LightAnswerFits
  <2>0. /\ TypeOK /\ saw \in Seen /\ Len(chain) \in Nat /\ born \in Nat /\ Len(feed) \in Nat
        /\ FeedCap \in Nat
    BY EngineAssumption DEF ReadInv, ProcessInv, TypeInv, TypeOK, ProbeShape
  <2>1. LightProofBundle /\ at = "light_bundle"
    BY Answers DEF LightProofBundle
  <2>2. up /\ saw.n \in born + 1 .. Len(chain)
    BY <2>1 DEF ReadInv, SeenInv, ProbeShape
  <2>3. PICK k \in born + 1 .. Len(chain), h \in {chain[saw.n].height} :
          k = saw.n /\ h = chain[k].height
    BY <2>2
  <2>4. CASE Records(h) = {}
    <3>1. reply'.reason = "commit_not_found"
      BY <2>1, <2>3, <2>4 DEF LightProofBundle, Answer
    <3>2. /\ Len(feed) <= Len(chain) - born
          /\ Len(feed) = Len(chain) - born \/ Len(feed) >= FeedCap
          /\ \A i \in 1 .. Len(feed) : feed[i].height = chain[Len(chain) - Len(feed) + i].height
      BY <2>2 DEF ReadInv, FeedInv
    <3>3. ASSUME k > Len(chain) - FeedCap PROVE FALSE
      <4>0. k - (Len(chain) - Len(feed)) \in 1 .. Len(feed)
        BY <2>0, <3>2, <3>3
      <4>1. PICK i \in 1 .. Len(feed) : i = k - (Len(chain) - Len(feed))
        BY <4>0
      <4>2. Len(chain) - Len(feed) + i = k
        BY <2>0, <4>1
      <4>3. feed[i].height = h
        BY <2>3, <3>2, <4>2
      <4>4. QED
        BY <2>4, <4>3 DEF Records
    <3>4. k <= Len(chain) - FeedCap
      BY <2>0, <3>3
    <3>5. QED
      BY <2>3, <3>1, <3>4
  <2>5. CASE Records(h) # {}
    <3>1. PICK i : i = Max(Records(h)) /\ i \in Records(h)
      BY <2>0, <2>5, RecordsType
    <3>2. reply'.reason = "panic" /\ saw' = [saw EXCEPT !.m = feed[i].bundle]
      BY <2>1, <2>3, <2>5, <3>1 DEF LightProofBundle, Answer
    <3>3. saw'.m = feed[i].bundle
      BY <2>0, <3>2 DEF Seen
    <3>4. i \in 1 .. Len(feed) /\ feed[i].height = chain[k].height
      BY <2>3, <3>1 DEF Records
    <3>5. feed[i].bundle = chain[k].commitRoot
      BY <2>2, <3>4, RecordOfHeader
    <3>6. chain[k].round = chain[k].commitRoot
      BY <2>0 DEF RoundInv
    <3>7. \A j \in 1 .. Len(chain) :
            Verify(chain[k], chain[k].commitRoot, chain[j].stateRoot) \in Paired
      BY <3>6 DEF Verify, Paired
    <3>8. QED
      BY <2>3, <3>2, <3>3, <3>5, <3>7
  <2>6. QED
    BY <2>4, <2>5
<1>3. QED
  BY <1>1, <1>2, ReadingInvariant, PTL DEF ProbeSpec, LightPairsAgree
-------------------------------------------------------------------------------
(***************************************************************************)
(* What /round/commit_safe promises.                                       *)
(***************************************************************************)
\* A round spans heights.
LEMMA RoundType == \A r \in Round : r.from \in Nat /\ r.to \in Nat
BY DEF Round

\* Rounds that adjoin one another from height 1 to `last` span every height up to it.
LEMMA RoundsSpan ==
    ASSUME NEW rs \in Seq(Round), NEW last \in Nat, Contiguous(rs, last), NEW i \in 1 .. last
    PROVE  \E k \in 1 .. Len(rs) : /\ rs[k].from \in Nat /\ rs[k].to \in Nat
                                   /\ rs[k].from <= i /\ i <= rs[k].to
<1> DEFINE K == {k \in 1 .. Len(rs) : rs[k].to >= i}
<1>0. /\ Len(rs) \in Nat
      /\ \A k \in 1 .. Len(rs) : rs[k].from \in Nat /\ rs[k].to \in Nat
  <2>1. \A k \in 1 .. Len(rs) : rs[k] \in Round
    OBVIOUS
  <2>2. QED
    BY <2>1, RoundType
<1>1. Len(rs) \in 1 .. Len(rs) /\ last = rs[Len(rs)].to
  BY <1>0 DEF Contiguous
<1>2. K \subseteq Nat /\ K # {}
  <2>1. rs[Len(rs)].to >= i
    BY <1>1
  <2>2. QED
    BY <1>0, <1>1, <2>1
<1> HIDE DEF K
<1>3. PICK k \in K : \A l \in K : k <= l
  BY <1>2, NatMin
<1>4. k \in 1 .. Len(rs) /\ rs[k].to >= i
  BY <1>3 DEF K
<1>5. rs[k].from <= i
  <2>1. CASE k = 1
    BY <1>4, <2>1 DEF Contiguous
  <2>2. CASE k # 1
    <3>1. k - 1 \in 1 .. Len(rs)
      BY <1>0, <1>4, <2>2
    <3>2. k - 1 \notin K
      BY <1>0, <1>3, <1>4
    <3>3. rs[k - 1].to < i
      BY <1>0, <3>1, <3>2 DEF K
    <3>4. rs[k].from = rs[k - 1].to + 1
      BY <1>4, <2>2 DEF Contiguous
    <3>5. QED
      BY <1>0, <3>1, <3>3, <3>4
  <2>3. QED
    BY <2>1, <2>2
<1>6. QED
  BY <1>0, <1>4, <1>5

\* A piece of a sequence holds what is at its places.
LEMMA PieceHolds ==
    ASSUME NEW ls \in Seq(Receipt), NEW a \in Nat, NEW b \in Nat, NEW i \in Nat,
           1 <= a, a <= i, i <= b, b <= Len(ls)
    PROVE  \E j \in 1 .. Len(SubSeq(ls, a, b)) : SubSeq(ls, a, b)[j] = ls[i]
<1>1. \A j \in a .. b : ls[j] \in Receipt
  OBVIOUS
<1>2. /\ Len(SubSeq(ls, a, b)) = b - a + 1
      /\ \A j \in 1 .. b - a + 1 : SubSeq(ls, a, b)[j] = ls[a + j - 1]
  BY <1>1, SubSeqProperties
<1>3. i - a + 1 \in 1 .. b - a + 1 /\ a + (i - a + 1) - 1 = i
  OBVIOUS
<1>4. QED
  BY <1>2, <1>3

\* So rounds with the roots over the receipts at their heights hold every receipt up
\* to the last height.
LEMMA RoundsHold ==
    ASSUME NEW rs \in Seq(Round), NEW last \in Nat, Contiguous(rs, last),
           NEW ls \in Seq(Receipt),
           \A k \in 1 .. Len(rs) : /\ rs[k].from >= 1 /\ rs[k].to <= Len(ls)
                                   /\ rs[k].root = SubSeq(ls, rs[k].from, rs[k].to),
           NEW i \in 1 .. last
    PROVE  \E k \in 1 .. Len(rs) : \E j \in 1 .. Len(rs[k].root) : rs[k].root[j] = ls[i]
<1>1. PICK k \in 1 .. Len(rs) : /\ rs[k].from \in Nat /\ rs[k].to \in Nat
                                /\ rs[k].from <= i /\ i <= rs[k].to
  BY RoundsSpan
<1>2. PICK a \in Nat, b \in Nat : a = rs[k].from /\ b = rs[k].to
  BY <1>1
<1>3. i \in Nat /\ 1 <= a /\ a <= i /\ i <= b /\ b <= Len(ls) /\ rs[k].root = SubSeq(ls, a, b)
  BY <1>1, <1>2
<1>4. \E j \in 1 .. Len(SubSeq(ls, a, b)) : SubSeq(ls, a, b)[j] = ls[i]
  BY <1>3, PieceHolds
<1>5. QED
  BY <1>3, <1>4

\* In an environment where committed receipts stay (one process, or clean crashes and
\* transfers sent once), "committed" and "no_pending" of /round/commit_safe and
\* /round/commit_safe2 mean that every receipt the handler counted is under the root of
\* a round, and the refusal means that a receipt came between its two reads.
THEOREM CommitSafeIsTrue ==
    ASSUME NoCrashes \/ (CleanCrashes /\ SentOnce)
    PROVE  ProbeSpec => CommitSafeKeepsItsWord
<1> DEFINE A == Answered("commit") =>
                  IF reply'.reason = "inconsistent_state" THEN ~Quiet
                  ELSE \A i \in 1 .. saw.n : InARound(i, rounds')
           J == LedgerInv /\ RootInv /\ RoundsContiguous
<1>1. ProbeSpec => []J
  BY ProbesAreEngineSteps, RootInvariant, RoundsPartitionHeights, PTL
<1>2. ReadInv /\ J /\ J' /\ [ProbeNext]_allVars => [A]_allVars
  <2> SUFFICES ASSUME ReadInv, J, J', [ProbeNext]_allVars, Answered("commit")
               PROVE  IF reply'.reason = "inconsistent_state" THEN ~Quiet
                      ELSE \A i \in 1 .. saw.n : InARound(i, rounds')
    OBVIOUS
  <2>0. /\ Len(leaves) \in Nat /\ saw.n \in Nat /\ saw.leaves0 \in Nat /\ lastCommitted \in Nat
    BY DEF ReadInv, ProcessInv, TypeInv, TypeOK, ProbeShape, Seen
  <2>1. CommitSafeHeight \/ CommitSafeCommit \/ CommitSafeNoPending
    BY Answers
  <2>2. at \in Counted /\ up
    BY <2>1 DEF CommitSafeHeight, CommitSafeCommit, CommitSafeNoPending, Counted, Noted, Place,
                ReadInv, ProbeShape
  <2>3. saw.leaves0 <= saw.n /\ saw.n <= Len(leaves) /\ height = Len(leaves)
    BY <2>2 DEF ReadInv, SeenInv, HeightInSync
  <2>4. CASE CommitSafeHeight
    <3>1. at' = "idle"
      BY DEF Answered
    <3>2. height > saw.n /\ reply'.reason = "inconsistent_state"
      BY <2>4, <3>1 DEF CommitSafeHeight, Answer
    <3>3. QED
      BY <2>0, <2>3, <3>2 DEF Quiet
  <2>5. CASE CommitSafeCommit \/ CommitSafeNoPending
    <3>1. /\ reply'.reason \in {"committed", "no_pending"}
          /\ leaves' = leaves /\ saw.n <= lastCommitted'
      BY <2>0, <2>3, <2>5 DEF CommitSafeCommit, CommitSafeNoPending, CommitRound, Answer, vars
    <3>2. PICK rs, last, ls : rs = rounds' /\ last = lastCommitted' /\ ls = leaves
      OBVIOUS
    <3>3. /\ rs \in Seq(Round) /\ last \in Nat /\ ls \in Seq(Receipt)
          /\ Contiguous(rs, last)
          /\ \A k \in 1 .. Len(rs) : /\ rs[k].from >= 1 /\ rs[k].to <= Len(ls)
                                     /\ rs[k].root = SubSeq(ls, rs[k].from, rs[k].to)
      BY <3>1, <3>2 DEF LedgerInv, TypeInv, TypeOK, RootInv, RoundsContiguous
    <3>4. ASSUME NEW i \in 1 .. saw.n PROVE InARound(i, rounds')
      <4>1. i \in 1 .. last
        BY <2>0, <3>1, <3>2, <3>3
      <4>2. \E k \in 1 .. Len(rs) : \E j \in 1 .. Len(rs[k].root) : rs[k].root[j] = ls[i]
        BY <3>3, <4>1, RoundsHold
      <4>3. QED
        BY <3>2, <4>2 DEF InARound
    <3>5. QED
      BY <3>1, <3>4
  <2>6. QED
    BY <2>1, <2>4, <2>5
<1>3. QED
  BY <1>1, <1>2, ReadingInvariant, PTL DEF ProbeSpec, CommitSafeKeepsItsWord
-------------------------------------------------------------------------------
(***************************************************************************)
(* What /minting reports.                                                  *)
(***************************************************************************)
\* n and s differ by no more than k transfers can move.
Close(n, s, k) == n <= s + Largest * k /\ s <= n + Largest * k

\* No transfer moves more than the largest one.
LEMMA LargestType ==
    ASSUME Transfer # {}
    PROVE  Largest \in Nat /\ \A t \in Transfer : Need(t) \in Nat /\ Need(t) <= Largest
<1> DEFINE N == {Need(t) : t \in Transfer}
<1>1. \A t \in Transfer : Need(t) \in 0 .. Word - 1
  <2>1. \A t \in Transfer : t.amount + t.fee \in Nat
    BY AccountsAssumption
  <2>2. QED
    BY <2>1, WordMod DEF Need
<1>2. Word \in Nat \ {0}
  BY AccountsAssumption
<1>3. PICK n \in Nat : n = Word - 1
  BY <1>2
<1>4. N \in SUBSET (0 .. n) /\ N # {}
  BY <1>1, <1>3
<1> HIDE DEF N
<1>5. Max(N) \in N /\ \A j \in N : Max(N) >= j
  BY <1>4, MaxUpTo
<1>6. \A t \in Transfer : Need(t) \in N
  BY DEF N
<1>7. Largest = Max(N)
  BY DEF Largest, N
<1>8. \A x \in N : x \in Nat
  BY <1>4
<1>9. PICK m \in Nat : m = Largest /\ \A j \in N : j <= m
  BY <1>5, <1>7, <1>8
<1>10. \A t \in Transfer : Need(t) \in Nat /\ Need(t) <= m
  BY <1>6, <1>8, <1>9
<1>11. QED
  BY <1>9, <1>10

\* One more transfer, or one more account on both sides.
LEMMA CloseSteps ==
    ASSUME Largest \in Nat, NEW n \in Nat, NEW s \in Nat, NEW k \in Nat, Close(n, s, k)
    PROVE  /\ \A z \in Nat : z <= s + Largest /\ s <= z + Largest => Close(n, z, k + 1)
           /\ \A b \in Nat : Close(n + b, s + b, k)
<1>1. PICK L \in Nat : L = Largest
  OBVIOUS
<1>2. PICK x \in Nat : x = L * k
  OBVIOUS
<1>3. L * (k + 1) = x + L
  BY <1>2
<1>4. n <= s + x /\ s <= n + x
  BY <1>1, <1>2 DEF Close
<1>5. ASSUME NEW z \in Nat, z <= s + L, s <= z + L
      PROVE  n <= z + (x + L) /\ z <= n + (x + L)
  BY <1>4, <1>5
<1>6. ASSUME NEW b \in Nat PROVE n + b <= s + b + x /\ s + b <= n + b + x
  BY <1>4
<1>7. QED
  BY <1>1, <1>2, <1>3, <1>5, <1>6 DEF Close

\* h is f with c more at a.
Shifted(f, h, a, c, S) ==
    \A x \in S : f[x] \in Int /\ h[x] = f[x] + (IF x = a THEN c ELSE 0)

\* Such a sum changes by c where the set has a.
LEMMA SumShift ==
    ASSUME NEW S, IsFiniteSet(S), NEW f, NEW h, NEW a, NEW c \in Int, Shifted(f, h, a, c, S)
    PROVE  Sum(h, S) = Sum(f, S) + (IF a \in S THEN c ELSE 0) /\ Sum(f, S) \in Int
<1>1. /\ \A x \in S : h[x] \in Int
      /\ \A x \in S : f[x] \in Int
      /\ \A x \in S : h[x] = f[x] + (IF x = a THEN c ELSE 0)
  BY DEF Shifted
<1>2. Sum(f, S) \in Int
  BY <1>1, SumType
<1>3. CASE a \in S
  <2>1. \A x \in S \ {a} : h[x] = f[x]
    BY <1>1, <1>3
  <2>2. Sum(h, S) = Sum(f, S) + h[a] - f[a]
    BY <1>1, <1>3, <2>1, SumUpdate
  <2>3. h[a] = f[a] + c /\ f[a] \in Int
    BY <1>1, <1>3
  <2>4. QED
    BY <1>2, <1>3, <2>2, <2>3
<1>4. CASE a \notin S
  <2>1. \A x \in S : f[x] = h[x]
    BY <1>1, <1>4
  <2>2. Sum(f, S) = Sum(h, S)
    BY <2>1, SumEqual
  <2>3. QED
    BY <1>2, <1>4, <2>2
<1>5. QED
  BY <1>3, <1>4

\* A transfer that is applied moves no more into or out of any set of accounts than
\* what it needs, and counts as one more nonce.
LEMMA TransferMoves ==
    ASSUME MoneyFits, NEW d \in DB, NEW t \in Transfer, Total(d) = Money,
           Verdict(d, t) = "applied", NEW S \in SUBSET Addr
    PROVE  LET f == Balances(d.acct)
               h == Balances(ApplyTransfer(d, t).acct)
           IN  /\ Sum(f, S) \in Nat /\ Sum(h, S) \in Nat
               /\ Sum(h, S) <= Sum(f, S) + Need(t) /\ Sum(f, S) <= Sum(h, S) + Need(t)
               /\ Nonces(ApplyTransfer(d, t)) = Nonces(d) + 1
<1> DEFINE e == ApplyTransfer(d, t)
           f == Balances(d.acct)
           h == Balances(e.acct)
           c == t.amount + t.fee
           f1 == [x \in Addr |-> f[x] + (IF x = t.from THEN - c ELSE 0)]
           f2 == [x \in Addr |-> f1[x] + (IF x = t.to THEN t.amount ELSE 0)]
<1>1. /\ t.from \in Addr /\ t.to \in Addr /\ FeeReceiver \in Addr
      /\ t.amount \in Nat /\ t.fee \in Nat /\ c < Word
      /\ IsFiniteSet(Addr)
  BY AccountsAssumption DEF MoneyFits
<1>2. Need(t) = c
  BY <1>1, FitsWord DEF Need
<1>3. IsFiniteSet(S)
  BY <1>1, FS_Subset
<1>4. e \in DB
  BY NonceAfter
<1>5. \A x \in Addr : f[x] = d.acct[x].bal /\ f[x] \in Nat /\ h[x] = e.acct[x].bal /\ h[x] \in Nat
  BY <1>4 DEF Balances, DB, Account
<1>6. \A x \in Addr : h[x] = f2[x] + (IF x = FeeReceiver THEN t.fee ELSE 0)
  <2> SUFFICES ASSUME NEW x \in Addr
               PROVE  h[x] = f2[x] + (IF x = FeeReceiver THEN t.fee ELSE 0)
    OBVIOUS
  <2>1. e.acct[x].bal = d.acct[x].bal - (IF x = t.from THEN c ELSE 0)
                 + (IF x = t.to THEN t.amount ELSE 0)
                 + (IF x = FeeReceiver THEN t.fee ELSE 0)
    BY BalanceAfter
  <2>2. f1[x] = f[x] - (IF x = t.from THEN c ELSE 0)
    BY <1>1, <1>5
  <2>3. f2[x] = f1[x] + (IF x = t.to THEN t.amount ELSE 0)
    OBVIOUS
  <2> HIDE DEF f, h, e, f1, f2, c
  <2>4. QED
    BY <1>5, <2>1, <2>2, <2>3
<1>7. \A x \in S : f[x] \in Int /\ f1[x] \in Int /\ f2[x] \in Int
  BY <1>1, <1>5
<1>8. /\ Shifted(f, f1, t.from, - c, S)
      /\ Shifted(f1, f2, t.to, t.amount, S)
      /\ Shifted(f2, h, FeeReceiver, t.fee, S)
  BY <1>6, <1>7 DEF Shifted
<1>9. c = t.amount + t.fee /\ - c \in Int /\ c \in Nat
  BY <1>1
<1> HIDE DEF f1, f2, f, h, c
<1>10. Sum(f1, S) = Sum(f, S) + (IF t.from \in S THEN - c ELSE 0) /\ Sum(f, S) \in Int
  BY <1>3, <1>8, <1>9, SumShift
<1>11. Sum(f2, S) = Sum(f1, S) + (IF t.to \in S THEN t.amount ELSE 0)
  BY <1>1, <1>3, <1>8, SumShift
<1>12. Sum(h, S) = Sum(f2, S) + (IF FeeReceiver \in S THEN t.fee ELSE 0)
  BY <1>1, <1>3, <1>8, SumShift
<1>13. Sum(f, S) \in Nat /\ Sum(h, S) \in Nat
  BY <1>3, <1>5, SumType
<1>14. Sum(h, S) <= Sum(f, S) + c /\ Sum(f, S) <= Sum(h, S) + c
  BY <1>1, <1>9, <1>10, <1>11, <1>12, <1>13
<1>15. Nonces(e) = Nonces(d) + 1
  <2> DEFINE g == NonceOf(d.acct)
             k == NonceOf(e.acct)
  <2>1. /\ \A a \in Addr : g[a] = d.acct[a].nonce /\ g[a] \in Int
        /\ \A a \in Addr : k[a] = e.acct[a].nonce /\ k[a] \in Int
        /\ Nonces(d) = Sum(g, Addr) /\ Nonces(e) = Sum(k, Addr)
    BY <1>4, NoncesIsSum
  <2>2. \A a \in Addr : e.acct[a].nonce = IF a = t.from THEN d.acct[a].nonce + 1
                                          ELSE d.acct[a].nonce
    BY NonceAfter
  <2> HIDE DEF g, k, e
  <2>3. Shifted(g, k, t.from, 1, Addr)
    BY <2>1, <2>2 DEF Shifted
  <2>4. Sum(k, Addr) = Sum(g, Addr) + (IF t.from \in Addr THEN 1 ELSE 0)
    BY <1>1, <2>3, SumShift
  <2>5. QED
    BY <1>1, <2>1, <2>4
<1>16. QED
  BY <1>2, <1>13, <1>14, <1>15 DEF f, h

\* The money of some accounts, and that it is a sum of balances.
BalancesIn(d, S) == MapThenSumSet(LAMBDA a : d.acct[a].bal, S)

\* The sum over a lambda is the sum of the balances as a function.
LEMMA BalancesInIsSum ==
    ASSUME NEW d, NEW S \in SUBSET Addr
    PROVE  BalancesIn(d, S) = Sum(Balances(d.acct), S)
<1> DEFINE f == Balances(d.acct)
           J(h) == h = [s \in SUBSET S |->
                          IF s = {} THEN 0
                          ELSE d.acct[First(s)].bal + h[s \ {First(s)}]]
           it == CHOOSE h : J(h)
<1>1. IsFiniteSet(S)
  BY AccountsAssumption, FS_Subset
<1>2. ASSUME NEW h PROVE J(h) <=> IsSum(h, f, S)
  <2>1. \A s \in SUBSET S : s # {} => f[First(s)] = d.acct[First(s)].bal
    BY FirstType DEF Balances
  <2>2. \A s \in SUBSET S :
          SumAt(h, f, s) = IF s = {} THEN 0 ELSE d.acct[First(s)].bal + h[s \ {First(s)}]
    BY <2>1 DEF SumAt
  <2>3. QED
    BY <2>2 DEF IsSum
<1>3. \E g : IsSum(g, f, S)
  BY <1>1, SumExists
<1>4. J(it)
  BY <1>2, <1>3
<1>5. IsSum(it, f, S)
  BY <1>2, <1>4
<1>6. BalancesIn(d, S) = it[S]
  BY DEF BalancesIn, MapThenSumSet, MapThenFoldSet, First
<1>7. QED
  BY <1>1, <1>5, <1>6, SumUnfold

\* The first m accounts of the list, and what is on them.
FirstAccounts(m) == {MintAccounts[i] : i \in 1 .. m}
Part(d, m) == Sum(Balances(d.acct), FirstAccounts(m))

\* Each account of the list is a new one.
LEMMA PartGrows ==
    ASSUME NEW d \in DB, NEW m \in 0 .. Len(MintAccounts) - 1
    PROVE  LET a == MintAccounts[m + 1]
           IN  /\ FirstAccounts(m) \in SUBSET Addr /\ FirstAccounts(m + 1) \in SUBSET Addr
               /\ Part(d, m) \in Nat /\ d.acct[a].bal \in Nat
               /\ Part(d, m + 1) = Part(d, m) + d.acct[a].bal
<1> DEFINE a == MintAccounts[m + 1]
           S == FirstAccounts(m)
           f == Balances(d.acct)
<1>1. /\ Len(MintAccounts) \in Nat /\ IsFiniteSet(Addr)
      /\ \A i \in 1 .. Len(MintAccounts) : MintAccounts[i] \in Addr
      /\ \A i, j \in 1 .. Len(MintAccounts) : MintAccounts[i] = MintAccounts[j] => i = j
  BY ProbesAssumption, AccountsAssumption
<1>2. /\ m + 1 \in 1 .. Len(MintAccounts)
      /\ \A i \in 1 .. m : i \in 1 .. Len(MintAccounts) /\ i # m + 1
      /\ \A i \in 1 .. m + 1 : i \in 1 .. m \/ i = m + 1
      /\ \A i \in 1 .. m : i \in 1 .. m + 1
      /\ m + 1 \in 1 .. m + 1
  BY <1>1
<1>3. S \in SUBSET Addr /\ a \in Addr /\ a \notin S
  BY <1>1, <1>2 DEF FirstAccounts
<1>4. FirstAccounts(m + 1) = S \cup {a}
  BY <1>2 DEF FirstAccounts
<1>5. \A x \in Addr : f[x] \in Nat /\ f[x] = d.acct[x].bal
  BY DEF Balances, DB, Account
<1>6. IsFiniteSet(S)
  BY <1>1, <1>3, FS_Subset
<1> HIDE DEF a, S, f
<1>7. Sum(f, S \cup {a}) = f[a] + Sum(f, S)
  <2>1. \A x \in S \cup {a} : f[x] \in Int
    BY <1>3, <1>5
  <2>2. QED
    BY <1>3, <1>6, <2>1, SumAdd
<1>8. Sum(f, S) \in Nat
  BY <1>3, <1>5, <1>6, SumType
<1>9. Part(d, m) = Sum(f, S) /\ Part(d, m + 1) = Sum(f, S \cup {a})
  BY <1>4 DEF Part, S, f
<1>10. QED
  BY <1>3, <1>4, <1>5, <1>7, <1>8, <1>9 DEF a, S

\* While the process runs the accounts change by transfers alone.
LEMMA AccountSteps ==
    ASSUME TypeInv, [Next]_vars, up, up'
    PROVE  \/ db'.acct = db.acct
           \/ \E t \in Transfer : Verdict(db, t) = "applied" /\ db' = ApplyTransfer(db, t)
<1>0. db \in DB
  BY DEF TypeInv, TypeOK
<1>1. ASSUME NEW w \in Worker, Apply(w)
      PROVE  \/ db'.acct = db.acct
             \/ \E t \in Transfer : Verdict(db, t) = "applied" /\ db' = ApplyTransfer(db, t)
  <2>1. txOf[w] \in Transfer /\ db' = ApplyTransfer(db, txOf[w])
    BY <1>1 DEF Apply, TypeInv, WorkerShape
  <2>2. CASE Verdict(db, txOf[w]) = "applied"
    BY <2>1, <2>2
  <2>3. CASE Verdict(db, txOf[w]) # "applied"
    BY <1>0, <2>1, <2>3 DEF ApplyTransfer, Touch, DB
  <2>4. QED
    BY <2>2, <2>3
<1>2. ASSUME NEW a \in Addr, ReadAccount(a) PROVE db'.acct = db.acct
  BY <1>0, <1>2 DEF ReadAccount, Touch, DB
<1>3. \/ \E w \in Worker : Apply(w)
      \/ \E a \in Addr : ReadAccount(a)
      \/ db' = db
  BY DEF Next, Boot, Step, Submit, TakeSnapshot, OpenStateFile, WriteStateFile,
         SaveStateFails, StoreReceipt, CommitRound, RecordCommitBundle, Crash,
         CrashInSaveLedger, Die, vars
<1>4. QED
  BY <1>1, <1>2, <1>3

\* The same accounts have the same sums.
LEMMA SameAccounts ==
    ASSUME NEW d, NEW e, e.acct = d.acct, d \in DB, e \in DB
    PROVE  Nonces(e) = Nonces(d) /\ \A m : Part(e, m) = Part(d, m)
<1>1. Nonces(d) = Sum(NonceOf(d.acct), Addr) /\ Nonces(e) = Sum(NonceOf(e.acct), Addr)
  BY NoncesIsSum
<1>2. QED
  BY <1>1 DEF Part

\* The conditions of the sum: it cannot wrap, and somebody may send something.
MintingBounds ==
    /\ MoneyFits /\ V1File = NoFile /\ Transfer # {}
    /\ Len(MintAccounts) * Money < Word

\* The sum so far is what the accounts read so far held, but for what the transfers
\* since the first read have moved.
MintInv ==
    at = "minting" =>
      /\ saw.nonces0 <= Nonces(db)
      /\ saw.n <= saw.m * Money
      /\ Close(saw.n, Part(db, saw.m), Nonces(db) - saw.nonces0)

\* One account more does not wrap.
LEMMA SumFits ==
    ASSUME MintingBounds, NEW M \in Nat, M = Money, NEW m \in 0 .. Len(MintAccounts) - 1,
           NEW n \in Nat, n <= m * M, NEW b \in Nat, b <= M
    PROVE  (n + b) % Word = n + b /\ n + b <= (m + 1) * M
<1>1. PICK l \in Nat : l = Len(MintAccounts)
  BY ProbesAssumption
<1>2. PICK x \in Nat : x = m * M
  BY <1>1
<1>3. (m + 1) * M = x + M
  BY <1>1, <1>2
<1>4. n + b <= x + M
  BY <1>2
<1>5. PICK r \in Nat : l = m + 1 + r
  <2>1. l - (m + 1) \in Nat /\ l = m + 1 + (l - (m + 1))
    BY <1>1
  <2>2. QED
    BY <2>1
<1>6. l * M = (m + 1) * M + r * M /\ r * M \in Nat
  BY <1>1, <1>5
<1>7. l * M < Word /\ Word \in Nat
  BY <1>1, AccountsAssumption DEF MintingBounds
<1>8. n + b < Word
  BY <1>2, <1>3, <1>4, <1>6, <1>7
<1>9. QED
  BY <1>3, <1>4, <1>8, FitsWord

\* What a read adds.
LEMMA ReadAdds ==
    ASSUME MintingBounds, TypeInv, MoneyConserved, ProbeShape, MintInv, MintingRead
    PROVE  /\ saw'.n \in Nat /\ saw'.m = saw.m + 1 /\ saw'.nonces0 = saw.nonces0
           /\ db'.acct = db.acct
           /\ saw.nonces0 <= Nonces(db)
           /\ saw'.n <= saw'.m * Money
           /\ Close(saw'.n, Part(db, saw'.m), Nonces(db) - saw.nonces0)
           /\ saw.m + 1 \in 1 .. Len(MintAccounts)
<1>0. /\ db \in DB /\ saw \in Seen /\ up /\ saw.m \in 0 .. Len(MintAccounts) - 1
      /\ at = "minting"
  BY DEF MintingRead, TypeInv, TypeOK, ProbeShape
<1>1. PICK d \in DB, n \in Nat, m \in 0 .. Len(MintAccounts) - 1, z \in Nat :
        d = db /\ n = saw.n /\ m = saw.m /\ z = saw.nonces0
  BY <1>0 DEF Seen
<1>2. PICK a \in Addr : a = MintAccounts[m + 1]
  BY <1>1, MintingReadsAccount
<1>2b. PICK b : b = d.acct[a].bal
  OBVIOUS
<1>3. Total(d) = Money
  BY <1>0, <1>1 DEF MoneyConserved
<1>4. d.acct \in [Addr -> Account] /\ Worth(d.acct) = Money
  BY <1>3, TotalIsWorth DEF DB
<1>5. b \in Nat /\ b <= Money /\ Money \in Nat
  BY <1>2, <1>2b, <1>4, WorthType
<1>6. n <= m * Money /\ Close(n, Part(d, m), Nonces(d) - z) /\ z <= Nonces(d)
  BY <1>0, <1>1 DEF MintInv
<1>7. PICK M \in Nat : M = Money
  BY <1>5
<1>8. (n + b) % Word = n + b /\ n + b <= (m + 1) * M
  BY <1>5, <1>6, <1>7, SumFits
<1>9. saw' = [saw EXCEPT !.n = (saw.n + db.acct[a].bal) % Word, !.m = saw.m + 1]
  BY <1>1, <1>2, <1>2b DEF MintingRead
<1>10. saw'.n = n + b /\ saw'.m = m + 1 /\ saw'.nonces0 = z
  BY <1>0, <1>1, <1>2, <1>2b, <1>8, <1>9 DEF Seen
<1>11. /\ Part(d, m) \in Nat /\ Part(d, m + 1) = Part(d, m) + b
  BY <1>2, <1>2b, PartGrows
<1>12. Nonces(d) - z \in Nat
  <2>1. Nonces(d) \in Nat
    BY NoncesIsSum
  <2>2. QED
    BY <1>6, <2>1
<1>13. Close(n + b, Part(d, m + 1), Nonces(d) - z)
  <2>1. Largest \in Nat
    BY LargestType DEF MintingBounds
  <2>2. Close(n + b, Part(d, m) + b, Nonces(d) - z)
    BY <1>5, <1>6, <1>11, <1>12, <2>1, CloseSteps
  <2>3. QED
    BY <1>11, <2>2
<1>14. db'.acct = db.acct
  BY <1>0 DEF MintingRead, Touch, DB
<1>15. n + b \in Nat /\ m + 1 \in 1 .. Len(MintAccounts)
  BY <1>1, <1>5, ProbesAssumption
<1>16. QED
  BY <1>1, <1>6, <1>7, <1>8, <1>10, <1>13, <1>14, <1>15

\* Every step keeps the sum in reach.
LEMMA NextMint ==
    ASSUME MintingBounds, MoneyInv, ProbeShape, MintInv, [ProbeNext]_allVars
    PROVE  MintInv'
<1>0. TypeInv /\ MoneyConserved /\ db \in DB
  BY DEF MoneyInv, TypeInv, TypeOK
<1>00. [Next]_vars /\ db' \in DB
  BY <1>0, ProbeStepIsEngineStep, NextType DEF TypeInv, TypeOK
<1>1. CASE at' # "minting"
  BY <1>1 DEF MintInv
<1>2. CASE MintingStart
  <2>1. /\ saw' = [NothingSeen EXCEPT !.nonces0 = Nonces(db)] /\ db' = db
    BY <1>2 DEF MintingStart, vars
  <2>2. saw'.n = 0 /\ saw'.m = 0 /\ saw'.nonces0 = Nonces(db)
    BY <2>1 DEF NothingSeen
  <2>3. PICK d \in DB : d = db
    BY <1>0
  <2>4. Nonces(d) \in Nat
    BY NoncesIsSum
  <2>5. Part(d, 0) = 0
    <3>1. FirstAccounts(0) = {}
      BY DEF FirstAccounts
    <3>2. QED
      BY <3>1, SumEmpty DEF Part
  <2>6. Largest \in Nat /\ Money \in Nat
    <3>1. GenesisDB \in DB
      BY AccountsAssumption DEF GenesisDB, DB, Account
    <3>2. GenesisDB.acct \in [Addr -> Account]
      BY <3>1 DEF DB
    <3>3. Money \in Nat
      BY <3>2, MoneyIsWorth, WorthType
    <3>4. QED
      BY <3>3, LargestType DEF MintingBounds
  <2>7. Close(0, 0, Nonces(d) - Nonces(d))
    BY <2>4, <2>6 DEF Close
  <2>8. 0 <= 0 * Money /\ Nonces(d) <= Nonces(d)
    BY <2>4, <2>6
  <2>9. QED
    BY <2>1, <2>2, <2>3, <2>5, <2>7, <2>8 DEF MintInv
<1>3. CASE MintingRead
  <2>1. /\ saw'.nonces0 = saw.nonces0
        /\ db'.acct = db.acct
        /\ saw.nonces0 <= Nonces(db)
        /\ saw'.n <= saw'.m * Money
        /\ Close(saw'.n, Part(db, saw'.m), Nonces(db) - saw.nonces0)
    BY <1>0, <1>3, ReadAdds
  <2>2. PICK d \in DB, e \in DB, m \in {saw'.m} : d = db /\ e = db' /\ m = saw'.m
    BY <1>0, <1>00
  <2>3. Nonces(e) = Nonces(d) /\ Part(e, m) = Part(d, m)
    BY <2>1, <2>2, SameAccounts
  <2>4. QED
    BY <2>1, <2>2, <2>3 DEF MintInv
<1>4. CASE saw' = saw /\ at = "minting" /\ at' = "minting" /\ up'
  <2>1. PICK d \in DB, e \in DB, n \in Nat, m \in 0 .. Len(MintAccounts) - 1, z \in Nat :
          d = db /\ e = db' /\ n = saw.n /\ m = saw.m /\ z = saw.nonces0
    BY <1>0, <1>00, <1>4 DEF ProbeShape, Seen
  <2>2. /\ z <= Nonces(d) /\ n <= m * Money /\ Close(n, Part(d, m), Nonces(d) - z)
        /\ Nonces(d) \in Nat
    BY <1>4, <2>1, NoncesIsSum DEF MintInv
  <2>3. z <= Nonces(e) /\ Close(n, Part(e, m), Nonces(e) - z)
    <3>1. CASE e.acct = d.acct
      <4>1. Nonces(e) = Nonces(d) /\ Part(e, m) = Part(d, m)
        BY <3>1, SameAccounts
      <4>2. QED
        BY <2>2, <4>1
    <3>2. ASSUME NEW t \in Transfer, Verdict(d, t) = "applied", e = ApplyTransfer(d, t)
          PROVE  z <= Nonces(e) /\ Close(n, Part(e, m), Nonces(e) - z)
      <4>1. Total(d) = Money /\ MoneyFits
        BY <1>0, <1>4, <2>1 DEF MoneyConserved, ProbeShape, MintingBounds
      <4>2. FirstAccounts(m) \in SUBSET Addr
        BY PartGrows
      <4>3. /\ Part(d, m) \in Nat /\ Part(e, m) \in Nat
            /\ Part(e, m) <= Part(d, m) + Need(t) /\ Part(d, m) <= Part(e, m) + Need(t)
            /\ Nonces(e) = Nonces(d) + 1
        BY <3>2, <4>1, <4>2, TransferMoves DEF Part
      <4>4. Largest \in Nat /\ Need(t) \in Nat /\ Need(t) <= Largest
        BY LargestType DEF MintingBounds
      <4>5. Part(e, m) <= Part(d, m) + Largest /\ Part(d, m) <= Part(e, m) + Largest
        BY <4>3, <4>4
      <4>6. PICK k \in Nat : k = Nonces(d) - z
        BY <2>2
      <4>7. Close(n, Part(e, m), k + 1)
        BY <2>2, <4>3, <4>4, <4>5, <4>6, CloseSteps
      <4>8. Nonces(e) - z = k + 1 /\ z <= Nonces(e)
        BY <2>2, <4>3, <4>6
      <4>9. QED
        BY <4>7, <4>8
    <3>3. \/ e.acct = d.acct
          \/ \E t \in Transfer : Verdict(d, t) = "applied" /\ e = ApplyTransfer(d, t)
      BY <1>0, <1>00, <1>4, <2>1, AccountSteps DEF ProbeShape
    <3>4. QED
      BY <3>1, <3>2, <3>3
  <2>4. QED
    BY <1>4, <2>1, <2>2, <2>3 DEF MintInv
<1>5. at' = "minting" => MintingStart \/ MintingRead
                         \/ (saw' = saw /\ at = "minting" /\ at' = "minting" /\ up')
  <2>1. CASE UNCHANGED allVars
    BY <2>1 DEF allVars, vars, probeVars, ProbeShape
  <2>2. CASE EngineStep
    BY <2>2 DEF EngineStep, probeVars
  <2>3. QED
    BY <2>1, <2>2, ProbeSteps
       DEF LooksOnly, HealthHeight, MerkleRoot, CommitSafeReceipts, StatsPlusRoot, StatsHeight,
           LightProofHeader, Begin, HealthReceipts, HealthRoot, HealthHeader, MerkleCount,
           StatsPlusHeight, StatsReceipts, MetricsReceipts, MetricsReady, LightProofBundle,
           CommitSafeHeight, CommitSafeNoPending, CommitSafeCommit, Answer
<1>6. QED
  BY <1>1, <1>2, <1>3, <1>4, <1>5

\* GET /minting, which reads its accounts one by one while transfers run, is off by no
\* more than those transfers moved, and GET /merkle, /stats.* and /metrics by no more
\* than the receipts stored between their calls: with any number of handlers and
\* accounts, through crashes, torn files and failed writes, as long as the accounts'
\* money fits a word (genesis puts 20,000,000 mas in the four accounts).
THEOREM ReadingsDoFit ==
    ASSUME MintingBounds
    PROVE  ProbeSpec => ReadingsFit
<1> DEFINE J == MoneyInv /\ MintInv
<1>0. MoneyFits /\ V1File = NoFile
  BY DEF MintingBounds
<1>1. ProbeSpec => []J
  <2>1. ProbeInit => J
    BY InitMoney DEF ProbeInit, MintInv
  <2>2. ReadInv /\ J /\ [ProbeNext]_allVars => J'
    BY <1>0, ProbeStepIsEngineStep, NextMoney, NextMint DEF ReadInv
  <2>3. QED
    BY <2>1, <2>2, ReadingInvariant, PTL DEF ProbeSpec
<1>2. ReadInv /\ J /\ [ProbeNext]_allVars => [CountsFit /\ MintingFits]_allVars
  <2> SUFFICES ASSUME ReadInv, J, [ProbeNext]_allVars, Answered("minting")
               PROVE  LET real == MapThenSumSet(LAMBDA a : db.acct[a].bal,
                                     {MintAccounts[i] : i \in 1 .. Len(MintAccounts)})
                          slack == Largest * (Nonces(db) - saw.nonces0)
                      IN  saw'.n <= real + slack /\ real <= saw'.n + slack
    BY CountsDoFit DEF MintingFits
  <2>1. MintingRead /\ at' = "idle"
    BY Answers DEF Answered
  <2>2. /\ saw'.m = saw.m + 1
        /\ Close(saw'.n, Part(db, saw'.m), Nonces(db) - saw.nonces0)
    BY <2>1, ReadAdds DEF MoneyInv, ReadInv
  <2>3. saw.m + 1 = Len(MintAccounts)
    BY <2>1 DEF MintingRead
  <2>4. FirstAccounts(Len(MintAccounts)) \in SUBSET Addr
    BY ProbesAssumption DEF FirstAccounts
  <2>5. Part(db, saw'.m) = BalancesIn(db, FirstAccounts(Len(MintAccounts)))
    <3>1. PICK d, m : d = db /\ m = saw'.m
      OBVIOUS
    <3>2. m = Len(MintAccounts)
      BY <2>2, <2>3, <3>1
    <3>3. Part(d, m) = BalancesIn(d, FirstAccounts(Len(MintAccounts)))
      BY <2>4, <3>2, BalancesInIsSum DEF Part
    <3>4. QED
      BY <3>1, <3>3
  <2>6. BalancesIn(db, FirstAccounts(Len(MintAccounts))) =
          MapThenSumSet(LAMBDA a : db.acct[a].bal, {MintAccounts[i] : i \in 1 .. Len(MintAccounts)})
    BY DEF BalancesIn, FirstAccounts
  <2>7. QED
    BY <2>2, <2>5, <2>6 DEF Close
<1>3. QED
  BY <1>1, <1>2, ReadingInvariant, PTL DEF ProbeSpec, ReadingsFit
===============================================================================
