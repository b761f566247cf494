----------------------------- MODULE EngineProofs -----------------------------
(***************************************************************************)
(* Theorems about the engine: types, rounds and vaults, the money, and the *)
(* headers, commit feed and supply history.  Module LedgerProofs goes on   *)
(* with the receipts.                                                      *)
(***************************************************************************)
EXTENDS EngineInv, BaseProofs, SequenceTheorems

\* uint64 arithmetic stays a word.
LEMMA WordMod ==
    ASSUME NEW x \in Nat
    PROVE  x % Word \in 0 .. Word - 1
BY AccountsAssumption, SMT

\* A credit keeps the accounts well formed (DB.ApplyTransfer's additions wrap).
LEMMA CreditType ==
    ASSUME NEW acct \in [Addr -> Account], NEW a \in Addr, NEW n \in Nat
    PROVE  Credit(acct, a, n) \in [Addr -> Account]
<1>1. acct[a].bal + n \in Nat
  BY AccountsAssumption DEF Account
<1>2. (acct[a].bal + n) % Word \in 0 .. Word - 1
  BY <1>1, WordMod
<1>3. QED
  BY <1>2 DEF Credit, Account

\* A debit that passed the verdict does not underflow.
LEMMA DebitType ==
    ASSUME NEW d \in DB, NEW t \in Transfer, Verdict(d, t) = "applied"
    PROVE  Debit(d.acct, t) \in [Addr -> Account]
<1>1. t.from \in Addr /\ t.amount + t.fee \in Nat
  BY AccountsAssumption
<1>2. Need(t) \in 0 .. Word - 1
  BY <1>1, WordMod DEF Need
<1>3. d.acct[t.from].bal >= Need(t)
  BY <1>1, <1>2, AccountsAssumption DEF Verdict, DB, Account
<1>4. d.acct[t.from].bal - Need(t) \in 0 .. Word - 1
  BY <1>1, <1>2, <1>3, AccountsAssumption DEF DB, Account
<1>5. d.acct[t.from].nonce + 1 \in Nat
  BY <1>1 DEF DB, Account
<1>6. QED
  BY <1>1, <1>4, <1>5 DEF Debit, DB, Account

\* DB.ApplyTransfer maps a database to a database.
LEMMA ApplyTransferType ==
    ASSUME NEW d \in DB, NEW t \in Transfer
    PROVE  ApplyTransfer(d, t) \in DB
<1>1. /\ t.from \in Addr /\ t.to \in Addr /\ FeeReceiver \in Addr
      /\ t.amount \in Nat /\ t.fee \in Nat
  BY AccountsAssumption
<1>2. CASE Verdict(d, t) = "applied"
  <2>1. Debit(d.acct, t) \in [Addr -> Account]
    BY <1>2, DebitType
  <2>2. Credit(Debit(d.acct, t), t.to, t.amount) \in [Addr -> Account]
    BY <1>1, <2>1, CreditType
  <2>3. Credit(Credit(Debit(d.acct, t), t.to, t.amount), FeeReceiver, t.fee)
          \in [Addr -> Account]
    BY <1>1, <2>2, CreditType
  <2>4. QED
    BY <1>1, <1>2, <2>3 DEF ApplyTransfer, DB
<1>3. CASE Verdict(d, t) # "applied"
  BY <1>1, <1>3 DEF ApplyTransfer, Touch, DB
<1>4. QED
  BY <1>2, <1>3
-------------------------------------------------------------------------------
(***************************************************************************)
(* Type correctness.  The receipts in the ledger file are the values of a  *)
(* map over the finite set of transfers: without that the number of leaves *)
(* a restart rebuilds would not be a number.                               *)
(***************************************************************************)
FileFinite == Readable(ledgerFile) => IsFiniteSet(ledgerFile.receipts)

\* A worker past the precheck has a transfer, and a verdict once it has applied.
WorkerShape ==
    \A w \in Worker :
        /\ pc[w] # "idle" => txOf[w] \in Transfer
        /\ pc[w] \in {"snapshot", "open", "write"} => status[w] = "applied"
        /\ pc[w] = "store" => status[w] \in Status

TypeInv == TypeOK /\ FileFinite /\ WorkerShape

\* The values of a receipts map are a finite set of receipts.
LEMMA StoredType ==
    ASSUME NEW f \in [Transfer -> Receipt \cup {NoReceipt}]
    PROVE  LET S == {f[u] : u \in {v \in Transfer : f[v] # NoReceipt}}
           IN  S \subseteq Receipt /\ IsFiniteSet(S)
<1> DEFINE D == {v \in Transfer : f[v] # NoReceipt}
           S == {f[u] : u \in D}
<1>1. S \subseteq Receipt
  OBVIOUS
<1>2. IsFiniteSet(D)
  BY AccountsAssumption, FS_Subset
<1>3. IsFiniteSet(S)
  <2> DEFINE g == [u \in D |-> f[u]]
  <2>1. g \in Surjection(D, S)
    BY DEF Surjection
  <2> HIDE DEF D, S, g
  <2>2. QED
    BY <1>2, <2>1, FS_Surjection
<1>4. QED
  BY <1>1, <1>3

\* loadLedger rebuilds a sequence of receipts from the file's set of receipts.
LEMMA HeightOrdersType ==
    ASSUME NEW R, R \subseteq Receipt, IsFiniteSet(R), NEW s \in HeightOrders(R)
    PROVE  s \in Seq(Receipt) /\ Len(s) = Cardinality(R) /\ Cardinality(R) \in Nat
<1>1. Cardinality(R) \in Nat
  BY FS_CardinalityType
<1>2. s \in [1 .. Cardinality(R) -> R]
  BY DEF HeightOrders
<1>3. QED
  BY <1>1, <1>2

\* What a state file or the v1 file or genesis gives a starting process.
LEMMA LoadedStateType ==
    ASSUME TypeOK
    PROVE  LoadedState \in DB
<1>1. GenesisDB \in DB
  BY AccountsAssumption DEF GenesisDB, DB, Account
<1>2. ASSUME NEW d \in DB PROVE Promoted(d) \in DB
  <2>1. \A a \in Addr : d.acct[a].bal * 10 \in Nat
    BY AccountsAssumption DEF DB, Account
  <2>2. \A a \in Addr : (d.acct[a].bal * 10) % Word \in 0 .. Word - 1
    BY <2>1, WordMod
  <2>3. \A a \in Addr : [d.acct[a] EXCEPT !.bal = (@ * 10) % Word] \in Account
    BY <2>2 DEF DB, Account
  <2>4. QED
    BY <2>3 DEF Promoted, DB
<1>3. QED
  BY <1>1, <1>2, EngineAssumption DEF LoadedState, Readable, TypeOK

\* What a ledger file gives a starting process.
LEMMA LoadedLedgerType ==
    ASSUME TypeInv
    PROVE  LoadedLedger \in LedgerFile /\ IsFiniteSet(LoadedLedger.receipts)
<1>1. CASE Readable(ledgerFile)
  BY <1>1 DEF LoadedLedger, TypeInv, TypeOK, FileFinite, Readable
<1>2. CASE ~ Readable(ledgerFile)
  <2>1. LoadedLedger = [receipts |-> {}, last |-> 0, rounds |-> <<>>]
    BY <1>2 DEF LoadedLedger
  <2>2. QED
    BY <2>1, FS_EmptySet DEF LedgerFile
<1>3. QED
  BY <1>1, <1>2

\* saveLedger writes a ledger file, or with a failed write leaves the old one or
\* an empty one.
LEMMA SaveLedgerType ==
    ASSUME TypeInv, NEW S, S \subseteq Receipt, IsFiniteSet(S),
           NEW n \in Nat, NEW rs \in Seq(Round), SaveLedger(S, n, rs)
    PROVE  ledgerFile' \in LedgerFile \cup {NoFile, Empty} /\ FileFinite'
<1>1. ledgerFile' \in {[receipts |-> S, last |-> n, rounds |-> rs], ledgerFile, Empty}
  BY DEF SaveLedger
<1>2. CASE ledgerFile' = [receipts |-> S, last |-> n, rounds |-> rs]
  BY <1>2 DEF LedgerFile, FileFinite
<1>3. CASE ledgerFile' = ledgerFile
  BY <1>3 DEF TypeInv, TypeOK, FileFinite, Readable
<1>4. CASE ledgerFile' = Empty
  BY <1>4 DEF FileFinite, Readable
<1>5. QED
  BY <1>1, <1>2, <1>3, <1>4

\* The emission table gives a mint for every height (rewards.BlockMintAt).
LEMMA BlockMintType ==
    ASSUME NEW h \in Nat
    PROVE  BlockMintAt(h) \in Nat
<1>1. h \div EmissionInterval \in Nat
  BY EmissionAssumption
<1>2. Len(EpochMint) \in Nat /\ Len(EpochMint) > 0
  BY EmissionAssumption
<1>3. \A i \in 1 .. Len(EpochMint) : EpochMint[i] \in Nat
  BY EmissionAssumption
<1>4. QED
  BY <1>1, <1>2, <1>3 DEF BlockMintAt

\* SplitMint conserves the mint: what the three divisions drop goes to the network.
LEMMA SplitConserves ==
    ASSUME NEW t \in Nat
    PROVE  LET s == SplitMint(t)
           IN  /\ s.network \in Nat /\ s.foundation \in Nat /\ s.exchange \in Nat
               /\ s.network + s.foundation + s.exchange = t
<1> DEFINE n == Share(t, 80)
           f == Share(t, 10)
<1>1. n \in Nat /\ f \in Nat /\ n + f + f <= t
  BY SMT DEF Share
<1>2. SplitMint(t) = [network |-> n + (IF n + f + f < t THEN t - (n + f + f) ELSE 0),
                      foundation |-> f, exchange |-> f]
  BY DEF SplitMint, Percent
<1> HIDE DEF n, f
<1>3. QED
  BY <1>1, <1>2

\* SupplyState.ApplyBlockMint maps a supply to a supply.
LEMMA MintedType ==
    ASSUME NEW s \in Supply, NEW h \in Nat
    PROVE  Minted(s, h) \in Supply
<1>1. BlockMintAt(h) \in Nat
  BY BlockMintType
<1>2. QED
  BY <1>1, SplitConserves DEF Minted, Supply

\* Every variable starts with its type.
LEMMA InitType == Init => TypeInv
<1> SUFFICES ASSUME Init PROVE TypeInv
  OBVIOUS
<1>1. [known |-> {}, acct |-> [a \in Addr |-> [bal |-> 0, nonce |-> 0]]] \in DB
  BY AccountsAssumption DEF DB, Account
<1>2. TypeOK
  <2>1. up \in BOOLEAN
    BY DEF Init
  <2>2. /\ tip \in [id : Nat, root : Nat, height : Nat, ready : BOOLEAN]
        /\ supply \in Supply /\ supplyLog \subseteq Supply /\ born \in Nat
    BY DEF Init, NoSupply, Supply, NoTip
  <2>3. /\ leaves \in Seq(Receipt) /\ rounds \in Seq(Round) /\ chain \in Seq(Header)
        /\ feed \in Seq([height : Nat, root : Nat, bundle : Nat])
    BY DEF Init
  <2>4. /\ pc \in [Worker -> {"idle", "apply", "snapshot", "open", "write", "store"}]
        /\ txOf \in [Worker -> Transfer \cup {NoTx}]
        /\ status \in [Worker -> Status \cup {"none"}]
        /\ snap \in [Worker -> DB \cup {NoFile}]
        /\ receipts \in [Transfer -> Receipt \cup {NoReceipt}]
    BY DEF Init
  <2>5. QED
    BY <1>1, <2>1, <2>2, <2>3, <2>4 DEF Init, TypeOK
<1>3. FileFinite
  BY DEF Init, FileFinite, Readable
<1>4. WorkerShape
  BY DEF Init, WorkerShape
<1>5. QED
  BY <1>2, <1>3, <1>4 DEF TypeInv

\* NewEngine produces a well-formed engine from whatever the disk holds.
LEMMA BootType == TypeInv /\ Boot => TypeInv'
<1> SUFFICES ASSUME TypeInv, Boot PROVE TypeInv'
  OBVIOUS
<1>1. LoadedState \in DB
  BY LoadedStateType DEF TypeInv
<1>2. LoadedLedger \in LedgerFile /\ IsFiniteSet(LoadedLedger.receipts)
  BY LoadedLedgerType
<1>3. LoadedLedger.receipts \subseteq Receipt
  BY <1>2 DEF LedgerFile
<1>4. leaves' \in Seq(Receipt) /\ height' \in Nat
  BY <1>2, <1>3, HeightOrdersType DEF Boot
<1>5. receipts' \in [Transfer -> Receipt \cup {NoReceipt}]
  BY <1>3 DEF Boot
<1>6. lastCommitted' \in Nat /\ rounds' \in Seq(Round)
  BY <1>2 DEF Boot, LedgerFile
<1>7. db' \in DB /\ stateFile' \in DB \cup {NoFile, Empty, Mixed}
  BY <1>1 DEF Boot, TypeInv, TypeOK
<1>8. /\ supply' \in Supply /\ supplyLog' \subseteq Supply
      /\ feed' \in Seq([height : Nat, root : Nat, bundle : Nat])
      /\ tip' \in [id : Nat, root : Nat, height : Nat, ready : BOOLEAN]
      /\ born' \in Nat
  BY DEF Boot, TypeInv, TypeOK, NoSupply, Supply, NoTip
<1>9. TypeOK'
  BY <1>4, <1>5, <1>6, <1>7, <1>8 DEF Boot, TypeInv, TypeOK
<1>10. FileFinite'
  BY DEF Boot, TypeInv, FileFinite, Readable
<1>11. WorkerShape'
  BY DEF Boot, TypeInv, WorkerShape
<1>12. QED
  BY <1>9, <1>10, <1>11 DEF TypeInv

\* A crash resets the workers and, inside saveLedger, empties the ledger file.
LEMMA CrashType == TypeInv /\ (Crash \/ CrashInSaveLedger) => TypeInv'
<1> SUFFICES ASSUME TypeInv, Crash \/ CrashInSaveLedger PROVE TypeInv'
  OBVIOUS
<1>1. Die /\ ledgerFile' \in {ledgerFile, Empty}
  BY DEF Crash, CrashInSaveLedger
<1>2. TypeOK'
  <2>1. up' \in BOOLEAN
    BY <1>1 DEF Die
  <2>2. crashes' \in Nat /\ ledgerFile' \in LedgerFile \cup {NoFile, Empty}
    BY <1>1 DEF Die, TypeInv, TypeOK
  <2>3. /\ pc' \in [Worker -> {"idle", "apply", "snapshot", "open", "write", "store"}]
        /\ txOf' \in [Worker -> Transfer \cup {NoTx}]
        /\ status' \in [Worker -> Status \cup {"none"}]
        /\ snap' \in [Worker -> DB \cup {NoFile}]
    BY <1>1 DEF Die
  <2>4. QED
    BY <1>1, <2>1, <2>2, <2>3 DEF Die, TypeInv, TypeOK, ledgerVars, commitVars
<1>3. FileFinite'
  BY <1>1 DEF TypeInv, FileFinite, Readable
<1>4. WorkerShape'
  BY <1>1 DEF Die, WorkerShape
<1>5. QED
  BY <1>2, <1>3, <1>4 DEF TypeInv

\* POST /tx up to StoreReceipt keeps every variable well formed.
LEMMA HandlerType ==
    ASSUME TypeInv, NEW w \in Worker,
           \/ \E t \in Transfer : Submit(w, t)
           \/ Apply(w) \/ TakeSnapshot(w) \/ OpenStateFile(w)
           \/ WriteStateFile(w) \/ SaveStateFails(w)
    PROVE  TypeInv'
<1> USE DEF TypeInv
<1>1. FileFinite'
  BY DEF FileFinite, Readable, Submit, Apply, TakeSnapshot, OpenStateFile,
         WriteStateFile, SaveStateFails
<1>2. CASE \E t \in Transfer : Submit(w, t)
  <2>1. TypeOK'
    BY <1>2 DEF Submit, TypeOK, ledgerVars, commitVars
  <2>2. WorkerShape'
    BY <1>2 DEF Submit, TypeOK, WorkerShape
  <2>3. QED
    BY <1>1, <2>1, <2>2
<1>3. CASE Apply(w)
  <2>1. txOf[w] \in Transfer
    BY <1>3 DEF Apply, WorkerShape
  <2>2. ApplyTransfer(db, txOf[w]) \in DB
    BY <2>1, ApplyTransferType DEF TypeOK
  <2>3. Verdict(db, txOf[w]) \in Status
    BY DEF Verdict, Status
  <2>4. TypeOK'
    BY <1>3, <2>2, <2>3 DEF Apply, TypeOK, ledgerVars, commitVars
  <2>5. WorkerShape'
    BY <1>3, <2>1, <2>3 DEF Apply, TypeOK, WorkerShape
  <2>6. QED
    BY <1>1, <2>4, <2>5
<1>4. CASE TakeSnapshot(w)
  <2>1. TypeOK'
    BY <1>4 DEF TakeSnapshot, TypeOK, ledgerVars, commitVars
  <2>2. WorkerShape'
    BY <1>4 DEF TakeSnapshot, TypeOK, WorkerShape
  <2>3. QED
    BY <1>1, <2>1, <2>2
<1>5. CASE OpenStateFile(w)
  <2>1. TypeOK'
    BY <1>5 DEF OpenStateFile, TypeOK, ledgerVars, commitVars
  <2>2. WorkerShape'
    BY <1>5 DEF OpenStateFile, TypeOK, WorkerShape
  <2>3. QED
    BY <1>1, <2>1, <2>2
<1>6. CASE WriteStateFile(w)
  <2>1. stateFile' \in {snap[w], Mixed}
    BY <1>6 DEF WriteStateFile, Written
  <2>2. TypeOK'
    BY <1>6, <2>1 DEF WriteStateFile, TypeOK, ledgerVars, commitVars
  <2>3. WorkerShape'
    BY <1>6 DEF WriteStateFile, TypeOK, WorkerShape, Status
  <2>4. QED
    BY <1>1, <2>2, <2>3
<1>7. CASE SaveStateFails(w)
  <2>1. stateFile' \in {stateFile, Mixed}
    BY <1>7 DEF SaveStateFails
  <2>2. TypeOK'
    BY <1>7, <2>1 DEF SaveStateFails, TypeOK, Status, ledgerVars, commitVars
  <2>3. WorkerShape'
    BY <1>7 DEF SaveStateFails, TypeOK, WorkerShape, Status
  <2>4. QED
    BY <1>1, <2>2, <2>3
<1>8. QED
  BY <1>2, <1>3, <1>4, <1>5, <1>6, <1>7

\* StoreReceipt appends a receipt and saves the ledger.
LEMMA StoreReceiptType ==
    ASSUME TypeInv, NEW w \in Worker, StoreReceipt(w)
    PROVE  TypeInv'
<1> DEFINE t == txOf[w]
           r == [tx |-> t, status |-> status[w], height |-> Len(leaves)]
           stored == [receipts EXCEPT ![t] = r]
           S == {stored[u] : u \in {v \in Transfer : stored[v] # NoReceipt}}
<1>1. t \in Transfer /\ status[w] \in Status /\ Len(leaves) \in Nat
  BY DEF StoreReceipt, TypeInv, TypeOK, WorkerShape
<1>2. r \in Receipt
  BY <1>1 DEF Receipt
<1>3. stored \in [Transfer -> Receipt \cup {NoReceipt}]
  BY <1>1, <1>2 DEF TypeInv, TypeOK
<1>4. S \subseteq Receipt /\ IsFiniteSet(S)
  BY <1>3, StoredType
<1>5. SaveLedger(S, lastCommitted, rounds)
  BY DEF StoreReceipt
<1>6. ledgerFile' \in LedgerFile \cup {NoFile, Empty} /\ FileFinite'
  BY <1>4, <1>5, SaveLedgerType DEF TypeInv, TypeOK
<1>7. leaves' \in Seq(Receipt) /\ height' \in Nat
  BY <1>2 DEF StoreReceipt, TypeInv, TypeOK
<1>8. TypeOK'
  BY <1>3, <1>6, <1>7 DEF StoreReceipt, TypeInv, TypeOK, commitVars
<1>9. WorkerShape'
  BY DEF StoreReceipt, TypeInv, TypeOK, WorkerShape
<1>10. QED
  BY <1>6, <1>8, <1>9 DEF TypeInv

\* The feed stays a sequence of records when the oldest is dropped.
LEMMA FeedType ==
    ASSUME TypeOK, NEW n \in Nat, NEW b \in Nat
    PROVE  Feed([height |-> n, root |-> b, bundle |-> b])
             \in Seq([height : Nat, root : Nat, bundle : Nat])
<1> DEFINE R == [height : Nat, root : Nat, bundle : Nat]
           rec == [height |-> n, root |-> b, bundle |-> b]
<1>1. rec \in R
  OBVIOUS
<1>2. feed \in Seq(R) /\ FeedCap \in Nat \ {0}
  BY EngineAssumption DEF TypeOK
<1> HIDE DEF R, rec
<1>3. CASE Len(feed) >= FeedCap
  <2>1. feed # <<>>
    BY <1>2, <1>3
  <2>2. Tail(feed) \in Seq(R)
    BY <1>2, <2>1
  <2>3. QED
    BY <1>1, <1>3, <2>2 DEF Feed, rec, R
<1>4. CASE ~ Len(feed) >= FeedCap
  BY <1>1, <1>2, <1>4 DEF Feed, rec, R
<1>5. QED
  BY <1>3, <1>4

\* A state root is a root.
LEMMA StateRootType ==
    ASSUME NEW d \in DB
    PROVE  StateRoot(d) \in Root
BY DEF StateRoot, Root, DB

\* CommitRound cuts a round, mints, links a header and saves the ledger.
LEMMA CommitRoundType == TypeInv /\ CommitRound => TypeInv'
<1> SUFFICES ASSUME TypeInv, CommitRound PROVE TypeInv'
  OBVIOUS
<1> DEFINE from == lastCommitted + 1
           to == Len(leaves)
           sub == Pending
           n == Len(rounds) + 1
           hdr == [round |-> n, from |-> from, to |-> to, count |-> Len(sub), root |-> sub]
           eternity == BuildEternityHeader(to, n, sub)
<1>1. from \in Nat /\ to \in Nat /\ n \in Nat /\ from >= 1
  BY DEF TypeInv, TypeOK
<1>2. sub \in Seq(Receipt) /\ Len(sub) \in Nat
  <2>1. leaves \in Seq(Receipt)
    BY DEF TypeInv, TypeOK
  <2>2. \A i \in from .. to : leaves[i] \in Receipt
    BY <1>1, <2>1
  <2>3. sub \in Seq(Receipt)
    BY <1>1, <2>1, <2>2, SubSeqProperties DEF Pending
  <2>4. QED
    BY <2>3
<1>3. hdr \in Round
  BY <1>1, <1>2 DEF Round
<1>4. rounds' \in Seq(Round) /\ rounds' = Append(rounds, hdr)
  BY <1>3 DEF CommitRound, TypeInv, TypeOK
<1>5. StateRoot(db) \in Root
  BY StateRootType DEF TypeInv, TypeOK
<1>6. eternity \in Header
  BY <1>1, <1>2, <1>5 DEF BuildEternityHeader, Header, TypeInv, TypeOK
<1>7. chain' \in Seq(Header)
  BY <1>6 DEF CommitRound, TypeInv, TypeOK
<1>8. Stored \subseteq Receipt /\ IsFiniteSet(Stored)
  BY StoredType DEF Stored, TypeInv, TypeOK
<1>9. SaveLedger(Stored, to, Append(rounds, hdr))
  BY DEF CommitRound
<1>10. ledgerFile' \in LedgerFile \cup {NoFile, Empty} /\ FileFinite'
  BY <1>1, <1>4, <1>8, <1>9, SaveLedgerType
<1>11. supply' \in Supply /\ supplyLog' \subseteq Supply
  <2>1. supply \in Supply /\ supplyLog \subseteq Supply
    BY DEF TypeInv, TypeOK
  <2>2. Minted(supply, to) \in Supply
    BY <1>1, <2>1, MintedType
  <2>3. /\ supply' = Minted(supply, to)
        /\ supplyLog' = {u \in supplyLog : u.last # to} \cup {Minted(supply, to)}
    BY DEF CommitRound, Mint, PersistSupplyState
  <2>4. QED
    BY <2>1, <2>2, <2>3
<1>12. feed' \in Seq([height : Nat, root : Nat, bundle : Nat])
  BY <1>1, FeedType DEF CommitRound, TypeInv
<1>13. tip' \in [id : Nat, root : Nat, height : Nat, ready : BOOLEAN]
  <2>1. tip' = [id |-> Len(chain) + 1, root |-> n, height |-> to, ready |-> TRUE]
    BY DEF CommitRound
  <2>2. Len(chain) + 1 \in Nat
    BY DEF TypeInv, TypeOK
  <2>3. QED
    BY <1>1, <2>1, <2>2
<1>14. height' \in Nat /\ lastCommitted' \in Nat
  BY <1>1 DEF CommitRound
<1> HIDE DEF hdr, eternity, sub, n, to, from
<1>15. TypeOK'
  BY <1>4, <1>7, <1>10, <1>11, <1>12, <1>13, <1>14
     DEF CommitRound, TypeInv, TypeOK, workerVars
<1>16. WorkerShape'
  BY DEF CommitRound, TypeInv, WorkerShape, workerVars
<1>17. QED
  BY <1>10, <1>15, <1>16 DEF TypeInv

\* GET /account and RecordCommitBundle.
LEMMA OtherCallsType ==
    ASSUME TypeInv,
           \/ \E a \in Addr : ReadAccount(a)
           \/ \E b \in ExtBundle : RecordCommitBundle(b)
    PROVE  TypeInv'
<1>1. ASSUME NEW a \in Addr, ReadAccount(a) PROVE TypeInv'
  <2>1. db' \in DB
    BY <1>1 DEF ReadAccount, Touch, DB, TypeInv, TypeOK
  <2>2. TypeOK'
    BY <1>1, <2>1 DEF ReadAccount, TypeInv, TypeOK, ledgerVars, commitVars, workerVars
  <2>3. QED
    BY <1>1, <2>2 DEF ReadAccount, TypeInv, FileFinite, Readable, WorkerShape, workerVars
<1>2. ASSUME NEW b \in ExtBundle, RecordCommitBundle(b) PROVE TypeInv'
  <2>1. b \in Nat /\ height \in Nat
    BY <1>2, EngineAssumption DEF TypeInv, TypeOK
  <2>2. feed' \in Seq([height : Nat, root : Nat, bundle : Nat])
    BY <1>2, <2>1, FeedType DEF RecordCommitBundle, TypeInv
  <2>3. tip' \in [id : Nat, root : Nat, height : Nat, ready : BOOLEAN]
    BY <1>2, <2>1 DEF RecordCommitBundle, TypeInv, TypeOK
  <2>4. TypeOK'
    BY <1>2, <2>2, <2>3
       DEF RecordCommitBundle, TypeInv, TypeOK, ledgerVars, workerVars
  <2>5. QED
    BY <1>2, <2>4
       DEF RecordCommitBundle, TypeInv, FileFinite, Readable, WorkerShape, workerVars
<1>3. QED
  BY <1>1, <1>2

\* No step of a node leaves the types.
LEMMA NextType == TypeInv /\ [Next]_vars => TypeInv'
<1> SUFFICES ASSUME TypeInv, [Next]_vars PROVE TypeInv'
  OBVIOUS
<1>1. CASE Boot
  BY <1>1, BootType
<1>2. CASE Crash \/ CrashInSaveLedger
  BY <1>2, CrashType
<1>3. ASSUME NEW w \in Worker, Step(w) \/ \E t \in Transfer : Submit(w, t)
      PROVE  TypeInv'
  BY <1>3, HandlerType, StoreReceiptType DEF Step
<1>4. CASE \/ \E a \in Addr : ReadAccount(a)
           \/ \E b \in ExtBundle : RecordCommitBundle(b)
  BY <1>4, OtherCallsType
<1>5. CASE CommitRound
  BY <1>5, CommitRoundType
<1>6. CASE UNCHANGED vars
  <2>1. TypeOK'
    BY <1>6 DEF TypeInv, TypeOK, vars
  <2>2. QED
    BY <1>6, <2>1 DEF TypeInv, FileFinite, Readable, WorkerShape, vars
<1>7. QED
  BY <1>1, <1>2, <1>3, <1>4, <1>5, <1>6 DEF Next

\* Type correctness of the engine for any clients, any number of handlers and any
\* faults: among others no debit underflows and every file a process writes can
\* be loaded again.
THEOREM TypeCorrect == Spec => []TypeOK
<1>1. Spec => []TypeInv
  BY InitType, NextType, PTL DEF Spec
<1>2. TypeInv => TypeOK
  BY DEF TypeInv
<1>3. QED
  BY <1>1, <1>2, PTL

\* Handlers run while the process does.
WorkersUp == \A w \in Worker : pc[w] # "idle" => up

\* No worker is in a handler before the first process.
LEMMA InitUp == Init => WorkersUp
BY DEF Init, WorkersUp

\* A crash takes the handlers with it, and only a running process starts one.
LEMMA NextUp == TypeInv /\ WorkersUp /\ [Next]_vars => WorkersUp'
<1> SUFFICES ASSUME TypeInv, WorkersUp, [Next]_vars PROVE WorkersUp'
  OBVIOUS
<1>0. pc \in [Worker -> {"idle", "apply", "snapshot", "open", "write", "store"}]
  BY DEF TypeInv, TypeOK
<1>1. CASE Boot
  BY <1>1 DEF Boot, WorkersUp
<1>2. CASE Crash \/ CrashInSaveLedger
  BY <1>2 DEF Crash, CrashInSaveLedger, Die, WorkersUp
<1>3. ASSUME NEW w \in Worker, Step(w) \/ \E t \in Transfer : Submit(w, t)
      PROVE  WorkersUp'
  <2>1. up' = up /\ up /\ pc' = [pc EXCEPT ![w] = pc'[w]]
    BY <1>0, <1>3
       DEF Step, Submit, Apply, TakeSnapshot, OpenStateFile, WriteStateFile,
           SaveStateFails, StoreReceipt, WorkersUp
  <2>2. QED
    BY <2>1 DEF WorkersUp
<1>4. CASE UNCHANGED <<up, pc>>
  BY <1>4 DEF WorkersUp
<1>5. QED
  BY <1>1, <1>2, <1>3, <1>4
     DEF Next, ReadAccount, CommitRound, RecordCommitBundle, workerVars, vars

\* A node that is down does nothing but boot.
LEMMA DownBoots ==
    ASSUME WorkersUp, ~ up, Next
    PROVE  Boot
<1>1. ASSUME NEW w \in Worker PROVE ~ Step(w) /\ ~ \E t \in Transfer : Submit(w, t)
  BY DEF WorkersUp, Step, Submit, Apply, TakeSnapshot, OpenStateFile, WriteStateFile,
         SaveStateFails, StoreReceipt
<1>2. QED
  BY <1>1 DEF Next, Crash, CrashInSaveLedger, Die, ReadAccount, CommitRound,
              RecordCommitBundle

\* Without crashes a process that runs keeps running.
LEMMA StaysUp ==
    ASSUME NoCrashes, WorkersUp, Next
    PROVE  up'
<1>1. CASE ~ up
  BY <1>1, DownBoots DEF Boot
<1>2. CASE up
  <2>1. ~ Crash /\ ~ CrashInSaveLedger
    BY DEF NoCrashes, Crash, CrashInSaveLedger
  <2>2. QED
    BY <1>2, <2>1
       DEF Next, Boot, Step, Submit, Apply, TakeSnapshot, OpenStateFile, WriteStateFile,
           SaveStateFails, StoreReceipt, ReadAccount, CommitRound, RecordCommitBundle
<1>3. QED
  BY <1>1, <1>2

\* When no write fails, what saveLedger wrote is what loadLedger reads.
LEMMA SaveLedgerKeeps ==
    ASSUME CleanCrashes, NEW S, S \subseteq Receipt, NEW n \in Nat, NEW rs \in Seq(Round),
           SaveLedger(S, n, rs)
    PROVE  LoadedLedger' = [receipts |-> S, last |-> n, rounds |-> rs]
<1> DEFINE f == [receipts |-> S, last |-> n, rounds |-> rs]
<1>1. f \in LedgerFile
  BY DEF LedgerFile
<1>2. ledgerFile' = f
  BY DEF SaveLedger, CleanCrashes
<1> HIDE DEF f
<1>3. f \notin {NoFile, Empty, Mixed}
  BY <1>1, LedgerFileAssumption
<1>4. QED
  BY <1>2, <1>3 DEF LoadedLedger, Readable, f

\* CommitRound and StoreReceipt leave their ledger on the disk.
LEMMA CommitSaves ==
    ASSUME CleanCrashes, TypeInv, CommitRound
    PROVE  LoadedLedger' = [receipts |-> Stored, last |-> lastCommitted', rounds |-> rounds']
<1>1. Stored \subseteq Receipt
  BY StoredType DEF Stored, TypeInv, TypeOK
<1>2. lastCommitted' \in Nat /\ rounds' \in Seq(Round)
  BY CommitRoundType DEF TypeInv, TypeOK
<1>3. SaveLedger(Stored, lastCommitted', rounds')
  BY DEF CommitRound
<1>4. QED
  BY <1>1, <1>2, <1>3, SaveLedgerKeeps

\* After StoreReceipt the file holds every receipt in memory.
LEMMA StoreSaves ==
    ASSUME CleanCrashes, TypeInv, NEW w \in Worker, StoreReceipt(w)
    PROVE  LoadedLedger' = [receipts |-> Stored', last |-> lastCommitted, rounds |-> rounds]
<1>1. receipts' \in [Transfer -> Receipt \cup {NoReceipt}]
  BY StoreReceiptType DEF TypeInv, TypeOK
<1>2. Stored' \subseteq Receipt
  BY <1>1, StoredType DEF Stored
<1>3. lastCommitted \in Nat /\ rounds \in Seq(Round)
  BY DEF TypeInv, TypeOK
<1>4. SaveLedger(Stored', lastCommitted, rounds)
  BY DEF StoreReceipt, Stored
<1>5. QED
  BY <1>2, <1>3, <1>4, SaveLedgerKeeps
-------------------------------------------------------------------------------
(***************************************************************************)
(* Rounds partition the committed heights.  With TypeInv the property is   *)
(* inductive: it speaks of memory and of the file together, which is what  *)
(* a restart needs.                                                        *)
(***************************************************************************)
\* Appending the round CommitRound builds keeps rounds contiguous.
LEMMA ContiguousAppend ==
    ASSUME NEW rs \in Seq(Round), NEW last \in Nat, NEW to \in Nat, NEW h \in Round,
           Contiguous(rs, last), last + 1 <= to,
           h.round = Len(rs) + 1, h.from = last + 1, h.to = to, h.count = to - last
    PROVE  Contiguous(Append(rs, h), to)
<1> DEFINE ns == Append(rs, h)
<1>1. /\ Len(rs) \in Nat /\ Len(ns) = Len(rs) + 1
      /\ ns[Len(rs) + 1] = h
      /\ \A i \in 1 .. Len(rs) : ns[i] = rs[i]
      /\ ns # <<>>
  OBVIOUS
<1> HIDE DEF ns
<1>2. ASSUME NEW i \in 1 .. Len(rs)
      PROVE  /\ ns[i].round = i
             /\ ns[i].from = (IF i = 1 THEN 1 ELSE ns[i - 1].to + 1)
             /\ ns[i].from <= ns[i].to
             /\ ns[i].count = ns[i].to - ns[i].from + 1
  <2>1. i # 1 => i - 1 \in 1 .. Len(rs)
    BY <1>1
  <2>2. QED
    BY <1>1, <2>1 DEF Contiguous
<1>3. /\ h.round = Len(rs) + 1
      /\ h.from = (IF Len(rs) + 1 = 1 THEN 1 ELSE ns[Len(rs)].to + 1)
      /\ h.from <= h.to
      /\ h.count = h.to - h.from + 1
  <2>1. CASE rs = <<>>
    BY <1>1, <2>1 DEF Contiguous
  <2>2. CASE rs # <<>>
    <3>1. Len(rs) \in 1 .. Len(rs)
      BY <2>2, <1>1
    <3>2. last = ns[Len(rs)].to
      BY <2>2, <3>1, <1>1 DEF Contiguous
    <3>3. QED
      BY <1>1, <3>1, <3>2
  <2>3. QED
    BY <2>1, <2>2
<1>4. ASSUME NEW i \in 1 .. Len(ns)
      PROVE  /\ ns[i].round = i
             /\ ns[i].from = (IF i = 1 THEN 1 ELSE ns[i - 1].to + 1)
             /\ ns[i].from <= ns[i].to
             /\ ns[i].count = ns[i].to - ns[i].from + 1
  <2>1. CASE i \in 1 .. Len(rs)
    BY <1>2, <2>1
  <2>2. CASE i = Len(rs) + 1
    <3>1. i - 1 = Len(rs) /\ ns[i] = h
      BY <1>1, <2>2
    <3>2. QED
      BY <1>3, <2>2, <3>1
  <2>3. QED
    BY <1>1, <2>1, <2>2
<1>5. to = ns[Len(ns)].to
  BY <1>1
<1>6. QED
  BY <1>1, <1>4, <1>5 DEF Contiguous, ns

\* saveLedger writes the rounds and the committed height it is given together.
LEMMA SaveLedgerContiguous ==
    ASSUME RoundsContiguous, NEW S, NEW n, NEW rs, Contiguous(rs, n),
           SaveLedger(S, n, rs)
    PROVE  Readable(ledgerFile)' => Contiguous(ledgerFile'.rounds, ledgerFile'.last)
<1>1. ledgerFile' \in {[receipts |-> S, last |-> n, rounds |-> rs], ledgerFile, Empty}
  BY DEF SaveLedger
<1>2. CASE ledgerFile' = [receipts |-> S, last |-> n, rounds |-> rs]
  BY <1>2
<1>3. CASE ledgerFile' = ledgerFile
  BY <1>3 DEF RoundsContiguous, Readable
<1>4. CASE ledgerFile' = Empty
  BY <1>4 DEF Readable
<1>5. QED
  BY <1>1, <1>2, <1>3, <1>4

\* The committed rounds number and partition the committed heights 1, 2, ... in
\* memory and on disk, for any number of handlers, transfers and restarts, with
\* torn files and failed writes: CommitRound and saveLedger keep them in step.
THEOREM RoundsPartitionHeights == Spec => []RoundsContiguous
<1> DEFINE I == TypeInv /\ RoundsContiguous
<1>1. Init => I
  <2>1. ASSUME Init PROVE RoundsContiguous
    BY <2>1 DEF Init, RoundsContiguous, Contiguous, Readable
  <2>2. QED
    BY <2>1, InitType
<1>2. I /\ [Next]_vars => I'
  <2> SUFFICES ASSUME I, [Next]_vars PROVE RoundsContiguous'
    BY NextType
  <2>1. CASE Boot
    <3>1. Contiguous(LoadedLedger.rounds, LoadedLedger.last)
      <4>1. Contiguous(<<>>, 0)
        BY DEF Contiguous
      <4>2. QED
        BY <4>1 DEF LoadedLedger, RoundsContiguous
    <3>2. QED
      BY <2>1, <3>1 DEF Boot, RoundsContiguous, Readable
  <2>2. CASE Crash \/ CrashInSaveLedger
    BY <2>2 DEF Crash, CrashInSaveLedger, Die, ledgerVars, RoundsContiguous, Readable
  <2>3. ASSUME NEW w \in Worker, StoreReceipt(w)
        PROVE  RoundsContiguous'
    <3>1. rounds' = rounds /\ lastCommitted' = lastCommitted
      BY <2>3 DEF StoreReceipt
    <3>2. Readable(ledgerFile)' => Contiguous(ledgerFile'.rounds, ledgerFile'.last)
      BY <2>3, SaveLedgerContiguous DEF StoreReceipt, RoundsContiguous
    <3>3. QED
      BY <3>1, <3>2 DEF RoundsContiguous
  <2>4. CASE CommitRound
    <3> DEFINE to == Len(leaves)
               sub == Pending
               hdr == [round |-> Len(rounds) + 1, from |-> lastCommitted + 1,
                       to |-> to, count |-> Len(sub), root |-> sub]
    <3>1. /\ leaves \in Seq(Receipt) /\ rounds \in Seq(Round)
          /\ lastCommitted \in Nat /\ to \in Nat /\ lastCommitted + 1 <= to
      BY <2>4 DEF TypeInv, TypeOK, CommitRound
    <3>2. sub \in Seq(Receipt) /\ Len(sub) = to - lastCommitted
      <4>1. \A i \in lastCommitted + 1 .. to : leaves[i] \in Receipt
        BY <3>1
      <4>2. QED
        BY <3>1, <4>1, SubSeqProperties DEF Pending
    <3>3. hdr \in Round
      BY <3>1, <3>2 DEF Round
    <3>4. /\ hdr.round = Len(rounds) + 1 /\ hdr.from = lastCommitted + 1
          /\ hdr.to = to /\ hdr.count = to - lastCommitted
      BY <3>2
    <3>5. /\ rounds' = Append(rounds, hdr) /\ lastCommitted' = to
          /\ SaveLedger(Stored, to, Append(rounds, hdr))
      BY <2>4 DEF CommitRound
    <3> HIDE DEF to, sub, hdr
    <3>6. Contiguous(Append(rounds, hdr), to)
      BY <3>1, <3>3, <3>4, ContiguousAppend DEF RoundsContiguous
    <3>7. QED
      BY <3>5, <3>6, SaveLedgerContiguous DEF RoundsContiguous
  <2>5. ASSUME UNCHANGED <<rounds, lastCommitted, ledgerFile>>
        PROVE  RoundsContiguous'
    BY <2>5 DEF RoundsContiguous, Readable
  <2>6. QED
    BY <2>1, <2>2, <2>3, <2>4, <2>5
       DEF Next, Step, Submit, Apply, TakeSnapshot, OpenStateFile, WriteStateFile,
           SaveStateFails, ReadAccount, RecordCommitBundle, ledgerVars, vars
<1>3. QED
  BY <1>1, <1>2, PTL DEF Spec
-------------------------------------------------------------------------------
(***************************************************************************)
(* The supply.                                                             *)
(***************************************************************************)
Balanced(s) == s.network + s.foundation + s.exchange = s.total

\* ApplyBlockMint adds to the total what it adds to the three vaults.
LEMMA MintedBalanced ==
    ASSUME NEW s \in Supply, NEW h \in Nat, Balanced(s)
    PROVE  Balanced(Minted(s, h))
<1> DEFINE m == SplitMint(BlockMintAt(h))
<1>1. BlockMintAt(h) \in Nat
  BY BlockMintType
<1>2. /\ m.network \in Nat /\ m.foundation \in Nat /\ m.exchange \in Nat
      /\ m.network + m.foundation + m.exchange = BlockMintAt(h)
  BY <1>1, SplitConserves
<1>3. /\ Minted(s, h).total = s.total + BlockMintAt(h)
      /\ Minted(s, h).network = s.network + m.network
      /\ Minted(s, h).foundation = s.foundation + m.foundation
      /\ Minted(s, h).exchange = s.exchange + m.exchange
  BY DEF Minted
<1> HIDE DEF m
<1>4. QED
  BY <1>1, <1>2, <1>3 DEF Balanced, Supply

\* The three vaults hold exactly what was minted, in memory and at every height of
\* the supply history, for any emission table and any number of rounds: SplitMint
\* assigns the remainder of its divisions.
THEOREM VaultsBalance == Spec => []VaultsHoldSupply
<1> DEFINE I == TypeInv /\ VaultsHoldSupply
<1>1. Init => I
  <2>1. ASSUME Init PROVE VaultsHoldSupply
    BY <2>1 DEF Init, VaultsHoldSupply, NoSupply
  <2>2. QED
    BY <2>1, InitType
<1>2. I /\ [Next]_vars => I'
  <2> SUFFICES ASSUME I, [Next]_vars PROVE VaultsHoldSupply'
    BY NextType
  <2>1. CASE Boot
    BY <2>1 DEF Boot, VaultsHoldSupply, NoSupply
  <2>2. CASE CommitRound
    <3> DEFINE to == Len(leaves)
               s == Minted(supply, to)
    <3>1. to \in Nat /\ supply \in Supply
      BY DEF TypeInv, TypeOK
    <3>2. Balanced(s)
      BY <3>1, MintedBalanced DEF VaultsHoldSupply, Balanced
    <3>3. supply' = s /\ supplyLog' \subseteq supplyLog \cup {s}
      BY <2>2 DEF CommitRound, Mint, PersistSupplyState
    <3> HIDE DEF s
    <3>4. QED
      BY <3>2, <3>3 DEF VaultsHoldSupply, Balanced
  <2>3. ASSUME UNCHANGED <<supply, supplyLog>>
        PROVE  VaultsHoldSupply'
    BY <2>3 DEF VaultsHoldSupply
  <2>4. QED
    BY <2>1, <2>2, <2>3
       DEF Next, Step, Submit, Apply, TakeSnapshot, OpenStateFile, WriteStateFile,
           SaveStateFails, StoreReceipt, ReadAccount, RecordCommitBundle, Crash,
           CrashInSaveLedger, Die, commitVars, vars
<1>3. QED
  BY <1>1, <1>2, PTL DEF Spec
-------------------------------------------------------------------------------
(***************************************************************************)
(* No step of the engine creates or destroys money.                        *)
(***************************************************************************)
\* The balances of a database, and what they add up to.
Balances(acct) == [a \in Addr |-> acct[a].bal]
Worth(acct) == Sum(Balances(acct), Addr)

\* Total, the sum over a lambda, is the sum of the balances as a function.
LEMMA TotalIsWorth ==
    ASSUME NEW d
    PROVE  Total(d) = Worth(d.acct)
<1> DEFINE f == Balances(d.acct)
           J(h) == h = [s \in SUBSET Addr |->
                          IF s = {} THEN 0
                          ELSE d.acct[First(s)].bal + h[s \ {First(s)}]]
           it == CHOOSE h : J(h)
<1>1. IsFiniteSet(Addr)
  BY AccountsAssumption
<1>2. ASSUME NEW h PROVE J(h) <=> IsSum(h, f, Addr)
  <2>1. \A s \in SUBSET Addr : s # {} => f[First(s)] = d.acct[First(s)].bal
    BY FirstType DEF Balances
  <2>2. \A s \in SUBSET Addr :
          SumAt(h, f, s) = IF s = {} THEN 0 ELSE d.acct[First(s)].bal + h[s \ {First(s)}]
    BY <2>1 DEF SumAt
  <2>3. QED
    BY <2>2 DEF IsSum
<1>3. \E g : IsSum(g, f, Addr)
  BY <1>1, SumExists
<1>4. J(it)
  BY <1>2, <1>3
<1>5. IsSum(it, f, Addr)
  BY <1>2, <1>4
<1>6. Total(d) = it[Addr]
  BY DEF Total, MapThenSumSet, MapThenFoldSet, First
<1>7. QED
  BY <1>1, <1>5, <1>6, SumUnfold DEF Worth

\* Money, the same sum over genesis.
LEMMA MoneyIsWorth == Money = Worth(GenesisDB.acct)
<1> DEFINE f == Balances(GenesisDB.acct)
           J(h) == h = [s \in SUBSET Addr |->
                          IF s = {} THEN 0
                          ELSE Genesis[First(s)] + h[s \ {First(s)}]]
           it == CHOOSE h : J(h)
<1>1. IsFiniteSet(Addr)
  BY AccountsAssumption
<1>2. ASSUME NEW h PROVE J(h) <=> IsSum(h, f, Addr)
  <2>1. \A s \in SUBSET Addr : s # {} => f[First(s)] = Genesis[First(s)]
    BY FirstType DEF Balances, GenesisDB
  <2>2. \A s \in SUBSET Addr :
          SumAt(h, f, s) = IF s = {} THEN 0 ELSE Genesis[First(s)] + h[s \ {First(s)}]
    BY <2>1 DEF SumAt
  <2>3. QED
    BY <2>2 DEF IsSum
<1>3. \E g : IsSum(g, f, Addr)
  BY <1>1, SumExists
<1>4. J(it)
  BY <1>2, <1>3
<1>5. IsSum(it, f, Addr)
  BY <1>2, <1>4
<1>6. Money = it[Addr]
  BY DEF Money, SumOver, MapThenSumSet, MapThenFoldSet, First
<1>7. QED
  BY <1>1, <1>5, <1>6, SumUnfold DEF Worth

\* Balances and their sum are natural numbers, and no balance exceeds the sum.
LEMMA WorthType ==
    ASSUME NEW acct \in [Addr -> Account]
    PROVE  /\ Worth(acct) \in Nat
           /\ \A a \in Addr : acct[a].bal \in Nat /\ acct[a].bal <= Worth(acct)
<1>1. IsFiniteSet(Addr) /\ \A a \in Addr : Balances(acct)[a] \in Nat
  BY AccountsAssumption DEF Balances, Account
<1>2. Worth(acct) \in Nat
  BY <1>1, SumType DEF Worth
<1>3. \A a \in Addr : Balances(acct)[a] <= Worth(acct)
  BY <1>1, SumBounds DEF Worth
<1>4. \A a \in Addr : Balances(acct)[a] = acct[a].bal
  BY DEF Balances
<1>5. QED
  BY <1>1, <1>2, <1>3, <1>4

\* Changing one account changes the worth by as much as its balance.
LEMMA WorthUpdate ==
    ASSUME NEW acct \in [Addr -> Account], NEW next \in [Addr -> Account], NEW a \in Addr,
           \A x \in Addr \ {a} : next[x].bal = acct[x].bal
    PROVE  Worth(next) = Worth(acct) + next[a].bal - acct[a].bal
<1> DEFINE f == Balances(acct)
           h == Balances(next)
<1>1. IsFiniteSet(Addr)
  BY AccountsAssumption
<1>2. /\ \A x \in Addr : f[x] \in Int
      /\ \A x \in Addr : h[x] \in Int
      /\ \A x \in Addr \ {a} : h[x] = f[x]
  BY AccountsAssumption DEF Balances, Account
<1>3. f[a] = acct[a].bal /\ h[a] = next[a].bal
  BY DEF Balances
<1> HIDE DEF f, h
<1>4. Sum(h, Addr) = Sum(f, Addr) + h[a] - f[a]
  BY <1>1, <1>2, SumUpdate
<1>5. QED
  BY <1>3, <1>4 DEF Worth, f, h

\* A sum that fits a word does not wrap.
LEMMA FitsWord ==
    ASSUME NEW x \in Nat, x < Word
    PROVE  x % Word = x
BY AccountsAssumption, SMT

\* A credit adds its amount: it does not wrap while the money fits a word.
LEMMA CreditWorth ==
    ASSUME NEW acct \in [Addr -> Account], NEW a \in Addr, NEW n \in Nat,
           Worth(acct) + n < Word
    PROVE  Worth(Credit(acct, a, n)) = Worth(acct) + n
<1>1. /\ Worth(acct) \in Nat /\ acct[a].bal \in Nat /\ acct[a].bal <= Worth(acct)
  BY WorthType
<1>2. acct[a].bal + n \in Nat /\ acct[a].bal + n < Word /\ Word \in Nat \ {0}
  BY <1>1, AccountsAssumption
<1>3. (acct[a].bal + n) % Word = acct[a].bal + n
  BY <1>2, FitsWord
<1>4. Credit(acct, a, n) \in [Addr -> Account]
  BY CreditType
<1>5. /\ Credit(acct, a, n)[a].bal = acct[a].bal + n
      /\ \A x \in Addr \ {a} : Credit(acct, a, n)[x].bal = acct[x].bal
  BY <1>3 DEF Credit, Account
<1>6. QED
  BY <1>1, <1>4, <1>5, WorthUpdate

\* DB.ApplyTransfer moves money and makes none.
LEMMA ApplyConserves ==
    ASSUME MoneyFits, NEW d \in DB, NEW t \in Transfer, Total(d) = Money
    PROVE  Total(ApplyTransfer(d, t)) = Money
<1>1. /\ t.from \in Addr /\ t.to \in Addr /\ FeeReceiver \in Addr
      /\ t.amount \in Nat /\ t.fee \in Nat /\ t.amount + t.fee < Word
      /\ Word \in Nat \ {0} /\ Money < Word
  BY AccountsAssumption DEF MoneyFits
<1>2. d.acct \in [Addr -> Account] /\ Worth(d.acct) = Money
  BY TotalIsWorth DEF DB
<1>3. CASE Verdict(d, t) = "applied"
  <2> DEFINE a1 == Debit(d.acct, t)
             a2 == Credit(a1, t.to, t.amount)
             a3 == Credit(a2, FeeReceiver, t.fee)
  <2>1. Need(t) = t.amount + t.fee
    BY <1>1, FitsWord DEF Need
  <2>2. a1 \in [Addr -> Account]
    BY <1>3, DebitType
  <2>3. /\ a1[t.from].bal = d.acct[t.from].bal - Need(t)
        /\ \A x \in Addr \ {t.from} : a1[x].bal = d.acct[x].bal
    BY <1>1, <1>2 DEF Debit
  <2>4. d.acct[t.from].bal \in Nat /\ Worth(d.acct) \in Nat
    BY <1>1, <1>2, WorthType
  <2> HIDE DEF a1
  <2>5. Worth(a1) = Money - (t.amount + t.fee)
    <3>1. Worth(a1) = Worth(d.acct) + a1[t.from].bal - d.acct[t.from].bal
      BY <1>1, <1>2, <2>2, <2>3, WorthUpdate
    <3>2. QED
      BY <1>1, <1>2, <2>1, <2>3, <2>4, <3>1
  <2>6. Worth(a1) \in Nat
    BY <2>2, WorthType
  <2>7. Worth(a2) = Money - t.fee /\ a2 \in [Addr -> Account]
    <3>1. Money \in Nat
      BY <1>2, <2>4
    <3>2. Worth(a1) + t.amount = Money - t.fee /\ Worth(a1) + t.amount < Word
      BY <1>1, <2>5, <3>1
    <3>3. Worth(a2) = Worth(a1) + t.amount
      BY <1>1, <2>2, <3>2, CreditWorth
    <3>4. QED
      BY <1>1, <2>2, <3>2, <3>3, CreditType
  <2> HIDE DEF a2
  <2>8. Worth(a3) = Money
    BY <1>1, <1>2, <2>4, <2>7, CreditWorth
  <2>9. ApplyTransfer(d, t).acct = a3
    BY <1>3 DEF ApplyTransfer, a1, a2
  <2>10. QED
    BY <2>8, <2>9, TotalIsWorth
<1>4. CASE Verdict(d, t) # "applied"
  BY <1>2, <1>4, TotalIsWorth DEF ApplyTransfer, Touch, DB
<1>5. QED
  BY <1>3, <1>4

\* An entry a read leaves behind is worth nothing.
LEMMA TouchConserves ==
    ASSUME NEW d \in DB, NEW S
    PROVE  Total(Touch(d, S)) = Total(d)
BY TotalIsWorth DEF Touch, DB
-------------------------------------------------------------------------------
(***************************************************************************)
(* The property is inductive once it speaks of the snapshots too, which    *)
(* handlers hold between DB.Snapshot and the end of os.WriteFile.          *)
(***************************************************************************)
SnapsConserved == \A w \in Worker : snap[w] # NoFile => Total(snap[w]) = Money

\* A snapshot is taken before the state file is opened.
SnapTaken == \A w \in Worker : pc[w] \in {"open", "write"} => snap[w] # NoFile

MoneyInv == TypeInv /\ MoneyConserved /\ SnapsConserved /\ SnapTaken /\ WorkersUp

\* It holds at the start,
LEMMA InitMoney == Init => MoneyInv
<1>1. ASSUME Init PROVE MoneyConserved /\ SnapsConserved /\ SnapTaken
  BY <1>1 DEF Init, MoneyConserved, SnapsConserved, SnapTaken, Readable
<1>2. QED
  BY <1>1, InitType, InitUp DEF MoneyInv

\* ... and every step keeps it.
LEMMA NextMoney ==
    ASSUME MoneyFits, V1File = NoFile
    PROVE  MoneyInv /\ [Next]_vars => MoneyInv'
<1> SUFFICES ASSUME MoneyInv, [Next]_vars
             PROVE  MoneyConserved' /\ SnapsConserved' /\ SnapTaken'
  BY NextType, NextUp DEF MoneyInv
<1> USE DEF MoneyInv
<1>0. /\ pc \in [Worker -> {"idle", "apply", "snapshot", "open", "write", "store"}]
      /\ snap \in [Worker -> DB \cup {NoFile}]
      /\ db \in DB
  BY DEF TypeInv, TypeOK
<1>1. CASE Boot
  <2>1. Total(GenesisDB) = Money
    BY TotalIsWorth, MoneyIsWorth
  <2>2. Total(LoadedState) = Money
    BY <2>1 DEF LoadedState, MoneyConserved
  <2>3. QED
    BY <1>1, <2>2 DEF Boot, MoneyConserved, SnapsConserved, SnapTaken, Readable
<1>2. CASE Crash \/ CrashInSaveLedger
  BY <1>2 DEF Crash, CrashInSaveLedger, Die, MoneyConserved, SnapsConserved, SnapTaken,
              Readable
<1>3. ASSUME NEW w \in Worker, Step(w) \/ \E t \in Transfer : Submit(w, t)
      PROVE  MoneyConserved' /\ SnapsConserved' /\ SnapTaken'
  <2>1. CASE Apply(w)
    <3>1. pc[w] = "apply" /\ up
      BY <2>1 DEF Apply, WorkersUp
    <3>2. txOf[w] \in Transfer
      BY <3>1 DEF TypeInv, WorkerShape
    <3>3. Total(db') = Money
      BY <1>0, <2>1, <3>1, <3>2, ApplyConserves DEF Apply, MoneyConserved
    <3>4. UNCHANGED <<up, stateFile, snap>>
      BY <2>1 DEF Apply
    <3>5. pc' = [pc EXCEPT ![w] = pc'[w]] /\ pc'[w] \in {"snapshot", "store"}
      BY <1>0, <2>1 DEF Apply
    <3>6. QED
      BY <1>0, <3>1, <3>3, <3>4, <3>5
         DEF MoneyConserved, SnapsConserved, SnapTaken, Readable
  <2>2. CASE TakeSnapshot(w)
    <3>1. pc[w] = "snapshot" /\ up /\ Total(db) = Money /\ db # NoFile
      BY <1>0, <2>2, EngineAssumption DEF TakeSnapshot, WorkersUp, MoneyConserved
    <3>2. QED
      BY <1>0, <2>2, <3>1
         DEF TakeSnapshot, MoneyConserved, SnapsConserved, SnapTaken, Readable
  <2>3. CASE OpenStateFile(w)
    BY <1>0, <2>3
       DEF OpenStateFile, MoneyConserved, SnapsConserved, SnapTaken, Readable
  <2>4. CASE WriteStateFile(w)
    <3>1. pc[w] = "write" /\ Total(snap[w]) = Money
      BY <2>4 DEF WriteStateFile, SnapsConserved, SnapTaken
    <3>2. stateFile' \in {snap[w], Mixed}
      BY <2>4 DEF WriteStateFile, Written
    <3>3. Readable(stateFile)' => Total(stateFile') = Money
      BY <3>1, <3>2 DEF Readable
    <3>4. QED
      BY <1>0, <2>4, <3>1, <3>3
         DEF WriteStateFile, MoneyConserved, SnapsConserved, SnapTaken
  <2>5. CASE SaveStateFails(w)
    <3>1. stateFile' \in {stateFile, Mixed}
      BY <2>5 DEF SaveStateFails
    <3>2. Readable(stateFile)' => Total(stateFile') = Money
      BY <3>1 DEF Readable, MoneyConserved
    <3>3. QED
      BY <1>0, <2>5, <3>2
         DEF SaveStateFails, MoneyConserved, SnapsConserved, SnapTaken
  <2>6. CASE StoreReceipt(w)
    BY <1>0, <2>6
       DEF StoreReceipt, MoneyConserved, SnapsConserved, SnapTaken, Readable
  <2>7. ASSUME NEW t \in Transfer, Submit(w, t)
        PROVE  MoneyConserved' /\ SnapsConserved' /\ SnapTaken'
    BY <1>0, <2>7
       DEF Submit, MoneyConserved, SnapsConserved, SnapTaken, Readable
  <2>8. QED
    BY <1>3, <2>1, <2>2, <2>3, <2>4, <2>5, <2>6, <2>7 DEF Step
<1>4. ASSUME NEW a \in Addr, ReadAccount(a)
      PROVE  MoneyConserved' /\ SnapsConserved' /\ SnapTaken'
  <2>1. Total(db') = Total(db)
    BY <1>0, <1>4, TouchConserves DEF ReadAccount
  <2>2. QED
    BY <1>4, <2>1
       DEF ReadAccount, MoneyConserved, SnapsConserved, SnapTaken, Readable,
           workerVars
<1>5. CASE UNCHANGED <<up, db, stateFile, pc, snap>>
  BY <1>5 DEF MoneyConserved, SnapsConserved, SnapTaken, Readable
<1>6. QED
  BY <1>1, <1>2, <1>3, <1>4, <1>5
     DEF Next, CommitRound, RecordCommitBundle, workerVars, vars

\* For every set of accounts and transfers whose sums fit a word, any number of handlers
\* and commits, and through crashes, torn, failed and overlapping writes: the money in
\* the accounts, and in any state file that can be read, is the money of genesis
\* (DB.ApplyTransfer, saveStateMas, NewEngine).  A v1 file is not part of genesis.
THEOREM MoneyIsConserved ==
    ASSUME MoneyFits, V1File = NoFile
    PROVE  Spec => []MoneyConserved
<1>1. MoneyInv => MoneyConserved
  BY DEF MoneyInv
<1>2. QED
  BY <1>1, InitMoney, NextMoney, PTL DEF Spec

-------------------------------------------------------------------------------
(***************************************************************************)
(* The headers, the commit feed and the supply history a process builds    *)
(* round by round.                                                         *)
(***************************************************************************)
\* Headers is the part of the chain this process published.
LEMMA HeadersShape ==
    ASSUME TypeOK, born <= Len(chain)
    PROVE  /\ Len(chain) \in Nat /\ born \in Nat
           /\ Len(Headers) = Len(chain) - born
           /\ \A k \in 1 .. Len(chain) - born : Headers[k] = chain[born + k]
<1>1. chain \in Seq(Header) /\ born \in Nat /\ Len(chain) \in Nat
  BY DEF TypeOK
<1>2. \A i \in born + 1 .. Len(chain) : chain[i] \in Header
  BY <1>1
<1>3. CASE born + 1 <= Len(chain)
  BY <1>1, <1>2, <1>3, SubSeqProperties DEF Headers
<1>4. CASE ~ (born + 1 <= Len(chain))
  <2>1. born = Len(chain)
    BY <1>1, <1>4
  <2>2. Headers = <<>>
    BY <1>1, <2>1 DEF Headers
  <2>3. QED
    BY <1>1, <2>1, <2>2
<1>5. QED
  BY <1>3, <1>4

\* What CommitRound appends to the chain.
LEMMA ChainGrows ==
    ASSUME TypeOK, CommitRound
    PROVE  /\ Len(chain') = Len(chain) + 1
           /\ \A j \in 1 .. Len(chain) : chain'[j] = chain[j]
           /\ chain'[Len(chain) + 1] =
                BuildEternityHeader(Len(leaves), Len(rounds) + 1, Pending)
<1>1. chain \in Seq(Header)
  BY DEF TypeOK
<1>2. chain' = Append(chain, BuildEternityHeader(Len(leaves), Len(rounds) + 1, Pending))
  BY DEF CommitRound
<1>3. QED
  BY <1>1, <1>2

\* Only NewEngine, CommitRound and RecordCommitBundle touch the headers, the feed,
\* the supply and the rounds.
LEMMA HeaderSteps ==
    ASSUME [Next]_vars
    PROVE  \/ Boot
           \/ CommitRound
           \/ \E b \in ExtBundle : RecordCommitBundle(b)
           \/ UNCHANGED <<commitVars, rounds, lastCommitted>> /\ (up' => up)
BY DEF Next, Step, Submit, Apply, TakeSnapshot, OpenStateFile, WriteStateFile,
       SaveStateFails, StoreReceipt, ReadAccount, Crash, CrashInSaveLedger, Die,
       ledgerVars, commitVars, vars
-------------------------------------------------------------------------------
(***************************************************************************)
(* prev_hash.                                                              *)
(***************************************************************************)
\* The tip names the last header of the process, and each header the one before.
LinkInv ==
    /\ born <= Len(chain)
    /\ up => tip.id = IF Len(chain) = born THEN 0 ELSE Len(chain)
    /\ \A j \in born + 1 .. Len(chain) : chain[j].prev = IF j = born + 1 THEN 0 ELSE j - 1
    /\ Len(chain) > 0 => chain[1].prev = 0

\* Through crashes, torn and failed writes and bundles recorded from outside, the
\* headers of a process are linked by their hashes in the order they were published
\* (lastBlockID in buildEternityHeader, which RecordCommitBundle leaves alone).
THEOREM HeadersAreLinked == Spec => []HeadersLinked
<1> DEFINE I == TypeInv /\ LinkInv
<1>1. Init => I
  <2>1. ASSUME Init PROVE LinkInv
    BY <2>1 DEF Init, LinkInv
  <2>2. QED
    BY <2>1, InitType
<1>2. I /\ [Next]_vars => I'
  <2> SUFFICES ASSUME I, [Next]_vars PROVE LinkInv'
    BY NextType
  <2>0. Len(chain) \in Nat /\ born \in Nat /\ TypeOK
    BY DEF TypeInv, TypeOK
  <2>1. CASE Boot
    BY <2>0, <2>1 DEF Boot, LinkInv, NoTip
  <2>2. CASE CommitRound
    <3>1. /\ up /\ up' = up /\ born' = born /\ tip'.id = Len(chain) + 1
      BY <2>2 DEF CommitRound
    <3>2. chain'[Len(chain) + 1].prev = IF Len(chain) = born THEN 0 ELSE Len(chain)
      BY <2>0, <2>2, <3>1, ChainGrows DEF BuildEternityHeader, LinkInv
    <3>3. ASSUME NEW j \in born + 1 .. Len(chain) + 1
          PROVE  chain'[j].prev = IF j = born + 1 THEN 0 ELSE j - 1
      <4>1. CASE j = Len(chain) + 1
        BY <2>0, <3>2, <4>1
      <4>2. CASE j # Len(chain) + 1
        <5>1. j \in born + 1 .. Len(chain) /\ j \in 1 .. Len(chain)
          BY <2>0, <4>2
        <5>2. QED
          BY <2>0, <2>2, <5>1, ChainGrows DEF LinkInv
      <4>3. QED
        BY <4>1, <4>2
    <3>4. chain'[1].prev = 0
      BY <2>0, <2>2, <3>2, ChainGrows DEF LinkInv
    <3>5. QED
      BY <2>0, <2>2, <3>1, <3>3, <3>4, ChainGrows DEF LinkInv
  <2>3. ASSUME NEW b \in ExtBundle, RecordCommitBundle(b)
        PROVE  LinkInv'
    <3>1. tip'.id = tip.id
      BY <2>0, <2>3 DEF RecordCommitBundle, TypeOK
    <3>2. QED
      BY <2>3, <3>1 DEF RecordCommitBundle, LinkInv
  <2>4. CASE UNCHANGED <<commitVars, rounds, lastCommitted>> /\ (up' => up)
    BY <2>4 DEF commitVars, LinkInv
  <2>5. QED
    BY <2>1, <2>2, <2>3, <2>4, HeaderSteps
<1>3. I => HeadersLinked
  <2> SUFFICES ASSUME I PROVE HeadersLinked
    OBVIOUS
  <2>1. TypeOK /\ born <= Len(chain)
    BY DEF TypeInv, LinkInv
  <2>5. ASSUME NEW k \in 2 .. Len(Headers) PROVE Headers[k].prev = born + k - 1
    <3>1. /\ k \in 2 .. Len(chain) - born /\ Headers[k] = chain[born + k]
          /\ Len(chain) \in Nat /\ born \in Nat
      BY <2>1, HeadersShape
    <3>2. born + k \in born + 1 .. Len(chain) /\ born + k # born + 1
      BY <3>1
    <3>3. QED
      BY <3>1, <3>2 DEF LinkInv
  <2>6. chain # <<>> => chain[1].prev = 0
    <3>1. chain \in Seq(Header) /\ (chain # <<>> => Len(chain) > 0)
      BY <2>1 DEF TypeOK
    <3>2. QED
      BY <3>1 DEF LinkInv
  <2>7. QED
    BY <2>5, <2>6 DEF HeadersLinked
<1>4. QED
  BY <1>1, <1>2, <1>3, PTL DEF Spec
-------------------------------------------------------------------------------
(***************************************************************************)
(* Heights.                                                                *)
(***************************************************************************)
\* From the header after `lo` on, the heights of c increase, up to `last`.
Rising(c, lo, last) ==
    /\ \A j \in lo + 1 .. Len(c) : c[j].height <= last
    /\ \A j, k \in lo + 1 .. Len(c) : j < k => c[j].height < c[k].height

\* A round covers at least one receipt, so its header is above the last one.
LEMMA RisingGrows ==
    ASSUME TypeOK, CommitRound, NEW lo \in Nat, lo <= Len(chain),
           Rising(chain, lo, lastCommitted)
    PROVE  Rising(chain', lo, lastCommitted')
<1> DEFINE n == Len(chain)
           to == Len(leaves)
<1>1. /\ n \in Nat /\ lastCommitted \in Nat /\ to \in Nat
      /\ \A j \in 1 .. n : chain[j].height \in Nat
  <2>1. chain \in Seq(Header) /\ lastCommitted \in Nat /\ leaves \in Seq(Receipt)
    BY DEF TypeOK
  <2>2. \A j \in 1 .. n : chain[j] \in Header
    BY <2>1
  <2>3. \A j \in 1 .. n : chain[j].height \in Nat
    BY <2>2 DEF Header
  <2>4. QED
    BY <2>1, <2>3
<1>2. lastCommitted < to /\ lastCommitted' = to
  BY <1>1 DEF CommitRound
<1>3. /\ Len(chain') = n + 1
      /\ chain'[n + 1].height = to
      /\ \A j \in 1 .. n : chain'[j] = chain[j]
  BY ChainGrows DEF BuildEternityHeader
<1> HIDE DEF n, to
<1>4. \A j \in lo + 1 .. n : /\ j \in 1 .. n /\ chain'[j] = chain[j]
                              /\ chain[j].height \in Nat
                              /\ chain[j].height <= lastCommitted
  BY <1>1, <1>3 DEF Rising, n
<1>5. \A j \in lo + 1 .. n : chain'[j].height < to
  BY <1>1, <1>2, <1>4
<1>6. \A j \in lo + 1 .. n + 1 : j = n + 1 \/ j \in lo + 1 .. n
  BY <1>1
<1>7. \A j \in lo + 1 .. n + 1 : chain'[j].height <= to
  BY <1>1, <1>2, <1>3, <1>4, <1>5, <1>6
<1>8. ASSUME NEW j \in lo + 1 .. n + 1, NEW k \in lo + 1 .. n + 1, j < k
      PROVE  chain'[j].height < chain'[k].height
  <2>1. j \in lo + 1 .. n
    BY <1>1, <1>8
  <2>2. CASE k = n + 1
    BY <1>3, <1>5, <2>1, <2>2
  <2>3. CASE k \in lo + 1 .. n
    <3>1. chain[j].height < chain[k].height
      BY <1>8, <2>1, <2>3 DEF Rising, n
    <3>2. QED
      BY <1>4, <2>1, <2>3, <3>1
  <2>4. QED
    BY <1>6, <2>2, <2>3
<1>9. QED
  BY <1>2, <1>3, <1>7, <1>8 DEF Rising

\* The ledger file holds the committed height.
LastKept == (CleanCrashes \/ ~ up) => LoadedLedger.last = lastCommitted

HeightInv == TypeInv /\ WorkersUp /\ Rising(chain, 0, lastCommitted) /\ LastKept

\* The heights of all headers ever published increase, restarts included, for every
\* environment in which no process dies inside a write, or after one that failed:
\* CommitRound saves the committed height before it returns, and loadLedger restores
\* it.  (A file torn by a crash breaks it: see the run EngineTornHeight.)
THEOREM HeightsIncrease ==
    ASSUME NoCrashes \/ CleanCrashes
    PROVE  Spec => []HeaderHeightsIncrease
<1>1. Init => HeightInv
  <2>1. ASSUME Init PROVE Rising(chain, 0, lastCommitted) /\ LastKept
    BY <2>1 DEF Init, Rising, LastKept, LoadedLedger, Readable
  <2>2. QED
    BY <2>1, InitType, InitUp DEF HeightInv
<1>2. HeightInv /\ [Next]_vars => HeightInv'
  <2> SUFFICES ASSUME HeightInv, [Next]_vars
               PROVE  (Rising(chain, 0, lastCommitted) /\ LastKept)'
    BY NextType, NextUp DEF HeightInv
  <2> USE DEF HeightInv
  <2>0. TypeOK
    BY DEF TypeInv
  <2>1. LastKept'
    <3>1. CASE UNCHANGED vars
      BY <3>1 DEF vars, LastKept, LoadedLedger, Readable
    <3>2. CASE Next /\ NoCrashes /\ ~ CleanCrashes
      BY <3>2, StaysUp DEF LastKept
    <3>3. CASE Next /\ CleanCrashes
      <4>1. CASE Boot
        BY <3>3, <4>1 DEF Boot, LastKept, LoadedLedger, Readable
      <4>2. CASE CommitRound
        BY <3>3, <4>2, CommitSaves DEF LastKept
      <4>3. ASSUME NEW w \in Worker, StoreReceipt(w) PROVE LastKept'
        <5>1. lastCommitted' = lastCommitted
          BY <4>3 DEF StoreReceipt
        <5>2. QED
          BY <3>3, <4>3, <5>1, StoreSaves DEF LastKept
      <4>4. ~ CrashInSaveLedger
        BY <3>3 DEF CleanCrashes, CrashInSaveLedger
      <4>5. CASE UNCHANGED <<ledgerFile, lastCommitted>>
        BY <3>3, <4>5 DEF LastKept, LoadedLedger, Readable
      <4>6. QED
        BY <3>3, <4>1, <4>2, <4>3, <4>4, <4>5
           DEF Next, Step, Submit, Apply, TakeSnapshot, OpenStateFile, WriteStateFile,
               SaveStateFails, ReadAccount, RecordCommitBundle, Crash, Die, ledgerVars
    <3>4. QED
      BY <3>1, <3>2, <3>3
  <2>2. Rising(chain, 0, lastCommitted)'
    <3>1. CASE Boot
      BY <3>1 DEF Boot, LastKept
    <3>2. CASE CommitRound
      BY <2>0, <3>2, RisingGrows DEF TypeOK
    <3>3. CASE UNCHANGED <<chain, lastCommitted>>
      BY <3>3
    <3>4. QED
      BY <3>1, <3>2, <3>3, HeaderSteps DEF RecordCommitBundle, commitVars, ledgerVars
  <2>3. QED
    BY <2>1, <2>2
<1>3. HeightInv => HeaderHeightsIncrease
  <2> SUFFICES ASSUME HeightInv, NEW k \in 2 .. Len(chain)
               PROVE  chain[k - 1].height < chain[k].height
    BY DEF HeaderHeightsIncrease
  <2>1. Len(chain) \in Nat
    BY DEF HeightInv, TypeInv, TypeOK
  <2>2. k \in 0 + 1 .. Len(chain) /\ k - 1 \in 0 + 1 .. Len(chain) /\ k - 1 < k
    BY <2>1
  <2>3. QED
    BY <2>2 DEF HeightInv, Rising
<1>4. QED
  BY <1>1, <1>2, <1>3, PTL DEF Spec
-------------------------------------------------------------------------------
(***************************************************************************)
(* The commit feed.                                                        *)
(***************************************************************************)
\* Within the life of a process heights increase whatever happens to the files.
ProcessInv ==
    /\ TypeInv
    /\ born <= Len(chain)
    /\ up => Rising(chain, born, lastCommitted)

\* There is no header before the first process.
LEMMA InitProcess == Init => ProcessInv
<1> SUFFICES ASSUME Init PROVE ProcessInv
  OBVIOUS
<1>1. born <= Len(chain) /\ Rising(chain, born, lastCommitted)
  BY DEF Init, Rising
<1>2. QED
  BY <1>1, InitType DEF ProcessInv

\* Every step keeps the heights of a process rising.
LEMMA NextProcess == ProcessInv /\ [Next]_vars => ProcessInv'
<1> SUFFICES ASSUME ProcessInv, [Next]_vars
             PROVE  (born <= Len(chain) /\ (up => Rising(chain, born, lastCommitted)))'
  BY NextType DEF ProcessInv
<1>0. TypeOK /\ Len(chain) \in Nat /\ born \in Nat /\ born <= Len(chain)
  BY DEF ProcessInv, TypeInv, TypeOK
<1>1. CASE Boot
  <2>1. born' = Len(chain) /\ chain' = chain
    BY <1>1 DEF Boot
  <2>2. QED
    BY <1>0, <2>1 DEF Rising
<1>2. CASE CommitRound
  <2>1. up /\ born' = born
    BY <1>2 DEF CommitRound
  <2>2. Rising(chain', born, lastCommitted')
    BY <1>0, <1>2, <2>1, RisingGrows DEF ProcessInv
  <2>3. QED
    BY <1>0, <1>2, <2>1, <2>2, ChainGrows
<1>3. CASE UNCHANGED <<chain, born, lastCommitted>> /\ (up' => up)
  BY <1>3 DEF ProcessInv
<1>4. QED
  BY <1>1, <1>2, <1>3, HeaderSteps DEF RecordCommitBundle, commitVars, ledgerVars

\* How many records a full feed drops before it takes one.
Dropped == IF Len(feed) >= FeedCap THEN 1 ELSE 0

\* What Feed does to the feed.
LEMMA FeedGrows ==
    ASSUME TypeOK, NEW rec \in [height : Nat, root : Nat, bundle : Nat]
    PROVE  /\ Len(feed) \in Nat /\ Len(feed) - Dropped \in Nat
           /\ Len(Feed(rec)) = Len(feed) - Dropped + 1
           /\ \A i \in 1 .. Len(feed) - Dropped : Feed(rec)[i] = feed[i + Dropped]
           /\ Feed(rec)[Len(feed) - Dropped + 1] = rec
<1> DEFINE R == [height : Nat, root : Nat, bundle : Nat]
<1>1. feed \in Seq(R) /\ Len(feed) \in Nat /\ FeedCap \in Nat \ {0} /\ rec \in R
  BY EngineAssumption DEF TypeOK
<1> HIDE DEF R
<1>2. CASE Len(feed) >= FeedCap
  <2>1. feed # <<>>
    BY <1>1, <1>2
  <2>2. /\ Tail(feed) \in Seq(R) /\ Len(Tail(feed)) = Len(feed) - 1
        /\ \A i \in 1 .. Len(feed) - 1 : Tail(feed)[i] = feed[i + 1]
    BY <1>1, <2>1
  <2>3. Dropped = 1 /\ Feed(rec) = Append(Tail(feed), rec)
    BY <1>2 DEF Dropped, Feed
  <2>4. QED
    BY <1>1, <2>1, <2>2, <2>3
<1>3. CASE ~ (Len(feed) >= FeedCap)
  <2>1. Dropped = 0 /\ Feed(rec) = Append(feed, rec)
    BY <1>3 DEF Dropped, Feed
  <2>2. QED
    BY <1>1, <2>1
<1>4. QED
  BY <1>2, <1>3

\* CommitBundleAt returns the bundle of the newest record of the height.
LEMMA NewestBundle ==
    ASSUME TypeOK, NEW h, NEW i \in BundlesAt(h), \A j \in BundlesAt(h) : j <= i
    PROVE  CommitBundleAt(h) = feed[i].bundle
<1>1. BundlesAt(h) \subseteq Nat
  BY DEF BundlesAt
<1>2. \A j \in BundlesAt(h) : (\A k \in BundlesAt(h) : k <= j) => j = i
  BY <1>1
<1>3. QED
  BY <1>2 DEF CommitBundleAt

\* The newest record is the tip, and without bundles from outside the feed is the
\* end of the headers, in their order.
FeedInv ==
    up => /\ tip.ready => /\ feed # <<>>
                          /\ feed[Len(feed)].height = tip.height
                          /\ feed[Len(feed)].bundle = tip.root
          /\ ExtBundle = {} =>
               /\ Len(feed) <= Len(chain) - born
               /\ Len(feed) = Len(chain) - born \/ Len(feed) >= FeedCap
               /\ \A i \in 1 .. Len(feed) :
                    /\ feed[i].height = chain[Len(chain) - Len(feed) + i].height
                    /\ feed[i].bundle = chain[Len(chain) - Len(feed) + i].commitRoot

\* Only NewEngine, CommitRound and RecordCommitBundle touch the feed.
LEMMA NextFeed == ProcessInv /\ FeedInv /\ [Next]_vars => FeedInv'
<1> SUFFICES ASSUME ProcessInv, FeedInv, [Next]_vars PROVE FeedInv'
  OBVIOUS
<1>0. /\ TypeOK /\ Len(chain) \in Nat /\ born \in Nat /\ born <= Len(chain)
      /\ height \in Nat /\ FeedCap \in Nat \ {0}
  BY EngineAssumption DEF ProcessInv, TypeInv, TypeOK
<1>1. CASE Boot
  <2>1. feed' = <<>> /\ tip' = NoTip /\ born' = Len(chain) /\ chain' = chain
    BY <1>1 DEF Boot
  <2>2. QED
    BY <1>0, <2>1 DEF FeedInv, NoTip
<1>2. CASE CommitRound
  <2> DEFINE to == Len(leaves)
             n == Len(rounds) + 1
             rec == [height |-> to, root |-> n, bundle |-> n]
             old == Len(feed) - Dropped
  <2>1. rec \in [height : Nat, root : Nat, bundle : Nat]
    BY DEF ProcessInv, TypeInv, TypeOK
  <2>2. /\ up /\ feed' = Feed(rec) /\ born' = born
        /\ tip' = [id |-> Len(chain) + 1, root |-> n, height |-> to, ready |-> TRUE]
    BY <1>2 DEF CommitRound
  <2>3. /\ Len(feed) \in Nat /\ old \in Nat
        /\ Len(feed') = old + 1
        /\ \A i \in 1 .. old : feed'[i] = feed[i + Dropped]
        /\ feed'[old + 1] = rec
    BY <1>0, <2>1, <2>2, FeedGrows
  <2>4. /\ Len(chain') = Len(chain) + 1
        /\ \A j \in 1 .. Len(chain) : chain'[j] = chain[j]
        /\ chain'[Len(chain) + 1].height = to
        /\ chain'[Len(chain) + 1].commitRoot = n
    BY <1>0, <1>2, ChainGrows DEF BuildEternityHeader
  <2>5. Dropped \in {0, 1} /\ (Dropped = 1 <=> Len(feed) >= FeedCap)
    BY DEF Dropped
  <2>6. rec.height = to /\ rec.bundle = n
    OBVIOUS
  <2>7. tip'.height = to /\ tip'.root = n
    BY <2>2
  <2> HIDE DEF to, n, rec, old
  <2>8. /\ feed' # <<>>
        /\ feed'[Len(feed')].height = tip'.height
        /\ feed'[Len(feed')].bundle = tip'.root
    BY <2>3, <2>6, <2>7
  <2>9. ASSUME ExtBundle = {}
        PROVE  /\ Len(feed') <= Len(chain') - born'
               /\ Len(feed') = Len(chain') - born' \/ Len(feed') >= FeedCap
               /\ \A i \in 1 .. Len(feed') :
                    /\ feed'[i].height = chain'[Len(chain') - Len(feed') + i].height
                    /\ feed'[i].bundle = chain'[Len(chain') - Len(feed') + i].commitRoot
    <3>1. /\ Len(feed) <= Len(chain) - born
          /\ Len(feed) = Len(chain) - born \/ Len(feed) >= FeedCap
          /\ \A i \in 1 .. Len(feed) :
               /\ feed[i].height = chain[Len(chain) - Len(feed) + i].height
               /\ feed[i].bundle = chain[Len(chain) - Len(feed) + i].commitRoot
      BY <2>2, <2>9 DEF FeedInv
    <3>2. /\ Len(feed') <= Len(chain') - born'
          /\ Len(feed') = Len(chain') - born' \/ Len(feed') >= FeedCap
      <4>1. CASE Len(feed) >= FeedCap
        <5>1. Dropped = 1
          BY <2>5, <4>1
        <5>2. Len(feed') = Len(feed)
          BY <2>3, <5>1 DEF old
        <5>3. QED
          BY <1>0, <2>2, <2>3, <2>4, <3>1, <4>1, <5>2
      <4>2. CASE ~ (Len(feed) >= FeedCap)
        <5>1. Dropped = 0
          BY <2>5, <4>2
        <5>2. Len(feed') = Len(feed) + 1
          BY <2>3, <5>1 DEF old
        <5>3. QED
          BY <1>0, <2>2, <2>3, <2>4, <3>1, <4>2, <5>2
      <4>3. QED
        BY <4>1, <4>2
    <3>3. ASSUME NEW i \in 1 .. old + 1
          PROVE  /\ feed'[i].height = chain'[Len(chain') - Len(feed') + i].height
                 /\ feed'[i].bundle = chain'[Len(chain') - Len(feed') + i].commitRoot
      <4>1. CASE i = old + 1
        <5>1. Len(chain') - Len(feed') + i = Len(chain) + 1
          BY <1>0, <2>3, <2>4, <4>1
        <5>2. QED
          BY <2>3, <2>4, <2>6, <4>1, <5>1
      <4>2. CASE i # old + 1
        <5> DEFINE j == i + Dropped
                   k == Len(chain) - Len(feed) + j
        <5>1. i \in 1 .. old /\ j \in 1 .. Len(feed)
          BY <2>3, <2>5, <4>2 DEF old
        <5>2. Len(chain') - Len(feed') + i = k
          BY <1>0, <2>3, <2>4, <2>5 DEF old
        <5>3. k \in 1 .. Len(chain)
          BY <1>0, <2>3, <3>1, <5>1
        <5>4. feed'[i] = feed[j] /\ chain'[k] = chain[k]
          BY <2>3, <2>4, <5>1, <5>3
        <5>5. feed[j].height = chain[k].height /\ feed[j].bundle = chain[k].commitRoot
          BY <3>1, <5>1
        <5>6. QED
          BY <5>2, <5>4, <5>5
      <4>3. QED
        BY <4>1, <4>2
    <3>4. QED
      BY <2>3, <3>2, <3>3
  <2>10. QED
    BY <2>8, <2>9 DEF FeedInv
<1>3. ASSUME NEW b \in ExtBundle, RecordCommitBundle(b)
      PROVE  FeedInv'
  <2> DEFINE rec == [height |-> height, root |-> b, bundle |-> b]
             old == Len(feed) - Dropped
  <2>1. rec \in [height : Nat, root : Nat, bundle : Nat]
    BY <1>0, EngineAssumption
  <2>2. feed' = Feed(rec)
    BY <1>3 DEF RecordCommitBundle
  <2>3. tip'.height = height /\ tip'.root = b
    BY <1>0, <1>3 DEF RecordCommitBundle, TypeOK
  <2>4. old \in Nat /\ Len(feed') = old + 1 /\ feed'[old + 1] = rec
    BY <1>0, <2>1, <2>2, FeedGrows
  <2>5. rec.height = height /\ rec.bundle = b
    OBVIOUS
  <2> HIDE DEF rec, old
  <2>6. /\ feed' # <<>>
        /\ feed'[Len(feed')].height = tip'.height
        /\ feed'[Len(feed')].bundle = tip'.root
    BY <2>3, <2>4, <2>5
  <2>7. QED
    BY <2>6 DEF FeedInv
<1>4. CASE UNCHANGED <<commitVars, rounds, lastCommitted>> /\ (up' => up)
  BY <1>4 DEF commitVars, FeedInv
<1>5. QED
  BY <1>1, <1>2, <1>3, <1>4, HeaderSteps

\* Whatever a full feed dropped and whatever bundles were recorded from outside, the
\* latest commit root is served with its bundle; without bundles from outside the last
\* FeedCap headers are too (CommitBundleAt, LatestCommitRoot).
THEOREM RecentBundlesAreServed == Spec => []RecentBundlesServed
<1>1. Init => ProcessInv /\ FeedInv
  BY InitProcess DEF Init, FeedInv
<1>2. ProcessInv /\ FeedInv /\ [Next]_vars => (ProcessInv /\ FeedInv)'
  BY NextProcess, NextFeed
<1>3. ProcessInv /\ FeedInv => RecentBundlesServed
  <2> SUFFICES ASSUME ProcessInv, FeedInv, up PROVE RecentBundlesServed
    BY DEF RecentBundlesServed
  <2>0. /\ TypeOK /\ Len(chain) \in Nat /\ born \in Nat /\ born <= Len(chain)
        /\ Len(feed) \in Nat /\ FeedCap \in Nat
        /\ Rising(chain, born, lastCommitted)
    BY EngineAssumption DEF ProcessInv, TypeInv, TypeOK
  <2>1. ASSUME tip.ready
        PROVE  BundlesAt(tip.height) # {} /\ CommitBundleAt(tip.height) = tip.root
    <3>1. /\ feed # <<>> /\ feed[Len(feed)].height = tip.height
          /\ feed[Len(feed)].bundle = tip.root
      BY <2>1 DEF FeedInv
    <3>2. Len(feed) \in 1 .. Len(feed)
      BY <2>0, <3>1 DEF TypeOK
    <3>3. /\ Len(feed) \in BundlesAt(tip.height)
          /\ \A j \in BundlesAt(tip.height) : j <= Len(feed)
      BY <2>0, <3>1, <3>2 DEF BundlesAt
    <3>4. QED
      BY <2>0, <3>1, <3>3, NewestBundle
  <2>2. ASSUME ExtBundle = {}, NEW k \in 1 .. Len(Headers), k > Len(Headers) - FeedCap
        PROVE  /\ BundlesAt(Headers[k].height) # {}
               /\ CommitBundleAt(Headers[k].height) = Headers[k].commitRoot
    <3> DEFINE c == born + k
               i == c - (Len(chain) - Len(feed))
    <3>1. /\ Len(Headers) = Len(chain) - born /\ Headers[k] = chain[c]
      BY <2>0, HeadersShape
    <3>2. /\ Len(feed) <= Len(chain) - born
          /\ Len(feed) = Len(chain) - born \/ Len(feed) >= FeedCap
          /\ \A j \in 1 .. Len(feed) :
               /\ feed[j].height = chain[Len(chain) - Len(feed) + j].height
               /\ feed[j].bundle = chain[Len(chain) - Len(feed) + j].commitRoot
      BY <2>2 DEF FeedInv
    <3>3. i \in 1 .. Len(feed) /\ Len(chain) - Len(feed) + i = c
      BY <2>0, <2>2, <3>1, <3>2
    <3>4. feed[i].height = Headers[k].height /\ feed[i].bundle = Headers[k].commitRoot
      BY <3>1, <3>2, <3>3
    <3>5. \A j \in BundlesAt(Headers[k].height) : j = i
      <4> SUFFICES ASSUME NEW j \in 1 .. Len(feed), feed[j].height = Headers[k].height
                   PROVE  j = i
        BY DEF BundlesAt
      <4> DEFINE d == Len(chain) - Len(feed) + j
      <4>1. /\ d \in born + 1 .. Len(chain) /\ c \in born + 1 .. Len(chain)
        BY <2>0, <3>2, <3>3
      <4>2. chain[d].height = chain[c].height
        BY <3>1, <3>2
      <4>3. chain \in Seq(Header) /\ d \in 1 .. Len(chain) /\ c \in 1 .. Len(chain)
        BY <2>0, <4>1 DEF TypeOK
      <4>4. chain[c].height \in Nat /\ chain[d].height \in Nat
        <5>1. chain[c] \in Header /\ chain[d] \in Header
          BY <4>3
        <5>2. QED
          BY <5>1 DEF Header
      <4>5. ~ (d < c) /\ ~ (c < d)
        BY <2>0, <4>1, <4>2, <4>4 DEF Rising
      <4>6. QED
        BY <2>0, <3>3, <4>5
    <3>6. i \in BundlesAt(Headers[k].height) /\ \A j \in BundlesAt(Headers[k].height) : j <= i
      BY <2>0, <3>3, <3>4, <3>5 DEF BundlesAt
    <3>7. QED
      BY <2>0, <3>4, <3>6, NewestBundle
  <2>3. QED
    BY <2>1, <2>2 DEF RecentBundlesServed
<1>4. QED
  BY <1>1, <1>2, <1>3, PTL DEF Spec
-------------------------------------------------------------------------------
(***************************************************************************)
(* The supply history.                                                     *)
(***************************************************************************)
\* What the schedule emits at each height, and for the heights after lo up to hi.
Schedule == [h \in Nat |-> BlockMintAt(h)]
Em(lo, hi) == Sum(Schedule, lo + 1 .. hi)

\* An emission is a natural number.
LEMMA EmType ==
    ASSUME NEW lo \in Nat, NEW hi \in Nat
    PROVE  /\ IsFiniteSet(lo + 1 .. hi)
           /\ \A h \in lo + 1 .. hi : Schedule[h] \in Nat
           /\ Em(lo, hi) \in Nat
<1>1. IsFiniteSet(lo + 1 .. hi)
  BY FS_Interval
<1>2. \A h \in lo + 1 .. hi : h \in Nat
  OBVIOUS
<1>3. \A h \in lo + 1 .. hi : Schedule[h] \in Nat
  BY <1>2, BlockMintType DEF Schedule
<1>4. QED
  BY <1>1, <1>3, SumType DEF Em

\* The emission of a later height comes on top.
LEMMA EmNext ==
    ASSUME NEW lo \in Nat, NEW m \in Nat, NEW hi \in Nat, lo <= m, m < hi
    PROVE  Em(lo, m) + BlockMintAt(hi) <= Em(lo, hi)
<1> DEFINE S == lo + 1 .. hi
           T == lo + 1 .. m
           g == [h \in S |-> IF h \in T \cup {hi} THEN Schedule[h] ELSE 0]
<1>1. /\ T \cup {hi} \in SUBSET S /\ hi \notin T /\ hi \in S
  OBVIOUS
<1>2. IsFiniteSet(S) /\ IsFiniteSet(T) /\ \A h \in S : Schedule[h] \in Nat
  BY EmType
<1>3. /\ \A h \in S : g[h] \in Int /\ Schedule[h] \in Int /\ g[h] <= Schedule[h]
      /\ \A h \in S \ (T \cup {hi}) : g[h] = 0
      /\ \A h \in T \cup {hi} : g[h] = Schedule[h]
  BY <1>1, <1>2
<1>4. Em(lo, m) = Sum(Schedule, T) /\ Em(lo, hi) = Sum(Schedule, S)
  BY DEF Em
<1>5. Em(lo, m) \in Nat /\ Schedule[hi] = BlockMintAt(hi) /\ Schedule[hi] \in Nat
  BY <1>1, <1>2, EmType DEF Schedule
<1> HIDE DEF S, T, g
<1>6. Sum(g, S) <= Sum(Schedule, S)
  BY <1>2, <1>3, SumLe
<1>7. Sum(g, S) = Sum(g, T \cup {hi})
  BY <1>1, <1>2, <1>3, SumSupport
<1>8. Sum(g, T \cup {hi}) = g[hi] + Sum(g, T)
  BY <1>1, <1>2, <1>3, SumAdd
<1>9. Sum(g, T) = Sum(Schedule, T)
  BY <1>2, <1>3, SumEqual
<1>10. g[hi] = Schedule[hi]
  BY <1>3
<1>11. QED
  BY <1>4, <1>5, <1>6, <1>7, <1>8, <1>9, <1>10

\* The sum the property speaks of.
LEMMA EmittedIsSum ==
    ASSUME NEW lo \in Nat, NEW hi \in Nat
    PROVE  Emitted(lo, hi) = Em(lo, hi)
<1> DEFINE f == Schedule
           D == lo + 1 .. hi
           J(h) == h = [s \in SUBSET D |->
                          IF s = {} THEN 0
                          ELSE BlockMintAt(First(s)) + h[s \ {First(s)}]]
           it == CHOOSE h : J(h)
<1>1. IsFiniteSet(D)
  BY FS_Interval
<1>2. ASSUME NEW h PROVE J(h) <=> IsSum(h, f, D)
  <2>0. \A x \in D : x \in Nat
    OBVIOUS
  <2>1. \A s \in SUBSET D : s # {} => f[First(s)] = BlockMintAt(First(s))
    <3> HIDE DEF D
    <3>1. \A s \in SUBSET D : s # {} => First(s) \in Nat
      BY <2>0, FirstType
    <3>2. QED
      BY <3>1 DEF Schedule
  <2> HIDE DEF f, D
  <2>2. \A s \in SUBSET D :
          SumAt(h, f, s) = IF s = {} THEN 0
                           ELSE BlockMintAt(First(s)) + h[s \ {First(s)}]
    BY <2>1 DEF SumAt
  <2>3. QED
    BY <2>2 DEF IsSum
<1>3. \E g : IsSum(g, f, D)
  BY <1>1, SumExists
<1>4. J(it)
  <2>1. \E g : J(g)
    BY <1>2, <1>3
  <2>2. QED
    BY <2>1
<1>5. IsSum(it, f, D)
  BY <1>2, <1>4
<1>6. Emitted(lo, hi) = it[D]
  BY DEF Emitted, SumOver, MapThenSumSet, MapThenFoldSet, First
<1>7. QED
  BY <1>1, <1>5, <1>6, SumUnfold DEF Em

\* u is a supply that can follow s: at a later height, with the mint of that height and
\* no more than the emission since.
Follows(s, u) ==
    s.last < u.last => /\ s.total + BlockMintAt(u.last) <= u.total
                       /\ u.total <= s.total + Em(s.last, u.last)

\* The supplies of the process in memory and in its history: each within the schedule, any
\* two of different heights one after the other, the one in memory the newest.
SupplyInv ==
    LET S == supplyLog \cup {supply}
    IN  /\ up => supply.last <= lastCommitted
        /\ \A s \in S : s.total <= Em(0, s.last) /\ s.last <= supply.last
        /\ \A s \in S : s.last = supply.last => s.total = supply.total
        /\ \A s, u \in S : Follows(s, u)

\* One more mint, at a later height, keeps to the schedule.
LEMMA MintFollows ==
    ASSUME NEW s \in Supply, NEW u \in Supply, NEW to \in Nat, u.last < to,
           s.last <= u.last, s.last = u.last => s.total = u.total, Follows(s, u),
           u.total <= Em(0, u.last), NEW n, n = Minted(u, to)
    PROVE  /\ n.last = to /\ n.total <= Em(0, to)
           /\ Follows(s, n) /\ ~ n.last < s.last
<1>1. /\ s.last \in Nat /\ u.last \in Nat /\ s.total \in Nat /\ u.total \in Nat
      /\ BlockMintAt(to) \in Nat /\ BlockMintAt(u.last) \in Nat
  BY BlockMintType DEF Supply
<1>2. n.last = to /\ n.total = u.total + BlockMintAt(to)
  BY DEF Minted
<1>3. Em(0, u.last) + BlockMintAt(to) <= Em(0, to)
  BY <1>1, EmNext
<1>4. Em(s.last, u.last) + BlockMintAt(to) <= Em(s.last, to)
  BY <1>1, EmNext
<1>5. /\ Em(0, u.last) \in Nat /\ Em(0, to) \in Nat
      /\ Em(s.last, u.last) \in Nat /\ Em(s.last, to) \in Nat
  BY <1>1, EmType
<1>6. n.total <= Em(0, to)
  BY <1>1, <1>2, <1>3, <1>5
<1>7. CASE s.last = u.last
  BY <1>1, <1>2, <1>4, <1>5, <1>6, <1>7 DEF Follows
<1>8. CASE s.last < u.last
  BY <1>1, <1>2, <1>4, <1>5, <1>6, <1>8 DEF Follows
<1>9. QED
  BY <1>1, <1>2, <1>6, <1>7, <1>8

\* Every step keeps the supplies in line with the schedule.
LEMMA NextSupply == TypeInv /\ SupplyInv /\ [Next]_vars => SupplyInv'
<1> SUFFICES ASSUME TypeInv, SupplyInv, [Next]_vars PROVE SupplyInv'
  OBVIOUS
<1>0. /\ lastCommitted \in Nat /\ Len(leaves) \in Nat
      /\ supply \in Supply /\ supplyLog \subseteq Supply
  BY DEF TypeInv, TypeOK
<1>1. CASE Boot
  <2>1. supply' = NoSupply /\ supplyLog' = {} /\ lastCommitted' \in Nat
    BY <1>1, NextType DEF Boot, TypeInv, TypeOK
  <2>2. Em(0, 0) \in Nat
    BY EmType
  <2>3. QED
    BY <2>1, <2>2 DEF SupplyInv, NoSupply, Follows
<1>2. CASE CommitRound
  <2>1. PICK n : n = Minted(supply, Len(leaves))
    OBVIOUS
  <2>2. /\ up /\ lastCommitted < Len(leaves) /\ lastCommitted' = Len(leaves)
        /\ supply' = n
        /\ supplyLog' = {u \in supplyLog : u.last # Len(leaves)} \cup {n}
    BY <1>0, <1>2, <2>1 DEF CommitRound, Mint, PersistSupplyState
  <2>3. supply.last < Len(leaves) /\ supply.last \in Nat
    BY <1>0, <2>2 DEF SupplyInv, Supply
  <2>4. ASSUME NEW s \in supplyLog
        PROVE  /\ n.last = Len(leaves) /\ n.total <= Em(0, Len(leaves))
               /\ Follows(s, n) /\ s.last < n.last /\ s.last \in Nat
    <3>1. s \in Supply /\ s.last \in Nat
      BY <1>0 DEF Supply
    <3>2. /\ s.last <= supply.last /\ (s.last = supply.last => s.total = supply.total)
          /\ Follows(s, supply) /\ supply.total <= Em(0, supply.last)
      BY DEF SupplyInv
    <3>3. QED
      BY <1>0, <2>1, <2>3, <3>1, <3>2, MintFollows
  <2>5. n.last = Len(leaves) /\ n.total <= Em(0, Len(leaves))
    <3>1. supply.total <= Em(0, supply.last) /\ Follows(supply, supply)
      BY DEF SupplyInv
    <3>2. QED
      BY <1>0, <2>1, <2>3, <3>1, MintFollows
  <2>6. supplyLog' \cup {supply'} \subseteq supplyLog \cup {n}
    BY <2>2
  <2>7. \A s \in supplyLog : s.total <= Em(0, s.last)
    BY DEF SupplyInv
  <2>8. \A s, u \in supplyLog : Follows(s, u)
    BY DEF SupplyInv
  <2>9. ASSUME NEW s \in supplyLog \cup {n}, NEW u \in supplyLog \cup {n}
        PROVE  /\ s.total <= Em(0, s.last) /\ s.last <= n.last
               /\ s.last = n.last => s.total = n.total
               /\ Follows(s, u)
    <3>1. CASE s = n /\ u = n
      BY <1>0, <2>5, <3>1 DEF Follows
    <3>2. CASE s \in supplyLog /\ u = n
      BY <1>0, <2>4, <2>7, <3>2
    <3>3. CASE s = n /\ u \in supplyLog
      BY <1>0, <2>4, <2>5, <3>3 DEF Follows
    <3>4. CASE s \in supplyLog /\ u \in supplyLog
      BY <1>0, <2>4, <2>7, <2>8, <3>4
    <3>5. QED
      BY <3>1, <3>2, <3>3, <3>4
  <2>10. QED
    BY <1>0, <2>2, <2>5, <2>6, <2>9 DEF SupplyInv
<1>3. CASE UNCHANGED <<supply, supplyLog, lastCommitted>> /\ (up' => up)
  BY <1>3 DEF SupplyInv
<1>4. QED
  BY <1>1, <1>2, <1>3, HeaderSteps DEF RecordCommitBundle, commitVars, ledgerVars

\* Through crashes, torn and failed writes, GET /supply/at never shows more than the
\* emission schedule allows, nor a mint lost or made twice between two heights it serves
\* (applyBlockMint, persistSupplyState, SupplyAt).
THEOREM SupplyKeepsToSchedule == Spec => []SupplyWithinSchedule
<1>1. Init => TypeInv /\ SupplyInv
  <2>1. ASSUME Init PROVE SupplyInv
    <3>1. Em(0, 0) \in Nat
      BY EmType
    <3>2. QED
      BY <2>1, <3>1 DEF Init, SupplyInv, NoSupply, Follows
  <2>2. QED
    BY <2>1, InitType
<1>2. TypeInv /\ SupplyInv /\ [Next]_vars => (TypeInv /\ SupplyInv)'
  BY NextType, NextSupply
<1>3. TypeInv /\ SupplyInv => SupplyWithinSchedule
  <2> SUFFICES ASSUME TypeInv, SupplyInv,
                      NEW h \in 0 .. Len(leaves), NEW r \in SupplyReply(h)
               PROVE  /\ r.state.total <= Emitted(0, h)
                      /\ \A g \in 0 .. h - 1 : \A q \in SupplyReply(g) :
                           /\ q.state.total + r.blockMint <= r.state.total
                           /\ r.state.total <= q.state.total + Emitted(g, h)
    BY DEF SupplyWithinSchedule
  <2>0. Len(leaves) \in Nat
    BY DEF TypeInv, TypeOK
  <2>1. ASSUME NEW g \in Nat, NEW q \in SupplyReply(g)
        PROVE  /\ q.state \in supplyLog \cup {supply} /\ q.state.last = g
               /\ q.blockMint = BlockMintAt(g)
    BY DEF SupplyReply, SupplyAt
  <2>2. /\ r.state \in supplyLog \cup {supply} /\ r.state.last = h
        /\ r.blockMint = BlockMintAt(h)
    BY <2>0, <2>1
  <2>3. r.state.total <= Emitted(0, h)
    BY <2>0, <2>2, EmittedIsSum DEF SupplyInv
  <2>4. ASSUME NEW g \in 0 .. h - 1, NEW q \in SupplyReply(g)
        PROVE  /\ q.state.total + r.blockMint <= r.state.total
               /\ r.state.total <= q.state.total + Emitted(g, h)
    <3>1. g \in Nat /\ h \in Nat /\ g < h
      BY <2>0
    <3>2. q.state \in supplyLog \cup {supply} /\ q.state.last = g
      BY <2>1, <3>1
    <3>3. Follows(q.state, r.state)
      BY <2>2, <3>2 DEF SupplyInv
    <3>4. Emitted(g, h) = Em(g, h)
      BY <3>1, EmittedIsSum
    <3>5. QED
      BY <2>2, <3>1, <3>2, <3>3, <3>4 DEF Follows
  <2>5. QED
    BY <2>3, <2>4
<1>4. QED
  BY <1>1, <1>2, <1>3, PTL DEF Spec
===============================================================================
