----------------------------- MODULE LedgerProofs -----------------------------
(***************************************************************************)
(* The receipts: what a restart rebuilds of them, what the rounds' roots   *)
(* commit to, and how they relate to the accounts.                         *)
(***************************************************************************)
EXTENDS EngineProofs

\* The receipts a sequence of receipts holds.
Held(q) == {q[i] : i \in 1 .. Len(q)}

\* loadLedger's sort has one outcome when each receipt carries its own position.
LEMMA OneHeightOrder ==
    ASSUME NEW q \in Seq(Receipt), \A i \in 1 .. Len(q) : q[i].height = i - 1,
           NEW s \in HeightOrders(Held(q))
    PROVE  s = q /\ Cardinality(Held(q)) = Len(q)
<1> DEFINE n == Len(q)
           D == 1 .. n
           R == Held(q)
<1>1. n \in Nat /\ IsFiniteSet(D) /\ Cardinality(D) = n
  <2>1. n \in Nat
    OBVIOUS
  <2>2. IsFiniteSet(1 .. n) /\ Cardinality(1 .. n) = IF 1 > n THEN 0 ELSE n - 1 + 1
    <3> HIDE DEF n
    <3>1. QED
      BY <2>1, FS_Interval
  <2>3. QED
    BY <2>1, <2>2
<1>2. q \in [D -> R] /\ (\A r \in R : \E i \in D : q[i] = r)
  <2>1. q = [i \in D |-> q[i]]
    OBVIOUS
  <2>2. QED
    BY <2>1 DEF Held
<1>3. \A i, j \in D : q[i] = q[j] => i = j
  <2>1. \A i, j \in D : i - 1 = j - 1 => i = j
    BY <1>1
  <2>2. QED
    BY <2>1
<1> HIDE DEF n, D, R
<1>4. q \in Surjection(D, R) /\ q \in Injection(D, R)
  BY <1>2, <1>3 DEF Surjection, Injection, IsInjective
<1>5. Cardinality(R) = n
  BY <1>1, <1>4, FS_Surjection
<1>6. /\ s \in [D -> R]
      /\ \A i, j \in D : i < j => s[i].height <= s[j].height
      /\ \A r \in R : \E i \in D : s[i] = r
  BY <1>5 DEF HeightOrders, D, R
<1>7. s \in Surjection(D, R)
  BY <1>6 DEF Surjection
<1>8. s \in Injection(D, R)
  BY <1>1, <1>5, <1>7, FS_Surjection
<1>9. \A i, j \in D : s[i] = s[j] => i = j
  BY <1>6, <1>8 DEF Injection, IsInjective
<1> DEFINE Bad == {i \in D : s[i] # q[i]}
<1>10. Bad = {}
  <2> SUFFICES ASSUME Bad # {} PROVE FALSE
    OBVIOUS
  <2>1. Bad \subseteq Nat
    BY <1>1 DEF D
  <2>2. PICK i \in Bad : \A m \in Bad : i <= m
    BY <2>1, NatMin
  <2>3. i \in D /\ s[i] # q[i]
    OBVIOUS
  <2>4. D \subseteq Int
    BY <1>1 DEF D
  <2>5. \A j \in D : j < i => s[j] = q[j]
    BY <2>2, <2>3, <2>4
  <2>6. PICK k \in D : s[k] = q[i]
    BY <1>2, <1>6, <2>3
  <2>7. ~ (k < i)
    BY <1>3, <2>3, <2>4, <2>5, <2>6
  <2>8. i < k
    <3>1. k # i
      BY <2>3, <2>6
    <3>2. i \in Int /\ k \in Int
      BY <2>3, <2>4
    <3>3. QED
      BY <2>7, <3>1, <3>2
  <2>9. PICK m \in D : s[i] = q[m]
    BY <1>2, <1>6, <2>3
  <2>10. q[i].height = i - 1 /\ q[m].height = m - 1
    BY <2>3 DEF D, n
  <2>11. m - 1 <= i - 1
    BY <1>6, <2>3, <2>6, <2>8, <2>9, <2>10
  <2>12. m < i
    <3>1. m # i
      BY <2>3, <2>9
    <3>2. i \in Int /\ m \in Int
      BY <2>3, <2>4
    <3>3. QED
      BY <2>11, <3>1, <3>2
  <2>13. s[m] = s[i]
    BY <2>5, <2>9, <2>12
  <2>14. m = i
    BY <1>9, <2>3, <2>13
  <2>15. QED
    BY <2>4, <2>12, <2>14
<1>11. \A i \in D : s[i] = q[i]
  BY <1>10
<1>12. s = q
  BY <1>2, <1>6, <1>11
<1>13. QED
  BY <1>5, <1>12 DEF n, R

\* A sequence is a prefix of itself and of itself extended.
LEMMA PrefixOfItself ==
    ASSUME NEW T, NEW q \in Seq(T)
    PROVE  IsPrefix(q, q)
BY DEF IsPrefix

\* A sequence is a prefix of itself with one element more.
LEMMA PrefixOfAppend ==
    ASSUME NEW T, NEW q \in Seq(T), NEW e \in T
    PROVE  IsPrefix(q, Append(q, e))
<1>1. /\ Append(q, e) \in Seq(T) /\ Len(Append(q, e)) = Len(q) + 1 /\ Len(q) \in Nat
      /\ \A i \in 1 .. Len(q) : Append(q, e)[i] = q[i]
  OBVIOUS
<1>2. SubSeq(q, 1, Len(q)) = SubSeq(Append(q, e), 1, Len(q))
  BY <1>1
<1>3. QED
  BY <1>1, <1>2 DEF IsPrefix
-------------------------------------------------------------------------------
(***************************************************************************)
(* What a restart rebuilds.                                                *)
(***************************************************************************)
\* Crashes fall between writes and no transfer is sent twice.
Orderly == CleanCrashes /\ SentOnce

\* The receipts map is keyed by the transfer.
KeyedByTx == \A t \in Transfer : receipts[t] # NoReceipt => receipts[t].tx = t

\* The ledger file is the ledger in memory, and each receipt carries its position.
Mirrored ==
    (Orderly \/ ~ up) =>
      /\ LoadedLedger.receipts = Stored
      /\ LoadedLedger.last = lastCommitted
      /\ LoadedLedger.rounds = rounds
      /\ Stored = Held(leaves)
      /\ \A i \in 1 .. Len(leaves) : leaves[i].height = i - 1

\* No two handlers have the same transfer, and none has one with a receipt.
NoDoubles ==
    Orderly => \A w \in Worker : pc[w] # "idle" =>
                 /\ receipts[txOf[w]] = NoReceipt
                 /\ \A v \in Worker : pc[v] # "idle" /\ v # w => txOf[v] # txOf[w]

LedgerInv == TypeInv /\ WorkersUp /\ KeyedByTx /\ Mirrored /\ NoDoubles

\* The ledger starts empty.
LEMMA InitLedger == Init => LedgerInv
<1> SUFFICES ASSUME Init PROVE LedgerInv
  OBVIOUS
<1>1. KeyedByTx /\ NoDoubles
  BY DEF Init, KeyedByTx, NoDoubles
<1>2. Stored = {} /\ leaves = <<>> /\ Held(leaves) = {}
  BY DEF Init, Stored, Held
<1>3. Mirrored
  BY <1>2 DEF Init, Mirrored, LoadedLedger, Readable
<1>4. QED
  BY <1>1, <1>3, InitType, InitUp DEF LedgerInv

\* A restart rebuilds the receipts map of the dead process, if the file holds its values.
LEMMA BootReceipts ==
    ASSUME TypeInv, KeyedByTx, LoadedLedger.receipts = Stored, Boot
    PROVE  receipts' = receipts
<1>1. receipts' = [t \in Transfer |->
                     IF \E r \in Stored : r.tx = t THEN CHOOSE r \in Stored : r.tx = t
                     ELSE NoReceipt]
  BY DEF Boot
<1>2. ASSUME NEW t \in Transfer PROVE receipts'[t] = receipts[t]
  <2>1. \A r \in Stored : r.tx = t => r = receipts[t]
    BY DEF KeyedByTx, Stored
  <2>2. receipts[t] # NoReceipt => receipts[t] \in Stored /\ receipts[t].tx = t
    BY DEF KeyedByTx, Stored
  <2>3. CASE receipts[t] = NoReceipt
    <3>1. ~ \E r \in Stored : r.tx = t
      <4> SUFFICES ASSUME NEW r \in Stored, r.tx = t PROVE FALSE
        OBVIOUS
      <4>1. r = NoReceipt
        BY <2>1, <2>3
      <4>2. QED
        BY <4>1 DEF Stored
    <3>2. QED
      BY <1>1, <2>3, <3>1
  <2>4. CASE receipts[t] # NoReceipt
    BY <1>1, <2>1, <2>2, <2>4
  <2>5. QED
    BY <2>3, <2>4
<1>3. /\ receipts \in [Transfer -> Receipt \cup {NoReceipt}]
      /\ receipts' \in [Transfer -> Receipt \cup {NoReceipt}]
  BY BootType DEF TypeInv, TypeOK
<1>4. QED
  BY <1>2, <1>3

\* A restart rebuilds the receipts, their order, the rounds and the committed height
\* that the dead process had.
LEMMA BootRebuilds ==
    ASSUME LedgerInv, Boot
    PROVE  /\ leaves' = leaves /\ receipts' = receipts
           /\ rounds' = rounds /\ lastCommitted' = lastCommitted
<1>1. /\ LoadedLedger.receipts = Stored /\ LoadedLedger.last = lastCommitted
      /\ LoadedLedger.rounds = rounds /\ Stored = Held(leaves)
      /\ \A i \in 1 .. Len(leaves) : leaves[i].height = i - 1
  BY DEF LedgerInv, Boot, Mirrored
<1>2. leaves \in Seq(Receipt) /\ receipts \in [Transfer -> Receipt \cup {NoReceipt}]
  BY DEF LedgerInv, TypeInv, TypeOK
<1>3. leaves' \in HeightOrders(Held(leaves))
  BY <1>1 DEF Boot
<1>4. leaves' = leaves
  BY <1>1, <1>2, <1>3, OneHeightOrder
<1>5. receipts' = receipts
  BY <1>1, BootReceipts DEF LedgerInv
<1>6. QED
  BY <1>1, <1>4, <1>5 DEF Boot

\* What StoreReceipt does to the receipts.
LEMMA StoreAppends ==
    ASSUME TypeInv, NEW w \in Worker, StoreReceipt(w)
    PROVE  /\ leaves \in Seq(Receipt) /\ leaves' \in Seq(Receipt)
           /\ Len(leaves) \in Nat /\ Len(leaves') = Len(leaves) + 1
           /\ \A i \in 1 .. Len(leaves) : leaves'[i] = leaves[i]
           /\ leaves'[Len(leaves) + 1].tx = txOf[w]
           /\ leaves'[Len(leaves) + 1].status = status[w]
           /\ leaves'[Len(leaves) + 1].height = Len(leaves)
           /\ Held(leaves') = Held(leaves) \cup {leaves'[Len(leaves) + 1]}
           /\ receipts' = [receipts EXCEPT ![txOf[w]] = leaves'[Len(leaves) + 1]]
           /\ txOf[w] \in Transfer
<1> DEFINE r == [tx |-> txOf[w], status |-> status[w], height |-> Len(leaves)]
<1>1. txOf[w] \in Transfer
  BY DEF StoreReceipt, TypeInv, WorkerShape
<1>2. leaves \in Seq(Receipt) /\ leaves' \in Seq(Receipt)
  BY StoreReceiptType DEF TypeInv, TypeOK
<1>3. leaves' = Append(leaves, r) /\ receipts' = [receipts EXCEPT ![txOf[w]] = r]
  BY DEF StoreReceipt
<1>0. r.tx = txOf[w] /\ r.status = status[w] /\ r.height = Len(leaves)
  OBVIOUS
<1> HIDE DEF r
<1>4. /\ Len(leaves) \in Nat /\ Len(leaves') = Len(leaves) + 1
      /\ \A i \in 1 .. Len(leaves) : leaves'[i] = leaves[i]
      /\ leaves'[Len(leaves) + 1] = r
  BY <1>2, <1>3
<1>5. Held(leaves') = Held(leaves) \cup {r}
  <2>1. \A i \in 1 .. Len(leaves) + 1 : i \in 1 .. Len(leaves) \/ i = Len(leaves) + 1
    BY <1>4
  <2>2. \A i \in 1 .. Len(leaves) : i \in 1 .. Len(leaves) + 1
    BY <1>4
  <2>3. Len(leaves) + 1 \in 1 .. Len(leaves) + 1
    BY <1>4
  <2>4. QED
    BY <1>4, <2>1, <2>2, <2>3 DEF Held
<1>6. QED
  BY <1>1, <1>2, <1>3, <1>4, <1>5, <1>0

\* No step takes a receipt or a round away.
LEMMA LedgerSteps ==
    ASSUME [Next]_vars
    PROVE  \/ Boot
           \/ \E w \in Worker : StoreReceipt(w)
           \/ CommitRound
           \/ CrashInSaveLedger
           \/ UNCHANGED <<ledgerFile, leaves, receipts, lastCommitted, rounds>>
BY DEF Next, Step, Submit, Apply, TakeSnapshot, OpenStateFile, WriteStateFile,
       SaveStateFails, ReadAccount, RecordCommitBundle, Crash, Die, ledgerVars, vars

\* A receipt stands in the map under the hash of its own transfer.
LEMMA NextKeyed == LedgerInv /\ [Next]_vars => KeyedByTx'
<1> SUFFICES ASSUME LedgerInv, [Next]_vars PROVE KeyedByTx'
  OBVIOUS
<1>1. CASE Boot
  BY <1>1, BootRebuilds DEF LedgerInv, KeyedByTx
<1>2. ASSUME NEW w \in Worker, StoreReceipt(w) PROVE KeyedByTx'
  <2>1. /\ receipts' = [receipts EXCEPT ![txOf[w]] = leaves'[Len(leaves) + 1]]
        /\ leaves'[Len(leaves) + 1].tx = txOf[w] /\ txOf[w] \in Transfer
    BY <1>2, StoreAppends DEF LedgerInv
  <2>2. receipts \in [Transfer -> Receipt \cup {NoReceipt}]
    BY DEF LedgerInv, TypeInv, TypeOK
  <2>3. QED
    BY <2>1, <2>2 DEF LedgerInv, KeyedByTx
<1>3. CASE UNCHANGED receipts
  BY <1>3 DEF LedgerInv, KeyedByTx
<1>4. QED
  BY <1>1, <1>2, <1>3, LedgerSteps DEF CommitRound, CrashInSaveLedger, Die, ledgerVars

\* Handlers start with distinct transfers that have no receipt, and give theirs up
\* when they store one.
LEMMA NextNoDoubles == LedgerInv /\ [Next]_vars => NoDoubles'
<1> SUFFICES ASSUME LedgerInv, [Next]_vars, Orderly PROVE NoDoubles'
  BY DEF NoDoubles
<1>0. /\ pc \in [Worker -> {"idle", "apply", "snapshot", "open", "write", "store"}]
      /\ txOf \in [Worker -> Transfer \cup {NoTx}]
      /\ receipts \in [Transfer -> Receipt \cup {NoReceipt}]
      /\ \A w \in Worker : pc[w] # "idle" => txOf[w] \in Transfer
  BY DEF LedgerInv, TypeInv, TypeOK, WorkerShape
<1>00. \A w \in Worker : pc[w] # "idle" =>
         /\ receipts[txOf[w]] = NoReceipt
         /\ \A v \in Worker : pc[v] # "idle" /\ v # w => txOf[v] # txOf[w]
  BY DEF LedgerInv, NoDoubles
<1>1. CASE Boot
  BY <1>00, <1>1, BootRebuilds DEF NoDoubles, Boot
<1>2. CASE Crash \/ CrashInSaveLedger
  BY <1>2 DEF Crash, CrashInSaveLedger, Die, NoDoubles
<1>3. ASSUME NEW w \in Worker, NEW t \in Transfer, Submit(w, t)
      PROVE  NoDoubles'
  <2>1. receipts[t] = NoReceipt /\ \A v \in Worker : txOf[v] # t
    BY <1>3 DEF Submit, Orderly, SentOnce
  <2>2. /\ receipts' = receipts
        /\ pc' = [pc EXCEPT ![w] = "apply"] /\ txOf' = [txOf EXCEPT ![w] = t]
    BY <1>3 DEF Submit, ledgerVars
  <2>3. QED
    BY <1>0, <1>00, <2>1, <2>2 DEF NoDoubles
<1>4. ASSUME NEW w \in Worker, StoreReceipt(w)
      PROVE  NoDoubles'
  <2>1. /\ pc[w] = "store" /\ txOf[w] \in Transfer
        /\ pc' = [pc EXCEPT ![w] = "idle"] /\ txOf' = [txOf EXCEPT ![w] = NoTx]
    BY <1>0, <1>4 DEF StoreReceipt
  <2>2. \A t \in Transfer : t # txOf[w] => receipts'[t] = receipts[t]
    BY <1>0, <1>4 DEF StoreReceipt
  <2>3. QED
    BY <1>0, <1>00, <2>1, <2>2 DEF NoDoubles
<1>5. ASSUME NEW w \in Worker,
             Apply(w) \/ TakeSnapshot(w) \/ OpenStateFile(w) \/ WriteStateFile(w)
               \/ SaveStateFails(w)
      PROVE  NoDoubles'
  <2>1. /\ pc[w] # "idle" /\ pc' = [pc EXCEPT ![w] = pc'[w]]
        /\ txOf' = txOf /\ receipts' = receipts
    BY <1>0, <1>5 DEF Apply, TakeSnapshot, OpenStateFile, WriteStateFile, SaveStateFails,
                      ledgerVars
  <2>2. QED
    BY <1>0, <1>00, <2>1 DEF NoDoubles
<1>6. CASE UNCHANGED <<pc, txOf, receipts>>
  BY <1>6 DEF LedgerInv, NoDoubles
<1>7. QED
  BY <1>1, <1>2, <1>3, <1>4, <1>5, <1>6
     DEF Next, Step, ReadAccount, CommitRound, RecordCommitBundle, ledgerVars, workerVars,
         vars

\* saveLedger follows every change of the ledger.
LEMMA NextMirrored ==
    ASSUME NoCrashes \/ Orderly
    PROVE  LedgerInv /\ [Next]_vars => Mirrored'
<1> SUFFICES ASSUME LedgerInv, [Next]_vars PROVE Mirrored'
  OBVIOUS
<1> DEFINE M == /\ LoadedLedger.receipts = Stored
                /\ LoadedLedger.last = lastCommitted
                /\ LoadedLedger.rounds = rounds
                /\ Stored = Held(leaves)
                /\ \A i \in 1 .. Len(leaves) : leaves[i].height = i - 1
<1>1. CASE UNCHANGED <<up, ledgerFile, leaves, receipts, lastCommitted, rounds>>
  BY <1>1 DEF LedgerInv, Mirrored, LoadedLedger, Readable, Stored
<1>2. CASE Next /\ ~ Orderly
  BY <1>2, StaysUp DEF LedgerInv, Mirrored
<1>3. CASE Next /\ Orderly
  <2>0. M /\ CleanCrashes /\ TypeInv
    BY <1>3 DEF LedgerInv, Mirrored, Orderly
  <2> SUFFICES M'
    BY DEF Mirrored
  <2>1. CASE Boot
    <3>1. ledgerFile' = ledgerFile
      BY <2>1 DEF Boot
    <3>2. QED
      BY <2>0, <2>1, <3>1, BootRebuilds DEF LoadedLedger, Readable, Stored
  <2>2. ASSUME NEW w \in Worker, StoreReceipt(w) PROVE M'
    <3> DEFINE r == leaves'[Len(leaves) + 1]
    <3>1. /\ leaves \in Seq(Receipt) /\ Len(leaves) \in Nat
          /\ Len(leaves') = Len(leaves) + 1
          /\ \A i \in 1 .. Len(leaves) : leaves'[i] = leaves[i]
          /\ r.height = Len(leaves) /\ r.tx = txOf[w]
          /\ Held(leaves') = Held(leaves) \cup {r}
          /\ receipts' = [receipts EXCEPT ![txOf[w]] = r]
          /\ txOf[w] \in Transfer
      BY <2>0, <2>2, StoreAppends
    <3>2. receipts[txOf[w]] = NoReceipt
      BY <1>3, <2>2 DEF LedgerInv, NoDoubles, StoreReceipt
    <3>3. receipts \in [Transfer -> Receipt \cup {NoReceipt}]
      BY <2>0 DEF TypeInv, TypeOK
    <3>4. r # NoReceipt
      BY <3>1, EngineAssumption DEF NoReceipt
    <3> HIDE DEF r
    <3>5. Stored' = Stored \cup {r}
      BY <3>1, <3>2, <3>3, <3>4 DEF Stored
    <3>6. LoadedLedger' = [receipts |-> Stored', last |-> lastCommitted, rounds |-> rounds]
      BY <2>0, <2>2, StoreSaves
    <3>7. lastCommitted' = lastCommitted /\ rounds' = rounds
      BY <2>2 DEF StoreReceipt
    <3>8. \A i \in 1 .. Len(leaves') : leaves'[i].height = i - 1
      <4>1. \A i \in 1 .. Len(leaves') : i \in 1 .. Len(leaves) \/ i = Len(leaves) + 1
        BY <3>1
      <4>2. leaves'[Len(leaves) + 1].height = Len(leaves) + 1 - 1
        BY <3>1 DEF r
      <4>3. QED
        BY <2>0, <3>1, <4>1, <4>2
    <3>9. /\ LoadedLedger'.receipts = Stored' /\ LoadedLedger'.last = lastCommitted'
          /\ LoadedLedger'.rounds = rounds'
      BY <3>6, <3>7
    <3>10. Stored' = Held(leaves')
      BY <2>0, <3>1, <3>5
    <3>11. QED
      BY <3>8, <3>9, <3>10
  <2>3. CASE CommitRound
    <3>1. LoadedLedger' = [receipts |-> Stored, last |-> lastCommitted', rounds |-> rounds']
      BY <2>0, <2>3, CommitSaves
    <3>2. leaves' = leaves /\ receipts' = receipts
      BY <2>3 DEF CommitRound
    <3>3. Stored' = Stored
      BY <3>2 DEF Stored
    <3>4. /\ LoadedLedger'.receipts = Stored' /\ LoadedLedger'.last = lastCommitted'
          /\ LoadedLedger'.rounds = rounds'
      BY <3>1, <3>3
    <3>5. QED
      BY <2>0, <3>2, <3>3, <3>4
  <2>4. CASE UNCHANGED <<ledgerFile, leaves, receipts, lastCommitted, rounds>>
    BY <2>0, <2>4 DEF LoadedLedger, Readable, Stored
  <2>5. ~ CrashInSaveLedger
    BY <2>0 DEF CleanCrashes, CrashInSaveLedger
  <2>6. QED
    BY <2>1, <2>2, <2>3, <2>4, <2>5, LedgerSteps
<1>4. QED
  BY <1>1, <1>2, <1>3 DEF vars

\* The invariant of the ledger is inductive.
LEMMA NextLedger ==
    ASSUME NoCrashes \/ Orderly
    PROVE  LedgerInv /\ [Next]_vars => LedgerInv'
BY NextType, NextUp, NextKeyed, NextMirrored, NextNoDoubles DEF LedgerInv

\* No step takes back a committed round or a stored receipt: with one process always,
\* whatever is sent twice and whatever write fails; over restarts when crashes fall
\* between writes and no transfer is sent twice (StoreReceipt, CommitRound, loadLedger).
THEOREM HistoryOnlyGrows ==
    ASSUME NoCrashes \/ (CleanCrashes /\ SentOnce)
    PROVE  Spec => HistoryGrows
<1> DEFINE Grows == IsPrefix(rounds, rounds') /\ IsPrefix(leaves, leaves')
<1>0. NoCrashes \/ Orderly
  BY DEF Orderly
<1>1. Spec => []LedgerInv
  BY <1>0, InitLedger, NextLedger, PTL DEF Spec
<1>2. LedgerInv /\ LedgerInv' /\ [Next]_vars => [Grows]_<<rounds, leaves>>
  <2> SUFFICES ASSUME LedgerInv, LedgerInv', [Next]_vars PROVE Grows
    OBVIOUS
  <2>1. rounds \in Seq(Round) /\ leaves \in Seq(Receipt)
    BY DEF LedgerInv, TypeInv, TypeOK
  <2>2. CASE UNCHANGED <<rounds, leaves>>
    BY <2>1, <2>2, PrefixOfItself
  <2>3. CASE Boot
    BY <2>2, <2>3, BootRebuilds
  <2>4. ASSUME NEW w \in Worker, StoreReceipt(w) PROVE Grows
    <3> DEFINE r == [tx |-> txOf[w], status |-> status[w], height |-> Len(leaves)]
    <3>1. leaves' = Append(leaves, r) /\ rounds' = rounds
      BY <2>4 DEF StoreReceipt
    <3>2. r \in Receipt
      BY <2>1, <2>4 DEF StoreReceipt, LedgerInv, TypeInv, WorkerShape, Receipt
    <3> HIDE DEF r
    <3>3. QED
      BY <2>1, <3>1, <3>2, PrefixOfAppend, PrefixOfItself
  <2>5. CASE CommitRound
    <3> DEFINE hdr == [round |-> Len(rounds) + 1, from |-> lastCommitted + 1,
                       to |-> Len(leaves), count |-> Len(Pending), root |-> Pending]
    <3>1. rounds' = Append(rounds, hdr) /\ leaves' = leaves
      BY <2>5 DEF CommitRound
    <3>2. rounds' \in Seq(Round)
      BY DEF LedgerInv, TypeInv, TypeOK
    <3> HIDE DEF hdr
    <3>3. rounds'[Len(rounds) + 1] = hdr /\ Len(rounds) + 1 \in 1 .. Len(rounds')
      BY <2>1, <3>1
    <3>4. hdr \in Round
      BY <3>2, <3>3
    <3>5. QED
      BY <2>1, <3>1, <3>4, PrefixOfAppend, PrefixOfItself
  <2>6. QED
    BY <2>2, <2>3, <2>4, <2>5, LedgerSteps DEF CrashInSaveLedger, Die, ledgerVars
<1>3. Spec => [][Next]_vars
  BY DEF Spec
<1>4. QED
  BY <1>1, <1>2, <1>3, PTL DEF HistoryGrows
-------------------------------------------------------------------------------
(***************************************************************************)
(* The rounds' roots.                                                      *)
(***************************************************************************)
\* Every round lies within the receipts there are, and commits to those it spans.
RootInv ==
    /\ lastCommitted <= Len(leaves)
    /\ \A i \in 1 .. Len(rounds) :
         /\ rounds[i].from >= 1 /\ rounds[i].to <= Len(leaves)
         /\ rounds[i].root = SubSeq(leaves, rounds[i].from, rounds[i].to)

\* It is inductive beside LedgerInv: a restart reads back the receipts there were, and
\* a round is cut over receipts that stay.
LEMMA RootInvariant ==
    ASSUME NoCrashes \/ (CleanCrashes /\ SentOnce)
    PROVE  Spec => [](LedgerInv /\ RootInv)
<1> DEFINE I == LedgerInv /\ RootInv
<1>0. NoCrashes \/ Orderly
  BY DEF Orderly
<1>1. Init => I
  <2>1. ASSUME Init PROVE RootInv
    BY <2>1 DEF Init, RootInv
  <2>2. QED
    BY <2>1, InitLedger
<1>2. I /\ [Next]_vars => I'
  <2> SUFFICES ASSUME I, [Next]_vars PROVE RootInv'
    BY <1>0, NextLedger
  <2>0. /\ TypeInv /\ leaves \in Seq(Receipt) /\ Len(leaves) \in Nat
        /\ rounds \in Seq(Round) /\ Len(rounds) \in Nat /\ lastCommitted \in Nat
    BY DEF LedgerInv, TypeInv, TypeOK
  <2>00. \A i \in 1 .. Len(rounds) : rounds[i].from \in Nat /\ rounds[i].to \in Nat
    <3>1. \A i \in 1 .. Len(rounds) : rounds[i] \in Round
      BY <2>0
    <3>2. QED
      BY <3>1 DEF Round
  <2>1. CASE UNCHANGED <<leaves, lastCommitted, rounds>>
    BY <2>1 DEF RootInv
  <2>2. CASE Boot
    BY <2>1, <2>2, BootRebuilds
  <2>3. ASSUME NEW w \in Worker, StoreReceipt(w) PROVE RootInv'
    <3>1. /\ leaves' \in Seq(Receipt) /\ Len(leaves') = Len(leaves) + 1
          /\ \A i \in 1 .. Len(leaves) : leaves'[i] = leaves[i]
      BY <2>0, <2>3, StoreAppends
    <3>2. rounds' = rounds /\ lastCommitted' = lastCommitted
      BY <2>3 DEF StoreReceipt
    <3>3. ASSUME NEW i \in 1 .. Len(rounds)
          PROVE  /\ rounds[i].from >= 1 /\ rounds[i].to <= Len(leaves')
                 /\ rounds[i].root = SubSeq(leaves', rounds[i].from, rounds[i].to)
      <4> DEFINE a == rounds[i].from
                 b == rounds[i].to
      <4>1. /\ a \in Nat /\ b \in Nat /\ a >= 1 /\ b <= Len(leaves)
            /\ rounds[i].root = SubSeq(leaves, a, b)
        BY <2>00 DEF RootInv
      <4> HIDE DEF a, b
      <4>2. \A j \in a .. b : j \in 1 .. Len(leaves) /\ leaves'[j] = leaves[j]
        BY <2>0, <3>1, <4>1
      <4>3. SubSeq(leaves', a, b) = SubSeq(leaves, a, b)
        BY <2>0, <3>1, <4>1, <4>2
      <4>4. QED
        BY <2>0, <3>1, <4>1, <4>3 DEF a, b
    <3>4. QED
      BY <2>0, <3>1, <3>2, <3>3 DEF RootInv
  <2>4. CASE CommitRound
    <3> DEFINE hdr == [round |-> Len(rounds) + 1, from |-> lastCommitted + 1,
                       to |-> Len(leaves), count |-> Len(Pending), root |-> Pending]
    <3>1. /\ rounds' = Append(rounds, hdr) /\ leaves' = leaves
          /\ lastCommitted' = Len(leaves)
      BY <2>4 DEF CommitRound
    <3>2. /\ hdr.from = lastCommitted + 1 /\ hdr.to = Len(leaves)
          /\ hdr.root = SubSeq(leaves, lastCommitted + 1, Len(leaves))
      BY DEF Pending
    <3> HIDE DEF hdr
    <3>3. ASSUME NEW i \in 1 .. Len(rounds')
          PROVE  /\ rounds'[i].from >= 1 /\ rounds'[i].to <= Len(leaves)
                 /\ rounds'[i].root = SubSeq(leaves, rounds'[i].from, rounds'[i].to)
      <4>1. CASE i \in 1 .. Len(rounds)
        <5>1. rounds'[i] = rounds[i]
          BY <2>0, <3>1, <4>1
        <5>2. QED
          BY <4>1, <5>1 DEF RootInv
      <4>2. CASE i \notin 1 .. Len(rounds)
        <5>1. i = Len(rounds) + 1 /\ rounds'[i] = hdr
          BY <2>0, <3>1, <4>2
        <5>2. hdr.from >= 1 /\ hdr.to <= Len(leaves)
          BY <2>0, <3>2
        <5>3. QED
          BY <3>2, <5>1, <5>2
      <4>3. QED
        BY <4>1, <4>2
    <3>4. QED
      BY <2>0, <3>1, <3>3 DEF RootInv
  <2>5. QED
    BY <2>1, <2>2, <2>3, <2>4, LedgerSteps DEF CrashInSaveLedger, Die, ledgerVars
<1>3. QED
  BY <1>1, <1>2, PTL DEF Spec

\* No committed receipt is moved, lost or rewritten: each round's root stays the root
\* over the receipts at its heights, under the same conditions.
THEOREM RootsMatch ==
    ASSUME NoCrashes \/ (CleanCrashes /\ SentOnce)
    PROVE  Spec => []CommittedRootsMatch
<1>1. LedgerInv /\ RootInv => CommittedRootsMatch
  BY DEF RootInv, CommittedRootsMatch
<1>2. QED
  BY <1>1, RootInvariant, PTL
-------------------------------------------------------------------------------
(***************************************************************************)
(* Receipts and accounts.                                                  *)
(***************************************************************************)
\* Database d has the effect of transfer t: the sender's nonce is past it.
Has(d, t) == t.from \in d.known /\ d.acct[t.from].nonce >= t.nonce

\* DB.ApplyTransfer moves the sender's nonce by one when it applies, and no other.
LEMMA NonceAfter ==
    ASSUME NEW d \in DB, NEW t \in Transfer
    PROVE  /\ ApplyTransfer(d, t) \in DB
           /\ d.known \cup {t.from} \subseteq ApplyTransfer(d, t).known
           /\ \A a \in Addr :
                ApplyTransfer(d, t).acct[a].nonce =
                  IF Verdict(d, t) = "applied" /\ a = t.from
                  THEN d.acct[a].nonce + 1 ELSE d.acct[a].nonce
<1>1. /\ t.from \in Addr /\ t.to \in Addr /\ FeeReceiver \in Addr
      /\ t.amount \in Nat /\ t.fee \in Nat
  BY AccountsAssumption
<1>2. ApplyTransfer(d, t) \in DB
  BY ApplyTransferType
<1>3. ASSUME NEW acct \in [Addr -> Account], NEW a \in Addr, NEW n \in Nat
      PROVE  \A b \in Addr : Credit(acct, a, n)[b].nonce = acct[b].nonce
  BY <1>3 DEF Credit, Account
<1>4. CASE Verdict(d, t) = "applied"
  <2> DEFINE a1 == Debit(d.acct, t)
             a2 == Credit(a1, t.to, t.amount)
             a3 == Credit(a2, FeeReceiver, t.fee)
  <2>1. a1 \in [Addr -> Account]
    BY <1>4, DebitType
  <2>2. \A a \in Addr : a1[a].nonce = IF a = t.from THEN d.acct[a].nonce + 1
                                      ELSE d.acct[a].nonce
    BY <1>1 DEF Debit, DB
  <2>3. a2 \in [Addr -> Account]
    BY <1>1, <2>1, CreditType
  <2> HIDE DEF a1
  <2>4. \A a \in Addr : a2[a].nonce = a1[a].nonce
    BY <1>1, <1>3, <2>1
  <2> HIDE DEF a2
  <2>5. \A a \in Addr : a3[a].nonce = a2[a].nonce
    BY <1>1, <1>3, <2>3
  <2> HIDE DEF a3
  <2>6. /\ ApplyTransfer(d, t).acct = a3
        /\ ApplyTransfer(d, t).known = d.known \cup {t.from, t.to, FeeReceiver}
    BY <1>4 DEF ApplyTransfer, a1, a2, a3
  <2>7. QED
    BY <1>2, <1>4, <2>2, <2>4, <2>5, <2>6
<1>5. CASE Verdict(d, t) # "applied"
  <2>1. /\ ApplyTransfer(d, t).acct = d.acct
        /\ ApplyTransfer(d, t).known = d.known \cup {t.from}
    BY <1>5 DEF ApplyTransfer, Touch, DB
  <2>2. QED
    BY <1>2, <1>5, <2>1
<1>6. QED
  BY <1>4, <1>5

\* An applied transfer takes effect, and no transfer undoes another.
LEMMA ApplyKeeps ==
    ASSUME NEW d \in DB, NEW t \in Transfer
    PROVE  /\ \A u \in Transfer : Has(d, u) => Has(ApplyTransfer(d, t), u)
           /\ Verdict(d, t) = "applied" => Has(ApplyTransfer(d, t), t)
<1> DEFINE e == ApplyTransfer(d, t)
<1>1. /\ d.known \cup {t.from} \subseteq e.known
      /\ \A a \in Addr : e.acct[a].nonce =
           IF Verdict(d, t) = "applied" /\ a = t.from
           THEN d.acct[a].nonce + 1 ELSE d.acct[a].nonce
  BY NonceAfter
<1>2. \A a \in Addr : d.acct[a].nonce \in Nat
  BY DEF DB, Account
<1>3. \A u \in Transfer : u.from \in Addr /\ u.nonce \in Nat
  BY AccountsAssumption
<1> HIDE DEF e
<1>4. \A u \in Transfer : Has(d, u) => Has(e, u)
  BY <1>1, <1>2, <1>3 DEF Has
<1>5. Verdict(d, t) = "applied" => d.acct[t.from].nonce + 1 = t.nonce
  BY DEF Verdict
<1>6. Verdict(d, t) = "applied" => Has(e, t)
  BY <1>1, <1>2, <1>3, <1>5 DEF Has
<1>7. QED
  BY <1>4, <1>6 DEF e

\* The transfers with an applied receipt.
Settled(q) == {r.tx : r \in {s \in Held(q) : s.status = "applied"}}

\* The accounts in memory have every settled transfer and every one in flight.
MemoryCovers ==
    /\ up => \A t \in Settled(leaves) : Has(db, t)
    /\ \A w \in InFlight : Has(db, txOf[w])

\* What a restart would load is consistent in the same way.
BootCovers ==
    ~ up => \A r \in LoadedLedger.receipts : r.status = "applied" => Has(LoadedState, r.tx)

\* When crashes may come, the snapshots and the state file have the settled transfers
\* too, and the transfer of a handler that is past its own write.
DiskCovers ==
    (CleanCrashes /\ OneHandler /\ up) =>
      /\ Stored \subseteq Held(leaves) /\ LoadedLedger.receipts \subseteq Held(leaves)
      /\ Readable(stateFile) => \A t \in Settled(leaves) : Has(stateFile, t)
      /\ \A w \in Worker :
           /\ pc[w] \in {"open", "write"} =>
                \A t \in Settled(leaves) \cup {txOf[w]} : Has(snap[w], t)
           /\ pc[w] = "store" /\ status[w] = "applied" /\ Readable(stateFile) =>
                Has(stateFile, txOf[w])

CoverInv == TypeInv /\ WorkersUp /\ MemoryCovers /\ BootCovers /\ DiskCovers

\* Whatever order loadLedger's sort ends in, it holds the receipts of the file.
LEMMA HeldOrder ==
    ASSUME NEW R, R \subseteq Receipt, IsFiniteSet(R), NEW s \in HeightOrders(R)
    PROVE  Held(s) = R
<1>1. Len(s) = Cardinality(R) /\ Cardinality(R) \in Nat
  BY HeightOrdersType
<1>2. s \in [1 .. Cardinality(R) -> R] /\ \A r \in R : \E i \in DOMAIN s : s[i] = r
  BY DEF HeightOrders
<1>3. QED
  BY <1>1, <1>2 DEF Held

\* Settled transfers are transfers.
LEMMA SettledType ==
    ASSUME NEW q \in Seq(Receipt)
    PROVE  Settled(q) \subseteq Transfer
<1>1. Held(q) \subseteq Receipt
  BY DEF Held
<1>2. QED
  BY <1>1 DEF Settled, Receipt

\* StoreReceipt settles its transfer if that was applied.
LEMMA SettledStore ==
    ASSUME TypeInv, NEW w \in Worker, StoreReceipt(w)
    PROVE  Settled(leaves') =
             Settled(leaves) \cup (IF status[w] = "applied" THEN {txOf[w]} ELSE {})
<1> DEFINE r == leaves'[Len(leaves) + 1]
<1>1. Held(leaves') = Held(leaves) \cup {r} /\ r.tx = txOf[w] /\ r.status = status[w]
  BY StoreAppends
<1> HIDE DEF r
<1>2. QED
  BY <1>1 DEF Settled

\* A restart settles what the file holds.
LEMMA SettledBoot ==
    ASSUME TypeInv, Boot
    PROVE  /\ Held(leaves') = LoadedLedger.receipts
           /\ Stored' \subseteq LoadedLedger.receipts
           /\ \A t \in Settled(leaves') :
                \E r \in LoadedLedger.receipts : r.status = "applied" /\ r.tx = t
<1> DEFINE R == LoadedLedger.receipts
<1>1. R \subseteq Receipt /\ IsFiniteSet(R)
  BY LoadedLedgerType DEF LedgerFile
<1>2. leaves' \in HeightOrders(R)
  BY DEF Boot
<1>3. Held(leaves') = R
  BY <1>1, <1>2, HeldOrder
<1>4. \A t \in Transfer : receipts'[t] = IF \E r \in R : r.tx = t
                                         THEN CHOOSE r \in R : r.tx = t ELSE NoReceipt
  BY DEF Boot
<1> HIDE DEF R
<1>5. Stored' \subseteq R
  BY <1>4 DEF Stored
<1>6. QED
  BY <1>3, <1>5 DEF Settled, R

\* Handlers other than w stand still in a step of w.
LEMMA NextMemory == CoverInv /\ [Next]_vars => MemoryCovers'
<1> SUFFICES ASSUME CoverInv, [Next]_vars PROVE MemoryCovers'
  OBVIOUS
<1>0. /\ TypeInv /\ db \in DB /\ leaves \in Seq(Receipt)
      /\ pc \in [Worker -> {"idle", "apply", "snapshot", "open", "write", "store"}]
      /\ txOf \in [Worker -> Transfer \cup {NoTx}]
      /\ status \in [Worker -> Status \cup {"none"}]
      /\ \A w \in Worker : pc[w] # "idle" => txOf[w] \in Transfer
      /\ \A w \in InFlight : pc[w] # "idle"
      /\ Settled(leaves) \subseteq Transfer
  BY SettledType DEF CoverInv, TypeInv, TypeOK, WorkerShape, InFlight
<1>00. /\ up => \A t \in Settled(leaves) : Has(db, t)
       /\ \A w \in InFlight : Has(db, txOf[w])
       /\ WorkersUp
  BY DEF CoverInv, MemoryCovers
<1>1. CASE Boot
  <2>1. ~ up /\ db' = LoadedState /\ pc' = pc /\ status' = status
    BY <1>1 DEF Boot
  <2>2. InFlight' = {}
    BY <1>00, <2>1 DEF WorkersUp, InFlight
  <2>3. \A t \in Settled(leaves') : Has(LoadedState, t)
    BY <1>0, <1>1, <2>1, SettledBoot DEF CoverInv, BootCovers
  <2>4. QED
    BY <2>1, <2>2, <2>3 DEF MemoryCovers
<1>2. CASE Crash \/ CrashInSaveLedger
  BY <1>2 DEF Crash, CrashInSaveLedger, Die, MemoryCovers, InFlight
<1>3. ASSUME NEW w \in Worker, Apply(w) PROVE MemoryCovers'
  <2>1. /\ pc[w] = "apply" /\ txOf[w] \in Transfer /\ up /\ up' = up
        /\ db' = ApplyTransfer(db, txOf[w]) /\ leaves' = leaves /\ txOf' = txOf
    BY <1>0, <1>00, <1>3 DEF Apply, ledgerVars, WorkersUp
  <2>2. /\ \A u \in Transfer : Has(db, u) => Has(db', u)
        /\ Verdict(db, txOf[w]) = "applied" => Has(db', txOf[w])
    BY <1>0, <2>1, ApplyKeeps
  <2>3. w \in InFlight' => Verdict(db, txOf[w]) = "applied"
    BY <1>0, <1>3 DEF Apply, InFlight
  <2>4. \A v \in InFlight' : v # w => v \in InFlight
    BY <1>0, <1>3 DEF Apply, InFlight
  <2>5. \A t \in Settled(leaves') : Has(db', t)
    BY <1>0, <1>00, <2>1, <2>2
  <2>6. \A v \in InFlight' : Has(db', txOf'[v])
    <3>1. \A v \in InFlight : txOf[v] \in Transfer
      BY <1>0 DEF InFlight
    <3>2. QED
      BY <1>00, <2>1, <2>2, <2>3, <2>4, <3>1
  <2>7. QED
    BY <2>5, <2>6 DEF MemoryCovers
<1>4. ASSUME NEW w \in Worker, StoreReceipt(w) PROVE MemoryCovers'
  <2>1. /\ pc[w] = "store" /\ up' = up /\ db' = db /\ txOf' = [txOf EXCEPT ![w] = NoTx]
    BY <1>4 DEF StoreReceipt
  <2>2. \A v \in InFlight' : v # w /\ v \in InFlight
    BY <1>0, <1>4 DEF StoreReceipt, InFlight
  <2>3. status[w] = "applied" => w \in InFlight
    BY <2>1 DEF InFlight
  <2>4. \A t \in Settled(leaves') : \/ t \in Settled(leaves)
                                    \/ status[w] = "applied" /\ t = txOf[w]
    BY <1>0, <1>4, SettledStore
  <2>5. \A v \in InFlight' : txOf'[v] = txOf[v]
    BY <1>0, <2>1, <2>2 DEF InFlight
  <2>6. QED
    BY <1>00, <2>1, <2>2, <2>3, <2>4, <2>5 DEF MemoryCovers
<1>5. ASSUME NEW w \in Worker,
             \/ TakeSnapshot(w) \/ OpenStateFile(w) \/ WriteStateFile(w) \/ SaveStateFails(w)
             \/ \E t \in Transfer : Submit(w, t)
      PROVE  MemoryCovers'
  <2>1. up' = up /\ db' = db /\ leaves' = leaves
    BY <1>5 DEF TakeSnapshot, OpenStateFile, WriteStateFile, SaveStateFails, Submit, ledgerVars
  <2>2. InFlight' \subseteq InFlight
    BY <1>0, <1>5 DEF TakeSnapshot, OpenStateFile, WriteStateFile, SaveStateFails, Submit,
                      InFlight, Status, CoverInv, TypeInv, WorkerShape
  <2>3. \A v \in InFlight : txOf'[v] = txOf[v]
    BY <1>0, <1>5 DEF TakeSnapshot, OpenStateFile, WriteStateFile, SaveStateFails, Submit,
                      InFlight
  <2>4. QED
    BY <1>00, <2>1, <2>2, <2>3 DEF MemoryCovers
<1>6. ASSUME NEW a \in Addr, ReadAccount(a) PROVE MemoryCovers'
  <2>1. /\ up' = up /\ leaves' = leaves /\ db' = Touch(db, {a})
        /\ InFlight' = InFlight /\ txOf' = txOf
    BY <1>6 DEF ReadAccount, ledgerVars, workerVars, InFlight
  <2>2. \A t : Has(db, t) => Has(db', t)
    BY <1>0, <2>1 DEF Has, Touch, DB
  <2>3. QED
    BY <1>00, <2>1, <2>2 DEF MemoryCovers
<1>7. CASE UNCHANGED <<up, db, leaves, pc, txOf, status>>
  BY <1>00, <1>7 DEF MemoryCovers, InFlight
<1>8. QED
  BY <1>1, <1>2, <1>3, <1>4, <1>5, <1>6, <1>7
     DEF Next, Step, CommitRound, RecordCommitBundle, ledgerVars, workerVars, vars

\* A crash leaves a state file that can be read, and that one has what is settled.
LEMMA NextBootCovers ==
    ASSUME NoCrashes \/ (CleanCrashes /\ OneHandler)
    PROVE  CoverInv /\ [Next]_vars => BootCovers'
<1> SUFFICES ASSUME CoverInv, [Next]_vars, ~ up'
             PROVE  (\A r \in LoadedLedger.receipts :
                       r.status = "applied" => Has(LoadedState, r.tx))'
  BY DEF BootCovers
<1>1. CASE UNCHANGED vars
  BY <1>1 DEF CoverInv, BootCovers, LoadedLedger, LoadedState, Readable, vars
<1>2. CASE Next
  <2>1. ~ NoCrashes /\ up
    BY <1>2, StaysUp, DownBoots DEF CoverInv, Boot
  <2>2. CleanCrashes /\ OneHandler
    BY <2>1
  <2>3. Crash
    <3>1. Crash \/ CrashInSaveLedger
      BY <1>2, <2>1
         DEF Next, Boot, Step, Submit, Apply, TakeSnapshot, OpenStateFile, WriteStateFile,
             SaveStateFails, StoreReceipt, ReadAccount, CommitRound, RecordCommitBundle
    <3>2. QED
      BY <2>2, <3>1 DEF CleanCrashes, CrashInSaveLedger
  <2>4. ledgerFile' = ledgerFile /\ stateFile' = stateFile /\ Readable(stateFile)
    BY <2>2, <2>3 DEF Crash, Die, CleanCrashes
  <2>5. LoadedLedger' = LoadedLedger /\ LoadedState' = stateFile
    BY <2>4 DEF LoadedLedger, LoadedState, Readable
  <2>6. /\ LoadedLedger.receipts \subseteq Held(leaves)
        /\ \A t \in Settled(leaves) : Has(stateFile, t)
    BY <2>1, <2>2, <2>4 DEF CoverInv, DiskCovers
  <2>7. QED
    BY <2>5, <2>6 DEF Settled
<1>3. QED
  BY <1>1, <1>2

\* The one handler writes the accounts with its transfer before it stores the receipt.
LEMMA NextDisk == CoverInv /\ [Next]_vars => DiskCovers'
<1> SUFFICES ASSUME CoverInv, [Next]_vars, CleanCrashes, OneHandler, up' PROVE DiskCovers'
  BY DEF DiskCovers
<1>0. /\ TypeInv /\ WorkersUp
      /\ pc \in [Worker -> {"idle", "apply", "snapshot", "open", "write", "store"}]
      /\ txOf \in [Worker -> Transfer \cup {NoTx}]
      /\ status \in [Worker -> Status \cup {"none"}]
      /\ snap \in [Worker -> DB \cup {NoFile}]
      /\ \A v, w \in Worker : v = w
  BY DEF CoverInv, TypeInv, TypeOK, OneHandler
<1>1. CASE Boot
  <2>1. /\ ~ up /\ pc' = pc /\ stateFile' = LoadedState /\ ledgerFile' = ledgerFile
    BY <1>1 DEF Boot, CleanCrashes
  <2>2. \A w \in Worker : pc'[w] = "idle"
    BY <1>0, <2>1 DEF WorkersUp
  <2>3. LoadedLedger' = LoadedLedger
    BY <2>1 DEF LoadedLedger, Readable
  <2>4. /\ Stored' \subseteq Held(leaves') /\ LoadedLedger'.receipts \subseteq Held(leaves')
        /\ \A t \in Settled(leaves') : Has(LoadedState, t)
    BY <1>0, <1>1, <2>1, <2>3, SettledBoot DEF CoverInv, BootCovers
  <2>5. QED
    BY <2>1, <2>2, <2>4 DEF DiskCovers
<1>2. CASE ~ Boot
  <2>0. up
    BY <1>0, <1>2, DownBoots DEF vars
  <2>1. /\ Stored \subseteq Held(leaves) /\ LoadedLedger.receipts \subseteq Held(leaves)
        /\ Readable(stateFile) => \A t \in Settled(leaves) : Has(stateFile, t)
        /\ \A w \in Worker :
             /\ pc[w] \in {"open", "write"} =>
                  \A t \in Settled(leaves) \cup {txOf[w]} : Has(snap[w], t)
             /\ pc[w] = "store" /\ status[w] = "applied" /\ Readable(stateFile) =>
                  Has(stateFile, txOf[w])
    BY <2>0 DEF CoverInv, DiskCovers
  <2>2. \A t \in Settled(leaves) : Has(db, t)
    BY <2>0 DEF CoverInv, MemoryCovers
  <2>3. ASSUME UNCHANGED <<ledgerFile, leaves, receipts>>
        PROVE  /\ Stored' \subseteq Held(leaves') /\ LoadedLedger'.receipts \subseteq Held(leaves')
               /\ Settled(leaves') = Settled(leaves)
    BY <2>1, <2>3 DEF Stored, LoadedLedger, Readable
  <2>4. ASSUME NEW w \in Worker, TakeSnapshot(w) PROVE DiskCovers'
    <3>1. /\ UNCHANGED <<ledgerFile, leaves, receipts, stateFile, txOf, status>>
          /\ pc[w] = "snapshot" /\ pc' = [pc EXCEPT ![w] = "open"]
          /\ snap' = [snap EXCEPT ![w] = db]
      BY <2>4 DEF TakeSnapshot, ledgerVars
    <3>2. Has(db, txOf[w])
      BY <3>1 DEF CoverInv, MemoryCovers, InFlight
    <3>3. QED
      BY <1>0, <2>1, <2>2, <2>3, <3>1, <3>2 DEF DiskCovers, Readable
  <2>5. ASSUME NEW w \in Worker, WriteStateFile(w) PROVE DiskCovers'
    <3>1. /\ UNCHANGED <<ledgerFile, leaves, receipts, txOf, status>>
          /\ pc[w] = "write" /\ pc' = [pc EXCEPT ![w] = "store"]
      BY <2>5 DEF WriteStateFile, ledgerVars
    <3>2. stateFile' \in {snap[w], Mixed}
      BY <2>5 DEF WriteStateFile, Written
    <3>3. Readable(stateFile)' => stateFile' = snap[w]
      BY <3>2 DEF Readable
    <3>4. \A v \in Worker : pc'[v] = "store" /\ v = w
      BY <1>0, <3>1
    <3>5. QED
      BY <2>1, <2>3, <3>1, <3>3, <3>4 DEF DiskCovers
  <2>6. ASSUME NEW w \in Worker, StoreReceipt(w) PROVE DiskCovers'
    <3> DEFINE r == leaves'[Len(leaves) + 1]
    <3>1. /\ stateFile' = stateFile /\ pc[w] = "store" /\ pc' = [pc EXCEPT ![w] = "idle"]
      BY <2>6 DEF StoreReceipt
    <3>2. /\ Held(leaves') = Held(leaves) \cup {r}
          /\ receipts' = [receipts EXCEPT ![txOf[w]] = r]
      BY <1>0, <2>6, StoreAppends
    <3> HIDE DEF r
    <3>3. receipts \in [Transfer -> Receipt \cup {NoReceipt}]
      BY <1>0 DEF TypeInv, TypeOK
    <3>4. Stored' \subseteq Stored \cup {r}
      BY <3>2, <3>3 DEF Stored
    <3>5. LoadedLedger'.receipts = Stored'
      BY <1>0, <2>6, StoreSaves
    <3>6. \A v \in Worker : pc'[v] = "idle"
      BY <1>0, <3>1
    <3>7. Readable(stateFile) => \A t \in Settled(leaves') : Has(stateFile, t)
      BY <1>0, <2>1, <2>6, <3>1, SettledStore
    <3>8. QED
      BY <2>1, <3>1, <3>2, <3>4, <3>5, <3>6, <3>7 DEF DiskCovers, Readable
  <2>7. CASE CommitRound
    <3>1. /\ UNCHANGED <<leaves, receipts, stateFile, pc, txOf, status, snap>>
      BY <2>7 DEF CommitRound, workerVars
    <3>2. LoadedLedger'.receipts = Stored /\ Stored' = Stored
      BY <1>0, <2>7, <3>1, CommitSaves DEF Stored
    <3>3. QED
      BY <2>1, <3>1, <3>2 DEF DiskCovers, Readable
  <2>8. ASSUME NEW w \in Worker, Apply(w) \/ \E t \in Transfer : Submit(w, t) PROVE DiskCovers'
    <3>1. /\ UNCHANGED <<ledgerFile, leaves, receipts, stateFile, snap>>
          /\ pc'[w] \in {"apply", "snapshot", "store"}
      BY <1>0, <2>8 DEF Apply, Submit, ledgerVars
    <3>2. pc'[w] = "store" => status'[w] # "applied"
      BY <1>0, <2>8 DEF Apply, Submit
    <3>3. QED
      BY <1>0, <2>1, <2>3, <3>1, <3>2 DEF DiskCovers, Readable
  <2>9. ASSUME NEW w \in Worker, OpenStateFile(w) \/ SaveStateFails(w) PROVE DiskCovers'
    <3>1. ~ SaveStateFails(w)
      BY DEF SaveStateFails, CleanCrashes
    <3>2. /\ UNCHANGED <<ledgerFile, leaves, receipts, txOf, snap>>
          /\ pc[w] = "open" /\ pc' = [pc EXCEPT ![w] = "write"] /\ ~ Readable(stateFile)'
      BY <2>9, <3>1 DEF OpenStateFile, ledgerVars, Readable
    <3>3. QED
      BY <1>0, <2>1, <2>3, <3>2 DEF DiskCovers
  <2>10. CASE UNCHANGED <<ledgerFile, leaves, receipts, stateFile, pc, txOf, status, snap>>
    BY <2>1, <2>3, <2>10 DEF DiskCovers, Readable
  <2>11. ~ Crash /\ ~ CrashInSaveLedger
    BY DEF Crash, CrashInSaveLedger, Die
  <2>12. QED
    BY <1>2, <2>4, <2>5, <2>6, <2>7, <2>8, <2>9, <2>10, <2>11
       DEF Next, Step, ReadAccount, RecordCommitBundle, ledgerVars, workerVars, vars
<1>3. QED
  BY <1>1, <1>2

\* Nothing is applied before the first process.
LEMMA InitCover == Init => CoverInv
<1> SUFFICES ASSUME Init PROVE CoverInv
  OBVIOUS
<1>1. MemoryCovers /\ DiskCovers
  BY DEF Init, MemoryCovers, DiskCovers, InFlight
<1>2. BootCovers
  BY DEF Init, BootCovers, LoadedLedger, Readable
<1>3. QED
  BY <1>1, <1>2, InitType, InitUp DEF CoverInv

\* The invariant that covers the receipts is inductive.
LEMMA NextCover ==
    ASSUME NoCrashes \/ (CleanCrashes /\ OneHandler)
    PROVE  CoverInv /\ [Next]_vars => CoverInv'
BY NextType, NextUp, NextMemory, NextBootCovers, NextDisk DEF CoverInv

\* The accounts have every transfer that has an applied receipt: with one process for
\* any handlers and failed writes; over restarts when handlers run one at a time,
\* because ApplyTransfer returns only after the state file holds the transfer.
THEOREM ReceiptsAreCovered ==
    ASSUME NoCrashes \/ (CleanCrashes /\ OneHandler)
    PROVE  Spec => []ReceiptsCovered
<1>1. Spec => []CoverInv
  BY InitCover, NextCover, PTL DEF Spec
<1>2. CoverInv => ReceiptsCovered
  <2> SUFFICES ASSUME CoverInv, up, NEW i \in AppliedIdx
               PROVE  db.acct[leaves[i].tx.from].nonce >= leaves[i].tx.nonce
    BY DEF ReceiptsCovered
  <2>1. leaves[i].tx \in Settled(leaves)
    BY DEF AppliedIdx, Settled, Held
  <2>2. QED
    BY <2>1 DEF CoverInv, MemoryCovers, Has
<1>3. QED
  BY <1>1, <1>2, PTL

\* A state root contains transfer t.
RootHas(root, t) == root[t.from] # Absent /\ root[t.from].nonce >= t.nonce

\* The root of a database that has a transfer contains it.
LEMMA RootOfHas ==
    ASSUME NEW d \in DB, NEW t \in Transfer, Has(d, t)
    PROVE  RootHas(StateRoot(d), t)
<1>1. t.from \in Addr
  BY AccountsAssumption
<1>2. StateRoot(d)[t.from] = d.acct[t.from] /\ d.acct[t.from] \in Account
  BY <1>1 DEF StateRoot, Has, DB
<1>3. \A x \in Account : x # Absent
  <2> SUFFICES ASSUME NEW x \in Account, x = Absent PROVE FALSE
    OBVIOUS
  <2>1. DOMAIN x = {"bal", "nonce"}
    BY DEF Account
  <2>2. DOMAIN Absent = {"absent"}
    BY DEF Absent
  <2>3. QED
    BY <2>1, <2>2
<1>4. QED
  BY <1>2, <1>3 DEF RootHas, Has

\* The headers of this process are no higher than the receipts there are, and each
\* contains the settled transfers at or below its height.
HeadersCover ==
    up => \A j \in born + 1 .. Len(chain) :
            /\ chain[j].height <= Len(leaves)
            /\ \A i \in AppliedIdx : i <= chain[j].height =>
                 RootHas(chain[j].stateRoot, leaves[i].tx)

\* A header built now covers the receipts of now, and the older ones stay as they were.
LEMMA NextHeadersCover ==
    CoverInv /\ ProcessInv /\ HeadersCover /\ [Next]_vars => HeadersCover'
<1> SUFFICES ASSUME CoverInv, ProcessInv, HeadersCover, [Next]_vars PROVE HeadersCover'
  OBVIOUS
<1>0. /\ TypeInv /\ TypeOK /\ Len(chain) \in Nat /\ born \in Nat /\ Len(leaves) \in Nat
      /\ leaves \in Seq(Receipt) /\ db \in DB
  BY DEF ProcessInv, TypeInv, TypeOK
<1>00. \A j \in born + 1 .. Len(chain) : j \in 1 .. Len(chain) /\ chain[j].height \in Nat
  <2>1. chain \in Seq(Header)
    BY <1>0 DEF TypeOK
  <2>2. \A j \in born + 1 .. Len(chain) : j \in 1 .. Len(chain) /\ chain[j] \in Header
    BY <1>0, <2>1
  <2>3. QED
    BY <2>2 DEF Header
<1>1. CASE Boot
  <2>1. born' = Len(chain) /\ chain' = chain
    BY <1>1 DEF Boot
  <2>2. QED
    BY <1>0, <2>1 DEF HeadersCover
<1>2. ASSUME NEW w \in Worker, StoreReceipt(w) PROVE HeadersCover'
  <2>1. /\ up' = up /\ born' = born /\ chain' = chain
    BY <1>2 DEF StoreReceipt, commitVars
  <2>2. /\ Len(leaves') = Len(leaves) + 1
        /\ \A i \in 1 .. Len(leaves) : leaves'[i] = leaves[i]
    BY <1>0, <1>2, StoreAppends
  <2>3. ASSUME up, NEW j \in born + 1 .. Len(chain)
        PROVE  /\ chain[j].height <= Len(leaves')
               /\ \A i \in AppliedIdx' : i <= chain[j].height =>
                    RootHas(chain[j].stateRoot, leaves'[i].tx)
    <3>1. /\ chain[j].height <= Len(leaves) /\ chain[j].height \in Nat
          /\ \A i \in AppliedIdx : i <= chain[j].height =>
               RootHas(chain[j].stateRoot, leaves[i].tx)
      BY <1>00, <2>3 DEF HeadersCover
    <3>2. \A i \in AppliedIdx' : i <= chain[j].height =>
            i \in AppliedIdx /\ leaves'[i] = leaves[i]
      <4> SUFFICES ASSUME NEW i \in 1 .. Len(leaves) + 1, leaves'[i].status = "applied",
                          i <= chain[j].height
                   PROVE  i \in AppliedIdx /\ leaves'[i] = leaves[i]
        BY <2>2 DEF AppliedIdx
      <4>1. i \in 1 .. Len(leaves)
        BY <1>0, <3>1
      <4>2. QED
        BY <2>2, <4>1 DEF AppliedIdx
    <3>3. QED
      BY <1>0, <2>2, <3>1, <3>2
  <2>4. QED
    BY <2>1, <2>3 DEF HeadersCover
<1>3. CASE CommitRound
  <2>1. /\ up /\ up' = up /\ born' = born /\ leaves' = leaves
    BY <1>3 DEF CommitRound
  <2>2. /\ Len(chain') = Len(chain) + 1
        /\ \A j \in 1 .. Len(chain) : chain'[j] = chain[j]
        /\ chain'[Len(chain) + 1].height = Len(leaves)
        /\ chain'[Len(chain) + 1].stateRoot = StateRoot(db)
    BY <1>0, <1>3, ChainGrows DEF BuildEternityHeader
  <2>3. AppliedIdx' = AppliedIdx
    BY <2>1 DEF AppliedIdx
  <2>4. \A i \in AppliedIdx : RootHas(StateRoot(db), leaves[i].tx)
    <3>1. \A i \in AppliedIdx : leaves[i].tx \in Settled(leaves)
      BY DEF AppliedIdx, Settled, Held
    <3>2. \A t \in Settled(leaves) : t \in Transfer /\ Has(db, t)
      BY <1>0, <2>1, SettledType DEF CoverInv, MemoryCovers
    <3>3. QED
      BY <1>0, <3>1, <3>2, RootOfHas
  <2>5. ASSUME NEW j \in born + 1 .. Len(chain) + 1
        PROVE  /\ chain'[j].height <= Len(leaves)
               /\ \A i \in AppliedIdx : i <= chain'[j].height =>
                    RootHas(chain'[j].stateRoot, leaves[i].tx)
    <3>1. CASE j = Len(chain) + 1
      BY <1>0, <2>2, <2>4, <3>1
    <3>2. CASE j # Len(chain) + 1
      <4>1. j \in born + 1 .. Len(chain)
        BY <1>0, <3>2
      <4>2. chain'[j] = chain[j]
        BY <1>00, <2>2, <4>1
      <4>3. QED
        BY <2>1, <4>1, <4>2 DEF HeadersCover
    <3>3. QED
      BY <3>1, <3>2
  <2>6. QED
    BY <2>1, <2>2, <2>3, <2>5 DEF HeadersCover
<1>4. CASE UNCHANGED <<leaves, born, chain>> /\ (up' => up)
  BY <1>4 DEF HeadersCover, AppliedIdx
<1>5. QED
  BY <1>1, <1>2, <1>3, <1>4, HeaderSteps, LedgerSteps
     DEF RecordCommitBundle, CrashInSaveLedger, Die, ledgerVars, commitVars

\* A header's state root contains every settled transfer at or below the header's
\* height, for any number of handlers running beside CommitRound, which reads the
\* accounts without stopping them (buildEternityHeader), under the same conditions.
THEOREM HeadersCoverTheReceipts ==
    ASSUME NoCrashes \/ (CleanCrashes /\ OneHandler)
    PROVE  Spec => []HeadersCoverReceipts
<1> DEFINE I == CoverInv /\ ProcessInv /\ HeadersCover
<1>1. Init => I
  <2>1. ASSUME Init PROVE HeadersCover
    BY <2>1 DEF Init, HeadersCover
  <2>2. QED
    BY <2>1, InitCover, InitProcess
<1>2. I /\ [Next]_vars => I'
  BY NextCover, NextProcess, NextHeadersCover
<1>3. I => HeadersCoverReceipts
  <2> SUFFICES ASSUME I, up, NEW k \in 1 .. Len(Headers), NEW i \in AppliedIdx,
                      i <= Headers[k].height
               PROVE  RootHas(Headers[k].stateRoot, leaves[i].tx)
    BY DEF HeadersCoverReceipts, RootHas
  <2>1. TypeOK /\ born <= Len(chain)
    BY DEF ProcessInv, TypeInv
  <2>2. /\ k \in 1 .. Len(chain) - born /\ Headers[k] = chain[born + k]
        /\ Len(chain) \in Nat /\ born \in Nat
    BY <2>1, HeadersShape
  <2>3. born + k \in born + 1 .. Len(chain)
    BY <2>2
  <2>4. QED
    BY <2>2, <2>3 DEF HeadersCover
<1>4. QED
  BY <1>1, <1>2, <1>3, PTL DEF Spec
-------------------------------------------------------------------------------
(***************************************************************************)
(* Nonces and balances, in a node without faults: a failed save leaves a   *)
(* transfer in the accounts whose receipt says rejected.                   *)
(***************************************************************************)
\* What a sender has: applied receipts, handlers in flight, and the nonces of both.
SenderIdx(a) == {i \in AppliedIdx : leaves[i].tx.from = a}
SenderFlight(a) == {w \in InFlight : txOf[w].from = a}
SenderNonces(a) == {t.nonce : t \in {u \in Effects : u.from = a}}

\* The process starts once, from genesis.
FreshStart == ~ up => ledgerFile = NoFile /\ stateFile = NoFile

NonceInv == TypeInv /\ WorkersUp /\ FreshStart /\ NoncesAccounted

\* Without faults the only process finds no file.
LEMMA NextFresh ==
    ASSUME Faults = {}
    PROVE  TypeInv /\ WorkersUp /\ FreshStart /\ [Next]_vars => FreshStart'
<1> SUFFICES ASSUME WorkersUp, FreshStart, [Next]_vars PROVE FreshStart'
  OBVIOUS
<1>1. CASE Next
  BY <1>1, StaysUp DEF NoCrashes, FreshStart
<1>2. CASE UNCHANGED vars
  BY <1>2 DEF FreshStart, vars
<1>3. QED
  BY <1>1, <1>2

\* What the first process starts with.
LEMMA FirstBoot ==
    ASSUME Faults = {}, V1File = NoFile, TypeInv, WorkersUp, FreshStart, Boot
    PROVE  db' = GenesisDB /\ leaves' = <<>> /\ InFlight' = {}
<1>1. ~ up /\ ledgerFile = NoFile /\ stateFile = NoFile /\ pc' = pc /\ status' = status
  BY DEF Boot, FreshStart
<1>2. LoadedState = GenesisDB /\ LoadedLedger.receipts = {}
  BY <1>1 DEF LoadedState, LoadedLedger, Readable
<1>3. leaves' \in HeightOrders({}) /\ Cardinality({}) = 0
  BY <1>2, FS_EmptySet DEF Boot
<1>4. leaves' = <<>>
  BY <1>3 DEF HeightOrders
<1>5. InFlight' = {}
  BY <1>1 DEF WorkersUp, InFlight
<1>6. QED
  BY <1>2, <1>4, <1>5 DEF Boot

\* The three ways a step can change what senders have: not at all, by a transfer that
\* enters the accounts, or by a receipt for one that is in them.
Settles(w) ==
    /\ w \in InFlight
    /\ InFlight' = InFlight \ {w}
    /\ \A v \in InFlight \ {w} : txOf'[v] = txOf[v]
    /\ Len(leaves') = Len(leaves) + 1
    /\ \A i \in 1 .. Len(leaves) : leaves'[i] = leaves[i]
    /\ leaves'[Len(leaves) + 1].tx = txOf[w]
    /\ leaves'[Len(leaves) + 1].status = "applied"
    /\ db' = db

Enters(w) ==
    /\ w \notin InFlight /\ InFlight' = InFlight \cup {w}
    /\ txOf' = txOf /\ leaves' = leaves
    /\ txOf[w] \in Transfer
    /\ Verdict(db, txOf[w]) = "applied"
    /\ db' = ApplyTransfer(db, txOf[w])

Rests ==
    /\ InFlight' = InFlight
    /\ \A v \in InFlight : txOf'[v] = txOf[v]
    /\ AppliedIdx' = AppliedIdx
    /\ \A i \in AppliedIdx : leaves'[i] = leaves[i]
    /\ db'.acct = db.acct

\* Without faults every step after the start is one of the three.
LEMMA EffectSteps ==
    ASSUME Faults = {}, TypeInv, WorkersUp, [Next]_vars
    PROVE  \/ Boot
           \/ up /\ (Rests \/ \E w \in Worker : Enters(w) \/ Settles(w))
           \/ ~ up' /\ ~ up
<1>0. /\ db \in DB /\ leaves \in Seq(Receipt) /\ Len(leaves) \in Nat
      /\ pc \in [Worker -> {"idle", "apply", "snapshot", "open", "write", "store"}]
      /\ txOf \in [Worker -> Transfer \cup {NoTx}]
      /\ status \in [Worker -> Status \cup {"none"}]
      /\ WorkerShape
  BY DEF TypeInv, TypeOK
<1>1. CASE UNCHANGED vars
  <2>1. Rests /\ up' = up
    BY <1>1 DEF vars, Rests, InFlight, AppliedIdx
  <2>2. QED
    BY <1>0, <2>1 DEF TypeInv, TypeOK
<1>2. CASE Next /\ ~ up
  BY <1>2, DownBoots
<1>3. CASE Next /\ up /\ ~ Boot
  <2>1. ~ Crash /\ ~ CrashInSaveLedger
    BY DEF Crash, CrashInSaveLedger
  <2>2. ASSUME NEW w \in Worker, Apply(w)
        PROVE  Rests \/ Enters(w)
    <3>1. /\ pc[w] = "apply" /\ leaves' = leaves /\ txOf' = txOf /\ txOf[w] \in Transfer
          /\ db' = ApplyTransfer(db, txOf[w])
      BY <1>0, <2>2 DEF Apply, ledgerVars, WorkerShape
    <3>2. CASE Verdict(db, txOf[w]) = "applied"
      <4>1. pc' = [pc EXCEPT ![w] = "snapshot"] /\ status' = [status EXCEPT ![w] = "applied"]
        BY <2>2, <3>2 DEF Apply
      <4>2. InFlight' = InFlight \cup {w} /\ w \notin InFlight
        BY <1>0, <3>1, <4>1 DEF InFlight
      <4>3. QED
        BY <3>1, <3>2, <4>2 DEF Enters
    <3>3. CASE Verdict(db, txOf[w]) # "applied"
      <4>1. /\ pc' = [pc EXCEPT ![w] = "store"]
            /\ status' = [status EXCEPT ![w] = Verdict(db, txOf[w])]
        BY <2>2, <3>3 DEF Apply
      <4>2. InFlight' = InFlight
        BY <1>0, <3>1, <3>3, <4>1 DEF InFlight
      <4>3. db'.acct = db.acct
        BY <1>0, <3>1, <3>3 DEF ApplyTransfer, Touch, DB
      <4>4. QED
        BY <3>1, <4>2, <4>3 DEF Rests, AppliedIdx
    <3>4. QED
      BY <3>2, <3>3
  <2>3. ASSUME NEW w \in Worker, StoreReceipt(w)
        PROVE  Rests \/ Settles(w)
    <3>1. /\ Len(leaves') = Len(leaves) + 1
          /\ \A i \in 1 .. Len(leaves) : leaves'[i] = leaves[i]
          /\ leaves'[Len(leaves) + 1].tx = txOf[w]
          /\ leaves'[Len(leaves) + 1].status = status[w]
      BY <2>3, StoreAppends
    <3>2. /\ pc[w] = "store" /\ db' = db
          /\ pc' = [pc EXCEPT ![w] = "idle"] /\ txOf' = [txOf EXCEPT ![w] = NoTx]
          /\ status' = [status EXCEPT ![w] = "none"]
      BY <2>3 DEF StoreReceipt
    <3>3. InFlight' = InFlight \ {w} /\ (w \in InFlight <=> status[w] = "applied")
      BY <1>0, <3>2 DEF InFlight
    <3>4. \A v \in InFlight \ {w} : txOf'[v] = txOf[v]
      BY <1>0, <3>2 DEF InFlight
    <3>5. CASE status[w] = "applied"
      BY <3>1, <3>2, <3>3, <3>4, <3>5 DEF Settles
    <3>6. CASE status[w] # "applied"
      <4>1. AppliedIdx' = AppliedIdx
        <5>1. \A i : i \in 1 .. Len(leaves) + 1 <=> i \in 1 .. Len(leaves) \/ i = Len(leaves) + 1
          BY <1>0
        <5>2. QED
          BY <3>1, <3>6, <5>1 DEF AppliedIdx
      <4>2. \A i \in AppliedIdx : leaves'[i] = leaves[i]
        BY <3>1 DEF AppliedIdx
      <4>3. QED
        BY <3>2, <3>3, <3>4, <3>6, <4>1, <4>2 DEF Rests
    <3>7. QED
      BY <3>5, <3>6
  <2>4. ASSUME NEW w \in Worker,
               \/ TakeSnapshot(w) \/ OpenStateFile(w) \/ WriteStateFile(w)
               \/ SaveStateFails(w) \/ \E t \in Transfer : Submit(w, t)
        PROVE  Rests
    <3>0. ~ SaveStateFails(w)
      BY DEF SaveStateFails
    <3>1. db' = db /\ leaves' = leaves
      BY <2>4, <3>0 DEF TakeSnapshot, OpenStateFile, WriteStateFile, Submit, ledgerVars
    <3>2. InFlight' = InFlight
      BY <1>0, <2>4, <3>0
         DEF TakeSnapshot, OpenStateFile, WriteStateFile, Submit, InFlight, WorkerShape
    <3>3. \A v \in InFlight : txOf'[v] = txOf[v]
      BY <1>0, <2>4, <3>0 DEF TakeSnapshot, OpenStateFile, WriteStateFile, Submit, InFlight
    <3>4. QED
      BY <3>1, <3>2, <3>3 DEF Rests, AppliedIdx
  <2>5. ASSUME NEW a \in Addr, ReadAccount(a) PROVE Rests
    <3>1. db'.acct = db.acct
      BY <1>0, <2>5 DEF ReadAccount, Touch, DB
    <3>2. QED
      BY <2>5, <3>1 DEF ReadAccount, Rests, InFlight, AppliedIdx, ledgerVars, workerVars
  <2>6. ASSUME CommitRound \/ \E b \in ExtBundle : RecordCommitBundle(b) PROVE Rests
    <3>1. UNCHANGED <<db, leaves, pc, txOf, status>>
      BY <2>6 DEF CommitRound, RecordCommitBundle, ledgerVars, workerVars
    <3>2. QED
      BY <3>1 DEF Rests, InFlight, AppliedIdx
  <2>7. QED
    BY <1>3, <2>1, <2>2, <2>3, <2>4, <2>5, <2>6 DEF Next, Step
<1>4. QED
  BY <1>1, <1>2, <1>3

\* Effects are transfers, and the sets they are counted by are finite.
LEMMA EffectsType ==
    ASSUME TypeInv
    PROVE  /\ Effects \subseteq Transfer
           /\ AppliedIdx \subseteq 1 .. Len(leaves) /\ IsFiniteSet(AppliedIdx)
           /\ InFlight \subseteq Worker /\ IsFiniteSet(InFlight)
<1>1. leaves \in Seq(Receipt) /\ Len(leaves) \in Nat /\ WorkerShape
  BY DEF TypeInv, TypeOK
<1>2. \A i \in AppliedIdx : leaves[i] \in Receipt
  BY <1>1 DEF AppliedIdx
<1>3. \A i \in AppliedIdx : leaves[i].tx \in Transfer
  BY <1>2 DEF Receipt
<1>4. \A w \in InFlight : txOf[w] \in Transfer
  BY <1>1 DEF InFlight, WorkerShape
<1>5. AppliedIdx \subseteq 1 .. Len(leaves) /\ InFlight \subseteq Worker
  BY DEF AppliedIdx, InFlight
<1>6. IsFiniteSet(1 .. Len(leaves))
  BY <1>1, FS_Interval
<1>7. IsFiniteSet(AppliedIdx) /\ IsFiniteSet(InFlight)
  BY <1>5, <1>6, EngineAssumption, FS_Subset
<1>8. QED
  BY <1>3, <1>4, <1>5, <1>7 DEF Effects

\* A receipt for a transfer in flight is no new effect.
LEMMA SettlesIdx ==
    ASSUME TypeInv, NEW w \in Worker, Settles(w)
    PROVE  /\ AppliedIdx' = AppliedIdx \cup {Len(leaves) + 1}
           /\ Len(leaves) + 1 \notin AppliedIdx
           /\ Effects' = Effects
<1>1. Len(leaves) \in Nat
  BY DEF TypeInv, TypeOK
<1>2. /\ \A i : i \in 1 .. Len(leaves) + 1 <=> i \in 1 .. Len(leaves) \/ i = Len(leaves) + 1
      /\ Len(leaves) + 1 \notin 1 .. Len(leaves)
  BY <1>1
<1>3. /\ AppliedIdx' = AppliedIdx \cup {Len(leaves) + 1}
      /\ Len(leaves) + 1 \notin AppliedIdx
  BY <1>2 DEF Settles, AppliedIdx
<1>4. {leaves'[i].tx : i \in AppliedIdx'} = {leaves[i].tx : i \in AppliedIdx} \cup {txOf[w]}
  <2>1. \A i \in AppliedIdx : leaves'[i] = leaves[i]
    BY DEF Settles, AppliedIdx
  <2>2. leaves'[Len(leaves) + 1].tx = txOf[w]
    BY DEF Settles
  <2>3. QED
    BY <1>3, <2>1, <2>2
<1>5. {txOf'[v] : v \in InFlight'} \cup {txOf[w]} = {txOf[v] : v \in InFlight}
  BY DEF Settles
<1>6. QED
  BY <1>3, <1>4, <1>5 DEF Effects

\* A step that applies and settles nothing leaves the effects alone.
LEMMA RestsEffects ==
    ASSUME Rests
    PROVE  Effects' = Effects
BY DEF Rests, Effects

\* A transfer that only enters a handler has no effect yet.
LEMMA EntersEffects ==
    ASSUME NEW w \in Worker, Enters(w)
    PROVE  Effects' = Effects \cup {txOf[w]}
BY DEF Enters, Effects, AppliedIdx

\* Nonces are accounted for after every step.
LEMMA NextNonces ==
    ASSUME Faults = {}, V1File = NoFile
    PROVE  NonceInv /\ [Next]_vars => NoncesAccounted'
<1> SUFFICES ASSUME NonceInv, [Next]_vars, up', NEW a \in Addr
             PROVE  (/\ Cardinality(SenderIdx(a)) + Cardinality(SenderFlight(a))
                          = db.acct[a].nonce
                     /\ SenderNonces(a) = 1 .. db.acct[a].nonce)'
  BY DEF NoncesAccounted, SenderIdx, SenderFlight, SenderNonces
<1>0. /\ TypeInv /\ WorkersUp /\ FreshStart /\ Len(leaves) \in Nat
      /\ db \in DB /\ db.acct[a].nonce \in Nat
  BY DEF NonceInv, TypeInv, TypeOK, DB, Account
<1>00. up => /\ Cardinality(SenderIdx(a)) + Cardinality(SenderFlight(a)) = db.acct[a].nonce
             /\ SenderNonces(a) = 1 .. db.acct[a].nonce
  BY DEF NonceInv, NoncesAccounted, SenderIdx, SenderFlight, SenderNonces
<1>000. /\ IsFiniteSet(SenderIdx(a)) /\ IsFiniteSet(SenderFlight(a))
        /\ Cardinality(SenderIdx(a)) \in Nat /\ Cardinality(SenderFlight(a)) \in Nat
  <2>1. IsFiniteSet(SenderIdx(a)) /\ IsFiniteSet(SenderFlight(a))
    BY <1>0, EffectsType, FS_Subset DEF SenderIdx, SenderFlight
  <2>2. QED
    BY <2>1, FS_CardinalityType
<1>1. CASE Boot
  <2>1. db' = GenesisDB /\ leaves' = <<>> /\ InFlight' = {}
    BY <1>0, <1>1, FirstBoot
  <2>2. AppliedIdx' = {} /\ db'.acct[a].nonce = 0
    BY <2>1 DEF AppliedIdx, GenesisDB
  <2>3. SenderIdx(a)' = {} /\ SenderFlight(a)' = {} /\ SenderNonces(a)' = {}
    BY <2>1, <2>2 DEF SenderIdx, SenderFlight, SenderNonces, Effects
  <2>4. QED
    BY <2>2, <2>3, FS_EmptySet
<1>2. CASE up /\ Rests
  <2>1. SenderIdx(a)' = SenderIdx(a) /\ SenderFlight(a)' = SenderFlight(a)
    BY <1>2 DEF Rests, SenderIdx, SenderFlight
  <2>2. SenderNonces(a)' = SenderNonces(a)
    BY <1>2, RestsEffects DEF SenderNonces
  <2>3. db'.acct = db.acct
    BY <1>2 DEF Rests
  <2>4. QED
    BY <1>00, <1>2, <2>1, <2>2, <2>3
<1>3. ASSUME up, NEW w \in Worker, Enters(w)
      PROVE  (/\ Cardinality(SenderIdx(a)) + Cardinality(SenderFlight(a)) = db.acct[a].nonce
              /\ SenderNonces(a) = 1 .. db.acct[a].nonce)'
  <2> DEFINE t == txOf[w]
             n == db.acct[a].nonce
  <2>1. SenderIdx(a)' = SenderIdx(a)
    BY <1>3 DEF Enters, SenderIdx, AppliedIdx
  <2>2. CASE t.from = a
    <3>1. SenderFlight(a)' = SenderFlight(a) \cup {w} /\ w \notin SenderFlight(a)
      BY <1>3, <2>2 DEF Enters, SenderFlight
    <3>2. Cardinality(SenderFlight(a)') = Cardinality(SenderFlight(a)) + 1
      BY <1>000, <3>1, FS_AddElement
    <3>3. t.nonce = n + 1 /\ db'.acct[a].nonce = n + 1
      BY <1>0, <1>3, <2>2, NonceAfter DEF Enters, Verdict
    <3>4. SenderNonces(a)' = SenderNonces(a) \cup {n + 1}
      BY <1>3, <2>2, <3>3, EntersEffects DEF SenderNonces
    <3>5. 1 .. n + 1 = (1 .. n) \cup {n + 1}
      BY <1>0
    <3>6. QED
      BY <1>0, <1>00, <1>000, <1>3, <2>1, <3>2, <3>3, <3>4, <3>5
  <2>3. CASE t.from # a
    <3>1. SenderFlight(a)' = SenderFlight(a)
      BY <1>3, <2>3 DEF Enters, SenderFlight
    <3>2. db'.acct[a].nonce = n
      BY <1>0, <1>3, <2>3, NonceAfter DEF Enters
    <3>3. SenderNonces(a)' = SenderNonces(a)
      BY <1>3, <2>3, EntersEffects DEF SenderNonces
    <3>4. QED
      BY <1>00, <1>3, <2>1, <3>1, <3>2, <3>3
  <2>4. QED
    BY <2>2, <2>3
<1>4. ASSUME up, NEW w \in Worker, Settles(w)
      PROVE  (/\ Cardinality(SenderIdx(a)) + Cardinality(SenderFlight(a)) = db.acct[a].nonce
              /\ SenderNonces(a) = 1 .. db.acct[a].nonce)'
  <2> DEFINE k == Len(leaves) + 1
  <2>1. /\ AppliedIdx' = AppliedIdx \cup {k} /\ k \notin AppliedIdx
        /\ SenderNonces(a)' = SenderNonces(a) /\ db' = db
    BY <1>0, <1>4, SettlesIdx DEF Settles, SenderNonces
  <2>2. (\A i \in AppliedIdx : leaves'[i] = leaves[i]) /\ leaves'[k].tx = txOf[w]
    BY <1>4 DEF Settles, AppliedIdx
  <2> HIDE DEF k
  <2>3. CASE txOf[w].from = a
    <3>1. SenderIdx(a)' = SenderIdx(a) \cup {k} /\ k \notin SenderIdx(a)
      BY <2>1, <2>2, <2>3 DEF SenderIdx
    <3>2. SenderFlight(a)' = SenderFlight(a) \ {w} /\ w \in SenderFlight(a)
      BY <1>4, <2>3 DEF Settles, SenderFlight
    <3>3. Cardinality(SenderIdx(a)') = Cardinality(SenderIdx(a)) + 1
      BY <1>000, <3>1, FS_AddElement
    <3>4. Cardinality(SenderFlight(a)') = Cardinality(SenderFlight(a)) - 1
      BY <1>000, <3>2, FS_RemoveElement
    <3>5. QED
      BY <1>0, <1>00, <1>000, <1>4, <2>1, <3>3, <3>4
  <2>4. CASE txOf[w].from # a
    <3>1. SenderIdx(a)' = SenderIdx(a)
      BY <2>1, <2>2, <2>4 DEF SenderIdx
    <3>2. SenderFlight(a)' = SenderFlight(a)
      BY <1>4, <2>4 DEF Settles, SenderFlight
    <3>3. QED
      BY <1>00, <1>4, <2>1, <3>1, <3>2
  <2>5. QED
    BY <2>3, <2>4
<1>5. QED
  BY <1>0, <1>1, <1>2, <1>3, <1>4, EffectSteps

\* No nonce is used before the first process.
LEMMA InitNonces == Init => NonceInv
<1> SUFFICES ASSUME Init PROVE NonceInv
  OBVIOUS
<1>1. FreshStart /\ NoncesAccounted
  BY DEF Init, FreshStart, NoncesAccounted
<1>2. QED
  BY <1>1, InitType, InitUp DEF NonceInv

\* In a node without faults every nonce of every sender up to its account's nonce is
\* used by exactly one applied transfer, with a receipt or in flight, whatever clients
\* send, send again and race (DB.ApplyTransfer, txPostHandler).
THEOREM NoncesAreAccounted ==
    ASSUME Faults = {}, V1File = NoFile
    PROVE  Spec => []NoncesAccounted
<1>1. NonceInv /\ [Next]_vars => NonceInv'
  BY NextType, NextUp, NextFresh, NextNonces DEF NonceInv
<1>2. NonceInv => NoncesAccounted
  BY DEF NonceInv
<1>3. QED
  BY <1>1, <1>2, InitNonces, PTL DEF Spec
-------------------------------------------------------------------------------
(***************************************************************************)
(* The receipts explain the balances.                                      *)
(***************************************************************************)
\* What a transfer takes, gives and pays in fees, as functions.
CostOf   == [t \in Transfer |-> t.amount + t.fee]
AmountOf == [t \in Transfer |-> t.amount]
FeeOf    == [t \in Transfer |-> t.fee]

\* The sum over a lambda is the sum of the function: of the costs,
LEMMA CostSum ==
    ASSUME NEW S \in SUBSET Transfer
    PROVE  SumOver(LAMBDA t : t.amount + t.fee, S) = Sum(CostOf, S)
<1> DEFINE J(h) == h = [s \in SUBSET S |->
                          IF s = {} THEN 0
                          ELSE (First(s).amount + First(s).fee) + h[s \ {First(s)}]]
           it == CHOOSE h : J(h)
<1>1. IsFiniteSet(S)
  BY AccountsAssumption, FS_Subset
<1>2. ASSUME NEW h PROVE J(h) <=> IsSum(h, CostOf, S)
  <2>1. \A s \in SUBSET S : s # {} => CostOf[First(s)] = (First(s).amount + First(s).fee)
    BY FirstType DEF CostOf
  <2>2. \A s \in SUBSET S :
          SumAt(h, CostOf, s) = IF s = {} THEN 0
                                ELSE (First(s).amount + First(s).fee) + h[s \ {First(s)}]
    BY <2>1 DEF SumAt
  <2>3. QED
    BY <2>2 DEF IsSum
<1>3. \E g : IsSum(g, CostOf, S)
  BY <1>1, SumExists
<1>4. J(it)
  BY <1>2, <1>3
<1>5. IsSum(it, CostOf, S)
  BY <1>2, <1>4
<1>6. SumOver(LAMBDA t : t.amount + t.fee, S) = it[S]
  BY DEF SumOver, MapThenSumSet, MapThenFoldSet, First
<1>7. QED
  BY <1>1, <1>5, <1>6, SumUnfold

\* ... of the amounts,
LEMMA AmountSum ==
    ASSUME NEW S \in SUBSET Transfer
    PROVE  SumOver(LAMBDA t : t.amount, S) = Sum(AmountOf, S)
<1> DEFINE J(h) == h = [s \in SUBSET S |->
                          IF s = {} THEN 0
                          ELSE First(s).amount + h[s \ {First(s)}]]
           it == CHOOSE h : J(h)
<1>1. IsFiniteSet(S)
  BY AccountsAssumption, FS_Subset
<1>2. ASSUME NEW h PROVE J(h) <=> IsSum(h, AmountOf, S)
  <2>1. \A s \in SUBSET S : s # {} => AmountOf[First(s)] = First(s).amount
    BY FirstType DEF AmountOf
  <2>2. \A s \in SUBSET S :
          SumAt(h, AmountOf, s) = IF s = {} THEN 0
                                ELSE First(s).amount + h[s \ {First(s)}]
    BY <2>1 DEF SumAt
  <2>3. QED
    BY <2>2 DEF IsSum
<1>3. \E g : IsSum(g, AmountOf, S)
  BY <1>1, SumExists
<1>4. J(it)
  BY <1>2, <1>3
<1>5. IsSum(it, AmountOf, S)
  BY <1>2, <1>4
<1>6. SumOver(LAMBDA t : t.amount, S) = it[S]
  BY DEF SumOver, MapThenSumSet, MapThenFoldSet, First
<1>7. QED
  BY <1>1, <1>5, <1>6, SumUnfold

\* ... and of the fees.
LEMMA FeeSum ==
    ASSUME NEW S \in SUBSET Transfer
    PROVE  SumOver(LAMBDA t : t.fee, S) = Sum(FeeOf, S)
<1> DEFINE J(h) == h = [s \in SUBSET S |->
                          IF s = {} THEN 0
                          ELSE First(s).fee + h[s \ {First(s)}]]
           it == CHOOSE h : J(h)
<1>1. IsFiniteSet(S)
  BY AccountsAssumption, FS_Subset
<1>2. ASSUME NEW h PROVE J(h) <=> IsSum(h, FeeOf, S)
  <2>1. \A s \in SUBSET S : s # {} => FeeOf[First(s)] = First(s).fee
    BY FirstType DEF FeeOf
  <2>2. \A s \in SUBSET S :
          SumAt(h, FeeOf, s) = IF s = {} THEN 0
                                ELSE First(s).fee + h[s \ {First(s)}]
    BY <2>1 DEF SumAt
  <2>3. QED
    BY <2>2 DEF IsSum
<1>3. \E g : IsSum(g, FeeOf, S)
  BY <1>1, SumExists
<1>4. J(it)
  BY <1>2, <1>3
<1>5. IsSum(it, FeeOf, S)
  BY <1>2, <1>4
<1>6. SumOver(LAMBDA t : t.fee, S) = it[S]
  BY DEF SumOver, MapThenSumSet, MapThenFoldSet, First
<1>7. QED
  BY <1>1, <1>5, <1>6, SumUnfold

\* A credit that fits changes one balance by its amount.
LEMMA CreditBalance ==
    ASSUME NEW acct \in [Addr -> Account], NEW a \in Addr, NEW n \in Nat,
           Worth(acct) + n < Word, NEW x \in Addr
    PROVE  Credit(acct, a, n)[x].bal = acct[x].bal + (IF x = a THEN n ELSE 0)
<1>1. /\ Worth(acct) \in Nat /\ acct[a].bal \in Nat /\ acct[a].bal <= Worth(acct)
      /\ acct[x].bal \in Nat
  BY WorthType
<1>2. acct[a].bal + n \in Nat /\ acct[a].bal + n < Word
  BY <1>1, AccountsAssumption
<1>3. (acct[a].bal + n) % Word = acct[a].bal + n
  BY <1>2, FitsWord
<1>4. QED
  BY <1>1, <1>3 DEF Credit, Account

\* What DB.ApplyTransfer does to each balance, also where sender, receiver and fee
\* receiver are the same account.
LEMMA BalanceAfter ==
    ASSUME MoneyFits, NEW d \in DB, NEW t \in Transfer, Total(d) = Money,
           Verdict(d, t) = "applied", NEW a \in Addr
    PROVE  ApplyTransfer(d, t).acct[a].bal
             = d.acct[a].bal - (IF a = t.from THEN t.amount + t.fee ELSE 0)
                 + (IF a = t.to THEN t.amount ELSE 0)
                 + (IF a = FeeReceiver THEN t.fee ELSE 0)
<1> DEFINE a1 == Debit(d.acct, t)
           a2 == Credit(a1, t.to, t.amount)
           a3 == Credit(a2, FeeReceiver, t.fee)
<1>1. /\ t.from \in Addr /\ t.to \in Addr /\ FeeReceiver \in Addr
      /\ t.amount \in Nat /\ t.fee \in Nat /\ t.amount + t.fee < Word
      /\ Word \in Nat \ {0} /\ Money < Word
  BY AccountsAssumption DEF MoneyFits
<1>2. d.acct \in [Addr -> Account] /\ Worth(d.acct) = Money
  BY TotalIsWorth DEF DB
<1>3. Need(t) = t.amount + t.fee
  BY <1>1, FitsWord DEF Need
<1>4. a1 \in [Addr -> Account]
  BY DebitType
<1>5. /\ a1[t.from].bal = d.acct[t.from].bal - (t.amount + t.fee)
      /\ \A x \in Addr \ {t.from} : a1[x].bal = d.acct[x].bal
  BY <1>1, <1>2, <1>3 DEF Debit
<1>6. /\ d.acct[t.from].bal \in Nat /\ d.acct[a].bal \in Nat /\ Worth(d.acct) \in Nat
      /\ Money \in Nat
  BY <1>1, <1>2, WorthType
<1>7. ApplyTransfer(d, t).acct = a3
  BY DEF ApplyTransfer
<1> HIDE DEF a1
<1>8. Worth(a1) = Money - (t.amount + t.fee)
  <2>1. Worth(a1) = Worth(d.acct) + a1[t.from].bal - d.acct[t.from].bal
    BY <1>1, <1>2, <1>4, <1>5, WorthUpdate
  <2>2. QED
    BY <1>1, <1>2, <1>5, <1>6, <2>1
<1>9. Worth(a1) \in Nat /\ a1[a].bal \in Nat
  BY <1>4, WorthType
<1>10. Worth(a1) + t.amount = Money - t.fee /\ Worth(a1) + t.amount < Word
  BY <1>1, <1>6, <1>8
<1>11. Worth(a2) = Money - t.fee /\ a2 \in [Addr -> Account]
  <2>1. Worth(a2) = Worth(a1) + t.amount
    BY <1>1, <1>4, <1>10, CreditWorth
  <2>2. QED
    BY <1>1, <1>4, <1>10, <2>1, CreditType
<1>12. a2[a].bal = a1[a].bal + (IF a = t.to THEN t.amount ELSE 0)
  BY <1>1, <1>4, <1>10, CreditBalance
<1> HIDE DEF a2
<1>13. a3[a].bal = a2[a].bal + (IF a = FeeReceiver THEN t.fee ELSE 0)
  BY <1>1, <1>6, <1>11, CreditBalance
<1> HIDE DEF a3
<1>14. a1[a].bal = d.acct[a].bal - (IF a = t.from THEN t.amount + t.fee ELSE 0)
  BY <1>5, <1>6
<1>15. QED
  BY <1>1, <1>6, <1>7, <1>9, <1>12, <1>13, <1>14

\* The three sums of an account.
Spent(a) == Sum(CostOf, {t \in Effects : t.from = a})
Received(a) == Sum(AmountOf, {t \in Effects : t.to = a})
Earned(a) == IF a = FeeReceiver THEN Sum(FeeOf, Effects) ELSE 0

\* LedgerExplainsBalances in terms of them.
LEMMA ExplainedBySums ==
    ASSUME TypeInv, NEW a \in Addr
    PROVE  /\ SumOver(LAMBDA t : t.amount + t.fee, {t \in Effects : t.from = a}) = Spent(a)
           /\ SumOver(LAMBDA t : t.amount, {t \in Effects : t.to = a}) = Received(a)
           /\ SumOver(LAMBDA t : t.fee, Effects) = Sum(FeeOf, Effects)
<1>1. Effects \subseteq Transfer
  BY EffectsType
<1>2. /\ {t \in Effects : t.from = a} \in SUBSET Transfer
      /\ {t \in Effects : t.to = a} \in SUBSET Transfer
      /\ Effects \in SUBSET Transfer
  BY <1>1
<1>3. QED
  BY <1>2, CostSum, AmountSum, FeeSum DEF Spent, Received

\* An effect more adds its term.
LEMMA SumOfOneMore ==
    ASSUME NEW f \in [Transfer -> Nat], NEW A \in SUBSET Transfer, NEW t \in Transfer,
           t \notin A
    PROVE  Sum(f, A \cup {t}) = Sum(f, A) + f[t]
<1>1. IsFiniteSet(A) /\ \A x \in A \cup {t} : f[x] \in Int
  BY AccountsAssumption, FS_Subset
<1>2. Sum(f, A) \in Nat
  BY <1>1, SumType
<1>3. Sum(f, A \cup {t}) = f[t] + Sum(f, A)
  BY <1>1, SumAdd
<1>4. QED
  BY <1>2, <1>3

Explained(a) == db.acct[a].bal + Spent(a) = Genesis[a] + Received(a) + Earned(a)

ExplainInv == NonceInv /\ MoneyInv /\ (up => \A a \in Addr : Explained(a))

\* Balances stay explained.
LEMMA NextExplained ==
    ASSUME Faults = {}, V1File = NoFile, MoneyFits
    PROVE  ExplainInv /\ [Next]_vars => (up => \A a \in Addr : Explained(a))'
<1> SUFFICES ASSUME ExplainInv, [Next]_vars, up', NEW a \in Addr
             PROVE  Explained(a)'
  OBVIOUS
<1>0. /\ TypeInv /\ WorkersUp /\ FreshStart /\ NoncesAccounted /\ db \in DB
      /\ db.acct[a].bal \in Nat /\ Genesis[a] \in Nat /\ (up => Total(db) = Money)
  <2>1. /\ TypeInv /\ WorkersUp /\ FreshStart /\ NoncesAccounted /\ MoneyConserved
    BY DEF ExplainInv, NonceInv, MoneyInv
  <2>2. db \in DB /\ (up => Total(db) = Money)
    BY <2>1 DEF TypeInv, TypeOK, MoneyConserved
  <2>3. db.acct[a] \in Account /\ Genesis[a] \in 0 .. Word - 1 /\ Word \in Nat
    BY <2>2, AccountsAssumption DEF DB
  <2>4. db.acct[a].bal \in Nat /\ Genesis[a] \in Nat
    BY <2>3 DEF Account
  <2>5. QED
    BY <2>1, <2>2, <2>4
<1>1. CASE Boot
  <2>1. db' = GenesisDB /\ leaves' = <<>> /\ InFlight' = {}
    BY <1>0, <1>1, FirstBoot
  <2>2. Effects' = {} /\ db'.acct[a].bal = Genesis[a]
    BY <2>1 DEF Effects, AppliedIdx, GenesisDB
  <2>3. Spent(a)' = 0 /\ Received(a)' = 0 /\ Earned(a)' = 0
    BY <2>2, SumEmpty DEF Spent, Received, Earned
  <2>4. QED
    BY <1>0, <2>2, <2>3 DEF Explained
<1>2. ASSUME up, Effects' = Effects, db'.acct = db.acct PROVE Explained(a)'
  <2>1. Spent(a)' = Spent(a) /\ Received(a)' = Received(a) /\ Earned(a)' = Earned(a)
    BY <1>2 DEF Spent, Received, Earned
  <2>2. QED
    BY <1>2, <2>1 DEF Explained, ExplainInv
<1>3. ASSUME up, NEW w \in Worker, Enters(w) PROVE Explained(a)'
  <2> DEFINE t == txOf[w]
             F == {u \in Transfer : u.from = a}
             T == {u \in Transfer : u.to = a}
  <2>1. /\ t \in Transfer /\ Verdict(db, t) = "applied" /\ db' = ApplyTransfer(db, t)
        /\ Effects' = Effects \cup {t}
    BY <1>3, EntersEffects DEF Enters
  <2>2. Effects \in SUBSET Transfer
    BY <1>0, EffectsType
  <2>3. t \notin Effects
    <3>1. t.from \in Addr /\ t.nonce = db.acct[t.from].nonce + 1
          /\ db.acct[t.from].nonce \in Nat
      BY <1>0, <2>1, AccountsAssumption DEF Verdict, DB, Account
    <3>2. {u.nonce : u \in {v \in Effects : v.from = t.from}} = 1 .. db.acct[t.from].nonce
      BY <1>0, <1>3, <3>1 DEF NoncesAccounted
    <3>3. t.nonce \notin 1 .. db.acct[t.from].nonce
      BY <3>1
    <3>4. QED
      BY <3>2, <3>3
  <2>4. /\ CostOf \in [Transfer -> Nat] /\ AmountOf \in [Transfer -> Nat]
        /\ FeeOf \in [Transfer -> Nat]
        /\ CostOf[t] = t.amount + t.fee /\ AmountOf[t] = t.amount /\ FeeOf[t] = t.fee
        /\ t.amount \in Nat /\ t.fee \in Nat
    BY <2>1, AccountsAssumption DEF CostOf, AmountOf, FeeOf
  <2> HIDE DEF t
  <2>5. /\ Spent(a) = Sum(CostOf, Effects \cap F)
        /\ Spent(a)' = Sum(CostOf, (Effects \cup {t}) \cap F)
    <3>1. /\ {u \in Effects : u.from = a} = Effects \cap F
          /\ {u \in Effects' : u.from = a} = (Effects \cup {t}) \cap F
      BY <2>1, <2>2
    <3>2. QED
      BY <3>1 DEF Spent
  <2>6. /\ Received(a) = Sum(AmountOf, Effects \cap T)
        /\ Received(a)' = Sum(AmountOf, (Effects \cup {t}) \cap T)
    <3>1. /\ {u \in Effects : u.to = a} = Effects \cap T
          /\ {u \in Effects' : u.to = a} = (Effects \cup {t}) \cap T
      BY <2>1, <2>2
    <3>2. QED
      BY <3>1 DEF Received
  <2>8. F \in SUBSET Transfer /\ T \in SUBSET Transfer
        /\ (t \in F <=> t.from = a) /\ (t \in T <=> t.to = a)
    BY <2>1
  <2> HIDE DEF F, T
  <2>13. /\ IsFiniteSet(Effects \cap F) /\ IsFiniteSet(Effects \cap T)
         /\ IsFiniteSet(Effects)
    BY <2>2, AccountsAssumption, FS_Subset
  <2>14. Spent(a) \in Nat /\ Received(a) \in Nat /\ Sum(FeeOf, Effects) \in Nat
    <3>1. /\ \A x \in Effects \cap F : CostOf[x] \in Nat
          /\ \A x \in Effects \cap T : AmountOf[x] \in Nat
          /\ \A x \in Effects : FeeOf[x] \in Nat
      BY <2>2, <2>4
    <3>2. QED
      BY <2>5, <2>6, <2>13, <3>1, SumType
  <2>9. Spent(a)' = Spent(a) + (IF t.from = a THEN t.amount + t.fee ELSE 0)
    <3>1. CASE t \in F
      <4>1. (Effects \cup {t}) \cap F = (Effects \cap F) \cup {t}
        BY <3>1
      <4>2. Effects \cap F \in SUBSET Transfer /\ t \notin Effects \cap F
        BY <2>2, <2>3
      <4>3. Sum(CostOf, (Effects \cap F) \cup {t}) = Sum(CostOf, Effects \cap F) + CostOf[t]
        BY <2>1, <2>4, <4>2, SumOfOneMore
      <4>4. QED
        BY <2>4, <2>5, <2>8, <3>1, <4>1, <4>3
    <3>2. CASE t \notin F
      <4>1. (Effects \cup {t}) \cap F = Effects \cap F
        BY <3>2
      <4>2. Spent(a)' = Spent(a)
        BY <2>5, <4>1
      <4>3. t.from # a
        BY <2>8, <3>2
      <4>4. QED
        BY <2>14, <4>2, <4>3
    <3>3. QED
      BY <3>1, <3>2
  <2>10. Received(a)' = Received(a) + (IF t.to = a THEN t.amount ELSE 0)
    <3>1. CASE t \in T
      <4>1. (Effects \cup {t}) \cap T = (Effects \cap T) \cup {t}
        BY <3>1
      <4>2. Effects \cap T \in SUBSET Transfer /\ t \notin Effects \cap T
        BY <2>2, <2>3
      <4>3. Sum(AmountOf, (Effects \cap T) \cup {t}) = Sum(AmountOf, Effects \cap T) + AmountOf[t]
        BY <2>1, <2>4, <4>2, SumOfOneMore
      <4>4. QED
        BY <2>4, <2>6, <2>8, <3>1, <4>1, <4>3
    <3>2. CASE t \notin T
      <4>1. (Effects \cup {t}) \cap T = Effects \cap T
        BY <3>2
      <4>2. Received(a)' = Received(a)
        BY <2>6, <4>1
      <4>3. t.to # a
        BY <2>8, <3>2
      <4>4. QED
        BY <2>14, <4>2, <4>3
    <3>3. QED
      BY <3>1, <3>2
  <2>11. Sum(FeeOf, Effects') = Sum(FeeOf, Effects) + t.fee
    BY <2>1, <2>2, <2>3, <2>4, SumOfOneMore
  <2>12. Earned(a)' = Earned(a) + (IF a = FeeReceiver THEN t.fee ELSE 0)
    BY <2>11 DEF Earned
  <2>15. Earned(a) \in Nat
    BY <2>14 DEF Earned
  <2>16. db'.acct[a].bal
             = db.acct[a].bal - (IF a = t.from THEN t.amount + t.fee ELSE 0)
                 + (IF a = t.to THEN t.amount ELSE 0)
                 + (IF a = FeeReceiver THEN t.fee ELSE 0)
    BY <1>0, <1>3, <2>1, BalanceAfter
  <2>17. db.acct[a].bal + Spent(a) = Genesis[a] + Received(a) + Earned(a)
    BY <1>3 DEF ExplainInv, Explained
  <2>18. QED
    <3> DEFINE x == IF t.from = a THEN t.amount + t.fee ELSE 0
               y == IF t.to = a THEN t.amount ELSE 0
               z == IF a = FeeReceiver THEN t.fee ELSE 0
    <3>1. x \in Nat /\ y \in Nat /\ z \in Nat
      BY <2>4
    <3>2. db'.acct[a].bal = db.acct[a].bal - x + y + z
      BY <2>16
    <3>3. Spent(a)' = Spent(a) + x /\ Received(a)' = Received(a) + y /\ Earned(a)' = Earned(a) + z
      BY <2>9, <2>10, <2>12
    <3> HIDE DEF x, y, z
    <3>4. db'.acct[a].bal + Spent(a)' = Genesis[a] + Received(a)' + Earned(a)'
      BY <1>0, <2>14, <2>15, <2>17, <3>1, <3>2, <3>3
    <3>5. QED
      BY <3>4 DEF Explained
<1>4. ASSUME up, NEW w \in Worker, Settles(w) PROVE Explained(a)'
  BY <1>0, <1>2, <1>4, SettlesIdx DEF Settles
<1>5. CASE up /\ Rests
  BY <1>2, <1>5, RestsEffects DEF Rests
<1>6. QED
  BY <1>0, <1>1, <1>3, <1>4, <1>5, EffectSteps

\* In a node without faults every balance is what genesis and the applied transfers, with
\* a receipt or in flight, add up to: no fee is lost and no receiver credited twice, also
\* where the sender is the receiver or the fee receiver (DB.ApplyTransfer, StoreReceipt).
THEOREM ReceiptsExplainBalances ==
    ASSUME Faults = {}, V1File = NoFile, MoneyFits
    PROVE  Spec => []LedgerExplainsBalances
<1>1. Init => ExplainInv
  <2>1. Init => ~ up
    BY DEF Init
  <2>2. QED
    BY <2>1, InitNonces, InitMoney DEF ExplainInv
<1>2. ExplainInv /\ [Next]_vars => ExplainInv'
  <2>1. ExplainInv /\ [Next]_vars => NonceInv' /\ MoneyInv'
    BY NextType, NextUp, NextFresh, NextNonces, NextMoney DEF ExplainInv, NonceInv
  <2>2. QED
    BY <2>1, NextExplained DEF ExplainInv
<1>3. ExplainInv => LedgerExplainsBalances
  <2> SUFFICES ASSUME ExplainInv, up, NEW a \in Addr
               PROVE  db.acct[a].bal
                        + SumOver(LAMBDA t : t.amount + t.fee, {t \in Effects : t.from = a})
                      = Genesis[a]
                        + SumOver(LAMBDA t : t.amount, {t \in Effects : t.to = a})
                        + (IF a = FeeReceiver THEN SumOver(LAMBDA t : t.fee, Effects) ELSE 0)
    BY DEF LedgerExplainsBalances
  <2>1. TypeInv
    BY DEF ExplainInv, NonceInv
  <2>2. Explained(a)
    BY DEF ExplainInv
  <2>3. QED
    BY <2>1, <2>2, ExplainedBySums DEF Explained, Earned
<1>4. QED
  BY <1>1, <1>2, <1>3, PTL DEF Spec
===============================================================================
