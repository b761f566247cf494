------------------------------ MODULE R2PProofs ------------------------------
(***************************************************************************)
(* Proofs about the requests to pay and their readers (modules R2P, R2PInv *)
(* and R2PReads).                                                          *)
(***************************************************************************)
EXTENDS R2PReads, LedgerProofs

Place == {"idle", "approve", "nonce", "paying", "mark",
          "declined", "canceled", "decline", "cancel"}

Store == [Request -> Record \cup {NoRecord}]

\* What the handlers need of the engine: the part of a worker that runs
\* Engine.ApplyTransfer and Engine.StoreReceipt.
WorkerOK(w) ==
    /\ pc[w] \in {"idle", "apply"} => status[w] = "none"
    /\ pc[w] \in {"snapshot", "open", "write"} => status[w] = "applied"
    /\ pc[w] = "store" => status[w] \in Status
    /\ pc[w] # "idle" => txOf[w] \in Transfer /\ up

EngineShape ==
    /\ up \in BOOLEAN
    /\ pc \in [Worker -> {"idle", "apply", "snapshot", "open", "write", "store"}]
    /\ txOf \in [Worker -> Transfer \cup {NoTx}]
    /\ status \in [Worker -> Status \cup {"none"}]
    /\ \A w \in Worker : WorkerOK(w)

\* A handler of R2P is inside the engine exactly between "paying" and the receipt.
HandlerOK(w) ==
    /\ at[w] # "idle" => about[w] \in Request /\ up
    /\ at[w] \notin {"idle", "paying"} => pc[w] = "idle"
    /\ at[w] = "paying" => pc[w] # "idle"
    /\ at[w] = "mark" => paidBy[w] \in Transfer

R2PShape ==
    /\ EngineShape
    /\ store \in Store
    /\ r2pFile \in Store \cup {NoFile}
    /\ at \in [Worker -> Place]
    /\ about \in [Worker -> Request \cup {NoRequest}]
    /\ paidBy \in [Worker -> Transfer \cup {NoHash}]
    /\ payments \in [Request -> [made : Nat, before : Nat]]
    /\ \A w \in Worker : HandlerOK(w)
-------------------------------------------------------------------------------
(***************************************************************************)
(* Engine steps of one worker.                                             *)
(***************************************************************************)
\* Nothing of the other workers changes.
Alone(w) ==
    /\ up' = up
    /\ \A v \in Worker \ {w} :
         pc'[v] = pc[v] /\ txOf'[v] = txOf[v] /\ status'[v] = status[v]

\* Verdicts are statuses.
LEMMA VerdictStatus ==
    ASSUME NEW d, NEW t
    PROVE  Verdict(d, t) \in Status \ {"io_error"}
BY DEF Verdict, Status

\* DB.ApplyTransfer in a worker.
LEMMA ApplyShape ==
    ASSUME EngineShape, NEW w \in Worker, Apply(w)
    PROVE  /\ EngineShape' /\ Alone(w)
           /\ pc[w] = "apply" /\ pc'[w] # "idle" /\ status'[w] = Verdict(db, txOf[w])
<1>1. Verdict(db, txOf[w]) \in Status \ {"io_error"}
  BY VerdictStatus
<1>2. /\ pc' = [pc EXCEPT ![w] = IF Verdict(db, txOf[w]) = "applied" THEN "snapshot" ELSE "store"]
      /\ status' = [status EXCEPT ![w] = Verdict(db, txOf[w])]
      /\ UNCHANGED <<up, txOf>> /\ pc[w] = "apply"
  BY DEF Apply
<1>3. QED
  BY <1>1, <1>2 DEF EngineShape, WorkerOK, Alone

\* saveStateMas in a worker.
LEMMA SaveShape ==
    ASSUME EngineShape, NEW w \in Worker,
           TakeSnapshot(w) \/ OpenStateFile(w) \/ WriteStateFile(w) \/ SaveStateFails(w)
    PROVE  /\ EngineShape' /\ Alone(w)
           /\ pc'[w] \notin {"idle", "apply"} /\ status[w] = "applied"
           /\ status'[w] \in {"applied", "io_error"}
           /\ "io" \notin Faults => status'[w] = "applied"
<1>1. /\ pc[w] \in {"snapshot", "open", "write"} /\ status[w] = "applied"
      /\ UNCHANGED <<up, txOf>>
  BY DEF TakeSnapshot, OpenStateFile, WriteStateFile, SaveStateFails, EngineShape, WorkerOK
<1>2. \/ /\ status' = status
         /\ \E p \in {"open", "write", "store"} : pc' = [pc EXCEPT ![w] = p]
      \/ /\ "io" \in Faults
         /\ status' = [status EXCEPT ![w] = "io_error"]
         /\ pc' = [pc EXCEPT ![w] = "store"]
  BY DEF TakeSnapshot, OpenStateFile, WriteStateFile, SaveStateFails
<1>3. QED
  BY <1>1, <1>2 DEF EngineShape, WorkerOK, Alone, Status

\* Engine.StoreReceipt in a worker.
LEMMA ReceiptShape ==
    ASSUME EngineShape, NEW w \in Worker, StoreReceipt(w)
    PROVE  EngineShape' /\ Alone(w) /\ pc[w] = "store" /\ pc'[w] = "idle"
<1>1. /\ pc[w] = "store" /\ up' = up
      /\ pc' = [pc EXCEPT ![w] = "idle"]
      /\ txOf' = [txOf EXCEPT ![w] = NoTx]
      /\ status' = [status EXCEPT ![w] = "none"]
  BY DEF StoreReceipt
<1>2. QED
  BY <1>1 DEF EngineShape, WorkerOK, Alone

\* A request of POST /tx enters.
LEMMA SubmitShape ==
    ASSUME EngineShape, NEW w \in Worker, NEW t \in Transfer, Submit(w, t)
    PROVE  EngineShape' /\ Alone(w)
<1>1. /\ pc[w] = "idle" /\ up /\ UNCHANGED <<up, status>>
      /\ pc' = [pc EXCEPT ![w] = "apply"]
      /\ txOf' = [txOf EXCEPT ![w] = t]
  BY DEF Submit
<1>2. QED
  BY <1>1 DEF EngineShape, WorkerOK, Alone

\* Any step of POST /tx.
LEMMA PlainShape ==
    ASSUME EngineShape, NEW w \in Worker, PlainTx(w)
    PROVE  EngineShape' /\ Alone(w) /\ at[w] = "idle" /\ UNCHANGED r2pVars
BY ApplyShape, SaveShape, ReceiptShape, SubmitShape DEF PlainTx, Step

\* A step that leaves the engine alone.
LEMMA IdleShape ==
    ASSUME EngineShape, UNCHANGED vars
    PROVE  EngineShape' /\ pc' = pc /\ status' = status /\ up' = up /\ leaves' = leaves
BY DEF EngineShape, WorkerOK, vars
-------------------------------------------------------------------------------
(***************************************************************************)
(* Every variable keeps its shape, whatever fails.                         *)
(***************************************************************************)
\* r2pSaveLocked leaves a store or no file.
LEMMA SaveStore ==
    ASSUME r2pFile \in Store \cup {NoFile}, NEW st \in Store, R2PSave(st)
    PROVE  r2pFile' \in Store \cup {NoFile}
BY DEF R2PSave

\* The handler that ends.
LEMMA FinishShape ==
    ASSUME R2PShape, NEW w \in Worker, Finish(w), EngineShape', Alone(w), pc'[w] = "idle"
    PROVE  /\ at' \in [Worker -> Place]
           /\ about' \in [Worker -> Request \cup {NoRequest}]
           /\ paidBy' \in [Worker -> Transfer \cup {NoHash}]
           /\ \A v \in Worker : HandlerOK(v)'
<1>1. /\ at' \in [Worker -> Place]
      /\ about' \in [Worker -> Request \cup {NoRequest}]
      /\ paidBy' \in [Worker -> Transfer \cup {NoHash}]
  BY DEF R2PShape, Finish, Place
<1>2. HandlerOK(w)'
  BY DEF R2PShape, Finish, HandlerOK
<1>3. ASSUME NEW v \in Worker \ {w} PROVE HandlerOK(v)'
  BY <1>3 DEF R2PShape, Finish, HandlerOK, Alone
<1>4. QED
  BY <1>1, <1>2, <1>3

\* A record more or another one.
LEMMA StoreUpdate ==
    ASSUME store \in Store, NEW q \in Request, NEW r \in Record,
           store' = [store EXCEPT ![q] = r]
    PROVE  store' \in Store
BY DEF Store

\* The shape of the start,
LEMMA InitShape == R2PInit => R2PShape
<1> SUFFICES ASSUME R2PInit PROVE R2PShape
  OBVIOUS
<1>1. EngineShape
  BY DEF R2PInit, Init, EngineShape, WorkerOK
<1>2. store \in Store /\ r2pFile \in Store \cup {NoFile}
  BY DEF R2PInit, Store
<1>3. payments \in [Request -> [made : Nat, before : Nat]]
  BY DEF R2PInit
<1>4. at \in [Worker -> Place] /\ \A w \in Worker : HandlerOK(w)
  BY DEF R2PInit, Place, HandlerOK
<1>5. QED
  BY <1>1, <1>2, <1>3, <1>4 DEF R2PInit, R2PShape

\* ... and every step keeps it.
LEMMA NextShape == R2PShape /\ [R2PNext]_allVars => R2PShape'
<1> SUFFICES ASSUME R2PShape, [R2PNext]_allVars PROVE R2PShape'
  OBVIOUS
<1>0. EngineShape
  BY DEF R2PShape
<1>1. CASE UNCHANGED allVars
  BY <1>1 DEF allVars, vars, r2pVars, R2PShape, EngineShape, WorkerOK, HandlerOK
<1>2. CASE R2PBoot
  <2>1. LoadedStore \in Store
    BY DEF LoadedStore, R2PShape, Store
  <2>2. EngineShape' /\ up' = TRUE /\ pc' = pc
    BY <1>2 DEF R2PBoot, Boot, R2PShape, EngineShape, WorkerOK
  <2>3. QED
    BY <1>2, <2>1, <2>2 DEF R2PBoot, R2PShape, HandlerOK
<1>3. CASE R2PCrash \/ CrashInR2PSave
  <2>1. Die /\ R2PDie
    BY <1>3 DEF R2PCrash, CrashInR2PSave, Crash
  <2>2. EngineShape'
    BY <2>1 DEF Die, EngineShape, WorkerOK
  <2>3. r2pFile' \in Store \cup {NoFile}
    BY <1>3 DEF R2PCrash, CrashInR2PSave, R2PShape
  <2>4. \A q \in Request : payments'[q] = [made |-> payments[q].made, before |-> payments[q].made]
    BY <2>1 DEF R2PDie, R2PShape
  <2>5. payments' \in [Request -> [made : Nat, before : Nat]]
    BY <2>1, <2>4 DEF R2PDie, R2PShape
  <2>6. QED
    BY <2>1, <2>2, <2>3, <2>5 DEF R2PDie, R2PShape, HandlerOK, Place
<1>4. CASE CloseUnknown
  <2>1. EngineShape' /\ pc' = pc /\ up' = up
    BY <1>0, <1>4, IdleShape DEF CloseUnknown, engineIdle
  <2>2. r2pFile' \in Store \cup {NoFile}
    BY <1>4, SaveStore DEF CloseUnknown, R2PShape
  <2>3. QED
    BY <1>4, <2>1, <2>2 DEF CloseUnknown, R2PShape, HandlerOK
<1>5. ASSUME NEW q \in Request, Create(q) PROVE R2PShape'
  <2>1. EngineShape' /\ pc' = pc /\ up' = up
    BY <1>0, <1>5, IdleShape DEF Create, engineIdle
  <2>2. store' \in Store
    BY <1>5, StoreUpdate DEF Create, R2PShape, Record
  <2>3. r2pFile' \in Store \cup {NoFile}
    BY <1>5, <2>2, SaveStore DEF Create, R2PShape
  <2>4. QED
    BY <1>5, <2>1, <2>2, <2>3 DEF Create, R2PShape, HandlerOK
<1>6. ASSUME NEW w \in Worker, PlainTx(w) PROVE R2PShape'
  <2>1. EngineShape' /\ Alone(w) /\ at[w] = "idle" /\ UNCHANGED r2pVars
    BY <1>0, <1>6, PlainShape
  <2>2. ASSUME NEW v \in Worker PROVE HandlerOK(v)'
    BY <2>1 DEF R2PShape, HandlerOK, Alone, r2pVars
  <2>3. QED
    BY <2>1, <2>2 DEF R2PShape, r2pVars
<1>7. ASSUME NEW w \in Worker, R2PStep(w) PROVE R2PShape'
  <2>1. ASSUME NEW q \in Request, ApproveLookup(w, q) PROVE R2PShape'
    <3>1. EngineShape' /\ pc' = pc /\ up' = up
      BY <1>0, <2>1, IdleShape DEF ApproveLookup, engineIdle
    <3>2. QED
      BY <2>1, <3>1 DEF ApproveLookup, Start, R2PShape, HandlerOK, Place
  <2>2. ASSUME NEW who \in Addr, ApproveCheck(w, who) \/ CloseCheck(w, who) PROVE R2PShape'
    <3>1. EngineShape' /\ pc' = pc /\ up' = up
      BY <1>0, <2>2, IdleShape DEF ApproveCheck, CloseCheck, engineIdle
    <3>2. UNCHANGED <<store, r2pFile, payments>> /\ at[w] \notin {"idle", "paying"}
      BY <2>2 DEF ApproveCheck, CloseCheck, Closing
    <3>3. CASE Finish(w)
      <4>1. pc'[w] = "idle" /\ Alone(w)
        BY <2>2, <3>1, <3>2, IdleShape DEF ApproveCheck, CloseCheck, engineIdle, vars, Alone,
                                            R2PShape, HandlerOK
      <4>2. QED
        BY <3>1, <3>2, <3>3, <4>1, FinishShape DEF R2PShape
    <3>4. CASE \E p \in {"nonce", "decline", "cancel"} :
                 at' = [at EXCEPT ![w] = p] /\ UNCHANGED <<about, paidBy>>
      BY <3>1, <3>2, <3>4 DEF R2PShape, HandlerOK, Place
    <3>5. QED
      BY <2>2, <3>3, <3>4 DEF ApproveCheck, CloseCheck, CloseAt
  <2>3. ASSUME NEW f \in FeeMas, ApproveNonce(w, f) PROVE R2PShape'
    <3>1. /\ at[w] = "nonce" /\ UNCHANGED <<up, status, store, r2pFile, about, paidBy, payments>>
          /\ pc' = [pc EXCEPT ![w] = "apply"] /\ at' = [at EXCEPT ![w] = "paying"]
          /\ \E t \in Transfer : txOf' = [txOf EXCEPT ![w] = t]
      BY <2>3 DEF ApproveNonce
    <3>2. pc[w] = "idle" /\ up
      BY <3>1 DEF R2PShape, HandlerOK
    <3>3. EngineShape'
      BY <3>1, <3>2 DEF R2PShape, EngineShape, WorkerOK
    <3>4. QED
      BY <3>1, <3>3 DEF R2PShape, EngineShape, HandlerOK, Place
  <2>4. CASE ApproveApply(w)
    <3>1. EngineShape' /\ Alone(w) /\ pc'[w] # "idle"
      BY <1>0, <2>4, ApplyShape DEF ApproveApply
    <3>2. at[w] = "paying" /\ UNCHANGED <<store, r2pFile, at, about, paidBy>>
      BY <2>4 DEF ApproveApply
    <3>3. about[w] \in Request
      BY <3>2 DEF R2PShape, HandlerOK
    <3>4. payments' \in [Request -> [made : Nat, before : Nat]]
      BY <2>4, <3>3 DEF ApproveApply, R2PShape
    <3>5. ASSUME NEW v \in Worker PROVE HandlerOK(v)'
      BY <3>1, <3>2 DEF R2PShape, HandlerOK, Alone
    <3>6. QED
      BY <3>1, <3>2, <3>4, <3>5 DEF R2PShape
  <2>5. CASE ApproveSaveState(w)
    <3>1. EngineShape' /\ Alone(w) /\ pc'[w] # "idle"
      BY <1>0, <2>5, SaveShape DEF ApproveSaveState
    <3>2. at[w] = "paying" /\ UNCHANGED r2pVars
      BY <2>5 DEF ApproveSaveState
    <3>3. ASSUME NEW v \in Worker PROVE HandlerOK(v)'
      BY <3>1, <3>2 DEF R2PShape, HandlerOK, Alone, r2pVars
    <3>4. QED
      BY <3>1, <3>2, <3>3 DEF R2PShape, r2pVars
  <2>6. CASE ApproveReceipt(w)
    <3>1. EngineShape' /\ Alone(w) /\ pc[w] = "store" /\ pc'[w] = "idle"
      BY <1>0, <2>6, ReceiptShape DEF ApproveReceipt
    <3>2. at[w] = "paying" /\ UNCHANGED <<store, r2pFile, payments>>
      BY <2>6 DEF ApproveReceipt
    <3>3. CASE Finish(w)
      BY <3>1, <3>2, <3>3, FinishShape DEF R2PShape
    <3>4. CASE /\ at' = [at EXCEPT ![w] = "mark"]
               /\ paidBy' = [paidBy EXCEPT ![w] = txOf[w]]
               /\ about' = about
      <4>1. txOf[w] \in Transfer
        BY <3>1 DEF R2PShape, EngineShape, WorkerOK
      <4>2. ASSUME NEW v \in Worker PROVE HandlerOK(v)'
        BY <3>1, <3>2, <3>4, <4>1 DEF R2PShape, HandlerOK, Alone
      <4>3. at' \in [Worker -> Place] /\ paidBy' \in [Worker -> Transfer \cup {NoHash}]
        BY <3>4, <4>1 DEF R2PShape, Place
      <4>4. QED
        BY <3>1, <3>2, <3>4, <4>2, <4>3 DEF R2PShape
    <3>5. QED
      BY <2>6, <3>3, <3>4 DEF ApproveReceipt
  <2>7. CASE ApproveFree(w)
    <3>1. /\ at[w] = "paying" /\ pc[w] = "store" /\ up' = up /\ payments' = payments
          /\ pc' = [pc EXCEPT ![w] = "idle"]
          /\ txOf' = [txOf EXCEPT ![w] = NoTx]
          /\ status' = [status EXCEPT ![w] = "none"]
          /\ Finish(w)
      BY <2>7 DEF ApproveFree
    <3>2. EngineShape' /\ Alone(w) /\ pc'[w] = "idle"
      BY <1>0, <3>1 DEF EngineShape, WorkerOK, Alone
    <3>3. about[w] \in Request
      BY <3>1 DEF R2PShape, HandlerOK
    <3>4. store' \in Store
      <4>1. [status |-> "paid", tx |-> DevHash[about[w]]] \in Record
        BY <3>3 DEF Record, DevHashes
      <4>2. QED
        BY <2>7, <3>3, <4>1, StoreUpdate DEF ApproveFree, R2PShape
    <3>5. r2pFile' \in Store \cup {NoFile}
      BY <2>7, <3>4, SaveStore DEF ApproveFree, R2PShape
    <3>6. QED
      BY <3>1, <3>2, <3>4, <3>5, FinishShape DEF R2PShape
  <2>8. CASE MarkPaid(w)
    <3>1. at[w] = "mark" /\ Finish(w) /\ payments' = payments
      BY <2>8 DEF MarkPaid
    <3>2. EngineShape' /\ pc' = pc /\ up' = up
      BY <1>0, <2>8, IdleShape DEF MarkPaid, engineIdle
    <3>3. Alone(w) /\ pc'[w] = "idle"
      BY <2>8, <3>1, <3>2 DEF MarkPaid, engineIdle, vars, Alone, R2PShape, HandlerOK
    <3>4. about[w] \in Request /\ paidBy[w] \in Transfer
      BY <3>1 DEF R2PShape, HandlerOK
    <3>5. store' \in Store
      BY <2>8, <3>4, StoreUpdate DEF MarkPaid, R2PShape, Record
    <3>6. r2pFile' \in Store \cup {NoFile}
      BY <2>8, <3>5, SaveStore DEF MarkPaid, R2PShape
    <3>7. QED
      BY <3>1, <3>2, <3>3, <3>5, <3>6, FinishShape DEF R2PShape
  <2>9. ASSUME NEW q \in Request, NEW kind \in Closing, CloseLookup(w, q, kind)
        PROVE  R2PShape'
    <3>1. EngineShape' /\ pc' = pc /\ up' = up
      BY <1>0, <2>9, IdleShape DEF CloseLookup, engineIdle
    <3>2. r2pFile' \in Store \cup {NoFile}
      BY <2>9, SaveStore DEF CloseLookup, R2PShape
    <3>3. kind \in {"declined", "canceled"}
      BY <2>9 DEF Closing
    <3>4. QED
      BY <2>9, <3>1, <3>2, <3>3 DEF CloseLookup, Start, R2PShape, HandlerOK, Place
  <2>10. ASSUME NEW kind \in Closing, CloseMark(w, kind) PROVE R2PShape'
    <3>1. at[w] \in {"decline", "cancel"} /\ Finish(w) /\ UNCHANGED <<r2pFile, payments>>
      BY <2>10 DEF CloseMark, CloseAt
    <3>2. EngineShape' /\ pc' = pc /\ up' = up
      BY <1>0, <2>10, IdleShape DEF CloseMark, engineIdle
    <3>3. Alone(w) /\ pc'[w] = "idle"
      BY <2>10, <3>1, <3>2 DEF CloseMark, engineIdle, vars, Alone, R2PShape, HandlerOK
    <3>4. about[w] \in Request /\ [status |-> kind, tx |-> NoHash] \in Record
      BY <2>10, <3>1 DEF R2PShape, HandlerOK, Record, Closing
    <3>5. store' \in Store
      BY <2>10, <3>4, StoreUpdate DEF CloseMark, R2PShape
    <3>6. QED
      BY <3>1, <3>2, <3>3, <3>5, FinishShape DEF R2PShape
  <2>11. QED
    BY <1>7, <2>1, <2>2, <2>3, <2>4, <2>5, <2>6, <2>7, <2>8, <2>9, <2>10 DEF R2PStep
<1>8. QED
  BY <1>1, <1>2, <1>3, <1>4, <1>5, <1>6, <1>7 DEF R2PNext
-------------------------------------------------------------------------------
(***************************************************************************)
(* A request reads as paid only after a transfer was applied for it.       *)
(***************************************************************************)
OnlyPaidBy(st, pays) ==
    \A q \in Request : (st[q].status = "paid" /\ st[q].tx # DevHash[q]) => pays[q].made > 0

\* The worker has applied the transfer of an approval and not marked it yet.
Paying(w) == at[w] = "mark" \/ (at[w] = "paying" /\ status[w] = "applied")

Covered == \A w \in Worker : Paying(w) => payments[about[w]].made > 0

PaidInv == R2PShape /\ PaidOnlyByTransfer /\ Covered

\* The property, store by store.
LEMMA PaidOnlyByStore ==
    PaidOnlyByTransfer <=> /\ store # NoFile => OnlyPaidBy(store, payments)
                           /\ r2pFile # NoFile => OnlyPaidBy(r2pFile, payments)
BY DEF PaidOnlyByTransfer, OnlyPaidBy

\* Payments are never taken back.
LEMMA MadeGrows ==
    ASSUME R2PShape, [R2PNext]_allVars
    PROVE  \A q \in Request : payments'[q].made >= payments[q].made /\ payments[q].made \in Nat
<1>0. payments \in [Request -> [made : Nat, before : Nat]]
  BY DEF R2PShape
<1>1. \A q \in Request : payments[q].made \in Nat
  BY <1>0
<1>2. CASE UNCHANGED payments
  BY <1>1, <1>2
<1>3. CASE R2PDie
  BY <1>0, <1>1, <1>3 DEF R2PDie
<1>4. ASSUME NEW w \in Worker, ApproveApply(w)
      PROVE  \A q \in Request : payments'[q].made >= payments[q].made
  <2>1. about[w] \in Request
    BY <1>4 DEF ApproveApply, R2PShape, HandlerOK
  <2>2. QED
    BY <1>0, <1>1, <1>4, <2>1 DEF ApproveApply
<1>5. UNCHANGED payments \/ R2PDie \/ \E w \in Worker : ApproveApply(w)
  BY DEF R2PNext, R2PStep, R2PBoot, R2PCrash, CrashInR2PSave, CloseUnknown, Create, PlainTx,
         ApproveLookup, ApproveCheck, CloseCheck, ApproveNonce, ApproveSaveState,
         ApproveReceipt, ApproveFree, MarkPaid, CloseLookup, CloseMark, r2pVars, allVars
<1>6. QED
  BY <1>1, <1>2, <1>3, <1>4, <1>5

\* How the store and the file change: r2pSaveLocked writes what the store is, and a
\* record becomes paid by an approval that stands at its mark, or free.
LEMMA StoreSteps ==
    ASSUME R2PShape, [R2PNext]_allVars
    PROVE  /\ r2pFile' \in {store', r2pFile, NoFile}
           /\ \/ store' = store
              \/ ~ up /\ store' = LoadedStore
              \/ \E q \in Request, r \in Record :
                   /\ store' = [store EXCEPT ![q] = r] /\ up
                   /\ \/ r.status # "paid"
                      \/ r.tx = DevHash[q]
                      \/ \E w \in Worker : at[w] = "mark" /\ about[w] = q /\ r.tx = paidBy[w]
<1>1. ASSUME NEW w \in Worker, R2PStep(w)
      PROVE  /\ r2pFile' \in {store', r2pFile, NoFile}
             /\ \/ store' = store
                \/ \E q \in Request, r \in Record :
                   /\ store' = [store EXCEPT ![q] = r] /\ up
                   /\ \/ r.status # "paid"
                      \/ r.tx = DevHash[q]
                      \/ at[w] = "mark" /\ about[w] = q /\ r.tx = paidBy[w]
  <2>1. CASE ApproveFree(w)
    <3>1. about[w] \in Request /\ [status |-> "paid", tx |-> DevHash[about[w]]] \in Record /\ up
      BY <2>1 DEF ApproveFree, R2PShape, HandlerOK, Record, DevHashes
    <3>2. QED
      BY <2>1, <3>1 DEF ApproveFree, R2PSave
  <2>2. CASE MarkPaid(w)
    <3>1. about[w] \in Request /\ [status |-> "paid", tx |-> paidBy[w]] \in Record /\ up
      BY <2>2 DEF MarkPaid, R2PShape, HandlerOK, Record
    <3>2. QED
      BY <2>2, <3>1 DEF MarkPaid, R2PSave
  <2>3. ASSUME NEW kind \in Closing, CloseMark(w, kind)
        PROVE  /\ r2pFile' = r2pFile
               /\ \E q \in Request, r \in Record :
                   store' = [store EXCEPT ![q] = r] /\ up /\ r.status # "paid"
    <3>1. /\ about[w] \in Request /\ [status |-> kind, tx |-> NoHash] \in Record /\ up
          /\ kind # "paid"
      BY <2>3 DEF CloseMark, CloseAt, R2PShape, HandlerOK, Record, Closing
    <3>2. QED
      BY <2>3, <3>1 DEF CloseMark
  <2>4. CASE store' = store /\ (r2pFile' = r2pFile \/ R2PSave(store))
    BY <2>4 DEF R2PSave
  <2>5. QED
    BY <1>1, <2>1, <2>2, <2>3, <2>4
       DEF R2PStep, ApproveLookup, ApproveCheck, CloseCheck, ApproveNonce, ApproveApply,
           ApproveSaveState, ApproveReceipt, CloseLookup, r2pVars
<1>2. ASSUME NEW q \in Request, Create(q)
      PROVE  /\ r2pFile' \in {store', r2pFile, NoFile}
             /\ \E r \in Record : store' = [store EXCEPT ![q] = r] /\ up /\ r.status # "paid"
  <2> DEFINE r == [status |-> "open", tx |-> NoHash]
  <2>1. r \in Record /\ r.status # "paid"
    BY DEF Record
  <2>2. store' = [store EXCEPT ![q] = r] /\ up /\ R2PSave(store')
    BY <1>2 DEF Create
  <2>3. QED
    BY <2>1, <2>2 DEF R2PSave
<1>3. CASE R2PBoot
  BY <1>3 DEF R2PBoot, Boot
<1>4. CASE R2PCrash \/ CrashInR2PSave \/ CloseUnknown
  BY <1>4 DEF R2PCrash, CrashInR2PSave, CloseUnknown, R2PDie, R2PSave
<1>5. CASE (\E w \in Worker : PlainTx(w)) \/ UNCHANGED allVars
  BY <1>5 DEF PlainTx, r2pVars, allVars
<1>6. QED
  BY <1>1, <1>2, <1>3, <1>4, <1>5 DEF R2PNext

\* A worker's step, to the R2P handlers of the other workers.
LEMMA HandlersAlone ==
    ASSUME R2PShape, NEW w \in Worker, R2PStep(w) \/ PlainTx(w)
    PROVE  /\ up' = up
           /\ \A v \in Worker \ {w} :
                /\ at'[v] = at[v] /\ about'[v] = about[v] /\ paidBy'[v] = paidBy[v]
                /\ pc'[v] = pc[v] /\ status'[v] = status[v] /\ txOf'[v] = txOf[v]
<1>0. EngineShape
  BY DEF R2PShape
<1>1. Alone(w)
  <2>1. CASE engineIdle
    BY <2>1 DEF engineIdle, vars, Alone
  <2>2. CASE PlainTx(w) \/ ApproveApply(w) \/ ApproveSaveState(w) \/ ApproveReceipt(w)
    BY <1>0, <2>2, PlainShape, ApplyShape, SaveShape, ReceiptShape
       DEF ApproveApply, ApproveSaveState, ApproveReceipt
  <2>3. CASE \E f \in FeeMas : ApproveNonce(w, f)
    BY <1>0, <2>3 DEF ApproveNonce, Alone, EngineShape
  <2>4. CASE ApproveFree(w)
    BY <1>0, <2>4 DEF ApproveFree, Alone, EngineShape
  <2>5. QED
    BY <2>1, <2>2, <2>3, <2>4
       DEF R2PStep, ApproveLookup, ApproveCheck, CloseCheck, MarkPaid, CloseLookup, CloseMark
<1>2. \A v \in Worker \ {w} :
        at'[v] = at[v] /\ about'[v] = about[v] /\ paidBy'[v] = paidBy[v]
  BY DEF R2PShape, R2PStep, ApproveLookup, Start, ApproveCheck, CloseCheck, ApproveNonce,
         ApproveApply, ApproveSaveState, ApproveReceipt, ApproveFree, MarkPaid, CloseLookup,
         CloseMark, Finish, PlainTx, r2pVars
<1>3. QED
  BY <1>1, <1>2 DEF Alone

\* How a worker comes to have applied an approval.
LEMMA PayingSteps ==
    ASSUME R2PShape, NEW w \in Worker, R2PStep(w) \/ PlainTx(w), Paying(w)'
    PROVE  /\ about'[w] = about[w] /\ about[w] \in Request
           /\ \/ Paying(w) /\ payments' = payments
              \/ /\ ApproveApply(w) /\ Verdict(db, txOf[w]) = "applied"
                 /\ payments' = [payments EXCEPT ![about[w]].made = @ + 1]
<1>0. EngineShape
  BY DEF R2PShape
<1>1. CASE ApproveApply(w)
  <2>1. /\ about[w] \in Request /\ about' = about
        /\ Verdict(db, txOf[w]) = "applied" =>
             payments' = [payments EXCEPT ![about[w]].made = @ + 1]
    BY <1>1 DEF ApproveApply, R2PShape, HandlerOK
  <2>2. status'[w] = Verdict(db, txOf[w]) /\ at'[w] = "paying"
    BY <1>0, <1>1, ApplyShape DEF ApproveApply
  <2>3. QED
    BY <1>1, <2>1, <2>2 DEF Paying
<1>2. CASE ApproveSaveState(w)
  <2>1. status[w] = "applied" /\ at[w] = "paying" /\ UNCHANGED r2pVars
    BY <1>0, <1>2, SaveShape DEF ApproveSaveState
  <2>2. QED
    BY <2>1 DEF Paying, r2pVars, R2PShape, HandlerOK
<1>3. CASE ApproveReceipt(w)
  <2>1. /\ at[w] = "paying" /\ payments' = payments /\ about[w] \in Request
        /\ (status[w] = "applied" /\ about' = about) \/ Finish(w)
    BY <1>3 DEF ApproveReceipt, R2PShape, HandlerOK
  <2>2. ~ Finish(w)
    BY DEF Finish, Paying, R2PShape
  <2>3. QED
    BY <2>1, <2>2 DEF Paying
<1>4. CASE \E f \in FeeMas : ApproveNonce(w, f)
  <2>1. at[w] = "nonce" /\ status' = status /\ at'[w] = "paying"
    BY <1>4 DEF ApproveNonce, R2PShape
  <2>2. status[w] = "none"
    BY <2>1 DEF R2PShape, HandlerOK, EngineShape, WorkerOK
  <2>3. QED
    BY <2>1, <2>2 DEF Paying
<1>5. CASE PlainTx(w)
  BY <1>5 DEF PlainTx, r2pVars, Paying
<1>6. CASE ApproveFree(w) \/ MarkPaid(w) \/ \E kind \in Closing : CloseMark(w, kind)
  <2>1. Finish(w)
    BY <1>6 DEF ApproveFree, MarkPaid, CloseMark
  <2>2. QED
    BY <2>1 DEF Finish, Paying, R2PShape
<1>7. CASE (\E q \in Request : ApproveLookup(w, q))
        \/ (\E q \in Request, kind \in Closing : CloseLookup(w, q, kind))
        \/ (\E who \in Addr : ApproveCheck(w, who) \/ CloseCheck(w, who))
  <2>1. at'[w] \in {"approve", "declined", "canceled", "nonce", "decline", "cancel", "idle"}
    BY <1>7 DEF ApproveLookup, CloseLookup, Start, ApproveCheck, CloseCheck, CloseAt, Finish,
                Closing, R2PShape
  <2>2. QED
    BY <2>1 DEF Paying
<1>8. QED
  BY <1>1, <1>2, <1>3, <1>4, <1>5, <1>6, <1>7 DEF R2PStep

\* Approvals in progress are covered.
LEMMA NextCovered == PaidInv /\ [R2PNext]_allVars => Covered'
<1> SUFFICES ASSUME PaidInv, [R2PNext]_allVars, NEW v \in Worker, Paying(v)'
             PROVE  payments'[about'[v]].made > 0
  BY DEF Covered
<1>0. R2PShape /\ (Paying(v) => payments[about[v]].made > 0)
  BY DEF PaidInv, Covered
<1>1. \A q \in Request : payments'[q].made >= payments[q].made /\ payments[q].made \in Nat
  BY <1>0, MadeGrows
<1>2. Paying(v) => about[v] \in Request
  BY <1>0 DEF Paying, R2PShape, HandlerOK
<1>30. R2PShape'
  BY <1>0, NextShape
<1>3. \A q \in Request : payments'[q].made \in Nat
  BY <1>30 DEF R2PShape
<1>4. ASSUME Paying(v), about'[v] = about[v] PROVE payments'[about'[v]].made > 0
  BY <1>0, <1>1, <1>2, <1>3, <1>4
<1>5. ASSUME NEW w \in Worker, R2PStep(w) \/ PlainTx(w) PROVE payments'[about'[v]].made > 0
  <2>1. CASE v # w
    <3>1. at'[v] = at[v] /\ about'[v] = about[v] /\ status'[v] = status[v]
      BY <1>0, <1>5, <2>1, HandlersAlone
    <3>2. QED
      BY <1>4, <3>1 DEF Paying
  <2>2. CASE v = w
    <3>1. /\ about'[v] = about[v] /\ about[v] \in Request
          /\ \/ Paying(v)
             \/ payments' = [payments EXCEPT ![about[v]].made = @ + 1]
      BY <1>0, <1>5, <2>2, PayingSteps
    <3>2. CASE payments' = [payments EXCEPT ![about[v]].made = @ + 1]
      BY <1>0, <1>1, <3>1, <3>2 DEF R2PShape
    <3>3. QED
      BY <1>4, <3>1, <3>2
  <2>3. QED
    BY <2>1, <2>2
<1>6. CASE R2PCrash \/ CrashInR2PSave
  BY <1>6 DEF R2PCrash, CrashInR2PSave, R2PDie, Paying
<1>7. CASE R2PBoot \/ CloseUnknown \/ (\E q \in Request : Create(q)) \/ UNCHANGED allVars
  BY <1>4, <1>7
     DEF R2PBoot, Boot, CloseUnknown, Create, engineIdle, vars, allVars, r2pVars, Paying
<1>8. QED
  BY <1>5, <1>6, <1>7 DEF R2PNext

\* The stores keep to what was paid.
LEMMA NextPaid == PaidInv /\ [R2PNext]_allVars => PaidOnlyByTransfer'
<1> SUFFICES ASSUME PaidInv, [R2PNext]_allVars PROVE PaidOnlyByTransfer'
  OBVIOUS
<1>0. R2PShape /\ R2PShape' /\ Covered
  BY NextShape DEF PaidInv
<1>1. \A q \in Request : /\ payments'[q].made >= payments[q].made
                         /\ payments[q].made \in Nat /\ payments'[q].made \in Nat
  BY <1>0, MadeGrows DEF R2PShape
<1>2. store # NoFile /\ store' # NoFile
  BY <1>0, StoreFileAssumption DEF R2PShape, Store
<1>3. OnlyPaidBy(store, payments) /\ (r2pFile # NoFile => OnlyPaidBy(r2pFile, payments))
  BY <1>2, PaidOnlyByStore DEF PaidInv
<1>4. ASSUME NEW st, OnlyPaidBy(st, payments) PROVE OnlyPaidBy(st, payments')
  BY <1>1, <1>4 DEF OnlyPaidBy
<1>5. OnlyPaidBy(store', payments')
  <2>1. CASE store' = store
    BY <1>3, <1>4, <2>1
  <2>2. CASE store' = LoadedStore
    <3>1. OnlyPaidBy([q \in Request |-> NoRecord], payments)
      BY DEF OnlyPaidBy, NoRecord
    <3>2. QED
      BY <1>3, <1>4, <2>2, <3>1 DEF LoadedStore
  <2>3. ASSUME NEW q \in Request, NEW r \in Record, store' = [store EXCEPT ![q] = r],
               \/ r.status # "paid"
               \/ r.tx = DevHash[q]
               \/ \E w \in Worker : at[w] = "mark" /\ about[w] = q
        PROVE  OnlyPaidBy(store', payments')
    <3>1. (r.status = "paid" /\ r.tx # DevHash[q]) => payments[q].made > 0
      BY <1>0, <2>3 DEF Covered, Paying
    <3>2. \A p \in Request : store'[p] = IF p = q THEN r ELSE store[p]
      BY <1>0, <2>3 DEF R2PShape, Store
    <3>3. OnlyPaidBy(store', payments)
      BY <1>3, <3>1, <3>2 DEF OnlyPaidBy
    <3>4. QED
      BY <1>4, <3>3
  <2>4. QED
    BY <1>0, <2>1, <2>2, <2>3, StoreSteps
<1>6. r2pFile' # NoFile => OnlyPaidBy(r2pFile', payments')
  BY <1>0, <1>3, <1>4, <1>5, StoreSteps
<1>7. QED
  BY <1>5, <1>6 DEF PaidOnlyByTransfer, OnlyPaidBy

\* For any number of handlers, requests, overlapping calls and restarts, with any write
\* failing or torn: a request reads as paid, in memory or in data/r2p.json, only if a
\* transfer was applied for it (approve in router.go, r2pSaveLocked, SetR2PStorage).
THEOREM PaidByTransfer == R2PSpec => []PaidOnlyByTransfer
<1>1. R2PInit => PaidInv
  <2>1. R2PInit => Covered
    BY DEF R2PInit, Covered, Paying
  <2>2. R2PInit => PaidOnlyByTransfer
    BY DEF R2PInit, PaidOnlyByTransfer, NoRecord
  <2>3. QED
    BY <2>1, <2>2, InitShape DEF PaidInv
<1>2. PaidInv /\ [R2PNext]_allVars => PaidInv'
  BY NextShape, NextCovered, NextPaid DEF PaidInv
<1>3. PaidInv => PaidOnlyByTransfer
  BY DEF PaidInv
<1>4. QED
  BY <1>1, <1>2, <1>3, PTL DEF R2PSpec
-------------------------------------------------------------------------------
(***************************************************************************)
(* The life of a request whose calls do not overlap, through crashes       *)
(* between any two steps.                                                  *)
(***************************************************************************)
Gentle == OneAtATime /\ Faults \subseteq {"crash"}

\* One handler for a request.
Exclusive ==
    \A v, w \in Worker : (at[v] # "idle" /\ at[w] # "idle" /\ about[v] = about[w]) => v = w

\* What a handler has seen without the lock is still so.
Holding == {"nonce", "paying", "mark", "decline", "cancel"}
Holds == \A w \in Worker : at[w] \in Holding => store[about[w]].status = "open"

\* The transfers of this process for a request that is not paid yet.
InPayment(q) == \E w \in Worker : Paying(w) /\ about[w] = q
Counts ==
    \A q \in Request :
        /\ ~ up => payments[q].made = payments[q].before
        /\ store[q].status # "paid" /\ InPayment(q) => payments[q].made = payments[q].before + 1
        /\ store[q].status # "paid" /\ ~ InPayment(q) => payments[q].made = payments[q].before

\* What the file lacks: that a request was closed.
FileBehind ==
    up => \A q \in Request :
            \/ LoadedStore[q].status = store[q].status
            \/ store[q].status \in Closing /\ LoadedStore[q].status = "open"

AckedPaid == \A q \in Request : <<q, "paid">> \in acked => Standing[q].status = "paid"

LifeInv == R2PShape /\ Exclusive /\ Holds /\ Counts /\ FileBehind /\ AckedPaid

\* The mapped variables do not change.
Stutters ==
    /\ \A q \in Request : Standing'[q].status = Standing[q].status
    /\ payments' = payments

\* Without faults of the disk the file becomes the store that is saved.
LEMMA GentleSave ==
    ASSUME Gentle, NEW st, R2PSave(st)
    PROVE  r2pFile' = st
BY DEF Gentle, R2PSave

\* A store that is saved is the one that will be loaded.
LEMMA SavedIsLoaded ==
    ASSUME NEW st \in Store, r2pFile' = st
    PROVE  LoadedStore' = st
BY StoreFileAssumption DEF LoadedStore, Store

\* Steps of one worker that change no record and no payment.
LEMMA QuietStep ==
    ASSUME LifeInv, R2PShape', NEW w \in Worker, up,
           UNCHANGED <<up, store, payments, acked>>, r2pFile' \in {r2pFile, store},
           \A v \in Worker \ {w} :
             at'[v] = at[v] /\ about'[v] = about[v] /\ status'[v] = status[v],
           \/ at'[w] = "idle" /\ ~ Paying(w)
           \/ /\ at'[w] # "idle" /\ at[w] # "idle" /\ about'[w] = about[w]
              /\ Paying(w)' <=> Paying(w)
              /\ at'[w] \in Holding => store[about[w]].status = "open"
           \/ /\ at[w] = "idle" /\ at'[w] \in {"approve", "declined", "canceled"}
              /\ \A v \in Worker : about[v] # about'[w]
    PROVE  LifeInv' /\ Stutters
<1>1. Exclusive'
  BY DEF LifeInv, Exclusive
<1>2. Holds'
  BY DEF LifeInv, Holds, Holding
<1>3. \A q \in Request : InPayment(q)' <=> InPayment(q)
  <2>1. ASSUME NEW v \in Worker \ {w} PROVE Paying(v)' <=> Paying(v)
    BY <2>1 DEF Paying
  <2>2. \/ ~ Paying(w) /\ ~ Paying(w)'
        \/ about'[w] = about[w] /\ (Paying(w)' <=> Paying(w))
    BY DEF Paying
  <2>3. QED
    BY <2>1, <2>2 DEF InPayment
<1>4. Counts'
  BY <1>3 DEF LifeInv, Counts
<1>5. LoadedStore' = LoadedStore \/ LoadedStore' = store
  BY StoreFileAssumption DEF LoadedStore, LifeInv, R2PShape, Store
<1>6. FileBehind'
  BY <1>5 DEF LifeInv, FileBehind
<1>7. Standing' = Standing
  BY DEF Standing
<1>8. AckedPaid'
  BY <1>7 DEF LifeInv, AckedPaid
<1>9. QED
  BY <1>1, <1>2, <1>4, <1>6, <1>7, <1>8 DEF LifeInv, Stutters

\* A worker in a handler, or in POST /tx, runs.
LEMMA RunsUp ==
    ASSUME R2PShape, NEW w \in Worker, R2PStep(w) \/ PlainTx(w)
    PROVE  up
<1>1. CASE at[w] # "idle" \/ pc[w] # "idle"
  BY <1>1 DEF R2PShape, EngineShape, HandlerOK, WorkerOK
<1>2. CASE at[w] = "idle" /\ pc[w] = "idle"
  BY <1>2 DEF R2PStep, PlainTx, Step, Submit, Apply, TakeSnapshot, OpenStateFile,
              WriteStateFile, SaveStateFails, StoreReceipt, ApproveLookup, Start, ApproveCheck,
              CloseCheck, ApproveNonce, ApproveApply, ApproveSaveState, ApproveReceipt,
              ApproveFree, MarkPaid, CloseLookup, CloseMark, CloseAt, Closing
<1>3. QED
  BY <1>1, <1>2

\* The lookups, the checks, and the part of an approval that is inside the engine.
LEMMA QuietActions ==
    ASSUME Gentle, LifeInv, R2PShape', NEW w \in Worker,
           \/ PlainTx(w)
           \/ \E q \in Request : ApproveLookup(w, q)
           \/ \E q \in Request, kind \in Closing : CloseLookup(w, q, kind)
           \/ \E who \in Addr : ApproveCheck(w, who) \/ CloseCheck(w, who)
           \/ \E f \in FeeMas : ApproveNonce(w, f)
           \/ ApproveApply(w) /\ Verdict(db, txOf[w]) # "applied"
           \/ ApproveSaveState(w) \/ ApproveReceipt(w)
    PROVE  LifeInv' /\ Stutters
<1>0. R2PShape /\ EngineShape /\ (R2PStep(w) \/ PlainTx(w))
  BY DEF LifeInv, R2PShape, R2PStep
<1>00. /\ up /\ up' = up
       /\ \A v \in Worker \ {w} :
             at'[v] = at[v] /\ about'[v] = about[v] /\ status'[v] = status[v]
  BY <1>0, RunsUp, HandlersAlone
<1>1. CASE PlainTx(w)
  <2>1. at[w] = "idle" /\ UNCHANGED r2pVars
    BY <1>0, <1>1, PlainShape
  <2>2. at'[w] = "idle" /\ ~ Paying(w)
    BY <2>1 DEF Paying, r2pVars
  <2>3. QED
    BY <1>00, <2>1, <2>2, QuietStep DEF r2pVars
<1>2. CASE (\E q \in Request : ApproveLookup(w, q))
        \/ (\E q \in Request, kind \in Closing : CloseLookup(w, q, kind))
  <2>1. /\ at[w] = "idle" /\ at'[w] \in {"approve", "declined", "canceled"}
        /\ \A v \in Worker : about[v] # about'[w]
    BY <1>2 DEF ApproveLookup, CloseLookup, Start, Gentle, Closing, LifeInv, R2PShape
  <2>2. UNCHANGED <<store, payments, acked>> /\ r2pFile' \in {r2pFile, store}
    BY <1>2, GentleSave DEF ApproveLookup, CloseLookup
  <2>3. QED
    BY <1>00, <2>1, <2>2, QuietStep
<1>3. CASE \E who \in Addr : ApproveCheck(w, who) \/ CloseCheck(w, who)
  <2>1. /\ UNCHANGED <<store, r2pFile, payments, acked>>
        /\ at[w] \in {"approve", "declined", "canceled"}
    BY <1>3 DEF ApproveCheck, CloseCheck, Closing
  <2>2. ~ Paying(w)
    BY <2>1 DEF Paying
  <2>3. CASE Finish(w)
    <3>1. at'[w] = "idle"
      BY <1>0, <2>3 DEF Finish, R2PShape
    <3>2. QED
      BY <1>00, <2>1, <2>2, <3>1, QuietStep
  <2>4. CASE /\ \E p \in {"nonce", "decline", "cancel"} : at' = [at EXCEPT ![w] = p]
             /\ about' = about /\ store[about[w]].status = "open"
    <3>1. at'[w] \in {"nonce", "decline", "cancel"} /\ about'[w] = about[w]
      BY <1>0, <2>4 DEF R2PShape
    <3>2. at'[w] # "idle" /\ at[w] # "idle" /\ ~ Paying(w)'
      BY <2>1, <3>1 DEF Paying
    <3>3. QED
      BY <1>00, <2>1, <2>2, <2>4, <3>1, <3>2, QuietStep
  <2>5. QED
    BY <1>3, <2>3, <2>4 DEF ApproveCheck, CloseCheck, CloseAt
<1>4. ASSUME at[w] \in {"nonce", "paying"}, UNCHANGED <<store, r2pFile, payments, acked>>,
             at'[w] \in {"paying", "mark"}, about'[w] = about[w], Paying(w)' <=> Paying(w)
      PROVE  LifeInv' /\ Stutters
  <2>1. store[about[w]].status = "open" /\ at[w] # "idle" /\ at'[w] # "idle"
    BY <1>4 DEF LifeInv, Holds, Holding
  <2>2. QED
    BY <1>00, <1>4, <2>1, QuietStep
<1>5. CASE \E f \in FeeMas : ApproveNonce(w, f)
  <2>1. /\ at[w] = "nonce" /\ UNCHANGED <<store, r2pFile, payments, acked, about, status>>
        /\ at'[w] = "paying"
    BY <1>0, <1>5 DEF ApproveNonce, R2PShape
  <2>2. status[w] = "none"
    BY <1>0, <2>1 DEF R2PShape, HandlerOK, EngineShape, WorkerOK
  <2>3. ~ Paying(w) /\ ~ Paying(w)'
    BY <2>1, <2>2 DEF Paying
  <2>4. QED
    BY <1>4, <2>1, <2>3
<1>6. CASE ApproveApply(w) /\ Verdict(db, txOf[w]) # "applied"
  <2>1. at[w] = "paying" /\ UNCHANGED <<store, r2pFile, payments, acked, about, at>>
    BY <1>6 DEF ApproveApply
  <2>2. pc[w] = "apply" /\ status'[w] # "applied"
    BY <1>0, <1>6, ApplyShape DEF ApproveApply
  <2>3. status[w] = "none"
    BY <1>0, <2>2 DEF EngineShape, WorkerOK
  <2>4. ~ Paying(w) /\ ~ Paying(w)'
    BY <2>1, <2>2, <2>3 DEF Paying
  <2>5. QED
    BY <1>4, <2>1, <2>4
<1>7. CASE ApproveSaveState(w)
  <2>1. at[w] = "paying" /\ UNCHANGED r2pVars
    BY <1>7 DEF ApproveSaveState
  <2>2. status[w] = "applied" /\ status'[w] = "applied"
    BY <1>0, <1>7, SaveShape DEF ApproveSaveState, Gentle
  <2>3. Paying(w) /\ Paying(w)'
    BY <2>1, <2>2 DEF Paying, r2pVars
  <2>4. QED
    BY <1>4, <2>1, <2>3 DEF r2pVars
<1>8. CASE ApproveReceipt(w)
  <2>1. at[w] = "paying" /\ UNCHANGED <<store, r2pFile, payments, acked>>
    BY <1>8 DEF ApproveReceipt
  <2>2. CASE status[w] = "applied"
    <3>1. at'[w] = "mark" /\ about' = about
      BY <1>0, <1>8, <2>2 DEF ApproveReceipt, R2PShape
    <3>2. Paying(w) /\ Paying(w)'
      BY <2>1, <2>2, <3>1 DEF Paying
    <3>3. QED
      BY <1>4, <2>1, <3>1, <3>2
  <2>3. CASE status[w] # "applied"
    <3>1. at'[w] = "idle" /\ ~ Paying(w)
      BY <1>0, <1>8, <2>1, <2>3 DEF ApproveReceipt, Finish, R2PShape, Paying
    <3>2. QED
      BY <1>00, <2>1, <3>1, QuietStep
  <2>4. QED
    BY <2>2, <2>3
<1>9. QED
  BY <1>1, <1>2, <1>3, <1>5, <1>6, <1>7, <1>8

\* A handler changes the record of its request and ends.
LEMMA EndStep ==
    ASSUME LifeInv, R2PShape', NEW w \in Worker, up, up' = up, payments' = payments,
           \A v \in Worker \ {w} :
             at'[v] = at[v] /\ about'[v] = about[v] /\ status'[v] = status[v],
           at[w] \in Holding, at'[w] = "idle",
           NEW r \in Record, store' = [store EXCEPT ![about[w]] = r],
           acked' = acked \cup {<<about[w], r.status>>},
           \/ r.status = "paid" /\ r2pFile' = store'
           \/ r.status \in Closing /\ r2pFile' = r2pFile /\ ~ Paying(w)
    PROVE  /\ LifeInv' /\ about[w] \in Request /\ store[about[w]].status = "open"
           /\ \A q \in Request :
                Standing'[q].status = IF q = about[w] THEN r.status ELSE Standing[q].status
<1>0. about[w] \in Request /\ at[w] # "idle"
  BY DEF LifeInv, R2PShape, HandlerOK, Holding
<1> PICK p \in Request : p = about[w]
  BY <1>0
<1>1. store[p].status = "open"
  BY DEF LifeInv, Holds
<1>2. \A q \in Request : store'[q] = IF q = p THEN r ELSE store[q]
  BY DEF LifeInv, R2PShape, Store
<1>3. \A v \in Worker \ {w} : at[v] # "idle" => about[v] # p
  BY <1>0 DEF LifeInv, Exclusive
<1>4. Standing = store /\ Standing' = store'
  BY DEF Standing
<1>5. Exclusive'
  BY DEF LifeInv, Exclusive
<1>6. Holds'
  <2> SUFFICES ASSUME NEW v \in Worker, at'[v] \in Holding PROVE store'[about'[v]].status = "open"
    BY DEF Holds
  <2>1. v # w /\ at[v] \in Holding /\ about'[v] = about[v]
    BY DEF Holding
  <2>2. about[v] \in Request /\ about[v] # p /\ store[about[v]].status = "open"
    BY <1>3, <2>1 DEF Holding, LifeInv, R2PShape, HandlerOK, Holds
  <2>3. QED
    BY <1>2, <2>1, <2>2
<1>7. /\ \A q \in Request \ {p} : InPayment(q)' <=> InPayment(q)
      /\ ~ InPayment(p)' /\ (~ Paying(w) => ~ InPayment(p))
  <2>1. \A v \in Worker \ {w} : /\ Paying(v)' <=> Paying(v)
                                /\ Paying(v) => at[v] # "idle"
    BY DEF Paying
  <2>2. ~ Paying(w)'
    BY DEF Paying
  <2>3. QED
    BY <1>3, <2>1, <2>2 DEF InPayment
<1>8. Counts'
  <2> SUFFICES ASSUME NEW q \in Request
               PROVE  /\ ~ up' => payments'[q].made = payments'[q].before
                      /\ store'[q].status # "paid" /\ InPayment(q)'
                           => payments'[q].made = payments'[q].before + 1
                      /\ store'[q].status # "paid" /\ ~ InPayment(q)'
                           => payments'[q].made = payments'[q].before
    BY DEF Counts
  <2>1. CASE q # p
    BY <1>2, <1>7, <2>1 DEF LifeInv, Counts
  <2>2. CASE q = p
    BY <1>1, <1>2, <1>7, <2>2 DEF LifeInv, Counts, Closing
  <2>3. QED
    BY <2>1, <2>2
<1>9. FileBehind'
  <2>1. CASE r2pFile' = store'
    <3>1. LoadedStore' = store'
      BY <2>1, SavedIsLoaded DEF R2PShape
    <3>2. QED
      BY <3>1 DEF FileBehind
  <2>2. CASE r.status \in Closing /\ r2pFile' = r2pFile
    <3>1. LoadedStore' = LoadedStore
      BY <2>2 DEF LoadedStore
    <3>2. LoadedStore[p].status = "open"
      BY <1>1 DEF LifeInv, FileBehind, Closing
    <3>3. QED
      BY <1>2, <2>2, <3>1, <3>2 DEF LifeInv, FileBehind
  <2>3. QED
    BY <2>1, <2>2
<1>10. AckedPaid'
  <2> SUFFICES ASSUME NEW q \in Request, <<q, "paid">> \in acked' PROVE store'[q].status = "paid"
    BY <1>4 DEF AckedPaid
  <2>1. CASE <<q, "paid">> \in acked
    <3>1. store[q].status = "paid"
      BY <1>4, <2>1 DEF LifeInv, AckedPaid
    <3>2. QED
      BY <1>1, <1>2, <3>1
  <2>2. CASE <<q, "paid">> = <<p, r.status>>
    BY <1>2, <2>2
  <2>3. QED
    BY <2>1, <2>2
<1>11. QED
  BY <1>0, <1>1, <1>2, <1>4, <1>5, <1>6, <1>8, <1>9, <1>10 DEF LifeInv

\* The three handlers that end by changing their record.
LEMMA EndActions ==
    ASSUME Gentle, LifeInv, R2PShape', NEW w \in Worker,
           \/ ApproveFree(w) \/ MarkPaid(w)
           \/ \E kind \in Closing : CloseMark(w, kind)
    PROVE  LifeInv' /\ Lifecycle!Next
<1>0. R2PShape /\ EngineShape /\ R2PStep(w)
  BY DEF LifeInv, R2PShape, R2PStep
<1>00. /\ up /\ up' = up
       /\ \A v \in Worker \ {w} :
             at'[v] = at[v] /\ about'[v] = about[v] /\ status'[v] = status[v]
  BY <1>0, RunsUp, HandlersAlone
<1>01. Finish(w) /\ payments' = payments
  BY DEF ApproveFree, MarkPaid, CloseMark
<1>02. at'[w] = "idle"
  BY <1>0, <1>01 DEF Finish, R2PShape
<1>03. at[w] # "idle"
  BY DEF ApproveFree, MarkPaid, CloseMark, CloseAt
<1> PICK q \in Request : q = about[w]
  BY <1>0, <1>03 DEF R2PShape, HandlerOK
<1>1. CASE ApproveFree(w) \/ MarkPaid(w)
  <2>1. PICK r \in Record : /\ r.status = "paid" /\ store' = [store EXCEPT ![q] = r]
                            /\ R2PSave(store') /\ acked' = acked \cup {<<q, r.status>>}
    <3>1. CASE ApproveFree(w)
      <4>1. [status |-> "paid", tx |-> DevHash[q]] \in Record
        BY DEF Record, DevHashes
      <4>2. QED
        BY <3>1, <4>1 DEF ApproveFree
    <3>2. CASE MarkPaid(w)
      <4>1. [status |-> "paid", tx |-> paidBy[w]] \in Record
        BY <1>0, <3>2 DEF MarkPaid, R2PShape, HandlerOK, Record
      <4>2. QED
        BY <3>2, <4>1 DEF MarkPaid
    <3>3. QED
      BY <1>1, <3>1, <3>2
  <2>2. r2pFile' = store'
    BY <2>1, GentleSave
  <2>3. at[w] \in Holding
    BY <1>1 DEF ApproveFree, MarkPaid, Holding
  <2>4. /\ LifeInv' /\ q \in Request /\ store[q].status = "open"
        /\ \A x \in Request : Standing'[x].status = IF x = q THEN "paid" ELSE Standing[x].status
    BY <1>00, <1>01, <1>02, <2>1, <2>2, <2>3, EndStep
  <2>5. payments[q].made = payments[q].before + 1 \/ DevFree
    <3>1. CASE ApproveFree(w)
      BY <3>1 DEF ApproveFree, DevPays
    <3>2. CASE MarkPaid(w)
      <4>1. InPayment(q)
        BY <3>2 DEF MarkPaid, InPayment, Paying
      <4>2. QED
        BY <2>4, <4>1 DEF LifeInv, Counts
    <3>3. QED
      BY <1>1, <3>1, <3>2
  <2>6. Standing[q].status = "open"
    BY <1>00, <2>4 DEF Standing
  <2>7. Lifecycle!Settle(q)
    BY <1>01, <2>4, <2>5, <2>6 DEF Lifecycle!Settle
  <2>8. QED
    BY <2>4, <2>7 DEF Lifecycle!Next
<1>2. ASSUME NEW kind \in Closing, CloseMark(w, kind) PROVE LifeInv' /\ Lifecycle!Next
  <2> DEFINE r == [status |-> kind, tx |-> NoHash]
  <2>1. /\ r \in Record /\ r.status = kind /\ kind # "paid"
        /\ store' = [store EXCEPT ![q] = r] /\ r2pFile' = r2pFile
        /\ acked' = acked \cup {<<q, r.status>>}
        /\ at[w] \in {"decline", "cancel"}
    BY <1>2 DEF CloseMark, CloseAt, Closing, Record
  <2>2. at[w] \in Holding /\ ~ Paying(w)
    BY <2>1 DEF Holding, Paying
  <2> HIDE DEF r
  <2>4. /\ LifeInv' /\ q \in Request /\ store[q].status = "open"
        /\ \A x \in Request : Standing'[x].status = IF x = q THEN kind ELSE Standing[x].status
    BY <1>00, <1>01, <1>02, <2>1, <2>2, EndStep
  <2>5. payments[q].made = payments[q].before
    <3>1. ~ InPayment(q)
      BY <2>1, <2>2 DEF LifeInv, Exclusive, InPayment, Paying
    <3>2. QED
      BY <2>4, <3>1 DEF LifeInv, Counts
  <2>6. Standing[q].status = "open" /\ kind \in Lifecycle!Closed
    BY <1>00, <1>2, <2>4 DEF Standing, Closing, Lifecycle!Closed
  <2>7. Lifecycle!Close(q)
    BY <1>01, <2>4, <2>5, <2>6 DEF Lifecycle!Close
  <2>8. QED
    BY <2>4, <2>7 DEF Lifecycle!Next
<1>3. QED
  BY <1>1, <1>2

\* The transfer of an approval is applied.
LEMMA PayAction ==
    ASSUME LifeInv, R2PShape', NEW w \in Worker,
           ApproveApply(w), Verdict(db, txOf[w]) = "applied"
    PROVE  LifeInv' /\ Lifecycle!Next
<1>0. R2PShape /\ EngineShape /\ R2PStep(w)
  BY DEF LifeInv, R2PShape, R2PStep
<1>00. /\ up /\ up' = up
       /\ \A v \in Worker \ {w} :
             at'[v] = at[v] /\ about'[v] = about[v] /\ status'[v] = status[v]
  BY <1>0, RunsUp, HandlersAlone
<1>01. about[w] \in Request
  BY <1>0 DEF ApproveApply, R2PShape, HandlerOK
<1> PICK q \in Request : q = about[w]
  BY <1>01
<1>1. /\ at[w] = "paying" /\ UNCHANGED <<store, r2pFile, at, about, paidBy, acked>>
      /\ payments' = [payments EXCEPT ![q].made = @ + 1]
  BY DEF ApproveApply
<1>2. pc[w] = "apply" /\ status'[w] = "applied"
  BY <1>0, ApplyShape DEF ApproveApply
<1>3. status[w] = "none"
  BY <1>0, <1>2 DEF EngineShape, WorkerOK
<1>4. store[q].status = "open"
  BY <1>0, <1>1 DEF LifeInv, R2PShape, HandlerOK, Holds, Holding
<1>5. \A v \in Worker \ {w} : at[v] # "idle" => about[v] # q
  BY <1>1 DEF LifeInv, Exclusive
<1>6. ~ InPayment(q)
  BY <1>1, <1>3, <1>5 DEF InPayment, Paying
<1>7. payments[q].made = payments[q].before /\ payments[q].made \in Nat
  BY <1>0, <1>4, <1>6 DEF LifeInv, Counts, R2PShape
<1>8. \A x \in Request :
        /\ payments'[x].before = payments[x].before
        /\ payments'[x].made = IF x = q THEN payments[q].made + 1 ELSE payments[x].made
  BY <1>0, <1>1, <1>4 DEF R2PShape
<1>9. /\ \A x \in Request \ {q} : InPayment(x)' <=> InPayment(x)
      /\ InPayment(q)'
  <2>1. \A v \in Worker \ {w} : Paying(v)' <=> Paying(v)
    BY <1>00, <1>1 DEF Paying
  <2>2. Paying(w)'
    BY <1>1, <1>2 DEF Paying
  <2>3. QED
    BY <1>1, <2>1, <2>2 DEF InPayment
<1>10. Counts'
  <2> SUFFICES ASSUME NEW x \in Request
               PROVE  /\ ~ up' => payments'[x].made = payments'[x].before
                      /\ store'[x].status # "paid" /\ InPayment(x)'
                           => payments'[x].made = payments'[x].before + 1
                      /\ store'[x].status # "paid" /\ ~ InPayment(x)'
                           => payments'[x].made = payments'[x].before
    BY DEF Counts
  <2>1. CASE x # q
    BY <1>00, <1>1, <1>8, <1>9, <2>1 DEF LifeInv, Counts
  <2>2. CASE x = q
    BY <1>00, <1>7, <1>8, <1>9, <2>2
  <2>3. QED
    BY <2>1, <2>2
<1>11. Standing' = Standing /\ LoadedStore' = LoadedStore
  BY <1>00, <1>1 DEF Standing, LoadedStore
<1>12. Exclusive' /\ Holds' /\ FileBehind' /\ AckedPaid'
  BY <1>00, <1>1, <1>11 DEF LifeInv, Exclusive, Holds, FileBehind, AckedPaid
<1>13. Standing[q].status = "open"
  BY <1>00, <1>4 DEF Standing
<1>14. Lifecycle!Pay(q)
  BY <1>4, <1>7, <1>8, <1>11, <1>13 DEF Lifecycle!Pay
<1>15. QED
  BY <1>4, <1>10, <1>12, <1>14 DEF LifeInv, Lifecycle!Next

\* POST /r2p/create.
LEMMA CreateAction ==
    ASSUME Gentle, LifeInv, R2PShape', NEW q \in Request, Create(q)
    PROVE  LifeInv' /\ Lifecycle!Next
<1> DEFINE r == [status |-> "open", tx |-> NoHash]
<1>1. /\ up /\ up' = up /\ store[q] = NoRecord /\ store' = [store EXCEPT ![q] = r]
      /\ R2PSave(store') /\ acked' = acked \cup {<<q, "open">>}
      /\ UNCHANGED <<at, about, payments, status>>
  BY DEF Create, engineIdle, vars
<1>2. LoadedStore' = store'
  BY <1>1, GentleSave, SavedIsLoaded DEF R2PShape
<1>3. /\ \A x \in Request : store'[x] = IF x = q THEN r ELSE store[x]
      /\ store[q].status = "none" /\ r.status = "open"
  BY <1>1 DEF LifeInv, R2PShape, Store, NoRecord
<1> HIDE DEF r
<1>4. Standing = store /\ Standing' = store'
  BY <1>1 DEF Standing
<1>5. Exclusive'
  BY <1>1 DEF LifeInv, Exclusive
<1>6. Holds'
  <2> SUFFICES ASSUME NEW w \in Worker, at[w] \in Holding PROVE store'[about[w]].status = "open"
    BY <1>1 DEF Holds
  <2>1. about[w] \in Request /\ store[about[w]].status = "open"
    BY DEF LifeInv, R2PShape, HandlerOK, Holds, Holding
  <2>2. QED
    BY <1>3, <2>1
<1>7. Counts'
  <2>1. \A x \in Request : InPayment(x)' <=> InPayment(x)
    BY <1>1 DEF InPayment, Paying
  <2>2. QED
    BY <1>1, <1>3, <2>1 DEF LifeInv, Counts
<1>8. FileBehind'
  BY <1>2 DEF FileBehind
<1>9. AckedPaid'
  <2> SUFFICES ASSUME NEW x \in Request, <<x, "paid">> \in acked' PROVE store'[x].status = "paid"
    BY <1>4 DEF AckedPaid
  <2>1. <<x, "paid">> # <<q, "open">>
    OBVIOUS
  <2>2. store[x].status = "paid"
    BY <1>1, <1>4, <2>1 DEF LifeInv, AckedPaid
  <2>3. QED
    BY <1>3, <2>2
<1>10. Lifecycle!Ask(q)
  <2>1. \A x \in Request : Standing'[x].status = IF x = q THEN "open" ELSE Standing[x].status
    BY <1>3, <1>4
  <2>2. Standing[q].status = "none" /\ payments' = payments
    BY <1>1, <1>3, <1>4
  <2>3. QED
    BY <2>1, <2>2 DEF Lifecycle!Ask
<1>11. QED
  BY <1>5, <1>6, <1>7, <1>8, <1>9, <1>10 DEF LifeInv, Lifecycle!Next

\* The process dies between two steps.
LEMMA CrashAction ==
    ASSUME LifeInv, R2PShape', R2PCrash
    PROVE  LifeInv' /\ Lifecycle!Next
<1>1. /\ up /\ up' = FALSE /\ at' = [w \in Worker |-> "idle"] /\ r2pFile' = r2pFile
      /\ payments' = [q \in Request |-> [payments[q] EXCEPT !.before = payments[q].made]]
      /\ UNCHANGED <<store, acked>>
  BY DEF R2PCrash, Crash, Die, R2PDie
<1>2. LoadedStore' = LoadedStore
  BY <1>1 DEF LoadedStore
<1>3. Standing = store /\ Standing' = LoadedStore
  BY <1>1, <1>2 DEF Standing
<1>4. \A q \in Request : /\ payments'[q].made = payments[q].made
                         /\ payments'[q].before = payments[q].made
  BY <1>1 DEF LifeInv, R2PShape
<1>5. \A q \in Request : ~ InPayment(q)'
  BY <1>1 DEF InPayment, Paying
<1>6. Exclusive' /\ Holds' /\ FileBehind'
  BY <1>1 DEF Exclusive, Holds, Holding, FileBehind
<1>7. Counts'
  BY <1>4, <1>5 DEF Counts
<1>8. \A q \in Request :
        \/ LoadedStore[q].status = store[q].status
        \/ store[q].status \in Closing /\ LoadedStore[q].status = "open"
  BY <1>1 DEF LifeInv, FileBehind
<1>9. AckedPaid'
  BY <1>1, <1>3, <1>8 DEF LifeInv, AckedPaid, Closing
<1>10. Lifecycle!Restart
  <2> DEFINE Q == {q \in Request : store[q].status \in Closing /\ LoadedStore[q].status = "open"}
  <2>1. Q \in SUBSET {q \in Request : [p \in Request |-> Standing[p].status][q] \in Lifecycle!Closed}
    BY <1>3 DEF Closing, Lifecycle!Closed
  <2>2. [q \in Request |-> Standing'[q].status]
          = [q \in Request |-> IF q \in Q THEN "open"
                              ELSE [p \in Request |-> Standing[p].status][q]]
    BY <1>3, <1>8
  <2> HIDE DEF Q
  <2>3. /\ [q \in Request |-> payments'[q].made] = [q \in Request |-> payments[q].made]
        /\ [q \in Request |-> payments'[q].before] = [q \in Request |-> payments[q].made]
    BY <1>4
  <2>4. QED
    BY <2>1, <2>2, <2>3 DEF Lifecycle!Restart
<1>11. QED
  BY <1>6, <1>7, <1>9, <1>10 DEF LifeInv, Lifecycle!Next

\* SetR2PStorage of the next process.
LEMMA BootAction ==
    ASSUME LifeInv, R2PShape', R2PBoot
    PROVE  LifeInv' /\ Stutters
<1>1. /\ ~ up /\ up' = TRUE /\ store' = LoadedStore
      /\ UNCHANGED <<r2pFile, at, about, payments, acked, status>>
  BY DEF R2PBoot, Boot
<1>2. LoadedStore' = LoadedStore
  BY <1>1 DEF LoadedStore
<1>3. Standing' = Standing
  BY <1>1, <1>2 DEF Standing
<1>4. \A w \in Worker : at[w] = "idle"
  BY <1>1 DEF LifeInv, R2PShape, HandlerOK
<1>5. \A q \in Request : ~ InPayment(q)'
  BY <1>1, <1>4 DEF InPayment, Paying
<1>6. Exclusive' /\ Holds' /\ FileBehind'
  BY <1>1, <1>2, <1>4 DEF Exclusive, Holds, Holding, FileBehind
<1>7. Counts'
  BY <1>1, <1>5 DEF LifeInv, Counts
<1>8. AckedPaid'
  BY <1>1, <1>3 DEF LifeInv, AckedPaid
<1>9. QED
  BY <1>1, <1>3, <1>6, <1>7, <1>8 DEF LifeInv, Stutters

\* A call for an unknown request saves the store as it is.
LEMMA UnknownAction ==
    ASSUME Gentle, LifeInv, R2PShape', CloseUnknown
    PROVE  LifeInv' /\ Stutters
<1>1. up /\ R2PSave(store) /\ UNCHANGED <<up, store, at, about, payments, acked, status>>
  BY DEF CloseUnknown, engineIdle, vars
<1>2. LoadedStore' = store
  BY <1>1, GentleSave, SavedIsLoaded DEF LifeInv, R2PShape
<1>3. Standing' = Standing
  BY <1>1 DEF Standing
<1>4. \A q \in Request : InPayment(q)' <=> InPayment(q)
  BY <1>1 DEF InPayment, Paying
<1>5. Exclusive' /\ Holds' /\ FileBehind' /\ AckedPaid'
  BY <1>1, <1>2, <1>3 DEF LifeInv, Exclusive, Holds, FileBehind, AckedPaid
<1>6. Counts'
  BY <1>1, <1>4 DEF LifeInv, Counts
<1>7. QED
  BY <1>1, <1>3, <1>5, <1>6 DEF LifeInv, Stutters

\* A stuttering step.
LEMMA StutterAction ==
    ASSUME LifeInv, R2PShape', UNCHANGED allVars
    PROVE  LifeInv' /\ Stutters
<1>1. UNCHANGED <<up, store, r2pFile, at, about, payments, acked, status>>
  BY DEF allVars, vars, r2pVars
<1>2. LoadedStore' = LoadedStore /\ Standing' = Standing
  BY <1>1 DEF LoadedStore, Standing
<1>3. \A q \in Request : InPayment(q)' <=> InPayment(q)
  BY <1>1 DEF InPayment, Paying
<1>4. Exclusive' /\ Holds' /\ FileBehind' /\ AckedPaid'
  BY <1>1, <1>2 DEF LifeInv, Exclusive, Holds, FileBehind, AckedPaid
<1>5. Counts'
  BY <1>1, <1>3 DEF LifeInv, Counts
<1>6. QED
  BY <1>1, <1>2, <1>4, <1>5 DEF LifeInv, Stutters

\* Every step keeps the invariant and is a step of the abstract specification.
LEMMA NextLife ==
    ASSUME Gentle
    PROVE  LifeInv /\ [R2PNext]_allVars => LifeInv' /\ [Lifecycle!Next]_(Lifecycle!vars)
<1> SUFFICES ASSUME LifeInv, [R2PNext]_allVars
             PROVE  LifeInv' /\ (Lifecycle!Next \/ Lifecycle!vars' = Lifecycle!vars)
  OBVIOUS
<1>0. R2PShape'
  BY NextShape DEF LifeInv
<1>1. Stutters => Lifecycle!vars' = Lifecycle!vars
  BY DEF Stutters, Lifecycle!vars
<1>2. ~ CrashInR2PSave
  BY DEF CrashInR2PSave, Gentle
<1>3. ASSUME NEW w \in Worker, R2PStep(w) \/ PlainTx(w)
      PROVE  LifeInv' /\ (Lifecycle!Next \/ Stutters)
  BY <1>0, <1>3, QuietActions, EndActions, PayAction DEF R2PStep
<1>4. ASSUME NEW q \in Request, Create(q) PROVE LifeInv' /\ Lifecycle!Next
  BY <1>0, <1>4, CreateAction
<1>5. R2PCrash => LifeInv' /\ Lifecycle!Next
  BY <1>0, CrashAction
<1>6. R2PBoot \/ CloseUnknown \/ UNCHANGED allVars => LifeInv' /\ Stutters
  BY <1>0, BootAction, UnknownAction, StutterAction
<1>7. QED
  BY <1>1, <1>2, <1>3, <1>4, <1>5, <1>6 DEF R2PNext

\* It holds at the start, which is the abstract one.
LEMMA InitLife == R2PInit => LifeInv /\ Lifecycle!Init
<1> SUFFICES ASSUME R2PInit PROVE LifeInv /\ Lifecycle!Init
  OBVIOUS
<1>1. /\ up = FALSE /\ store = [q \in Request |-> NoRecord] /\ r2pFile = NoFile
      /\ at = [w \in Worker |-> "idle"] /\ acked = {}
      /\ payments = [q \in Request |-> [made |-> 0, before |-> 0]]
  BY DEF R2PInit, Init
<1>2. Standing = [q \in Request |-> NoRecord]
  BY <1>1 DEF Standing, LoadedStore
<1>3. Exclusive /\ Holds /\ FileBehind /\ AckedPaid
  BY <1>1 DEF Exclusive, Holds, Holding, FileBehind, AckedPaid
<1>4. \A q \in Request : ~ InPayment(q)
  BY <1>1 DEF InPayment, Paying
<1>5. Counts
  BY <1>1, <1>4 DEF Counts
<1>6. Lifecycle!Init
  BY <1>1, <1>2 DEF Lifecycle!Init, NoRecord
<1>7. QED
  BY <1>3, <1>5, <1>6, InitShape DEF LifeInv

\* The handlers implement the life of a request (module R2PLifecycle): for any number of
\* requests and workers, with other transfers beside them and a crash between any two
\* steps, a request is paid at most once by a process, closed only while it is not paid,
\* and a restart takes back no more than that it was closed (approve, decline, cancel and
\* create in router.go, r2p_persist.go).
THEOREM RefinesLifecycle ==
    ASSUME Gentle
    PROVE  R2PSpec => ImplementsLifecycle
<1>1. R2PInit => LifeInv /\ Lifecycle!Init
  BY InitLife
<1>2. LifeInv /\ [R2PNext]_allVars => LifeInv' /\ [Lifecycle!Next]_(Lifecycle!vars)
  BY NextLife
<1>3. QED
  BY <1>1, <1>2, PTL DEF R2PSpec, ImplementsLifecycle, Lifecycle!Spec

\* A payment that was answered with success reads as paid for ever: no later handler and
\* no crash between two steps takes it back, because the record is saved before the
\* answer (markR2PPaid, r2pSaveLocked, SetR2PStorage).
THEOREM PaymentsSurvive ==
    ASSUME Gentle
    PROVE  R2PSpec => []AckedPaymentsSurvive
<1>1. LifeInv => AckedPaymentsSurvive
  BY DEF LifeInv, AckedPaid, AckedPaymentsSurvive, Standing
<1>2. QED
  BY <1>1, InitLife, NextLife, PTL DEF R2PSpec
-------------------------------------------------------------------------------
(***************************************************************************)
(* What reads as paid has a receipt, in the life of a process.             *)
(***************************************************************************)
HasReceipt(L, t) == \E i \in 1 .. Len(L) : L[i].tx = t /\ L[i].status = "applied"

\* t is a transfer an approval of q builds.
IsPayment(q, t) == t = PaymentTx(q, t.fee, t.nonce)

BackedIn(L, st) ==
    \A q \in Request : (st[q].status = "paid" /\ st[q].tx # DevHash[q]) =>
        HasReceipt(L, st[q].tx) /\ IsPayment(q, st[q].tx)

\* What a handler carries from ApproveNonce to its mark.
Carries ==
    \A w \in Worker :
        /\ at[w] = "paying" => IsPayment(about[w], txOf[w])
        /\ at[w] = "mark" => HasReceipt(leaves, paidBy[w]) /\ IsPayment(about[w], paidBy[w])

Backed ==
    /\ R2PShape
    /\ leaves \in Seq(Receipt)
    /\ up => BackedIn(leaves, store)
    /\ r2pFile # NoFile => BackedIn(leaves, r2pFile)
    /\ Carries

\* ... and there is no process before the first, which finds no file.
BackedInv == Backed /\ (~ up => r2pFile = NoFile /\ ledgerFile = NoFile)

\* PaidIsBacked in these terms.
LEMMA BackedIsBacked == Backed => PaidIsBacked
BY DEF Backed, PaidIsBacked, BackedIn, HasReceipt, IsPayment

\* The fee of a payment names the payment.
LEMMA PaymentNamesItself ==
    ASSUME NEW q \in Request, NEW f \in Nat, NEW n, PaymentTx(q, f, n) \in Transfer
    PROVE  IsPayment(q, PaymentTx(q, f, n))
<1> DEFINE t == PaymentTx(q, f, n)
           m == MinFeeMas(Amount[q], FeeBps, Word)
<1>1. /\ t.fee = IF f > 0 THEN f ELSE m
      /\ t.nonce = n
      /\ t = [from |-> Payer[q], to |-> Payee[q], amount |-> Amount[q],
              fee |-> t.fee, nonce |-> n, expiry |-> 0]
  BY DEF PaymentTx
<1>2. t.fee \in Nat
  BY AccountsAssumption
<1> HIDE DEF m
<1>3. (IF t.fee > 0 THEN t.fee ELSE m) = t.fee
  BY <1>1, <1>2
<1>4. QED
  BY <1>1, <1>3 DEF IsPayment, PaymentTx, m

\* A receipt is added to the ones there are.
LEMMA ReceiptAdded ==
    ASSUME leaves \in Seq(Receipt), EngineShape, NEW w \in Worker, StoreReceipt(w)
    PROVE  /\ leaves' \in Seq(Receipt) /\ Len(leaves) \in Nat
           /\ Len(leaves') = Len(leaves) + 1
           /\ \A i \in 1 .. Len(leaves) : leaves'[i] = leaves[i]
           /\ leaves'[Len(leaves) + 1].tx = txOf[w]
           /\ leaves'[Len(leaves) + 1].status = status[w]
<1>1. txOf[w] \in Transfer /\ status[w] \in Status
  BY DEF StoreReceipt, EngineShape, WorkerOK
<1>2. [tx |-> txOf[w], status |-> status[w], height |-> Len(leaves)] \in Receipt
  BY <1>1 DEF Receipt
<1>3. QED
  BY <1>2 DEF StoreReceipt

\* The receipts of a process are only added to.
LEMMA LeavesGrow ==
    ASSUME Backed, up, up', [R2PNext]_allVars
    PROVE  /\ up' = up /\ leaves' \in Seq(Receipt)
           /\ \A t : HasReceipt(leaves, t) => HasReceipt(leaves', t)
<1>0. leaves \in Seq(Receipt) /\ Len(leaves) \in Nat /\ R2PShape /\ EngineShape
  BY DEF Backed, R2PShape
<1>1. CASE UNCHANGED <<up, leaves>>
  BY <1>0, <1>1
<1>2. ASSUME NEW w \in Worker, StoreReceipt(w)
      PROVE  /\ up' = up /\ leaves' \in Seq(Receipt)
             /\ \A t : HasReceipt(leaves, t) => HasReceipt(leaves', t)
  <2>1. /\ leaves' \in Seq(Receipt)
        /\ Len(leaves') = Len(leaves) + 1
        /\ \A i \in 1 .. Len(leaves) : leaves'[i] = leaves[i]
    BY <1>0, <1>2, ReceiptAdded
  <2>2. 1 .. Len(leaves) \subseteq 1 .. Len(leaves')
    BY <1>0, <2>1
  <2>3. \A t : HasReceipt(leaves, t) => HasReceipt(leaves', t)
    BY <2>1, <2>2 DEF HasReceipt
  <2>4. QED
    BY <1>2, <2>1, <2>3 DEF StoreReceipt
<1>3. ASSUME NEW w \in Worker, Step(w) \/ \E t \in Transfer : Submit(w, t)
      PROVE  UNCHANGED <<up, leaves>> \/ StoreReceipt(w)
  BY <1>3 DEF Step, Submit, Apply, TakeSnapshot, OpenStateFile, WriteStateFile,
              SaveStateFails, ledgerVars
<1>4. ASSUME NEW w \in Worker, R2PStep(w) PROVE UNCHANGED <<up, leaves>> \/ StoreReceipt(w)
  BY <1>3, <1>4
     DEF R2PStep, Step, ApproveLookup, ApproveCheck, CloseCheck, ApproveNonce, ApproveApply,
         ApproveSaveState, ApproveReceipt, ApproveFree, MarkPaid, CloseLookup, CloseMark,
         engineIdle, vars, ledgerVars
<1>5. ~ R2PCrash /\ ~ CrashInR2PSave /\ ~ R2PBoot
  BY DEF R2PCrash, CrashInR2PSave, Crash, Die, R2PBoot, Boot
<1>6. CASE CloseUnknown \/ (\E q \in Request : Create(q)) \/ UNCHANGED allVars
  BY <1>1, <1>6 DEF CloseUnknown, Create, engineIdle, allVars, vars
<1>7. QED
  BY <1>1, <1>2, <1>3, <1>4, <1>5, <1>6 DEF R2PNext, PlainTx

\* Handlers carry payments.
LEMMA NextCarries ==
    ASSUME Backed, up, up', R2PNext
    PROVE  Carries'
<1>0. /\ R2PShape /\ EngineShape /\ leaves \in Seq(Receipt) /\ Carries
      /\ \A t : HasReceipt(leaves, t) => HasReceipt(leaves', t)
  BY LeavesGrow DEF Backed, R2PShape
<1> SUFFICES ASSUME NEW v \in Worker
             PROVE  /\ at'[v] = "paying" => IsPayment(about'[v], txOf'[v])
                    /\ at'[v] = "mark" =>
                         HasReceipt(leaves', paidBy'[v]) /\ IsPayment(about'[v], paidBy'[v])
  BY DEF Carries
<1>1. ASSUME at'[v] = at[v], about'[v] = about[v], paidBy'[v] = paidBy[v], txOf'[v] = txOf[v]
      PROVE  /\ at'[v] = "paying" => IsPayment(about'[v], txOf'[v])
             /\ at'[v] = "mark" =>
                  HasReceipt(leaves', paidBy'[v]) /\ IsPayment(about'[v], paidBy'[v])
  BY <1>0, <1>1 DEF Carries
<1>2. ASSUME NEW w \in Worker, R2PStep(w) \/ PlainTx(w)
      PROVE  /\ at'[v] = "paying" => IsPayment(about'[v], txOf'[v])
             /\ at'[v] = "mark" =>
                  HasReceipt(leaves', paidBy'[v]) /\ IsPayment(about'[v], paidBy'[v])
  <2>1. CASE v # w
    BY <1>0, <1>1, <1>2, <2>1, HandlersAlone
  <2>2. CASE v = w /\ at'[w] \notin {"paying", "mark"}
    BY <2>2
  <2>3. CASE v = w /\ (ApproveApply(w) \/ ApproveSaveState(w))
    <3>1. UNCHANGED <<at, about, paidBy, txOf>>
      BY <2>3 DEF ApproveApply, Apply, ApproveSaveState, TakeSnapshot, OpenStateFile,
                  WriteStateFile, SaveStateFails, r2pVars
    <3>2. QED
      BY <1>1, <3>1
  <2>4. ASSUME v = w, NEW f \in FeeMas, ApproveNonce(w, f)
        PROVE  at'[w] = "paying" /\ IsPayment(about'[w], txOf'[w])
    <3>1. at[w] = "nonce" /\ about' = about /\ about[w] \in Request /\ f \in Nat
      BY <1>0, <2>4, R2PAssumption DEF ApproveNonce, R2PShape, HandlerOK
    <3> DEFINE n == db.acct[Payer[about[w]]].nonce + 1
               t == PaymentTx(about[w], f, n)
    <3>2. t \in Transfer /\ txOf'[w] = t /\ at'[w] = "paying"
      BY <1>0, <2>4 DEF ApproveNonce, R2PShape, EngineShape
    <3>3. IsPayment(about[w], t)
      BY <3>1, <3>2, PaymentNamesItself
    <3>4. QED
      BY <3>1, <3>2, <3>3
  <2>5. CASE v = w /\ ApproveReceipt(w)
    <3>1. CASE Finish(w)
      BY <1>0, <2>2, <2>5, <3>1 DEF Finish, R2PShape
    <3>2. CASE /\ status[w] = "applied"
               /\ at' = [at EXCEPT ![w] = "mark"]
               /\ paidBy' = [paidBy EXCEPT ![w] = txOf[w]]
               /\ about' = about
      <4>1. at'[w] = "mark" /\ paidBy'[w] = txOf[w] /\ about'[w] = about[w]
        BY <1>0, <3>2 DEF R2PShape
      <4>2. at[w] = "paying" /\ StoreReceipt(w)
        BY <2>5 DEF ApproveReceipt
      <4>3. IsPayment(about[w], txOf[w])
        BY <1>0, <4>2 DEF Carries
      <4>4. HasReceipt(leaves', txOf[w])
        <5>1. /\ Len(leaves) \in Nat /\ Len(leaves') = Len(leaves) + 1
              /\ leaves'[Len(leaves) + 1].tx = txOf[w]
              /\ leaves'[Len(leaves) + 1].status = "applied"
          BY <1>0, <3>2, <4>2, ReceiptAdded
        <5>2. Len(leaves) + 1 \in 1 .. Len(leaves')
          BY <5>1
        <5>3. QED
          BY <5>1, <5>2 DEF HasReceipt
      <4>5. QED
        BY <2>5, <4>1, <4>3, <4>4
    <3>3. QED
      BY <2>5, <3>1, <3>2 DEF ApproveReceipt
  <2>6. CASE PlainTx(w) \/ ApproveFree(w) \/ MarkPaid(w)
          \/ \E kind \in Closing : CloseMark(w, kind)
    <3>1. at'[w] = "idle"
      BY <1>0, <2>6 DEF PlainTx, r2pVars, ApproveFree, MarkPaid, CloseMark, Finish, R2PShape
    <3>2. QED
      BY <2>1, <2>2, <3>1
  <2>7. CASE (\E q \in Request : ApproveLookup(w, q))
        \/ (\E q \in Request, kind \in Closing : CloseLookup(w, q, kind))
        \/ (\E who \in Addr : ApproveCheck(w, who) \/ CloseCheck(w, who))
    <3>1. at'[w] \in {"approve", "declined", "canceled", "nonce", "decline", "cancel", "idle"}
      BY <1>0, <2>7 DEF ApproveLookup, CloseLookup, Start, ApproveCheck, CloseCheck, CloseAt,
                        Finish, Closing, R2PShape
    <3>2. QED
      BY <2>1, <2>2, <3>1
  <2>8. QED
    BY <1>2, <2>1, <2>3, <2>4, <2>5, <2>6, <2>7 DEF R2PStep
<1>3. CASE CloseUnknown \/ \E q \in Request : Create(q)
  BY <1>1, <1>3 DEF CloseUnknown, Create, engineIdle, vars
<1>4. ~ R2PCrash /\ ~ CrashInR2PSave /\ ~ R2PBoot
  BY DEF R2PCrash, CrashInR2PSave, Crash, Die, R2PBoot, Boot
<1>5. QED
  BY <1>2, <1>3, <1>4 DEF R2PNext

\* The stores stay backed while the process runs.
LEMMA RunningBacked ==
    ASSUME Backed, up, up', R2PNext
    PROVE  Backed'
<1>0. R2PShape /\ R2PShape' /\ EngineShape
  BY NextShape DEF Backed, R2PShape
<1>1. /\ up' = up /\ leaves' \in Seq(Receipt)
      /\ \A t : HasReceipt(leaves, t) => HasReceipt(leaves', t)
  BY LeavesGrow
<1>2. Carries'
  BY NextCarries
<1>3. BackedIn(leaves, store) /\ (r2pFile # NoFile => BackedIn(leaves, r2pFile)) /\ Carries
  BY DEF Backed
<1>4. ASSUME NEW st, BackedIn(leaves, st) PROVE BackedIn(leaves', st)
  BY <1>1, <1>4 DEF BackedIn
<1>5. BackedIn(leaves', store')
  <2>1. CASE store' = store
    BY <1>3, <1>4, <2>1
  <2>2. ASSUME NEW q \in Request, NEW r \in Record, store' = [store EXCEPT ![q] = r],
               \/ r.status # "paid"
               \/ r.tx = DevHash[q]
               \/ \E w \in Worker : at[w] = "mark" /\ about[w] = q /\ r.tx = paidBy[w]
        PROVE  BackedIn(leaves', store')
    <3>1. (r.status = "paid" /\ r.tx # DevHash[q]) => HasReceipt(leaves, r.tx) /\ IsPayment(q, r.tx)
      BY <1>3, <2>2 DEF Carries
    <3>2. \A p \in Request : store'[p] = IF p = q THEN r ELSE store[p]
      BY <1>0, <2>2 DEF R2PShape, Store
    <3>3. BackedIn(leaves, store')
      BY <1>3, <3>1, <3>2 DEF BackedIn
    <3>4. QED
      BY <1>4, <3>3
  <2>3. QED
    BY <1>0, <2>1, <2>2, StoreSteps
<1>6. r2pFile' # NoFile => BackedIn(leaves', r2pFile')
  BY <1>0, <1>3, <1>4, <1>5, StoreSteps
<1>7. QED
  BY <1>0, <1>1, <1>2, <1>5, <1>6 DEF Backed

\* A process that does not run only starts.
LEMMA DownStarts ==
    ASSUME R2PShape, R2PNext, ~ up
    PROVE  R2PBoot
BY RunsUp DEF R2PNext, R2PCrash, CrashInR2PSave, Crash, Die, CloseUnknown, Create

\* ... and the first process starts from nothing.
LEMMA NextBacked ==
    ASSUME Faults \cap {"crash", "torn"} = {}
    PROVE  BackedInv /\ [R2PNext]_allVars => BackedInv'
<1> SUFFICES ASSUME BackedInv, [R2PNext]_allVars PROVE BackedInv'
  OBVIOUS
<1>0. R2PShape /\ R2PShape' /\ EngineShape
  BY NextShape DEF BackedInv, Backed, R2PShape
<1>1. CASE UNCHANGED allVars
  BY <1>0, <1>1 DEF BackedInv, Backed, Carries, BackedIn, allVars, vars, r2pVars
<1>2. CASE R2PNext /\ up
  <2>1. ~ R2PCrash /\ ~ CrashInR2PSave
    BY DEF R2PCrash, CrashInR2PSave, Crash
  <2>2. up'
    BY <1>0, <1>2, <2>1, HandlersAlone
       DEF R2PNext, R2PBoot, Boot, CloseUnknown, Create, engineIdle, vars
  <2>3. QED
    BY <1>2, <2>2, RunningBacked DEF BackedInv
<1>3. CASE R2PNext /\ ~ up
  <2>1. R2PBoot
    BY <1>0, <1>3, DownStarts
  <2>2. /\ r2pFile = NoFile /\ ledgerFile = NoFile /\ up' = TRUE
        /\ UNCHANGED <<r2pFile, at>>
    BY <1>3, <2>1 DEF R2PBoot, Boot, BackedInv
  <2>3. leaves' \in HeightOrders({}) /\ Cardinality({}) = 0
    BY <2>1, <2>2, FS_EmptySet DEF R2PBoot, Boot, LoadedLedger, Readable
  <2>4. leaves' = <<>>
    BY <2>3 DEF HeightOrders
  <2>5. leaves' \in Seq(Receipt)
    BY <2>4
  <2>6. BackedIn(leaves', store')
    <3>1. store' = [q \in Request |-> NoRecord]
      BY <2>1, <2>2 DEF R2PBoot, LoadedStore
    <3>2. QED
      BY <3>1 DEF BackedIn, NoRecord
  <2>7. \A w \in Worker : at'[w] = "idle"
    BY <1>0, <1>3, <2>2 DEF R2PShape, HandlerOK
  <2>8. Carries'
    BY <2>7 DEF Carries
  <2>9. QED
    BY <1>0, <2>2, <2>5, <2>6, <2>8 DEF BackedInv, Backed
<1>4. QED
  BY <1>1, <1>2, <1>3

\* In the life of a process, whatever calls overlap and whatever writes fail: a request
\* that reads as paid, in memory or in data/r2p.json, has an applied receipt of the
\* transfer its tx_hash names, from its payer to its payee and over its amount (approve in
\* router.go, StoreReceipt).
THEOREM PaidRequestsAreBacked ==
    ASSUME Faults \cap {"crash", "torn"} = {}
    PROVE  R2PSpec => []PaidIsBacked
<1>1. R2PInit => BackedInv
  <2> SUFFICES ASSUME R2PInit PROVE BackedInv
    OBVIOUS
  <2>1. up = FALSE /\ leaves = <<>> /\ r2pFile = NoFile /\ ledgerFile = NoFile
    BY DEF R2PInit, Init
  <2>2. leaves \in Seq(Receipt)
    BY <2>1
  <2>3. Carries
    BY DEF R2PInit, Carries
  <2>4. QED
    BY <2>1, <2>2, <2>3, InitShape DEF BackedInv, Backed
<1>2. BackedInv => PaidIsBacked
  BY BackedIsBacked DEF BackedInv
<1>3. QED
  BY <1>1, <1>2, NextBacked, PTL DEF R2PSpec
-------------------------------------------------------------------------------
(***************************************************************************)
(* What a list shows.                                                      *)
(***************************************************************************)
Encoding == reader # NoRead /\ reader.step = "encode"

\* What a list has selected, when it is not the open requests: they have that status
\* still.
Keeps ==
    Encoding =>
        /\ up /\ reader.found \subseteq Request
        /\ reader.want \notin {"any", "open"} =>
             reader.want \in Statuses /\ \A q \in reader.found : store[q].status = reader.want

ReadInv == LifeInv /\ Keeps

\* A record that is no longer open does not change in the life of a process: every
\* handler that writes one holds it open.
LEMMA ClosedStays ==
    ASSUME LifeInv, R2PNext, up, NEW q \in Request, store[q].status \in Statuses \ {"open"}
    PROVE  store'[q] = store[q]
<1>0. R2PShape /\ Holds /\ store \in Store
  BY DEF LifeInv, R2PShape
<1>1. CASE store' = store
  BY <1>1
<1>2. ASSUME NEW p \in Request, NEW r, store' = [store EXCEPT ![p] = r], p # q
      PROVE  store'[q] = store[q]
  BY <1>0, <1>2 DEF Store
<1>3. ASSUME NEW w \in Worker, at[w] \in Holding, NEW r,
             store' = [store EXCEPT ![about[w]] = r]
      PROVE  store'[q] = store[q]
  <2>1. about[w] \in Request /\ store[about[w]].status = "open"
    BY <1>0, <1>3 DEF R2PShape, HandlerOK, Holds, Holding
  <2>2. QED
    BY <1>2, <1>3, <2>1
<1>4. ASSUME NEW p \in Request, Create(p) PROVE store'[q] = store[q]
  <2>1. p # q
    BY <1>4 DEF Create, NoRecord, Statuses
  <2>2. QED
    BY <1>2, <1>4, <2>1 DEF Create
<1>5. ASSUME NEW w \in Worker, R2PStep(w) PROVE store'[q] = store[q]
  <2>1. CASE ApproveFree(w) \/ MarkPaid(w)
    BY <1>3, <2>1 DEF ApproveFree, MarkPaid, Holding
  <2>2. ASSUME NEW kind \in Closing, CloseMark(w, kind) PROVE store'[q] = store[q]
    BY <1>3, <2>2 DEF CloseMark, CloseAt, Holding
  <2>3. CASE store' = store
    BY <2>3
  <2>4. QED
    BY <1>5, <2>1, <2>2, <2>3
       DEF R2PStep, ApproveLookup, ApproveCheck, CloseCheck, ApproveNonce, ApproveApply,
           ApproveSaveState, ApproveReceipt, CloseLookup, r2pVars
<1>6. CASE R2PCrash \/ CrashInR2PSave \/ CloseUnknown \/ \E w \in Worker : PlainTx(w)
  BY <1>1, <1>6 DEF R2PCrash, CrashInR2PSave, R2PDie, CloseUnknown, PlainTx, r2pVars
<1>7. ~ R2PBoot
  BY DEF R2PBoot, Boot
<1>8. QED
  BY <1>4, <1>5, <1>6, <1>7 DEF R2PNext

\* Nobody is about to write such a record, so the encoder finds it whole.
LEMMA ClosedIsWhole ==
    ASSUME LifeInv, NEW q \in Request, store[q].status # "open"
    PROVE  Shown(q) = {store[q]}
<1>1. ASSUME NEW v \in Worker, about[v] = q PROVE at[v] \notin Holding
  BY <1>1 DEF LifeInv, Holds
<1>2. Becoming(q) = {}
  BY <1>1 DEF Becoming, Holding, CloseAt
<1>3. QED
  BY <1>2 DEF Shown

\* A list of closed requests selects them under r2pMu, and no later step changes them.
LEMMA KeepsNext ==
    ASSUME Gentle
    PROVE  ReadInv /\ [ReadNext]_readVars => ReadInv'
<1> SUFFICES ASSUME ReadInv, [ReadNext]_readVars PROVE ReadInv'
  OBVIOUS
<1>0. LifeInv /\ Keeps
  BY DEF ReadInv
<1>1. [R2PNext]_allVars
  BY DEF ReadNext, readVars, ListLock, GetLock, TxGetEngine, ReadStep, Encode, TxGetStore, Handle
<1>2. LifeInv'
  BY <1>0, <1>1, NextLife
<1> SUFFICES Keeps'
  BY <1>2 DEF ReadInv
<1>3. CASE UNCHANGED readVars
  <2>1. UNCHANGED <<reader, up, store>>
    BY <1>3 DEF readVars, allVars, r2pVars, vars
  <2>2. Encoding' = Encoding
    BY <2>1 DEF Encoding
  <2>3. QED
    BY <1>0, <2>1, <2>2 DEF Keeps, Encoding
<1>4. ASSUME NEW c \in Query, ListLock(c) PROVE Keeps'
  <2>1. /\ up /\ reader' = [step |-> "encode", want |-> WantStatus(c), found |-> Listed(c)]
        /\ WantStatus(c) # "bad" /\ UNCHANGED <<up, store>>
    BY <1>4 DEF ListLock, allVars, r2pVars, vars
  <2>2. WantStatus(c) \in Statuses \cup {"any", "bad"}
    BY DEF WantStatus, Statuses
  <2>3. \A q \in Listed(c) : q \in Request /\ WantStatus(c) \in {"any", store[q].status}
    BY DEF Listed
  <2>4. /\ reader'.found = Listed(c) /\ reader'.want = WantStatus(c)
    BY <2>1
  <2>5. QED
    BY <2>1, <2>2, <2>3, <2>4 DEF Keeps
<1>5. ASSUME NEW q \in Request, GetLock(q) PROVE Keeps'
  BY <1>5 DEF Keeps, Encoding, GetLock, allVars, r2pVars, vars
<1>6. ASSUME NEW h, TxGetEngine(h) PROVE Keeps'
  BY <1>6 DEF Keeps, Encoding, TxGetEngine
<1>7. CASE ReadStep
  <2>1. ~ Encoding'
    BY <1>7 DEF Encoding, ReadStep, Encode, TxGetStore
  <2>2. QED
    BY <2>1 DEF Keeps
<1>8. CASE Handle
  <2>1. SUFFICES ASSUME Encoding' PROVE Keeps'
    BY DEF Keeps
  <2>2. reader' = reader /\ R2PNext /\ up'
    BY <1>8, <2>1 DEF Handle, Encoding
  <2>3. up /\ reader.found \subseteq Request /\ Encoding
    BY <1>0, <2>1, <2>2 DEF Keeps, Encoding
  <2>4. ASSUME reader.want \notin {"any", "open"}, NEW q \in reader.found
        PROVE  store'[q].status = reader.want
    <3>1. store[q].status = reader.want /\ reader.want \in Statuses /\ q \in Request
      BY <1>0, <2>1, <2>2, <2>3, <2>4 DEF Keeps
    <3>2. store'[q] = store[q]
      BY <1>0, <2>2, <2>3, <2>4, <3>1, ClosedStays
    <3>3. QED
      BY <3>1, <3>2
  <2>5. QED
    BY <1>0, <2>1, <2>2, <2>3, <2>4 DEF Keeps
<1>9. QED
  BY <1>3, <1>4, <1>5, <1>6, <1>7, <1>8 DEF ReadNext

\* A list of the paid, the declined or the canceled requests shows records of that status
\* alone, although GET /r2p/list encodes them after it released r2pMu, for any number of
\* requests, handlers and crashes: a record that is not open any more is written by nobody
\* while calls about one request do not overlap.
THEOREM ListsKeepTheirFilter ==
    ASSUME Gentle
    PROVE  ReadSpec => []ListKeepsItsFilter
<1>1. R2PInit /\ reader = NoRead => ReadInv
  BY InitLife DEF ReadInv, Keeps, Encoding
<1>2. ReadInv => ListKeepsItsFilter
  <2> SUFFICES ASSUME ReadInv, reader # NoRead, reader.step = "encode",
                      reader.want \notin {"any", "open"}, NEW q \in reader.found
               PROVE  \A rec \in Shown(q) : rec.status = reader.want
    BY DEF ListKeepsItsFilter
  <2>1. q \in Request /\ store[q].status = reader.want /\ LifeInv
    BY DEF ReadInv, Keeps, Encoding
  <2>2. Shown(q) = {store[q]}
    BY <2>1, ClosedIsWhole
  <2>3. QED
    BY <2>1, <2>2
<1>3. QED
  BY <1>1, <1>2, KeepsNext, PTL DEF ReadSpec
-------------------------------------------------------------------------------
(***************************************************************************)
(* Receipts of approvals through restarts.  Two handlers with the same     *)
(* transfer would store two receipts of which the map keeps the later, a   *)
(* rejection: so handlers run one after another here, and no client sends  *)
(* a transfer again.  What rules the second receipt out is then the nonce: *)
(* an approval takes the one after the account's, which is past every      *)
(* applied receipt, in memory and in what a restart loads.                 *)
(***************************************************************************)
InTurn == CleanCrashes /\ OneHandler /\ SentOnce

\* The steps of the handlers to module Engine: all but two are steps of it.
LEMMA EngineSteps ==
    ASSUME R2PShape, [R2PNext]_allVars
    PROVE  \/ [Next]_vars
           \/ \E w \in Worker, f \in FeeMas : ApproveNonce(w, f)
           \/ \E w \in Worker : ApproveFree(w)
<1>1. CASE R2PBoot \/ R2PCrash \/ CrashInR2PSave
  BY <1>1 DEF R2PBoot, R2PCrash, CrashInR2PSave, Next
<1>2. CASE CloseUnknown \/ (\E q \in Request : Create(q)) \/ UNCHANGED allVars
  BY <1>2 DEF CloseUnknown, Create, engineIdle, allVars
<1>3. ASSUME NEW w \in Worker, PlainTx(w) PROVE Next
  BY <1>3 DEF PlainTx, Next
<1>4. ASSUME NEW w \in Worker, R2PStep(w)
      PROVE  \/ [Next]_vars \/ ApproveFree(w)
             \/ \E f \in FeeMas : ApproveNonce(w, f)
  <2>1. CASE ApproveApply(w) \/ ApproveSaveState(w) \/ ApproveReceipt(w)
    <3>1. Step(w)
      BY <2>1 DEF ApproveApply, ApproveSaveState, ApproveReceipt, Step
    <3>2. QED
      BY <3>1 DEF Next
  <2>2. CASE UNCHANGED vars
    BY <2>2
  <2>3. QED
    BY <1>4, <2>1, <2>2 DEF R2PStep, ApproveLookup, ApproveCheck, CloseCheck, MarkPaid,
                            CloseLookup, CloseMark, engineIdle
<1>5. QED
  BY <1>1, <1>2, <1>3, <1>4 DEF R2PNext

\* An approval enters the engine: GetAccount leaves an entry behind.
LEMMA NonceCover ==
    ASSUME R2PShape, CoverInv, NEW w \in Worker, NEW f \in FeeMas, ApproveNonce(w, f)
    PROVE  CoverInv'
<1> DEFINE p == Payer[about[w]]
<1>1. /\ at[w] = "nonce" /\ pc[w] = "idle" /\ up /\ about[w] \in Request /\ p \in Addr
  BY R2PAssumption DEF ApproveNonce, R2PShape, HandlerOK
<1>2. /\ TypeOK /\ FileFinite /\ WorkerShape /\ WorkersUp
      /\ MemoryCovers /\ BootCovers /\ DiskCovers
  BY DEF CoverInv, TypeInv
<1>3. /\ db' = Touch(db, {p}) /\ pc' = [pc EXCEPT ![w] = "apply"]
      /\ \E t \in Transfer : txOf' = [txOf EXCEPT ![w] = t]
      /\ UNCHANGED <<up, height, leaves, receipts, lastCommitted, rounds, supply, supplyLog,
                     feed, tip, born, chain, stateFile, ledgerFile, status, snap, crashes>>
  BY DEF ApproveNonce, ledgerVars, commitVars
<1> HIDE DEF p
<1>4. db' \in DB /\ \A t : Has(db, t) => Has(db', t)
  BY <1>1, <1>2, <1>3 DEF TypeOK, Touch, DB, Has
<1>5. TypeOK'
  BY <1>2, <1>3, <1>4 DEF TypeOK
<1>6. FileFinite' /\ WorkerShape' /\ WorkersUp'
  BY <1>1, <1>2, <1>3 DEF TypeOK, FileFinite, Readable, WorkerShape, WorkersUp
<1>7. InFlight' = InFlight /\ w \notin InFlight
  BY <1>1, <1>2, <1>3 DEF TypeOK, InFlight
<1>8. MemoryCovers'
  BY <1>2, <1>3, <1>4, <1>7 DEF TypeOK, MemoryCovers, Settled, InFlight
<1>9. BootCovers'
  BY <1>1, <1>3 DEF BootCovers
<1>10. DiskCovers'
  BY <1>1, <1>2, <1>3 DEF TypeOK, DiskCovers, Stored, LoadedLedger, Readable
<1>11. QED
  BY <1>5, <1>6, <1>8, <1>9, <1>10 DEF CoverInv, TypeInv

\* A free approval leaves the engine without a receipt: nothing was applied.
LEMMA FreeCover ==
    ASSUME R2PShape, CoverInv, NEW w \in Worker, ApproveFree(w)
    PROVE  CoverInv'
<1>1. /\ pc[w] = "store" /\ status[w] = "insufficient_funds"
      /\ pc' = [pc EXCEPT ![w] = "idle"] /\ txOf' = [txOf EXCEPT ![w] = NoTx]
      /\ status' = [status EXCEPT ![w] = "none"]
      /\ UNCHANGED <<up, db, height, leaves, receipts, lastCommitted, rounds, supply,
                     supplyLog, feed, tip, born, chain, stateFile, ledgerFile, snap, crashes>>
  BY DEF ApproveFree, DevPays, ledgerVars, commitVars
<1>2. /\ TypeOK /\ FileFinite /\ WorkerShape /\ WorkersUp
      /\ MemoryCovers /\ BootCovers /\ DiskCovers
  BY DEF CoverInv, TypeInv
<1>3. TypeOK'
  BY <1>1, <1>2 DEF TypeOK
<1>4. FileFinite' /\ WorkerShape' /\ WorkersUp'
  BY <1>1, <1>2 DEF TypeOK, FileFinite, Readable, WorkerShape, WorkersUp
<1>5. InFlight' = InFlight /\ w \notin InFlight
  BY <1>1, <1>2 DEF TypeOK, InFlight
<1>6. MemoryCovers'
  BY <1>1, <1>2, <1>5 DEF TypeOK, MemoryCovers, Settled, InFlight
<1>7. BootCovers'
  BY <1>1, <1>2 DEF BootCovers, LoadedLedger, LoadedState, Readable
<1>8. DiskCovers'
  BY <1>1, <1>2 DEF TypeOK, DiskCovers, Stored, LoadedLedger, Readable
<1>9. QED
  BY <1>3, <1>4, <1>6, <1>7, <1>8 DEF CoverInv, TypeInv

\* So accounts and state file cover the receipts of approvals too.
LEMMA ApprovalsCover ==
    ASSUME InTurn
    PROVE  R2PShape /\ CoverInv /\ [R2PNext]_allVars => CoverInv'
BY EngineSteps, NonceCover, FreeCover, NextCover DEF InTurn

\* What changes the receipts, or the transfer a handler has.
LEMMA LedgerMoves ==
    ASSUME R2PShape, [R2PNext]_allVars
    PROVE  \/ Boot
           \/ \E w \in Worker : StoreReceipt(w)
           \/ \E w \in Worker, t \in Transfer : Submit(w, t)
           \/ \E w \in Worker, f \in FeeMas : ApproveNonce(w, f)
           \/ /\ UNCHANGED <<leaves, receipts, ledgerFile>>
              /\ \A w \in Worker : pc'[w] # "idle" => pc[w] # "idle" /\ txOf'[w] = txOf[w]
<1> DEFINE Still ==
      /\ UNCHANGED <<leaves, receipts, ledgerFile>>
      /\ \A w \in Worker : pc'[w] # "idle" => pc[w] # "idle" /\ txOf'[w] = txOf[w]
<1>0. /\ pc \in [Worker -> {"idle", "apply", "snapshot", "open", "write", "store"}]
      /\ txOf \in [Worker -> Transfer \cup {NoTx}]
  BY DEF R2PShape, EngineShape
<1>1. UNCHANGED vars => Still
  BY DEF vars
<1>2. R2PBoot => Boot
  BY DEF R2PBoot
<1>3. R2PCrash \/ CrashInR2PSave => Still
  BY DEF R2PCrash, CrashInR2PSave, Crash, Die, ledgerVars
<1>4. ASSUME NEW w \in Worker,
             Apply(w) \/ TakeSnapshot(w) \/ OpenStateFile(w) \/ WriteStateFile(w)
               \/ SaveStateFails(w)
      PROVE  Still
  <2>1. /\ pc[w] # "idle" /\ txOf' = txOf /\ UNCHANGED <<leaves, receipts, ledgerFile>>
        /\ \E x : pc' = [pc EXCEPT ![w] = x]
    BY <1>4 DEF Apply, TakeSnapshot, OpenStateFile, WriteStateFile, SaveStateFails, ledgerVars
  <2>2. QED
    BY <1>0, <2>1
<1>5. ASSUME NEW w \in Worker, ApproveFree(w) PROVE Still
  BY <1>0, <1>5 DEF ApproveFree, ledgerVars
<1> HIDE DEF Still
<1>6. ASSUME NEW w \in Worker, PlainTx(w)
      PROVE  Still \/ StoreReceipt(w) \/ \E t \in Transfer : Submit(w, t)
  BY <1>4, <1>6 DEF PlainTx, Step
<1>7. ASSUME NEW w \in Worker, R2PStep(w)
      PROVE  Still \/ StoreReceipt(w) \/ \E f \in FeeMas : ApproveNonce(w, f)
  BY <1>1, <1>4, <1>5, <1>7
     DEF R2PStep, ApproveLookup, ApproveCheck, CloseCheck, ApproveApply, ApproveSaveState,
         ApproveReceipt, MarkPaid, CloseLookup, CloseMark, engineIdle
<1>8. CloseUnknown \/ (\E q \in Request : Create(q)) \/ UNCHANGED allVars => Still
  BY <1>1 DEF CloseUnknown, Create, engineIdle, allVars
<1>9. Still \/ Boot \/ (\E w \in Worker : StoreReceipt(w))
        \/ (\E w \in Worker, t \in Transfer : Submit(w, t))
        \/ (\E w \in Worker, f \in FeeMas : ApproveNonce(w, f))
  BY <1>2, <1>3, <1>6, <1>7, <1>8 DEF R2PNext
<1>10. QED
  BY <1>9 DEF Still

\* The receipts map, the ledger file and the leaves agree on what is applied, and no
\* handler has a transfer that is.
KeptInv ==
    /\ CoverInv
    /\ KeyedByTx
    /\ LoadedLedger.receipts = Stored
    /\ \A t \in Transfer : receipts[t].status = "applied" <=> t \in Settled(leaves)
    /\ \A w \in Worker : pc[w] # "idle" => txOf[w] \notin Settled(leaves)

\* StoreReceipt: the one handler had a transfer without an applied receipt.
LEMMA KeptStore ==
    ASSUME InTurn, KeptInv, CoverInv', NEW w \in Worker, StoreReceipt(w)
    PROVE  KeptInv' /\ Settled(leaves) \subseteq Settled(leaves')
<1>1. /\ TypeInv /\ TypeInv' /\ KeyedByTx /\ receipts \in [Transfer -> Receipt \cup {NoReceipt}]
      /\ \A t \in Transfer : receipts[t].status = "applied" <=> t \in Settled(leaves)
      /\ txOf[w] \notin Settled(leaves)
  BY DEF KeptInv, CoverInv, TypeInv, TypeOK, StoreReceipt
<1>2. txOf[w] \in Transfer /\ pc \in [Worker -> {"idle", "apply", "snapshot", "open", "write", "store"}]
  BY <1>1 DEF TypeInv, TypeOK, WorkerShape, StoreReceipt
<1> DEFINE r == leaves'[Len(leaves) + 1]
<1>3. r.tx = txOf[w] /\ r.status = status[w] /\ receipts' = [receipts EXCEPT ![txOf[w]] = r]
  BY <1>1, StoreAppends
<1> HIDE DEF r
<1>4. Settled(leaves') = Settled(leaves) \cup (IF status[w] = "applied" THEN {txOf[w]} ELSE {})
  BY <1>1, SettledStore
<1>5. LoadedLedger'.receipts = Stored'
  <2>1. LoadedLedger' = [receipts |-> Stored', last |-> lastCommitted, rounds |-> rounds]
    BY <1>1, StoreSaves DEF InTurn
  <2>2. QED
    BY <2>1
<1>6. \A t \in Transfer : receipts'[t] = IF t = txOf[w] THEN r ELSE receipts[t]
  BY <1>1, <1>3
<1>7. KeyedByTx'
  BY <1>1, <1>3, <1>6 DEF KeyedByTx
<1>8. \A t \in Transfer : receipts'[t].status = "applied" <=> t \in Settled(leaves')
  BY <1>1, <1>3, <1>4, <1>6
<1>9. \A v \in Worker : pc'[v] = "idle"
  BY <1>2 DEF StoreReceipt, InTurn, OneHandler
<1>10. QED
  BY <1>4, <1>5, <1>7, <1>8, <1>9 DEF KeptInv

\* A restart finds the receipts there were.
LEMMA KeptBoot ==
    ASSUME KeptInv, CoverInv', Boot
    PROVE  KeptInv' /\ Settled(leaves') = Settled(leaves)
<1>1. /\ TypeInv /\ KeyedByTx /\ LoadedLedger.receipts = Stored /\ WorkersUp
      /\ \A t \in Transfer : receipts[t].status = "applied" <=> t \in Settled(leaves)
      /\ leaves \in Seq(Receipt)
  BY DEF KeptInv, CoverInv, TypeInv, TypeOK
<1>2. receipts' = receipts
  BY <1>1, BootReceipts
<1>3. Held(leaves') = Stored
  BY <1>1, SettledBoot
<1>4. Settled(leaves') \subseteq Transfer /\ Settled(leaves) \subseteq Transfer
  <2>1. leaves' \in Seq(Receipt)
    BY DEF CoverInv, TypeInv, TypeOK
  <2>2. QED
    BY <1>1, <2>1, SettledType
<1>5. ASSUME NEW t \in Transfer
      PROVE  t \in Settled(leaves') <=> receipts[t].status = "applied"
  <2>1. t \in Settled(leaves') <=> \E r \in Stored : r.status = "applied" /\ r.tx = t
    BY <1>3 DEF Settled
  <2>2. receipts[t].status = "applied" => receipts[t] # NoReceipt
    BY DEF NoReceipt
  <2>3. \A r \in Stored : r.tx = t => r = receipts[t]
    BY <1>1 DEF KeyedByTx, Stored
  <2>4. receipts[t] # NoReceipt => receipts[t] \in Stored /\ receipts[t].tx = t
    BY <1>1 DEF KeyedByTx, Stored
  <2>5. QED
    BY <2>1, <2>2, <2>3, <2>4
<1>6. Settled(leaves') = Settled(leaves)
  BY <1>1, <1>4, <1>5
<1>7. LoadedLedger'.receipts = Stored'
  <2>1. ledgerFile' = ledgerFile
    BY DEF Boot
  <2>2. LoadedLedger' = LoadedLedger
    BY <2>1 DEF LoadedLedger, Readable
  <2>3. Stored' = Stored
    BY <1>2 DEF Stored
  <2>4. QED
    BY <1>1, <2>2, <2>3
<1>8. \A w \in Worker : pc'[w] = "idle"
  BY <1>1 DEF Boot, WorkersUp
<1>9. QED
  BY <1>1, <1>2, <1>5, <1>6, <1>7, <1>8 DEF KeptInv, KeyedByTx

\* A handler takes up a transfer: one without a receipt, or with the next nonce.
LEMMA KeptEnter ==
    ASSUME InTurn, R2PShape, KeptInv, CoverInv', NEW w \in Worker, NEW t \in Transfer,
           pc' = [pc EXCEPT ![w] = "apply"], txOf' = [txOf EXCEPT ![w] = t],
           UNCHANGED <<leaves, receipts, ledgerFile>>,
           \/ receipts[t] = NoReceipt
           \/ up /\ t.nonce = db.acct[t.from].nonce + 1
    PROVE  KeptInv' /\ Settled(leaves') = Settled(leaves)
<1>1. /\ KeyedByTx /\ LoadedLedger.receipts = Stored /\ MemoryCovers /\ TypeOK
      /\ \A u \in Transfer : receipts[u].status = "applied" <=> u \in Settled(leaves)
      /\ \A v \in Worker : pc[v] # "idle" => txOf[v] \notin Settled(leaves)
  BY DEF KeptInv, CoverInv, TypeInv
<1>2. t \notin Settled(leaves)
  <2>1. CASE receipts[t] = NoReceipt
    BY <1>1, <2>1 DEF NoReceipt
  <2>2. CASE up /\ t.nonce = db.acct[t.from].nonce + 1
    <3>1. db.acct[t.from].nonce \in Nat
      BY <1>1, AccountsAssumption DEF TypeOK, DB, Account
    <3>2. ~ Has(db, t)
      BY <2>2, <3>1 DEF Has
    <3>3. QED
      BY <1>1, <2>2, <3>2 DEF MemoryCovers
  <2>3. QED
    BY <2>1, <2>2
<1>3. Settled(leaves') = Settled(leaves)
  OBVIOUS
<1>4. \A v \in Worker : pc'[v] # "idle" => txOf'[v] \notin Settled(leaves')
  BY <1>1, <1>2, <1>3 DEF TypeOK
<1>5. LoadedLedger'.receipts = Stored' /\ KeyedByTx'
  BY <1>1 DEF LoadedLedger, Readable, Stored, KeyedByTx
<1>6. QED
  BY <1>1, <1>3, <1>4, <1>5 DEF KeptInv

\* Every step keeps the agreement, and an applied receipt is never lost.
LEMMA NextKept ==
    ASSUME InTurn, R2PShape, KeptInv, [R2PNext]_allVars
    PROVE  KeptInv' /\ Settled(leaves) \subseteq Settled(leaves')
<1>0. CoverInv' /\ CoverInv
  BY ApprovalsCover DEF KeptInv
<1>1. CASE Boot
  BY <1>0, <1>1, KeptBoot
<1>2. ASSUME NEW w \in Worker, StoreReceipt(w)
      PROVE  KeptInv' /\ Settled(leaves) \subseteq Settled(leaves')
  BY <1>0, <1>2, KeptStore
<1>3. ASSUME NEW w \in Worker, NEW t \in Transfer, Submit(w, t)
      PROVE  KeptInv' /\ Settled(leaves) \subseteq Settled(leaves')
  <2>1. /\ receipts[t] = NoReceipt /\ UNCHANGED <<leaves, receipts, ledgerFile>>
        /\ pc' = [pc EXCEPT ![w] = "apply"] /\ txOf' = [txOf EXCEPT ![w] = t]
    BY <1>3 DEF Submit, ledgerVars, InTurn, SentOnce
  <2>2. QED
    BY <1>0, <2>1, KeptEnter
<1>4. ASSUME NEW w \in Worker, NEW f \in FeeMas, ApproveNonce(w, f)
      PROVE  KeptInv' /\ Settled(leaves) \subseteq Settled(leaves')
  <2> DEFINE t == PaymentTx(about[w], f, db.acct[Payer[about[w]]].nonce + 1)
  <2>1. /\ t \in Transfer /\ UNCHANGED <<leaves, receipts, ledgerFile>>
        /\ pc' = [pc EXCEPT ![w] = "apply"] /\ txOf' = [txOf EXCEPT ![w] = t]
        /\ at[w] = "nonce"
    BY <1>4 DEF ApproveNonce, ledgerVars
  <2>2. t.from = Payer[about[w]] /\ t.nonce = db.acct[Payer[about[w]]].nonce + 1
    BY DEF PaymentTx
  <2>3. up
    BY <2>1 DEF R2PShape, HandlerOK
  <2> HIDE DEF t
  <2>4. QED
    BY <1>0, <2>1, <2>2, <2>3, KeptEnter
<1>5. CASE /\ UNCHANGED <<leaves, receipts, ledgerFile>>
           /\ \A w \in Worker : pc'[w] # "idle" => pc[w] # "idle" /\ txOf'[w] = txOf[w]
  <2>1. LoadedLedger'.receipts = Stored' /\ KeyedByTx'
    BY <1>5 DEF LoadedLedger, Readable, Stored, KeyedByTx, KeptInv
  <2>2. Settled(leaves') = Settled(leaves)
    BY <1>5
  <2>3. QED
    BY <1>0, <1>5, <2>1, <2>2 DEF KeptInv
<1>6. QED
  BY <1>1, <1>2, <1>3, <1>4, <1>5, LedgerMoves

\* A receipt of t among the leaves settles t.
LEMMA ReceiptSettles ==
    ASSUME NEW L \in Seq(Receipt), NEW t
    PROVE  HasReceipt(L, t) <=> t \in Settled(L)
BY DEF HasReceipt, Settled, Held

\* What reads as paid is backed, through restarts.
TurnInv == Backed /\ KeptInv

\* A crash takes the handlers away, and nothing else that counts here.
LEMMA CrashBacked ==
    ASSUME Backed, R2PShape', Die, R2PDie, r2pFile' \in {r2pFile, NoFile}
    PROVE  Backed'
<1>1. UNCHANGED <<store, leaves>> /\ ~ up' /\ \A w \in Worker : at'[w] = "idle"
  BY DEF Die, R2PDie, ledgerVars
<1>2. Carries'
  BY <1>1 DEF Carries
<1>3. leaves' \in Seq(Receipt) /\ (r2pFile' # NoFile => BackedIn(leaves', r2pFile'))
  BY <1>1 DEF Backed
<1>4. QED
  BY <1>1, <1>2, <1>3 DEF Backed

\* A restart loads the store of the file, which the rebuilt receipts back.
LEMMA BootBacked ==
    ASSUME TurnInv, KeptInv', R2PShape', R2PBoot, Settled(leaves) \subseteq Settled(leaves')
    PROVE  Backed'
<1>1. /\ R2PShape /\ leaves \in Seq(Receipt) /\ leaves' \in Seq(Receipt)
      /\ r2pFile # NoFile => BackedIn(leaves, r2pFile)
  BY DEF TurnInv, Backed, KeptInv, CoverInv, TypeInv, TypeOK
<1>2. ~ up /\ store' = LoadedStore /\ UNCHANGED <<r2pFile, at>>
  BY DEF R2PBoot, Boot
<1>3. \A t : HasReceipt(leaves, t) => HasReceipt(leaves', t)
  BY <1>1, ReceiptSettles
<1>4. r2pFile # NoFile => BackedIn(leaves', r2pFile)
  BY <1>1, <1>3 DEF BackedIn
<1>5. BackedIn(leaves', [q \in Request |-> NoRecord])
  BY DEF BackedIn, NoRecord
<1>6. BackedIn(leaves', store')
  BY <1>2, <1>4, <1>5 DEF LoadedStore
<1>7. \A w \in Worker : at'[w] = "idle"
  BY <1>1, <1>2 DEF R2PShape, HandlerOK
<1>8. Carries'
  BY <1>7 DEF Carries
<1>9. QED
  BY <1>1, <1>2, <1>4, <1>6, <1>8 DEF Backed

\* Every step keeps both.
LEMMA NextTurn ==
    ASSUME InTurn
    PROVE  TurnInv /\ [R2PNext]_allVars => TurnInv'
<1> SUFFICES ASSUME TurnInv, [R2PNext]_allVars PROVE TurnInv'
  OBVIOUS
<1>0. Backed /\ KeptInv /\ R2PShape /\ R2PShape'
  BY NextShape DEF TurnInv, Backed
<1>1. KeptInv' /\ Settled(leaves) \subseteq Settled(leaves')
  BY <1>0, NextKept
<1> SUFFICES Backed'
  BY <1>1 DEF TurnInv
<1>2. CASE UNCHANGED allVars
  BY <1>0, <1>2 DEF Backed, Carries, BackedIn, allVars, vars, r2pVars
<1>3. CASE R2PCrash \/ CrashInR2PSave
  <2>1. Die /\ R2PDie /\ r2pFile' \in {r2pFile, NoFile}
    BY <1>3 DEF R2PCrash, CrashInR2PSave, Crash
  <2>2. QED
    BY <1>0, <2>1, CrashBacked
<1>4. CASE R2PBoot
  BY <1>0, <1>1, <1>4, BootBacked
<1>5. CASE R2PNext /\ ~ R2PCrash /\ ~ CrashInR2PSave /\ ~ R2PBoot
  <2>1. up
    BY <1>0, <1>5, DownStarts
  <2>2. up'
    BY <1>0, <1>5, <2>1, HandlersAlone DEF R2PNext, CloseUnknown, Create, engineIdle, vars
  <2>3. QED
    BY <1>0, <1>5, <2>1, <2>2, RunningBacked
<1>6. QED
  BY <1>2, <1>3, <1>4, <1>5

\* Nothing is paid and nothing stored at the start.
LEMMA InitTurn == R2PInit => TurnInv
<1> SUFFICES ASSUME R2PInit PROVE TurnInv
  OBVIOUS
<1>1. /\ Init /\ up = FALSE /\ leaves = <<>> /\ r2pFile = NoFile /\ ledgerFile = NoFile
      /\ receipts = [t \in Transfer |-> NoReceipt] /\ pc = [w \in Worker |-> "idle"]
  BY DEF R2PInit, Init
<1>2. leaves \in Seq(Receipt) /\ Carries
  BY <1>1 DEF R2PInit, Carries
<1>3. Backed
  BY <1>1, <1>2, InitShape DEF Backed
<1>4. Settled(leaves) = {} /\ Stored = {} /\ LoadedLedger.receipts = {}
  BY <1>1 DEF Settled, Held, Stored, LoadedLedger, Readable
<1>5. KeyedByTx /\ \A t \in Transfer : receipts[t].status # "applied"
  BY <1>1 DEF KeyedByTx, NoReceipt
<1>6. CoverInv
  BY <1>1, InitCover
<1>7. QED
  BY <1>1, <1>3, <1>4, <1>5, <1>6 DEF TurnInv, KeptInv

\* Through restarts too, a request that reads as paid, in memory or in data/r2p.json, has
\* an applied receipt of the transfer its tx_hash names: for any number of requests and
\* crashes between any two writes, when handlers run one after another and no transfer is
\* sent again.  The receipt is saved before the record (approve in router.go,
\* StoreReceipt, r2pSaveLocked), and no later receipt takes its place in the map
\* NewEngine rebuilds the ledger from.
THEOREM PaidStaysBacked ==
    ASSUME InTurn
    PROVE  R2PSpec => []PaidIsBacked
<1>1. TurnInv => PaidIsBacked
  BY BackedIsBacked DEF TurnInv
<1>2. QED
  BY <1>1, InitTurn, NextTurn, PTL DEF R2PSpec
-------------------------------------------------------------------------------
(***************************************************************************)
(* What GET /tx/get finds.                                                 *)
(***************************************************************************)
Searching == reader # NoRead /\ reader.step = "store"

\* A search for a hash a client was given has its request to find.
Sought ==
    Searching /\ reader.due =>
        up /\ \E q \in Request : store[q].status = "paid" /\ store[q].tx = reader.hash

LookInv == LifeInv /\ TurnInv /\ Sought

\* The search begins after the engine has no receipt; a paid record does not change.
LEMMA SoughtNext ==
    ASSUME LifeInv, Sought, [ReadNext]_readVars
    PROVE  Sought'
<1>1. CASE UNCHANGED readVars
  <2>1. UNCHANGED <<reader, up, store>>
    BY <1>1 DEF readVars, allVars, r2pVars, vars
  <2>2. QED
    BY <2>1 DEF Sought, Searching
<1>2. CASE (\E c \in Query : ListLock(c)) \/ (\E q \in Request : GetLock(q)) \/ ReadStep
  <2>1. ~ Searching'
    BY <1>2 DEF Searching, ListLock, GetLock, ReadStep, Encode, TxGetStore
  <2>2. QED
    BY <2>1 DEF Sought
<1>3. ASSUME NEW h, TxGetEngine(h) PROVE Sought'
  <2> SUFFICES ASSUME reader'.due
               PROVE  up' /\ \E q \in Request : store'[q].status = "paid"
                                                 /\ store'[q].tx = reader'.hash
    BY DEF Sought
  <2>1. up /\ UNCHANGED <<up, store>> /\ reader'.hash = h
    BY <1>3 DEF TxGetEngine, allVars, r2pVars, vars
  <2>2. reader'.due = (\E q \in Request : <<q, "paid">> \in acked /\ store[q].tx = h)
    BY <1>3 DEF TxGetEngine
  <2>3. PICK q \in Request : <<q, "paid">> \in acked /\ store[q].tx = h
    BY <2>2
  <2>4. store[q].status = "paid"
    BY <2>1, <2>3 DEF LifeInv, AckedPaid, Standing
  <2>5. QED
    BY <2>1, <2>3, <2>4
<1>4. CASE Handle
  <2> SUFFICES ASSUME Searching', reader'.due
               PROVE  up' /\ \E q \in Request : store'[q].status = "paid"
                                                 /\ store'[q].tx = reader'.hash
    BY DEF Sought
  <2>1. reader' = reader /\ R2PNext /\ up'
    BY <1>4 DEF Handle, Searching
  <2>2. PICK q \in Request : store[q].status = "paid" /\ store[q].tx = reader.hash
    BY <2>1 DEF Sought, Searching
  <2>3. up
    BY <2>1 DEF Sought, Searching
  <2>4. store'[q] = store[q]
    BY <2>1, <2>2, <2>3, ClosedStays DEF Statuses
  <2>5. QED
    BY <2>1, <2>2, <2>4
<1>5. QED
  BY <1>1, <1>2, <1>3, <1>4 DEF ReadNext

\* A tx_hash that an approval answered with can be looked up, now and after any number of
\* restarts: GET /tx/get finds a receipt that says "applied", or, for a payment of the dev
\* mode, its request, although it reads the engine and the store under two locks one after
\* the other.  Handlers run one after another here; with two, a second receipt of the same
\* transfer, a rejection, replaces the first.
THEOREM ApprovedPaymentsAreFound ==
    ASSUME Gentle, OneHandler, SentOnce
    PROVE  ReadSpec => []PaymentsCanBeLookedUp
<1>0. InTurn
  BY DEF InTurn, Gentle, CleanCrashes
<1>1. R2PInit /\ reader = NoRead => LookInv
  BY InitLife, InitTurn DEF LookInv, Sought, Searching
<1>2. LookInv /\ [ReadNext]_readVars => LookInv'
  <2> SUFFICES ASSUME LookInv, [ReadNext]_readVars PROVE LookInv'
    OBVIOUS
  <2>1. [R2PNext]_allVars
    BY DEF ReadNext, readVars, ListLock, GetLock, TxGetEngine, ReadStep, Encode, TxGetStore, Handle
  <2>2. LifeInv' /\ TurnInv'
    BY <1>0, <2>1, NextLife, NextTurn DEF LookInv
  <2>3. QED
    BY <2>2, SoughtNext DEF LookInv
<1>3. LookInv => PaymentsCanBeLookedUp
  <2> SUFFICES ASSUME LookInv PROVE PaymentsCanBeLookedUp
    OBVIOUS
  <2>1. ASSUME up, NEW q \in Request, <<q, "paid">> \in acked, store[q].tx \in Transfer
        PROVE  GetReceipt(store[q].tx).status = "applied"
    <3>1. store[q].status = "paid"
      BY <2>1 DEF LookInv, LifeInv, AckedPaid, Standing
    <3>2. store[q].tx # DevHash[q]
      BY <2>1, R2PAssumption DEF DevHashes
    <3>3. HasReceipt(leaves, store[q].tx) /\ leaves \in Seq(Receipt)
      BY <2>1, <3>1, <3>2 DEF LookInv, TurnInv, Backed, BackedIn
    <3>4. store[q].tx \in Settled(leaves)
      BY <3>3, ReceiptSettles
    <3>5. QED
      BY <2>1, <3>4 DEF LookInv, TurnInv, KeptInv, GetReceipt
  <2>2. ASSUME reader # NoRead, reader.step = "store", reader.due
        PROVE  TxGetFinds(reader.hash) # {}
    BY <2>2 DEF LookInv, Sought, Searching, TxGetFinds
  <2>3. QED
    BY <2>1, <2>2 DEF PaymentsCanBeLookedUp
<1>4. QED
  BY <1>1, <1>2, <1>3, PTL DEF ReadSpec
===============================================================================
