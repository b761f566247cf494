---------------------------------- MODULE R2P ----------------------------------
(***************************************************************************)
(* Requests to pay (POST /r2p/create, approve, decline, cancel in          *)
(* internal/rpc/router.go, and r2p_persist.go), composed with the engine:  *)
(* a worker that approves a request runs Engine.ApplyTransfer and          *)
(* Engine.StoreReceipt like a worker of POST /tx.                          *)
(*                                                                         *)
(* The handlers hold r2pMu while they look a record up and while they      *)
(* change it, and not in between; they read rec.Status without it.  The    *)
(* record is shared through its pointer, so that a late read sees a late   *)
(* value.  The torn reads of that data race compare unequal to "open",     *)
(* which is one of the two values an atomic read gives.                    *)
(*                                                                         *)
(* r2pSaveLocked runs under r2pMu; its temporary file is never read.       *)
(***************************************************************************)
EXTENDS Engine, Fees

CONSTANTS
    Request,      \* the ids genR2PID gives
    Payee,        \* Request -> Addr: who asks
    Payer,        \* Request -> Addr: who is asked
    Amount,       \* Request -> Nat: how much
    FeeBps,       \* feeBps
    FeeMas,       \* the fee_mas an approval may carry; 0 where it has none
    DevFree,      \* THOMAS_DEV_FREE_R2P for clients on the loopback interface
    NoHash,       \* no tx_hash
    DevHash,      \* Request -> the hash "dev-" + id
    OneAtATime    \* clients send no second call for a request before the first
                  \* is answered

DevHashes == {DevHash[q] : q \in Request}

ASSUME R2PAssumption ==
    /\ Payee \in [Request -> Addr] /\ Payer \in [Request -> Addr]
    /\ Amount \in [Request -> Nat \ {0}]
    /\ FeeBps \in Nat /\ FeeMas \subseteq Nat
    /\ NoHash \notin DevHashes /\ ({NoHash} \cup DevHashes) \cap Transfer = {}
    /\ \A q, p \in Request : q # p => DevHash[q] # DevHash[p]
    /\ DevFree \in BOOLEAN /\ OneAtATime \in BOOLEAN

VARIABLES
    store,      \* r2pStore: the record of each request
    r2pFile,    \* data/r2p.json
    at,         \* where each worker stands in an R2P handler
    about,      \* the request it handles
    paidBy,     \* the transfer of the receipt it got
    payments,   \* the transfers applied for each request: in all, and before the
                \* last crash
    acked       \* <<request, status>> a handler answered with success

r2pVars == <<store, r2pFile, at, about, paidBy, payments, acked>>
allVars == <<vars, r2pVars>>

NoRequest == "no request"
NoRecord == [status |-> "none", tx |-> NoHash]

Record == [status : {"open", "paid", "declined", "canceled"},
           tx : Transfer \cup {NoHash} \cup DevHashes]

\* A missing file is no store.
ASSUME StoreFileAssumption == NoFile \notin [Request -> Record \cup {NoRecord}]

\* The transfer an approval of q with fee_mas f builds on nonce n.  The fee of the
\* client is taken as it is; without one it is the minimum fee.
PaymentTx(q, f, n) ==
    [from |-> Payer[q], to |-> Payee[q], amount |-> Amount[q],
     fee |-> IF f > 0 THEN f ELSE MinFeeMas(Amount[q], FeeBps, Word),
     nonce |-> n, expiry |-> 0]

\* The engine as R2P drives it: rounds are left out, they share no state with it.
engineIdle == UNCHANGED vars
-------------------------------------------------------------------------------
R2PInit ==
    /\ Init
    /\ store = [q \in Request |-> NoRecord]
    /\ r2pFile = NoFile
    /\ at = [w \in Worker |-> "idle"]
    /\ about = [w \in Worker |-> NoRequest]
    /\ paidBy = [w \in Worker |-> NoHash]
    /\ payments = [q \in Request |-> [made |-> 0, before |-> 0]]
    /\ acked = {}

\* r2pSaveLocked: write a temporary file, remove the old file, rename; an error
\* is logged and dropped.
R2PSave(st) ==
    r2pFile' \in {st} \cup (IF "io" \in Faults THEN {r2pFile, NoFile} ELSE {})

\* SetR2PStorage: a missing or unreadable file leaves the empty store.
LoadedStore == IF r2pFile = NoFile THEN [q \in Request |-> NoRecord] ELSE r2pFile

\* main: NewEngine, then SetR2PStorage.
R2PBoot ==
    /\ Boot
    /\ store' = LoadedStore
    /\ UNCHANGED <<r2pFile, at, about, paidBy, payments, acked>>

R2PDie ==
    /\ at' = [w \in Worker |-> "idle"]
    /\ about' = [w \in Worker |-> NoRequest]
    /\ paidBy' = [w \in Worker |-> NoHash]
    /\ payments' = [q \in Request |-> [payments[q] EXCEPT !.before = payments[q].made]]
    /\ UNCHANGED <<store, acked>>

R2PCrash == Crash /\ R2PDie /\ UNCHANGED r2pFile

\* The process dies inside r2pSaveLocked, after os.Remove and before os.Rename: in
\* any of the calls that save, one for an unknown request included.
CrashInR2PSave ==
    /\ "torn" \in Faults
    /\ Crash /\ R2PDie
    /\ r2pFile' = NoFile
-------------------------------------------------------------------------------
\* POST /r2p/create.
Create(q) ==
    /\ up
    /\ store[q] = NoRecord
    /\ \A p \in acked : p[1] # q
    /\ store' = [store EXCEPT ![q] = [status |-> "open", tx |-> NoHash]]
    /\ R2PSave(store')
    /\ acked' = acked \cup {<<q, "open">>}
    /\ engineIdle /\ UNCHANGED <<at, about, paidBy, payments>>

Start(w, q, place) ==
    /\ up
    /\ pc[w] = "idle" /\ at[w] = "idle"
    /\ OneAtATime => \A v \in Worker : about[v] # q
    /\ store[q] # NoRecord
    /\ at' = [at EXCEPT ![w] = place]
    /\ about' = [about EXCEPT ![w] = q]

Finish(w) ==
    /\ at' = [at EXCEPT ![w] = "idle"]
    /\ about' = [about EXCEPT ![w] = NoRequest]
    /\ paidBy' = [paidBy EXCEPT ![w] = NoHash]

\* POST /r2p/approve: the lookup, under r2pMu.
ApproveLookup(w, q) ==
    /\ Start(w, q, "approve")
    /\ Len(leaves) + Cardinality(Busy) < MaxReceipts
    /\ engineIdle /\ UNCHANGED <<store, r2pFile, paidBy, payments, acked>>

\* Mutant: the status is not tested.
ApproveCheckNothing(w, who) ==
    /\ at[w] = "approve"
    /\ who = Payer[about[w]]
    /\ at' = [at EXCEPT ![w] = "nonce"]
    /\ engineIdle /\ UNCHANGED <<store, r2pFile, about, paidBy, payments, acked>>

\* The status and the payer, tested without the lock.  A request that is not open
\* is answered with its status, a payer who is not the one asked is refused.
ApproveCheck(w, who) ==
    /\ at[w] = "approve"
    /\ \/ /\ store[about[w]].status = "open" /\ who = Payer[about[w]]
          /\ at' = [at EXCEPT ![w] = "nonce"]
          /\ UNCHANGED <<about, paidBy>>
       \/ /\ store[about[w]].status # "open" \/ who # Payer[about[w]]
          /\ Finish(w)
    /\ engineIdle /\ UNCHANGED <<store, r2pFile, payments, acked>>

\* GetAccount, which leaves an entry behind; the next nonce is used as it was read.
ApproveNonce(w, f) ==
    LET q == about[w]
        t == PaymentTx(q, f, db.acct[Payer[q]].nonce + 1)
    IN  /\ at[w] = "nonce"
        /\ t \in Transfer           \* bound: Transfer holds the nonces of a run
        /\ db' = Touch(db, {Payer[q]})
        /\ txOf' = [txOf EXCEPT ![w] = t]
        /\ pc' = [pc EXCEPT ![w] = "apply"]
        /\ at' = [at EXCEPT ![w] = "paying"]
        /\ UNCHANGED <<up, ledgerVars, commitVars, stateFile, ledgerFile, status, snap,
                       crashes, store, r2pFile, about, paidBy, payments, acked>>

\* Engine.ApplyTransfer.
ApproveApply(w) ==
    /\ at[w] = "paying"
    /\ Apply(w)
    /\ payments' = IF Verdict(db, txOf[w]) = "applied"
                   THEN [payments EXCEPT ![about[w]].made = @ + 1] ELSE payments
    /\ UNCHANGED <<store, r2pFile, at, about, paidBy, acked>>

ApproveSaveState(w) ==
    /\ at[w] = "paying"
    /\ TakeSnapshot(w) \/ OpenStateFile(w) \/ WriteStateFile(w) \/ SaveStateFails(w)
    /\ UNCHANGED r2pVars

DevPays(w) == DevFree /\ status[w] = "insufficient_funds"

\* Mutant: the request is marked paid whatever ApplyTransfer returned.
ApproveReceiptAlways(w) ==
    /\ at[w] = "paying"
    /\ ~DevPays(w)
    /\ StoreReceipt(w)
    /\ at' = [at EXCEPT ![w] = "mark"]
    /\ paidBy' = [paidBy EXCEPT ![w] = txOf[w]]
    /\ UNCHANGED <<store, r2pFile, about, payments, acked>>

\* Engine.StoreReceipt; after a rejection the request stays open.
ApproveReceipt(w) ==
    /\ at[w] = "paying"
    /\ ~DevPays(w)
    /\ StoreReceipt(w)
    /\ \/ /\ status[w] = "applied"
          /\ at' = [at EXCEPT ![w] = "mark"]
          /\ paidBy' = [paidBy EXCEPT ![w] = txOf[w]]
          /\ UNCHANGED about
       \/ status[w] # "applied" /\ Finish(w)
    /\ UNCHANGED <<store, r2pFile, payments, acked>>

\* DEV free R2P: without funds the request is paid all the same, with no receipt.
ApproveFree(w) ==
    /\ at[w] = "paying" /\ pc[w] = "store"
    /\ DevPays(w)
    /\ store' = [store EXCEPT ![about[w]] = [status |-> "paid", tx |-> DevHash[about[w]]]]
    /\ R2PSave(store')
    /\ acked' = acked \cup {<<about[w], "paid">>}
    /\ pc' = [pc EXCEPT ![w] = "idle"]
    /\ txOf' = [txOf EXCEPT ![w] = NoTx]
    /\ status' = [status EXCEPT ![w] = "none"]
    /\ Finish(w)
    /\ UNCHANGED <<up, db, ledgerVars, commitVars, stateFile, ledgerFile, snap, crashes,
                   payments>>

\* Mutant: the record is marked and not saved.
MarkPaidUnsaved(w) ==
    /\ at[w] = "mark"
    /\ store' = [store EXCEPT ![about[w]] = [status |-> "paid", tx |-> paidBy[w]]]
    /\ acked' = acked \cup {<<about[w], "paid">>}
    /\ Finish(w)
    /\ engineIdle /\ UNCHANGED <<r2pFile, payments>>

\* The record becomes paid, under r2pMu, whatever it has become meanwhile.
MarkPaid(w) ==
    /\ at[w] = "mark"
    /\ store' = [store EXCEPT ![about[w]] = [status |-> "paid", tx |-> paidBy[w]]]
    /\ R2PSave(store')
    /\ acked' = acked \cup {<<about[w], "paid">>}
    /\ Finish(w)
    /\ engineIdle /\ UNCHANGED payments

(***************************************************************************)
(* POST /r2p/decline and /r2p/cancel: the payer may decline, the payee may *)
(* cancel.  They save the store before they change it.                     *)
(***************************************************************************)
Closing == {"declined", "canceled"}

CloserOf(q, kind) == IF kind = "declined" THEN Payer[q] ELSE Payee[q]

CloseAt(kind) == IF kind = "declined" THEN "decline" ELSE "cancel"

CloseLookup(w, q, kind) ==
    /\ Start(w, q, kind)
    /\ R2PSave(store)
    /\ engineIdle /\ UNCHANGED <<store, paidBy, payments, acked>>

\* A call for a request that does not exist saves too.
CloseUnknown ==
    /\ up
    /\ R2PSave(store)
    /\ engineIdle /\ UNCHANGED <<store, at, about, paidBy, payments, acked>>

CloseCheck(w, who) ==
    /\ at[w] \in Closing
    /\ \/ /\ store[about[w]].status = "open" /\ who = CloserOf(about[w], at[w])
          /\ at' = [at EXCEPT ![w] = CloseAt(at[w])]
          /\ UNCHANGED <<about, paidBy>>
       \/ /\ store[about[w]].status # "open" \/ who # CloserOf(about[w], at[w])
          /\ Finish(w)
    /\ engineIdle /\ UNCHANGED <<store, r2pFile, payments, acked>>

\* The record is changed under r2pMu; saveR2P, called next, does nothing.
CloseMark(w, kind) ==
    /\ at[w] = CloseAt(kind)
    /\ store' = [store EXCEPT ![about[w]] = [status |-> kind, tx |-> NoHash]]
    /\ acked' = acked \cup {<<about[w], kind>>}
    /\ Finish(w)
    /\ engineIdle /\ UNCHANGED <<r2pFile, payments>>
-------------------------------------------------------------------------------
\* A worker of POST /tx beside the R2P handlers.
PlainTx(w) ==
    /\ at[w] = "idle"
    /\ Step(w) \/ \E t \in Transfer : Submit(w, t)
    /\ UNCHANGED r2pVars

R2PStep(w) ==
    \/ \E q \in Request : ApproveLookup(w, q)
    \/ \E who \in Addr : ApproveCheck(w, who) \/ CloseCheck(w, who)
    \/ \E f \in FeeMas : ApproveNonce(w, f)
    \/ ApproveApply(w) \/ ApproveSaveState(w)
    \/ ApproveReceipt(w) \/ ApproveFree(w) \/ MarkPaid(w)
    \/ \E q \in Request, kind \in Closing : CloseLookup(w, q, kind)
    \/ \E kind \in Closing : CloseMark(w, kind)

R2PNext ==
    \/ R2PBoot \/ R2PCrash \/ CrashInR2PSave \/ CloseUnknown
    \/ \E q \in Request : Create(q)
    \/ \E w \in Worker : R2PStep(w) \/ PlainTx(w)

R2PSpec == R2PInit /\ [][R2PNext]_allVars
===============================================================================
