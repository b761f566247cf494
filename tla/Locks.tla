-------------------------------- MODULE Locks --------------------------------
(***************************************************************************)
(* Who waits for whom in thomasd.  Each request runs on a goroutine of its *)
(* own, and the handlers meet at three mutexes, which block and which the  *)
(* holder cannot take twice: Engine.mu ("mu"), DB.mu ("db") and r2pMu      *)
(* ("r2p").  CommitRound, SupplyAt and ListValidatorScores take DB.mu      *)
(* while they hold Engine.mu; StoreReceipt and CommitRound start, while    *)
(* they hold Engine.mu, a broadcast that takes it itself.                  *)
(*                                                                         *)
(* A handler is the sequence of its lock operations, in the order of the   *)
(* code; what it does between them is in the modules Engine, Probes, R2P   *)
(* and R2PReads.  /events/stream never subscribes (jsonizeSigErrors gives  *)
(* it a writer that cannot flush), so that a broadcast copies an empty map *)
(* of channels under mu and sends nothing.                                 *)
(***************************************************************************)
EXTENDS Sequences

CONSTANTS Requests,     \* the requests that arrive, each of them once
          Free          \* the holder of a mutex nobody holds

Mutex == {"mu", "db", "r2p"}

\* A request r is handled by <<r, "handler">>, which may start <<r, "broadcast">>.
Goroutine == Requests \X {"handler", "broadcast"}

VARIABLES
    todo,       \* what each goroutine still has to do
    holder,     \* who holds each mutex
    arrived     \* the requests that have arrived

lockVars == <<todo, holder, arrived>>
-------------------------------------------------------------------------------
(***************************************************************************)
(* The handlers.                                                           *)
(***************************************************************************)
Do(what, on) == <<[do |-> what, on |-> on]>>

\* body between m.Lock() and m.Unlock()
Locked(m, body) == Do("lock", m) \o body \o Do("unlock", m)

\* a method of Engine, of DB, or a block of the router that calls nothing under its lock
EngineCall == Locked("mu", <<>>)
DBCall == Locked("db", <<>>)
R2PCall == Locked("r2p", <<>>)

\* Mutant: the caller, which holds mu, broadcasts itself.
BroadcastInline == EngineCall

\* broadcastAsync, and the goroutine it starts
BroadcastAsync == Do("go", "broadcast")
Broadcast == EngineCall

\* DB.ApplyTransfer, and the snapshot for the state file if it was applied
ApplyLocks(applied) == DBCall \o (IF applied THEN DBCall ELSE <<>>)

StoreLocks == Locked("mu", BroadcastAsync)

\* CommitRound: the two records of the supply, the broadcast, then the state root and the
\* validator scores of the header; without a receipt to commit it returns at once.
CommitLocks(pending) ==
    Locked("mu", IF pending THEN DBCall \o DBCall \o BroadcastAsync \o DBCall \o DBCall
                 ELSE <<>>)

\* SupplyAt of an older height, ListValidatorScores
UnderBothLocks == Locked("mu", DBCall)

\* POST /tx: the height for the expiry, then the transfer and its receipt
PostTx(applied) == EngineCall \o ApplyLocks(applied) \o StoreLocks

\* GET /health/chain: four calls, and the scores if there is a header
HealthChain == EngineCall \o EngineCall \o EngineCall \o EngineCall \o UnderBothLocks

\* POST /r2p/approve: the record, the nonce, the transfer and its receipt, the mark;
\* a payment that was refused is not marked, unless the development setting pays it.
R2PApprove(end) ==
    R2PCall \o DBCall \o
    CASE end = "paid" -> ApplyLocks(TRUE) \o StoreLocks \o R2PCall
      [] end = "refused" -> ApplyLocks(FALSE) \o StoreLocks
      [] end = "dev" -> ApplyLocks(FALSE) \o R2PCall

\* POST /r2p/decline and /r2p/cancel
R2PClose == R2PCall \o R2PCall

\* GET /tx/get: the receipt, else the requests
TxGet == EngineCall \o R2PCall

\* ... and GET /account and /nonce, the reads of Probes, /r2p/create, get and list.
Handlers ==
    {PostTx(applied) : applied \in BOOLEAN} \cup {CommitLocks(pending) : pending \in BOOLEAN}
    \cup {R2PApprove(end) : end \in {"paid", "refused", "dev"}}
    \cup {UnderBothLocks, HealthChain, R2PClose, TxGet, DBCall, R2PCall}
-------------------------------------------------------------------------------
LockInit ==
    /\ todo = [g \in Goroutine |-> <<>>]
    /\ holder = [m \in Mutex |-> Free]
    /\ arrived = {}

Arrive(r, p) ==
    /\ r \notin arrived
    /\ arrived' = arrived \cup {r}
    /\ todo' = [todo EXCEPT ![<<r, "handler">>] = p]
    /\ UNCHANGED holder

\* g stands before this operation.
Before(g, what) == todo[g] # <<>> /\ Head(todo[g]).do = what

Done(g) == [todo EXCEPT ![g] = Tail(@)]

\* sync.Mutex.Lock waits until nobody holds the mutex, g itself included.
Lock(g) ==
    /\ Before(g, "lock")
    /\ holder[Head(todo[g]).on] = Free
    /\ holder' = [holder EXCEPT ![Head(todo[g]).on] = g]
    /\ todo' = Done(g)
    /\ UNCHANGED arrived

Unlock(g) ==
    /\ Before(g, "unlock")
    /\ holder' = [holder EXCEPT ![Head(todo[g]).on] = Free]
    /\ todo' = Done(g)
    /\ UNCHANGED arrived

Go(g) ==
    /\ Before(g, "go")
    /\ todo' = [Done(g) EXCEPT ![<<g[1], "broadcast">>] = Broadcast]
    /\ UNCHANGED <<holder, arrived>>

\* what the scheduler runs g for
Run(g) == Lock(g) \/ Unlock(g) \/ Go(g)

LockNext ==
    \/ \E r \in Requests, p \in Handlers : Arrive(r, p)
    \/ \E g \in Goroutine : Run(g)

\* A goroutine that can run is run, as Go's preemptive scheduler sees to.  Requests come
\* to an end here, so that nothing is asked of the order in which a mutex is handed over.
LockFairness == \A g \in Goroutine : WF_lockVars(Run(g))

LockSpec == LockInit /\ [][LockNext]_lockVars /\ LockFairness
-------------------------------------------------------------------------------
\* Every request that arrived is answered and every broadcast ends, whatever the other
\* handlers do with the three mutexes: no two of them wait for one another, none waits
\* for itself or for the goroutine it started.
EveryHandlerFinishes == \A g \in Goroutine : todo[g] # <<>> ~> todo[g] = <<>>
===============================================================================
