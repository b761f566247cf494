------------------------------ MODULE LightRouter ------------------------------
(***************************************************************************)
(* The light router (internal/rpc/router_lightclient.go, build tag         *)
(* light_client, served by cmd/lightrouter): an in-memory stand-in for the *)
(* node.  Every handler takes lcMu, but POST /tx reads lcReceipts once     *)
(* more for its answer after it has released it.  The Go runtime may       *)
(* notice that read while another handler writes the map, and then it ends *)
(* the process; nothing is on disk, so the next one starts from nothing.   *)
(* A transaction stands for its JSON, and its hash is the transaction.     *)
(***************************************************************************)
EXTENDS Naturals, FiniteSets

CONSTANTS
    LcTx,        \* transactions: [from, nonce, chain]
    LcChainID,   \* lcChainID (777)
    LcCall,      \* goroutines of the HTTP server
    Nobody,      \* lcMu is free
    LcMaxHeight, \* bound on the commits of a process
    LcMaxDeaths  \* bound on the deaths of the process

ASSUME LightRouterAssumption ==
    /\ \A t \in LcTx : t.nonce \in Nat
    /\ Nobody \notin LcCall
    /\ LcMaxHeight \in Nat /\ LcMaxDeaths \in Nat

VARIABLES
    lcMu,         \* who holds the mutex
    lcNonces,     \* the nonce each sender must use next
    lcReceipts,   \* the transactions that have a receipt
    lcHeight,     \* commits
    lcHeaders,    \* height -> root of the header
    lcBundles,    \* height -> commit root of the bundle
    lcCalls,      \* each goroutine of POST /tx: its transaction, where it is, its answer
    deaths        \* deaths of the process

lcState == <<lcMu, lcNonces, lcReceipts, lcHeight, lcHeaders, lcBundles>>
lcVars == <<lcState, lcCalls, deaths>>

Sender == {t.from : t \in LcTx}
Waiting == [at |-> "idle", tx |-> [from |-> "nobody"], reply |-> "none"]
NoHeights == [h \in {} |-> 0]

\* The package's variables as the process starts.
LcInit ==
    /\ lcMu = Nobody
    /\ lcNonces = [s \in Sender |-> 0]
    /\ lcReceipts = {}
    /\ lcHeight = 0 /\ lcHeaders = NoHeights /\ lcBundles = NoHeights
    /\ lcCalls = [k \in LcCall |-> Waiting]
    /\ deaths = 0

Move(k, place) == lcCalls' = [lcCalls EXCEPT ![k].at = place]
LcAnswer(k, why) == lcCalls' = [lcCalls EXCEPT ![k].at = "idle", ![k].reply = why]
-------------------------------------------------------------------------------
\* POST /tx up to the lock.  A wrong chain (as a wrong method, or a body that is not
\* JSON) is answered before any state is read.
TxDecode(k, t) ==
    /\ lcCalls[k].at = "idle"
    /\ lcCalls' = [lcCalls EXCEPT ![k] =
         IF t.chain = LcChainID THEN [at |-> "lock", tx |-> t, reply |-> "none"]
         ELSE [at |-> "idle", tx |-> t, reply |-> "bad_chain_id"]]
    /\ UNCHANGED <<lcState, deaths>>

\* Mutant: any nonce not yet used is taken.
NonceFitsLoosely(t) == t.nonce >= lcNonces[t.from]

NonceFits(t) == t.nonce = lcNonces[t.from]

\* The locked section: the nonce, and the write of the receipt begins.
TxLock(k) ==
    /\ lcCalls[k].at = "lock" /\ lcMu = Nobody
    /\ LET t == lcCalls[k].tx
       IN  \/ /\ ~NonceFits(t) /\ LcAnswer(k, "bad_nonce")
              /\ UNCHANGED <<lcMu, lcNonces>>
           \/ /\ NonceFits(t) /\ Move(k, "writing")
              /\ lcMu' = k
              /\ lcNonces' = [lcNonces EXCEPT ![t.from] = @ + 1]
    /\ UNCHANGED <<lcReceipts, lcHeight, lcHeaders, lcBundles, deaths>>

\* The write ends and the lock is released.
TxStore(k) ==
    /\ lcCalls[k].at = "writing"
    /\ lcReceipts' = lcReceipts \cup {lcCalls[k].tx}
    /\ lcMu' = Nobody
    /\ Move(k, "reading")
    /\ UNCHANGED <<lcNonces, lcHeight, lcHeaders, lcBundles, deaths>>

\* The answer, with the receipt that is read without the lock.
TxReply(k) ==
    /\ lcCalls[k].at = "reading"
    /\ LcAnswer(k, IF lcCalls[k].tx \in lcReceipts THEN "receipt" ELSE "empty_receipt")
    /\ UNCHANGED <<lcState, deaths>>

\* fatal error: concurrent map read and map write.  Started again, the process knows
\* nothing; the answers it gave are all that is left.
Die(k) ==
    /\ lcCalls[k].at = "reading"
    /\ \E j \in LcCall : lcCalls[j].at = "writing"
    /\ deaths < LcMaxDeaths
    /\ deaths' = deaths + 1
    /\ lcMu' = Nobody
    /\ lcNonces' = [s \in Sender |-> 0]
    /\ lcReceipts' = {}
    /\ lcHeight' = 0 /\ lcHeaders' = NoHeights /\ lcBundles' = NoHeights
    /\ lcCalls' = [j \in LcCall |-> Waiting]

\* POST /round/commit: one locked section; the root is a hash of the height.
Commit ==
    /\ lcMu = Nobody
    /\ lcHeight < LcMaxHeight
    /\ lcHeight' = lcHeight + 1
    /\ lcHeaders' = [h \in 1 .. lcHeight' |-> IF h = lcHeight' THEN h ELSE lcHeaders[h]]
    /\ lcBundles' = [h \in 1 .. lcHeight' |-> IF h = lcHeight' THEN h ELSE lcBundles[h]]
    /\ UNCHANGED <<lcMu, lcNonces, lcReceipts, lcCalls, deaths>>

LcNext ==
    \/ \E k \in LcCall : TxLock(k) \/ TxStore(k) \/ TxReply(k) \/ Die(k)
    \/ \E k \in LcCall, t \in LcTx : TxDecode(k, t)
    \/ Commit

LcSpec == LcInit /\ [][LcNext]_lcVars
-------------------------------------------------------------------------------
\* What the reading handlers answer, each in one locked section.
NonceOf(s) == lcNonces[s]
ReceiptGet(t) == IF t \in lcReceipts THEN "receipt" ELSE "not_found"
LightProof(h) ==
    CASE h \notin DOMAIN lcHeaders -> "header_not_found"
      [] h \in DOMAIN lcHeaders /\ h \notin DOMAIN lcBundles -> "bundle_not_found"
      [] h \in DOMAIN lcHeaders \cap DOMAIN lcBundles ->
           IF lcHeaders[h] = lcBundles[h] THEN "ok" ELSE "conflict"

\* The transactions taken so far: with a receipt, or with the write of it under way.
Taken == lcReceipts \cup {lcCalls[k].tx : k \in {j \in LcCall : lcCalls[j].at = "writing"}}

\* Each sender's nonces are used once and in order, across the locks, the unlocked
\* read and the deaths of the process: GET /nonce is the number of its transactions.
LightNonces ==
    \A s \in Sender :
        LET mine == {t \in Taken : t.from = s}
        IN  /\ {t.nonce : t \in mine} = 0 .. NonceOf(s) - 1
            /\ Cardinality(mine) = NonceOf(s)

\* POST /tx never answers with an empty receipt, and while the process lives the hash
\* it is about to hand out is found by GET /receipt/get.
LightReceipts ==
    \A k \in LcCall :
        /\ lcCalls[k].reply # "empty_receipt"
        /\ lcCalls[k].at = "reading" => ReceiptGet(lcCalls[k].tx) = "receipt"

\* Every height a commit has answered has a light proof that checks.
LightProofsCheck == \A h \in 1 .. lcHeight : LightProof(h) = "ok"

\* The light router's answers agree with one another: nonces with receipts, receipts
\* with the hashes handed out, headers with bundles.
LightAnswersAgree == LightNonces /\ LightReceipts /\ LightProofsCheck
===============================================================================
