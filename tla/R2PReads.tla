------------------------------- MODULE R2PReads -------------------------------
(***************************************************************************)
(* Reading requests and payments while they are handled: GET /r2p/list,    *)
(* GET /r2p/get and GET /tx/get (internal/rpc/router.go), one reader       *)
(* beside the handlers of module R2P.                                      *)
(*                                                                         *)
(* The list selects records under r2pMu and encodes them after it released *)
(* it.  It collects pointers, so what a client is shown is what the record *)
(* has become, or is becoming: the encoder races with the handler that     *)
(* writes the fields one by one.  The order of a list (by creation time)   *)
(* is left out.                                                            *)
(***************************************************************************)
EXTENDS R2PInv

CONSTANTS
    Query,      \* the queries of GET /r2p/list: owner, role, state, status, from, to
    NoRead      \* the reader is idle

VARIABLE reader     \* the handler of a read, between its lock sections

readVars == <<allVars, reader>>

-------------------------------------------------------------------------------
Statuses == {"open", "paid", "declined", "canceled"}

\* The status a query asks for: "any", one of Statuses, or "bad" where the handler
\* answers 400.
WantStatus(c) ==
    LET normal(s) == IF s = "approved" THEN "paid" ELSE IF s \in Statuses THEN s ELSE "bad"
    IN  CASE c.state # "" /\ c.status # "" -> "bad"
          [] c.status # "" /\ c.state = "" -> normal(c.status)
          [] c.state = "all" /\ c.status = "" -> "any"
          [] c.state \notin {"", "all"} /\ c.status = "" -> normal(c.state)
          [] OTHER -> "open"

\* Is the owner who asks (From) or who is asked (To), as the role says?
Concerns(q, owner, role) ==
    \/ role \in {"", "outbox", "all"} /\ Payee[q] = owner
    \/ role \in {"inbox", "all"} /\ Payer[q] = owner

\* Mutant: the status is not compared.
ListedAnyStatus(c) ==
    {q \in Request : store[q] # NoRecord /\ Concerns(q, c.owner, c.role)}

\* The records a query selects, under r2pMu.
Listed(c) ==
    {q \in Request :
        /\ store[q] # NoRecord
        /\ Concerns(q, c.owner, c.role)
        /\ WantStatus(c) \in {"any", store[q].status}
        /\ c.from \in {"", Payee[q]}
        /\ c.to \in {"", Payer[q]}}

\* The records a handler is about to write over that of q.
Becoming(q) ==
    {[status |-> "paid", tx |-> paidBy[w]] : w \in {v \in Worker : at[v] = "mark" /\ about[v] = q}}
      \cup {[status |-> "paid", tx |-> DevHash[q]] :
               w \in {v \in Worker : about[v] = q /\ at[v] = "paying"
                                      /\ pc[v] = "store" /\ DevPays(v)}}
      \cup {[status |-> kind, tx |-> NoHash] :
               kind \in {k \in Closing : \E v \in Worker : about[v] = q /\ at[v] = CloseAt(k)}}

\* What the encoder may find in the record of q while handlers write it: each field
\* old or new, or the pointer of one string with the length of the other.
Shown(q) ==
    {store[q]} \cup
      UNION {[status : {store[q].status, b.status, "torn"}, tx : {store[q].tx, b.tx}] :
                b \in Becoming(q)}

\* GET /r2p/list and /r2p/get, up to the end of the lock section.
ListLock(c) ==
    /\ up /\ reader = NoRead
    /\ WantStatus(c) # "bad"
    /\ reader' = [step |-> "encode", want |-> WantStatus(c), found |-> Listed(c)]
    /\ UNCHANGED allVars

GetLock(q) ==
    /\ up /\ reader = NoRead
    /\ store[q] # NoRecord
    /\ reader' = [step |-> "encode", want |-> "any", found |-> {q}]
    /\ UNCHANGED allVars

\* The records are encoded and sent.
Encode ==
    /\ reader # NoRead /\ reader.step = "encode"
    /\ reader' = NoRead
    /\ UNCHANGED allVars

GetReceipt(h) == IF h \in Transfer THEN receipts[h] ELSE NoReceipt

\* GET /tx/get: Engine.GetReceipt, under mu; a hash without a receipt is searched
\* in the store.  `due` is a ghost: some client has been given this hash.
TxGetEngine(h) ==
    /\ up /\ reader = NoRead
    /\ GetReceipt(h) = NoReceipt
    /\ reader' = [step |-> "store", hash |-> h,
                  due |-> \E q \in Request : <<q, "paid">> \in acked /\ store[q].tx = h]
    /\ UNCHANGED allVars

TxGetFinds(h) == {q \in Request : store[q].tx = h}

TxGetStore ==
    /\ reader # NoRead /\ reader.step = "store"
    /\ reader' = NoRead
    /\ UNCHANGED allVars

ReadStep == Encode \/ TxGetStore

\* A reader does not outlive its process.
Handle ==
    /\ R2PNext
    /\ reader' = IF up' THEN reader ELSE NoRead

ReadNext ==
    \/ \E c \in Query : ListLock(c)
    \/ \E q \in Request : GetLock(q)
    \/ \E h \in Transfer \cup DevHashes : TxGetEngine(h)
    \/ ReadStep
    \/ Handle

ReadSpec == R2PInit /\ reader = NoRead /\ [][ReadNext]_readVars
-------------------------------------------------------------------------------
\* A list of the paid, the declined or the canceled requests shows records of that
\* status alone, although it is encoded after the lock was released: only a record
\* listed as open can show what it has become meanwhile.
ListKeepsItsFilter ==
    reader # NoRead /\ reader.step = "encode" /\ reader.want \notin {"any", "open"} =>
        \A q \in reader.found : \A rec \in Shown(q) : rec.status = reader.want

\* A tx_hash that a client was given by an approval can be looked up, now and after
\* a restart: GET /tx/get finds a receipt that says "applied", or, for a payment of
\* the dev mode, its request.
PaymentsCanBeLookedUp ==
    /\ up => \A q \in Request :
               <<q, "paid">> \in acked /\ store[q].tx \in Transfer =>
                 GetReceipt(store[q].tx).status = "applied"
    /\ reader # NoRead /\ reader.step = "store" /\ reader.due => TxGetFinds(reader.hash) # {}
===============================================================================
