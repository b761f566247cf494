-------------------------------- MODULE R2PInv --------------------------------
(***************************************************************************)
(* What the requests to pay guarantee (module R2P).                        *)
(***************************************************************************)
EXTENDS R2P

\* A request that reads as paid was paid: the ledger of this process holds an
\* applied receipt of exactly the transfer its tx_hash names, between its payer and
\* its payee and over its amount; in memory as in the file a restart would load.
PaidIsBacked ==
    LET Backed(st) ==
          \A q \in Request :
            (st[q].status = "paid" /\ st[q].tx # DevHash[q]) =>
              /\ \E i \in 1 .. Len(leaves) :
                   leaves[i].tx = st[q].tx /\ leaves[i].status = "applied"
              /\ st[q].tx = PaymentTx(q, st[q].tx.fee, st[q].tx.nonce)
    IN  up => Backed(store) /\ (r2pFile # NoFile => Backed(r2pFile))

\* Whatever fails and however the calls for a request overlap, a request reads as
\* paid, in memory or in the file, only if a transfer was applied for it.
PaidOnlyByTransfer ==
    \A st \in {store, r2pFile} \ {NoFile} : \A q \in Request :
        (st[q].status = "paid" /\ st[q].tx # DevHash[q]) => payments[q].made > 0

\* What the store is, or will be once the process has started again.
Standing == IF up THEN store ELSE LoadedStore

\* The handlers of a request, one at a time, take it through its lifecycle: paid at
\* most once, never paid after it was closed, never changed after that.  A crash
\* between any two steps takes back no more than module R2PLifecycle says.
Lifecycle ==
    INSTANCE R2PLifecycle WITH
        Free  <- DevFree,
        state <- [q \in Request |-> Standing[q].status],
        paid  <- [q \in Request |-> payments[q].made],
        before <- [q \in Request |-> payments[q].before]

ImplementsLifecycle == Lifecycle!Spec

\* A payment that was answered with success reads as paid for ever, through
\* crashes between any two steps of any handlers.
AckedPaymentsSurvive ==
    up => \A q \in Request : <<q, "paid">> \in acked => store[q].status = "paid"

\* r2pRecord.Status is one of "open|paid|declined|canceled": a request that reads as
\* declined or canceled is one for which no money moved.
ClosedIsNotPaid ==
    up => \A q \in Request : store[q].status \in Closing => payments[q].made = 0
===============================================================================
