--------------------------------- MODULE Fees ---------------------------------
(***************************************************************************)
(* The fee a transfer must offer (minFeeMas in internal/rpc/router.go),    *)
(* used by the precheck of POST /tx and by POST /r2p/approve.              *)
(***************************************************************************)
EXTENDS Naturals

\* Mutant: the division rounds down.
MinFeeMasFloor(amount, bps, word) ==
    LET m == ((amount * bps) % word) \div 10000 IN IF m < 1 THEN 1 ELSE m

\* amount * bps / 10000, rounded up, at least 1, in uint64 arithmetic modulo `word`.
MinFeeMas(amount, bps, word) ==
    LET m == ((amount * bps + 9999) % word) \div 10000 IN IF m < 1 THEN 1 ELSE m
===============================================================================
