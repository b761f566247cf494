----------------------------- MODULE R2PLifecycle -----------------------------
(***************************************************************************)
(* What a request to pay promises: it is asked once, then either paid by   *)
(* one transfer or closed with no transfer, and never changes again.  What *)
(* a restart may take back of this: it reopens requests that were closed,  *)
(* and a request whose payment was cut short before it was marked can be   *)
(* paid, or closed, once more.  It never takes back a paid request.        *)
(***************************************************************************)
EXTENDS Naturals

CONSTANTS Request,   \* the requests
          Free       \* may a request be settled without a transfer (dev mode)

VARIABLES state,     \* the status of each request
          paid,      \* the transfers made for it
          before     \* those made by processes that have died

vars == <<state, paid, before>>

Init ==
    /\ state = [q \in Request |-> "none"]
    /\ paid = [q \in Request |-> 0]
    /\ before = [q \in Request |-> 0]

Ask(q) ==
    /\ state[q] = "none"
    /\ state' = [state EXCEPT ![q] = "open"]
    /\ UNCHANGED <<paid, before>>

Pay(q) ==
    /\ state[q] = "open" /\ paid[q] = before[q]
    /\ paid' = [paid EXCEPT ![q] = @ + 1]
    /\ UNCHANGED <<state, before>>

Settle(q) ==
    /\ state[q] = "open" /\ (paid[q] = before[q] + 1 \/ Free)
    /\ state' = [state EXCEPT ![q] = "paid"]
    /\ UNCHANGED <<paid, before>>

Closed == {"declined", "canceled"}

Close(q) ==
    /\ state[q] = "open" /\ paid[q] = before[q]
    /\ \E s \in Closed : state' = [state EXCEPT ![q] = s]
    /\ UNCHANGED <<paid, before>>

Restart ==
    /\ before' = paid
    /\ \E Q \in SUBSET {q \in Request : state[q] \in Closed} :
         state' = [q \in Request |-> IF q \in Q THEN "open" ELSE state[q]]
    /\ UNCHANGED paid

Next == Restart \/ \E q \in Request : Ask(q) \/ Pay(q) \/ Settle(q) \/ Close(q)

Spec == Init /\ [][Next]_vars
===============================================================================
