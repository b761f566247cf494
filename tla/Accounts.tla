------------------------------- MODULE Accounts -------------------------------
(***************************************************************************)
(* The account database of a node (internal/state/state.go).               *)
(*                                                                         *)
(* A database value is the content of DB.accts: which addresses have an    *)
(* entry, and the balance and nonce of each one.  An address without an    *)
(* entry reads as the zero account, and reading it creates the entry       *)
(* (DB.get), which StateRoot and Snapshot then include.                    *)
(*                                                                         *)
(* A transfer stands for its own hash: Transfer.Hash covers every field    *)
(* (internal/tx/tx.go), and SHA-256 is taken to be free of collisions.     *)
(***************************************************************************)
EXTENDS Naturals, FiniteSets, FiniteSetsExt

CONSTANTS
    Addr,         \* account addresses
    FeeReceiver,  \* the address every fee is credited to ("tho1foundation")
    Genesis,      \* genesis balances: a function on Addr
    GenesisAddr,  \* the addresses genesis gives an entry to
    Transfer,     \* the transfers clients may submit
    Word          \* 2^64: balances and sums of amounts wrap at it

ASSUME AccountsAssumption ==
    /\ IsFiniteSet(Addr)
    /\ FeeReceiver \in Addr
    /\ GenesisAddr \subseteq Addr
    /\ Word \in Nat \ {0}
    /\ Genesis \in [Addr -> 0 .. Word - 1]
    /\ IsFiniteSet(Transfer)
    /\ Transfer \subseteq
         [from : Addr, to : Addr, amount : Nat, fee : Nat, nonce : Nat, expiry : Nat]

Account == [bal : 0 .. Word - 1, nonce : Nat]

DB == [known : SUBSET Addr, acct : [Addr -> Account]]

GenesisDB ==
    [known |-> GenesisAddr,
     acct  |-> [a \in Addr |-> [bal |-> Genesis[a], nonce |-> 0]]]

\* DB.get: a lookup leaves an entry behind.
Touch(db, S) == [db EXCEPT !.known = @ \cup S]

(***************************************************************************)
(* DB.ApplyTransfer: the verdict, in the order the code tests it.  `need`  *)
(* is a uint64 sum and wraps.                                              *)
(***************************************************************************)
\* Mutant: the fee is not charged.
NeedWithoutFee(t) == t.amount

Need(t) == (t.amount + t.fee) % Word

\* Mutant: only a nonce ahead of the account's is refused.
VerdictWithReplay(db, t) ==
    IF db.acct[t.from].nonce + 1 < t.nonce THEN "bad_nonce"
    ELSE IF db.acct[t.from].bal < Need(t) THEN "insufficient_funds"
    ELSE "applied"

Verdict(db, t) ==
    IF db.acct[t.from].nonce + 1 # t.nonce THEN "bad_nonce"
    ELSE IF db.acct[t.from].bal < Need(t) THEN "insufficient_funds"
    ELSE "applied"

\* Mutant: the fee, which is part of the need, is taken once more.
DebitFeeTwice(acct, t) ==
    [acct EXCEPT ![t.from] = [bal |-> @.bal - Need(t) - t.fee, nonce |-> @.nonce + 1]]

Debit(acct, t) ==
    [acct EXCEPT ![t.from] = [bal |-> @.bal - Need(t), nonce |-> @.nonce + 1]]

Credit(acct, a, n) == [acct EXCEPT ![a].bal = (@ + n) % Word]

\* Mutant: the receiver is credited on the balance read before the debit.
ApplyTransferStale(db, t) ==
    IF Verdict(db, t) = "applied"
    THEN [known |-> db.known \cup {t.from, t.to, FeeReceiver},
          acct  |-> Credit([Debit(db.acct, t) EXCEPT
                              ![t.to].bal = (db.acct[t.to].bal + t.amount) % Word],
                           FeeReceiver, t.fee)]
    ELSE Touch(db, {t.from})

\* The debit is written before the credits, so that a sender who is also the
\* receiver or the fee receiver ends with both (the entries are pointers).
ApplyTransfer(db, t) ==
    IF Verdict(db, t) = "applied"
    THEN [known |-> db.known \cup {t.from, t.to, FeeReceiver},
          acct  |-> Credit(Credit(Debit(db.acct, t), t.to, t.amount),
                           FeeReceiver, t.fee)]
    ELSE Touch(db, {t.from})

\* DB.StateRoot commits to the entries that exist, in address order: whether an
\* address has an entry shows in the root.
Absent == [absent |-> TRUE]

Root == [Addr -> Account \cup {Absent}]

\* Mutant: the leaves of the state tree leave the nonce out.
StateRootWithoutNonce(db) ==
    [a \in Addr |-> IF a \in db.known THEN [db.acct[a] EXCEPT !.nonce = 0] ELSE Absent]

StateRoot(db) == [a \in Addr |-> IF a \in db.known THEN db.acct[a] ELSE Absent]

Total(db) == MapThenSumSet(LAMBDA a : db.acct[a].bal, Addr)
===============================================================================
