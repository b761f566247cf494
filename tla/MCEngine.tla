------------------------------- MODULE MCEngine -------------------------------
\* Values for the constants of module Engine: two payers with money, a fee
\* receiver, and transfers that race for a nonce, depend on one another's funds,
\* pay the fee receiver and expire.
EXTENDS EngineInv

MCAddr == {"alice", "bob", "foundation"}
MCGenesis == [a \in MCAddr |-> IF a = "alice" THEN 5 ELSE 0]
MCGenesisAddr == {"alice", "foundation"}

Pay(f, t, amt, n, exp) ==
    [from |-> f, to |-> t, amount |-> amt, fee |-> 1, nonce |-> n, expiry |-> exp]

\* a chain of four payments that can all apply
Chained == {Pay("bob", "alice", 1, 2, 0),
            Pay("alice", "bob", 2, 1, 0),
            Pay("alice", "bob", 1, 2, 0),
            Pay("bob", "alice", 1, 1, 0)}

\* bob is paid and pays on
Pair == {Pay("alice", "bob", 2, 1, 0), Pay("bob", "foundation", 1, 1, 2)}

\* two payments of alice for the same nonce; the fee receiver can pay itself once it
\* has been paid, and until its payment expires
Rivals == {Pay("alice", "bob", 1, 1, 0),
           Pay("alice", "foundation", 2, 1, 0),
           Pay("foundation", "foundation", 1, 1, 2)}

\* the emission of two intervals, neither of which splits evenly
MCEpochMint == <<17, 9>>

\* the workers are interchangeable
WorkerSym == Permutations(Worker)

\* a v1 state file, in micro-THO: ten times less in mas
MCV1 == [known |-> {"alice"},
         acct |-> [a \in MCAddr |-> [bal |-> IF a = "alice" THEN 1 ELSE 0, nonce |-> 0]]]
===============================================================================
