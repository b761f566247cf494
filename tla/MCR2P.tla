-------------------------------- MODULE MCR2P --------------------------------
\* Values for the constants of module R2P: bob asks alice twice, who can
\* pay both requests of `Affordable` and only one of `Costly`.
EXTENDS R2PInv, TLC

CONSTANTS Dev1, Dev2   \* the hashes "dev-" + id

MCAddr == {"alice", "bob"}
MCGenesis == [a \in MCAddr |-> IF a = "alice" THEN 5 ELSE 0]
MCGenesisAddr == {"alice"}

MCPayee == [q \in Request |-> "bob"]
MCPayer == [q \in Request |-> "alice"]
Affordable == [q \in Request |-> IF q = "r1" THEN 2 ELSE 1]
Costly == [q \in Request |-> IF q = "r1" THEN 2 ELSE 3]
\* r1 can be paid twice, but not both
Tight == [q \in Request |-> IF q = "r1" THEN 1 ELSE 3]

MCDevHash == [q \in Request |-> IF q = "r1" THEN Dev1 ELSE Dev2]

MCEpochMint == <<17, 9>>

\* the workers are interchangeable
WorkerSym == Permutations(Worker)

\* the payments the requests can lead to, on the first two nonces
Payments == {[from |-> "alice", to |-> "bob", amount |-> Amount[q], fee |-> f,
              nonce |-> n, expiry |-> 0] :
                 q \in Request, n \in 1 .. 2, f \in (FeeMas \ {0}) \cup {1}}
===============================================================================
