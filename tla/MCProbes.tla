------------------------------- MODULE MCProbes -------------------------------
\* Module Probes over the transfers of MCEngine; alice can just pay the dearest.
EXTENDS MCEngine, Probes

MCPAddr == MCAddr \cup {"exchange"}
MCPGenesis == [a \in MCPAddr |-> IF a = "alice" THEN 3 ELSE 0]

MCPGenesisAddr == MCPAddr

MCMintAccounts == <<"foundation", "exchange", "alice", "bob">>
===============================================================================
