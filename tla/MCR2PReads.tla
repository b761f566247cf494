----------------------------- MODULE MCR2PReads -----------------------------
\* Queries for module R2PReads: each status, by each way to ask for it, the
\* default, everything, one that is refused, and filters that exclude all.
EXTENDS MCR2P, R2PReads

Ask(owner, role, st, stat, from, to) ==
    [owner |-> owner, role |-> role, state |-> st, status |-> stat,
     from |-> from, to |-> to]

MCQuery ==
    {Ask("bob", "", "", "", "", ""),
     Ask("bob", "outbox", "", "approved", "bob", ""),
     Ask("alice", "inbox", "declined", "", "", "alice"),
     Ask("alice", "all", "", "canceled", "", ""),
     Ask("bob", "all", "all", "", "", ""),
     Ask("bob", "inbox", "all", "", "", ""),
     Ask("alice", "inbox", "paid", "", "alice", ""),
     Ask("bob", "outbox", "open", "paid", "", "")}
===============================================================================
