------------------------------- MODULE MCValSet -------------------------------
\* Operations for module ValSet: an addition that sets a stake and one that sets
\* nothing, updates that set a node type and a score beyond the highest, one of them
\* a stake too, and removals.
EXTENDS ValSet

OpOf(t, k, st, nt, q, j) ==
    [type |-> t, key |-> k, stake |-> st, ntype |-> nt, score |-> q, jailed |-> j]

MCOp == {OpOf("add", 1, 7, Nil, Nil, TRUE), OpOf("add", 2, Nil, Nil, Nil, Nil),
         OpOf("update", 1, Nil, 1, 70000, Nil), OpOf("update", 2, 7, 1, 70000, FALSE)}
        \cup {OpOf("remove", k, Nil, Nil, Nil, Nil) : k \in Key}
===============================================================================
