----------------------------- MODULE MCStateProof -----------------------------
\* Five accounts for module StateProof; the name of the second is that of the first,
\* a NUL and another byte.
EXTENDS StateProof

MCNameOf == <<<<1>>, <<1, 0, 2>>, <<1, 2>>, <<2>>, <<2, 2>>>>
MCContent == {<<1>>, <<2>>}
===============================================================================
