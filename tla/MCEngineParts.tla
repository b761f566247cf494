---------------------------- MODULE MCEngineParts ----------------------------
(***************************************************************************)
(* The engine through crashes and restarts (Engine, with the values of     *)
(* MCEngine), the mutexes its handlers wait for (Locks), and the validator *)
(* set a header commits to (ValSet, with the values of MCValSet).  They    *)
(* share no state: a behaviour exercises one of them.                      *)
(***************************************************************************)
EXTENDS MCEngine, Locks, MCValSet

VARIABLE running    \* the part this behaviour exercises

MCInit ==
    running \in {"engine", "locks", "validators"} /\ Init /\ LockInit /\ ValInit

MCNext ==
    \/ running = "engine" /\ Next /\ UNCHANGED <<running, lockVars, valVars>>
    \/ running = "locks" /\ LockNext /\ UNCHANGED <<running, vars, valVars>>
    \/ running = "validators" /\ ValNext /\ UNCHANGED <<running, vars, lockVars>>

MCSpec == MCInit /\ [][MCNext]_<<running, vars, lockVars, valVars>> /\ LockFairness
===============================================================================
