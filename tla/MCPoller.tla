------------------------------ MODULE MCPoller ------------------------------
(* Instances of Poller for TLC: fault budgets, and the symmetry of the      *)
(* message ids, which no action tells apart.                                *)
EXTENDS Poller, TLC

OneOf(S) == [f \in Faults |-> IF f \in S THEN 1 ELSE 0]

NoFaults == OneOf({})
OrdinaryFaults == OneOf({"touch", "delete", "expire", "crash", "unreachable"})
OverlapFaults == OneOf({"expire", "crash", "lockloss"})
LivenessFaults == OneOf({"expire", "fail", "crash"})
TouchOnly == OneOf({"touch"})

SymMsgs == Permutations(Msgs)
=============================================================================
