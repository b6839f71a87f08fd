---------------------------- MODULE MCEmailAgent ----------------------------
(* Instances of EmailAgent for TLC. *)
EXTENDS EmailAgent, TLC

NoTimes == {}
ThreeTimes == 0 .. 2
OneOf(S) == [f \in Failures |-> IF f \in S THEN 1 ELSE 0]
AllFailures == OneOf(Failures)
CrashOnly == OneOf({"crash"})

NoneDoomed == {}
OneDoomed == {CHOOSE m \in Msgs : TRUE} \X Callers

SymMsgs == Permutations(Msgs)
=============================================================================
