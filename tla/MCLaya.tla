------------------------------- MODULE MCLaya -------------------------------
(* An instance of LayaProgram for TLC: a message handed over twice, a      *)
(* lecture of before the cutoff that an earlier backfill left in the file, *)
(* and a survey that this one adds.                                        *)
EXTENDS LayaProgram

CONSTANTS m1, m2

MCCalls == <<m1, m1, m2>>
MCOrder == <<m1, m2>>
MCCurrent == [m \in {m1, m2} |-> <<"v1", IF m = m1 THEN "event_info" ELSE "survey">>]
MCEarlier == <<[msg |-> m1, category |-> "event_info", deleted |-> FALSE]>>
=============================================================================
