--------------------------- MODULE MCClassification ---------------------------
(* Instance of ClassificationHistory for TLC: a file of human verdicts, a    *)
(* later one that changes its mind about one message and may take them in    *)
(* either order, and a machine's rescan.                                     *)
EXTENDS ClassificationHistory

CONSTANTS m1, m2, a, b

MCAnswers == {[category |-> a, at |-> 1]}

MCFiles == {
    [source |-> "human", verdicts |-> [m \in Msgs |->
        [category |-> b, at |-> IF m = m1 THEN 1 ELSE 2]]],
    [source |-> "human", verdicts |-> [m \in Msgs |->
        [category |-> IF m = m1 THEN a ELSE b, at |-> 3]]],
    [source |-> "laya", verdicts |-> [m \in Msgs |->
        IF m = m1 THEN [category |-> a, at |-> 2] ELSE NoVerdict]]}
=============================================================================
