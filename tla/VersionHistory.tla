---------------------------- MODULE VersionHistory ----------------------------
(***************************************************************************)
(* What the classification store promises of email_classifications,        *)
(* without transactions, locks or retries: the history of a message only   *)
(* grows, by one judgement at a time, each closing the one before at the   *)
(* moment it takes effect.                                                 *)
(***************************************************************************)
EXTENDS VersionRules

CONSTANT Msgs    \* message ids

VARIABLE hist    \* the versions of each message

Init == hist = [m \in Msgs |-> {}]

\* One transaction may judge several messages.
Next ==
    /\ hist' \in [Msgs -> SUBSET Versions]
    /\ \A m \in Msgs : hist'[m] = hist[m] \/ Grows(hist[m], hist'[m])

Spec == Init /\ [][Next]_hist

=============================================================================
