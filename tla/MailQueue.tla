------------------------------ MODULE MailQueue ------------------------------
(***************************************************************************)
(* What the poller promises about the mailbox, without ticks, cursors or   *)
(* failures: mail is dealt with oldest first, never forgotten, and skipped *)
(* only by writing off the whole backlog up to some point.                 *)
(***************************************************************************)
EXTENDS Integers

CONSTANTS Msgs, Stamps   \* messages, and the numbers that order their arrival

VARIABLES
    arrival,   \* the stamp of each message, 0 before it arrives
    done,      \* dealt with
    dropped    \* written off

vars == <<arrival, done, dropped>>

Init ==
    /\ arrival = [m \in Msgs |-> 0]
    /\ done = {} /\ dropped = {}

Waiting(m) == arrival[m] > 0 /\ m \notin done /\ m \notin dropped

Arrive(m) ==
    /\ arrival[m] = 0
    /\ \E s \in Stamps :
         /\ \A n \in Msgs : arrival[n] < s
         /\ arrival' = [arrival EXCEPT ![m] = s]
    /\ UNCHANGED <<done, dropped>>

\* Only a message with no waiting elder is dealt with.  It may have been
\* written off while it was being worked on.
Deal(m) ==
    /\ arrival[m] > 0 /\ m \notin done
    /\ \A n \in Msgs : Waiting(n) => arrival[m] <= arrival[n]
    /\ done' = done \union {m}
    /\ UNCHANGED <<arrival, dropped>>

WriteOff(s) ==
    /\ dropped' = dropped \union {m \in Msgs : Waiting(m) /\ arrival[m] <= s}
    /\ UNCHANGED <<arrival, done>>

Next ==
    \/ \E m \in Msgs : Arrive(m) \/ Deal(m)
    \/ \E s \in Stamps : WriteOff(s)

Spec == Init /\ [][Next]_vars

=============================================================================
