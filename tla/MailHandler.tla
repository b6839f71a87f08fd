----------------------------- MODULE MailHandler -----------------------------
(***************************************************************************)
(* What handling mail promises, without graphs, nodes or checkpoints: one  *)
(* message is in hand at a time; the model and Telegram are called only    *)
(* for it, and never again once its thread has ended; a thread ends only   *)
(* after the model was asked; and a message is marked only from the hand   *)
(* and after its thread has ended.  A thread's end is never undone,        *)
(* whatever is raised, lost or killed.                                     *)
(***************************************************************************)
EXTENDS Naturals

CONSTANTS Msgs, NoMsg, Calls   \* messages, none, and the kinds of paid call

VARIABLES
    hand,     \* the message being handled
    calls,    \* how often each call was made for each message
    ended,    \* messages whose thread has durably ended
    marked    \* processed messages

vars == <<hand, calls, ended, marked>>

Init ==
    /\ hand = NoMsg
    /\ calls = [m \in Msgs |-> [c \in Calls |-> 0]]
    /\ ended = {} /\ marked = {}

Take(m) ==
    /\ hand = NoMsg /\ m \notin marked
    /\ hand' = m
    /\ UNCHANGED <<calls, ended, marked>>

\* The reply may be lost, and the message with it.
Call(c) ==
    /\ hand \in Msgs \ ended
    /\ calls' = [calls EXCEPT ![hand][c] = @ + 1]
    /\ hand' \in {hand, NoMsg}
    /\ UNCHANGED <<ended, marked>>

End ==
    /\ hand \in Msgs \ ended
    /\ calls[hand]["analyze"] > 0
    /\ ended' = ended \union {hand}
    /\ hand' \in {hand, NoMsg}
    /\ UNCHANGED <<calls, marked>>

LetGo ==
    /\ hand # NoMsg
    /\ hand' = NoMsg
    /\ UNCHANGED <<calls, ended, marked>>

Mark ==
    /\ hand \in ended
    /\ marked' = marked \union {hand}
    /\ hand' = NoMsg
    /\ UNCHANGED <<calls, ended>>

Next ==
    \/ \E m \in Msgs : Take(m)
    \/ \E c \in Calls : Call(c)
    \/ End \/ LetGo \/ Mark

Spec == Init /\ [][Next]_vars

=============================================================================
