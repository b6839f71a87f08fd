---------------------------- MODULE MCNotionSync ----------------------------
(* Instances of NotionSync for TLC. *)
EXTENDS NotionSync, TLC

CONSTANTS JPY, EUR

CONSTANTS e1, e2

\* A full extraction, and one with neither title, vendor nor order number.
FullAndBare ==
    e1 :> [title |-> "t1", vendor |-> "v", currency |-> JPY, uuid |-> e1] @@
    e2 :> [title |-> None, vendor |-> None, currency |-> EUR, uuid |-> None]
FirstMirrored == e1 :> 1 @@ e2 :> None
Pullers == Permutations(Passes)
OneFailure == [k \in {"pass", "link"} |-> 1]
=============================================================================
