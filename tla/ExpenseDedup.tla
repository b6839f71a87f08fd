---------------------------- MODULE ExpenseDedup ----------------------------
(***************************************************************************)
(* find_duplicate of agents/verticals/expense.py: which recorded expense,  *)
(* if any, an extracted draft is taken to be about. A draft is an order    *)
(* number the email carries or None, an amount with its currency or None,  *)
(* a time in units of the dedup window's resolution or None, and whether a *)
(* vendor was found. An amount without a currency matches nothing and yet  *)
(* is worth recording: it counts as no amount with a vendor. rows maps     *)
(* each message id to the draft its expenses row was made from, or to      *)
(* NoRow: message_id is unique in the table.                               *)
(***************************************************************************)
EXTENDS Integers, FiniteSets

CONSTANTS Orders, Amounts, Times,   \* the values drafts are made of
          Window,                   \* DEDUP_WINDOW_MINUTES
          None, NoRow

ASSUME WindowAssumption == Window \in Nat /\ Times \subseteq Int
ASSUME NoneAssumption == None \notin Orders \union Amounts \union Times

\* The vendor tells drafts apart only where there is no amount, see Sparse.
Drafts == {d \in [order : Orders \union {None}, amount : Amounts \union {None},
                  at : Times \union {None}, vendor : BOOLEAN] :
             d.amount # None => d.vendor}

ASSUME NoRowAssumption == NoRow \notin Drafts

Rows(rows) == {m \in DOMAIN rows : rows[m] # NoRow}

\* Mutant: stage 1 compares nothing.
SameOrderNever(rows, d) == {}

\* Stage 1: the same order number.  The AUTO- number given to a row without
\* one is derived from the message id and equals no other.
SameOrder(rows, d) == {m \in Rows(rows) : d.order # None /\ rows[m].order = d.order}

\* Stage 2: the same amount and currency within the window.
InWindow(s, t) == s - t <= Window /\ t - s <= Window

SamePurchase(rows, d) ==
    {m \in Rows(rows) : /\ d.amount # None /\ rows[m].amount = d.amount
                        /\ d.at # None /\ rows[m].at # None
                        /\ InWindow(rows[m].at, d.at)}

\* The rows that may be returned; none when several match in stage 2.
FindDuplicate(rows, d) ==
    IF SameOrder(rows, d) # {} THEN SameOrder(rows, d)
    ELSE IF Cardinality(SamePurchase(rows, d)) = 1 THEN SamePurchase(rows, d)
    ELSE {}

\* Too little was extracted to record anything.
Sparse(d) == d.amount = None /\ ~d.vendor

=============================================================================
