----------------------------- MODULE VersionRules -----------------------------
(***************************************************************************)
(* The rows of email_classifications as data: versions of the judgement    *)
(* about one message, valid from a time to a time, and the rules by which  *)
(* a history of versions grows.                                            *)
(***************************************************************************)
EXTENDS Integers

CONSTANTS
    Categories,  \* categories, each with its taxonomy version
    MaxTime      \* bound: the largest timestamp

ASSUME MaxTimeAssumption == MaxTime \in Nat

Sources == {"llm", "laya", "human"}
Times == 1 .. MaxTime
Open == 0        \* valid_to IS NULL

Versions == [category : Categories, source : Sources,
             from : Times, to : Times \union {Open}]

Current(h) == {v \in h : v.to = Open}

\* Judgement v may take over from version c: it says something else, it is
\* later, and it is not a machine's where c is a human's.
MaySupersede(v, c) ==
    /\ v.from > c.from
    /\ v.category # c.category \/ v.source # c.source
    /\ c.source = "human" => v.source = "human"

Supersede(h, c, v) == (h \ {c}) \union {[c EXCEPT !.to = v.from], v}

Grows(h, g) ==
    \E v \in g :
        /\ v \in Versions /\ v.to = Open
        /\ \/ h = {} /\ g = {v}
           \/ \E c \in Current(h) : MaySupersede(v, c) /\ g = Supersede(h, c, v)

-----------------------------------------------------------------------------
(* What a well-formed history is. *)

\* One current version, and no gap or overlap since the first.
Timeline(h) ==
    /\ h # {} => \E v \in h : Current(h) = {v}
    /\ \A v \in h : v.to # Open => v.from < v.to /\ \E u \in h : u.from = v.to
    /\ \A u, v \in h : u # v => \/ u.to # Open /\ u.to <= v.from
                                \/ v.to # Open /\ v.to <= u.from

\* No machine judgement comes after a human one.
HumanLast(h) ==
    \A u, v \in h : u.source = "human" /\ u.from < v.from => v.source = "human"

=============================================================================
