----------------------------- MODULE NotionSync -----------------------------
(***************************************************************************)
(* The Notion mirror in both directions.  The recorder                     *)
(* (notifications/notion.py) creates a page for an expenses row and the    *)
(* caller stores the page's id in the row; people then edit pages; the     *)
(* puller (notifications/notion_puller.py) fetches the pages edited after  *)
(* its cursor, writes their fields back to the rows one transaction per    *)
(* page, and stores the largest edit time as the new cursor.               *)
(*                                                                         *)
(* Passes are the places a puller runs: the thread beside a CLI tick and   *)
(* the sync-notion command.  Nothing keeps them apart, and nothing promises*)
(* that another pass follows: the thread ends with its process.  A query is*)
(* taken one page at a time, in the order it asks for, so that a boundary  *)
(* between two result pages may fall anywhere; Notion's clock does not have*)
(* to move between two edits.                                              *)
(***************************************************************************)
EXTENDS Integers, Sequences

CONSTANTS
    Exps,               \* rows of expenses
    Pages,              \* ids of Notion pages
    Passes,             \* pullers that may run
    None,
    Titles, LongTitle,  \* titles people enter; one that the column cannot hold
    Unknown,            \* the title of a page whose row has neither title nor vendor
    Extracted,          \* the fields the model extracted for each row
    Given,              \* the pages rows are mirrored in from the start
    Labelled,           \* currency codes the Notion select has a label for
    MaxClock, MaxEdits, Failures   \* bounds: times, edits, failures of each kind

ASSUME NotionAssumption ==
    /\ Pages \subseteq Nat \ {0} /\ None \notin Exps \union Pages
    /\ LongTitle \notin Titles /\ None \notin Titles \union {LongTitle, Unknown}
    /\ MaxClock \in Nat \ {0} /\ MaxEdits \in Nat
    /\ Failures \in [{"pass", "link"} -> Nat]

VARIABLES
    clock,     \* Notion's clock, which stamps last_edited_time
    rows,      \* expenses: the synced fields and transaction_id
    link,      \* expenses.notion_page_id
    made,      \* a page created for a row whose id is not stored yet
    pages,     \* the Notion database; an unused id is not edited
    cursor,    \* notion_sync_state.last_synced_at, 0 = no row
    pc, since, high, queue,   \* per pass: sync_once
    began,     \* history, per pass: Notion's time when it began
    edits, left,   \* edits made, failures still allowed
    touched,   \* history: pages a person edited
    seen,      \* history: the latest edit time any query returned
    missed     \* history: pages whose last edit a pass may have gone past

vars == <<clock, rows, link, made, pages, cursor, pc, since, high, queue,
          began, edits, left, touched, seen, missed>>

passVars == <<pc, since, high, queue, began>>

-----------------------------------------------------------------------------
(* Conversions *)

\* _CURRENCY_LABELS and its reverse; a code without a label goes as it is.
Label(c) == IF c \in Labelled THEN <<"label", c>> ELSE <<"code", c>>

\* Mutant: labels are not translated back.
CodeAsIs(l) == l

Code(l) == l[2]

\* A property is left out when its field is empty, except the title.
BuildProperties(r) ==
    [title    |-> CASE r.title # None  -> r.title
                    [] r.title = None /\ r.vendor # None -> r.vendor
                    [] OTHER -> Unknown,
     vendor   |-> r.vendor,
     currency |-> IF r.currency = None THEN None ELSE Label(r.currency),
     uuid     |-> r.uuid,
     marked   |-> TRUE]

Syncable == {"title", "vendor", "currency"}

\* The fields a page has a value for.
ExtractUpdates(p) ==
    [f \in {g \in Syncable : p[g] # None} |-> IF f = "currency" THEN Code(p[f]) ELSE p[f]]

\* What a page would change in a row.
Diff(r, p) == {f \in DOMAIN ExtractUpdates(p) : r[f] # ExtractUpdates(p)[f]}

Updated(r, p) == [f \in DOMAIN r |-> IF f \in Diff(r, p) THEN ExtractUpdates(p)[f] ELSE r[f]]

-----------------------------------------------------------------------------
Vendors == {Extracted[e].vendor : e \in Exps} \union {None}
Codes == {Extracted[e].currency : e \in Exps} \union {None}
AnyTitle == Titles \union {Extracted[e].title : e \in Exps} \union Vendors \union {LongTitle, Unknown}

\* A row has the synced fields and its order number; a page mirrors one row.
ASSUME MirrorAssumption ==
    /\ Extracted \in [Exps -> [title : AnyTitle, vendor : Vendors, currency : Codes,
                             uuid : Exps \union {None}]]
    /\ Given \in [Exps -> Pages \union {None}]
    /\ \A e, f \in Exps : Given[e] = Given[f] /\ Given[e] # None => e = f

Blank == [title |-> None, vendor |-> None, currency |-> None, uuid |-> None,
          marked |-> FALSE, edited |-> 0]

Written(props, t) == [title |-> props.title, vendor |-> props.vendor,
                      currency |-> props.currency, uuid |-> props.uuid,
                      marked |-> props.marked, edited |-> t]

Versions == [title : AnyTitle, vendor : Vendors,
             currency : {None} \union {Label(c) : c \in Codes},
             uuid : Exps \union {None}, marked : BOOLEAN, edited : 0 .. MaxClock]

TypeOK ==
    /\ clock \in 1 .. MaxClock /\ cursor \in 0 .. MaxClock /\ seen \in 0 .. MaxClock
    /\ rows \in [Exps -> [title : AnyTitle, vendor : Vendors, currency : Codes,
                          uuid : Exps \union {None}]]
    /\ link \in [Exps -> Pages \union {None}] /\ made \in [Exps -> Pages \union {None}]
    /\ pages \in [Pages -> Versions]
    /\ pc \in [Passes -> {"idle", "fetch", "apply"}]
    /\ since \in [Passes -> 0 .. MaxClock] /\ high \in [Passes -> 0 .. MaxClock]
    /\ queue \in [Passes -> Seq([id : Pages, version : Versions])]
    /\ began \in [Passes -> 0 .. MaxClock]
    /\ edits \in 0 .. MaxEdits /\ left \in [{"pass", "link"} -> Nat]
    /\ touched \subseteq Pages /\ missed \subseteq Pages

Init ==
    /\ clock = 1 /\ cursor = 0 /\ seen = 0
    /\ rows = Extracted
    /\ link = Given /\ made = [e \in Exps |-> None]
    /\ pages = [p \in Pages |->
                  IF \E e \in Exps : Given[e] = p
                    THEN Written(BuildProperties(Extracted[CHOOSE e \in Exps : Given[e] = p]), 1)
                    ELSE Blank]
    /\ pc = [s \in Passes |-> "idle"] /\ since = [s \in Passes |-> 0]
    /\ high = [s \in Passes |-> 0] /\ queue = [s \in Passes |-> <<>>]
    /\ began = [s \in Passes |-> 0] /\ edits = 0 /\ left = Failures
    /\ touched = {} /\ missed = {}

-----------------------------------------------------------------------------
(* Notion, its users, and the recorder *)

Tick ==
    /\ clock < MaxClock /\ clock' = clock + 1
    /\ UNCHANGED <<rows, link, made, pages, cursor, passVars, edits, left,
                   touched, seen, missed>>

\* A change stamped with a time that a query has already returned.
Shadow(p) == IF clock <= seen THEN missed \union {p} ELSE missed \ {p}

\* record_expense succeeds; the row does not know its page yet.  Ids are taken
\* in order.
CreatePage(e, p) ==
    /\ link[e] = None /\ made[e] = None
    /\ pages[p].edited = 0 /\ \A q \in Pages : q < p => pages[q].edited > 0
    /\ pages' = [pages EXCEPT ![p] = Written(BuildProperties(rows[e]), clock)]
    /\ made' = [made EXCEPT ![e] = p]
    /\ missed' = Shadow(p)
    /\ UNCHANGED <<clock, rows, link, cursor, passVars, edits, left, touched, seen>>

LinkPage(e) ==
    /\ made[e] # None
    /\ link' = [link EXCEPT ![e] = made[e]]
    /\ made' = [made EXCEPT ![e] = None]
    /\ UNCHANGED <<clock, rows, pages, cursor, passVars, edits, left, touched,
                   seen, missed>>

\* The process dies in between: the page stays, an orphan.
LoseLink(e) ==
    /\ made[e] # None /\ left["link"] > 0
    /\ left' = [left EXCEPT !["link"] = @ - 1]
    /\ made' = [made EXCEPT ![e] = None]
    /\ UNCHANGED <<clock, rows, link, pages, cursor, passVars, edits, touched,
                   seen, missed>>

\* A person corrects or clears the title, removes the marker, or gives the page
\* the UUID of another expense.
Edit(p) ==
    /\ pages[p].edited > 0 /\ edits < MaxEdits
    /\ edits' = edits + 1
    /\ \/ \E t \in Titles \union {LongTitle, None} :
            pages' = [pages EXCEPT ![p].title = t, ![p].edited = clock]
       \/ pages' = [pages EXCEPT ![p].marked = FALSE, ![p].edited = clock]
       \/ \E e \in Exps \ {pages[p].uuid} : pages' = [pages EXCEPT ![p].uuid = e, ![p].edited = clock]
    /\ touched' = touched \union {p} /\ missed' = Shadow(p)
    /\ UNCHANGED <<clock, rows, link, made, cursor, passVars, left, seen>>

-----------------------------------------------------------------------------
(* sync_once *)

Begin(s) ==
    /\ pc[s] = "idle"
    /\ since' = [since EXCEPT ![s] = cursor] /\ high' = [high EXCEPT ![s] = cursor]
    /\ pc' = [pc EXCEPT ![s] = "fetch"] /\ began' = [began EXCEPT ![s] = clock]
    /\ UNCHANGED <<clock, rows, link, made, pages, cursor, queue, edits, left,
                   touched, seen, missed>>

\* Ascending last_edited_time.
Before(p, q) ==
    \/ pages[p].edited < pages[q].edited
    \/ pages[p].edited = pages[q].edited /\ p < q

\* What the rest of the query would return: the time and id after the last one.
Matching(s) ==
    {p \in Pages :
        /\ pages[p].marked /\ pages[p].edited > since[s]
        /\ queue[s] # <<>> =>
             LET last == queue[s][Len(queue[s])]
             IN  \/ last.version.edited < pages[p].edited
                 \/ last.version.edited = pages[p].edited /\ last.id < p}

Fetch(s) ==
    /\ pc[s] = "fetch"
    /\ \E p \in Matching(s) :
         /\ \A q \in Matching(s) \ {p} : Before(p, q)
         /\ queue' = [queue EXCEPT ![s] = Append(@, [id |-> p, version |-> pages[p]])]
         /\ seen' = IF pages[p].edited > seen THEN pages[p].edited ELSE seen
    /\ UNCHANGED <<clock, rows, link, made, pages, cursor, pc, since, high, began, edits, left,
                   touched, missed>>

\* Mutant: the rest of the listing (has_more) is not asked for.
FetchDoneEarly(s) ==
    /\ pc[s] = "fetch" /\ (Matching(s) = {} \/ queue[s] # <<>>)
    /\ pc' = [pc EXCEPT ![s] = "apply"]
    /\ UNCHANGED <<clock, rows, link, made, pages, cursor, since, high, queue,
                   began, edits, left, touched, seen, missed>>

FetchDone(s) ==
    /\ pc[s] = "fetch" /\ Matching(s) = {}
    /\ pc' = [pc EXCEPT ![s] = "apply"]
    /\ UNCHANGED <<clock, rows, link, made, pages, cursor, since, high, queue,
                   began, edits, left, touched, seen, missed>>

\* Mutant: one past the edit time.
RaisedPast(now, t) == IF t >= now THEN t + 1 ELSE now

\* max_edited
Raised(now, t) == IF t > now THEN t ELSE now

\* The next fetched page leaves the queue and its edit time counts.
Consume(s, t) ==
    /\ queue' = [queue EXCEPT ![s] = Tail(@)]
    /\ high' = [high EXCEPT ![s] = Raised(@, t)]

\* The UUID belongs to a row that is linked to another page.
Foreign(p, v) == v.uuid # None /\ \E e \in Exps : rows[e].uuid = v.uuid /\ link[e] # p

Owners(p) == {e \in Exps : link[e] = p}

\* An n8n duplicate, or a page no row knows.
SkipPage(s) ==
    /\ pc[s] = "apply" /\ queue[s] # <<>>
    /\ LET p == Head(queue[s]).id  v == Head(queue[s]).version
       IN  /\ Foreign(p, v) \/ Owners(p) = {}
           /\ Consume(s, v.edited)
           /\ missed' = missed \union {p}
    /\ UNCHANGED <<clock, rows, link, made, pages, cursor, pc, since, began, edits,
                   left, touched, seen>>

Poison(e, v) == "title" \in Diff(rows[e], v) /\ v.title = LongTitle

\* The row takes every field that differs, in one transaction.
ApplyPage(s) ==
    /\ pc[s] = "apply" /\ queue[s] # <<>>
    /\ LET p == Head(queue[s]).id  v == Head(queue[s]).version
       IN  /\ ~Foreign(p, v)
           /\ \E e \in Owners(p) :
                /\ ~Poison(e, v)
                /\ rows' = [rows EXCEPT ![e] = Updated(@, v)]
           /\ Consume(s, v.edited)
           /\ missed' = IF v = pages[p] THEN missed \ {p}
                        ELSE IF pages[p].edited <= seen THEN missed \union {p} ELSE missed
    /\ UNCHANGED <<clock, link, made, pages, cursor, pc, since, began, edits, left,
                   touched, seen>>

\* The pass returns or raises, and its locals are gone.
Leave(s) ==
    /\ pc' = [pc EXCEPT ![s] = "idle"]
    /\ since' = [since EXCEPT ![s] = 0] /\ high' = [high EXCEPT ![s] = 0]
    /\ queue' = [queue EXCEPT ![s] = <<>>] /\ began' = [began EXCEPT ![s] = 0]

\* Every page went through.
WriteCursor(s) ==
    /\ pc[s] = "apply" /\ queue[s] = <<>>
    /\ cursor' = IF high[s] # since[s] THEN high[s] ELSE cursor
    /\ Leave(s)
    /\ UNCHANGED <<clock, rows, link, made, pages, edits, left, touched, seen,
                   missed>>

\* Mutant: the cursor is written in a finally block.
GiveUpWriting(s) ==
    /\ Leave(s)
    /\ cursor' = IF queue[s] = <<>> THEN high[s] ELSE Head(queue[s]).version.edited
    /\ UNCHANGED <<clock, rows, link, made, pages, edits, touched, seen, missed>>

\* The exception ends the pass; the thread logs it, the command exits.
GiveUp(s) ==
    /\ Leave(s)
    /\ UNCHANGED <<clock, rows, link, made, pages, cursor, edits, touched,
                   seen, missed>>

\* The commit of a value the column cannot hold raises, every time.
PoisonPage(s) ==
    /\ pc[s] = "apply" /\ queue[s] # <<>>
    /\ LET p == Head(queue[s]).id  v == Head(queue[s]).version
       IN  ~Foreign(p, v) /\ \E e \in Owners(p) : Poison(e, v)
    /\ GiveUp(s) /\ UNCHANGED left

\* Notion or the database fails, or the process dies.
PassFails(s) ==
    /\ pc[s] # "idle" /\ left["pass"] > 0
    /\ left' = [left EXCEPT !["pass"] = @ - 1]
    /\ GiveUp(s)

-----------------------------------------------------------------------------
Pass(s) ==
    \/ Begin(s) \/ Fetch(s) \/ FetchDone(s)
    \/ SkipPage(s) \/ ApplyPage(s) \/ PoisonPage(s) \/ WriteCursor(s)

Recorder ==
    \/ \E e \in Exps : LinkPage(e) \/ LoseLink(e)
    \/ \E e \in Exps, p \in Pages : CreatePage(e, p)

Next ==
    \/ Tick \/ Recorder
    \/ \E p \in Pages : Edit(p)
    \/ \E s \in Passes : Pass(s) \/ PassFails(s)

Spec == Init /\ [][Next]_vars

-----------------------------------------------------------------------------
(* Properties *)

Reflected(e) == Diff(rows[e], pages[link[e]]) = {}

Mirrored(e) == link[e] # None /\ pages[link[e]].marked

\* The cursor is never past an edit that is not in the database, whatever fails
\* and whatever overlaps, except in the three ways missed records: the edit has
\* a time a query returned before, its page was not linked when a pass met it,
\* or an overlapping pass wrote an older version over it.
CursorCovers ==
    \A e \in Exps : Mirrored(e) /\ link[e] \notin missed /\ pages[link[e]].edited <= cursor
                      => Reflected(e)

\* Pulling back what the recorder wrote changes nothing but an empty title: a
\* row differs from its extraction only if a person edited its page.
OnlyPeopleCorrect ==
    \A e \in Exps : link[e] \notin touched =>
        \A f \in Syncable : rows[e][f] # Extracted[e][f] => f = "title" /\ Extracted[e].title = None

\* A pass that has applied all it listed has brought home every edit made
\* before it began, although pages move in the listing while it is read and
\* other passes write the same rows, except those missed records.
PassPullsAll ==
    \A s \in Passes, e \in Exps :
        /\ pc[s] = "apply" /\ queue[s] = <<>>
        /\ Mirrored(e) /\ link[e] \notin missed /\ pages[link[e]].edited < began[s]
        => Reflected(e)

=============================================================================
