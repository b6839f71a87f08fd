----------------------------- MODULE EmailAgent -----------------------------
(***************************************************************************)
(* handle_email (agents/email_agent.py) on a LangGraph thread per message: *)
(* analyze, then the expense subgraph (agents/verticals/expense.py) or the *)
(* calendar subgraph or neither, then notify, then the email_analyses row, *)
(* after which the poller marks the message processed.                     *)
(*                                                                         *)
(* A node first has its effect on the world (an LLM call, a Telegram       *)
(* message, an expenses row, a Notion page) and then hands its result to   *)
(* LangGraph, which checkpoints it in the background while the next node   *)
(* may already run; Lag bounds how many checkpoints are still to be        *)
(* written.  A crash loses those, an exception does not: invoke waits for  *)
(* its writes before it returns or raises.  One message is handled at a    *)
(* time, which the poller's single flight provides.                        *)
(***************************************************************************)
EXTENDS ExpenseDedup, Sequences

CONSTANTS
    Msgs, NoMsg,
    CalendarEnabled,  \* the calendar vertical was built
    NotionEnabled,    \* the Notion mirror is configured
    Doomed,           \* messages and nodes whose call may be refused at every attempt
    Lag,              \* bound: checkpoints LangGraph may be behind, 0 = synchronous
    Budget            \* bound: how often each kind of other failure occurs

Failures == {"crash", "raise", "lost"}

\* The nodes that hand the content of a message to somebody who may refuse it.
Callers == {"analyze", "extract", "persist", "notify"}

ASSUME AgentAssumption ==
    /\ NoMsg \notin Msgs
    /\ CalendarEnabled \in BOOLEAN /\ NotionEnabled \in BOOLEAN
    /\ Doomed \subseteq Msgs \X Callers
    /\ Lag \in Nat /\ Budget \in [Failures -> Nat]

VARIABLES
    ckpt,      \* per thread: the last checkpoint written
    live,      \* the running thread's state in memory
    unsaved,   \* its checkpoints still to be written, oldest first
    cur, pc,   \* the message in handle_email, and where
    target,    \* the expenses row persist is mirroring
    rows,      \* expenses: the draft of each message's row
    page,      \* expenses: whether notion_page_id is set
    analyses,  \* email_analyses: the vertical of each message's category
    marked,    \* processed_messages
    effects,   \* history: how often each effect was had on the world
    budget     \* failures still allowed

vars == <<ckpt, live, unsaved, cur, pc, target, rows, page, analyses, marked,
          effects, budget>>

\* A category matters only by the vertical it routes to.
Verticals == {"expense", "calendar", "other"}
Analyses == Verticals \union {"none"}
Nodes == {"new", "analyze", "extract", "persist", "calendar", "notify", "end"}
SideEffects == {"none", "failed", "review", "logged", "calendar"}
Effects == {"analyze", "extract", "page", "telegram"}

State == [at : Nodes, analysis : Analyses, side : SideEffects,
          extracted : Drafts \union {NoRow}]

NewThread == [at |-> "new", analysis |-> "none", side |-> "none", extracted |-> NoRow]

TypeOK ==
    /\ ckpt \in [Msgs -> State] /\ live \in State
    /\ unsaved \in Seq(State) /\ Len(unsaved) <= Lag + 1
    /\ cur \in Msgs \union {NoMsg}
    /\ pc \in {"idle", "graph", "notion", "notionCommit", "mark"}
    /\ target \in Msgs \union {NoMsg}
    /\ rows \in [Msgs -> Drafts \union {NoRow}]
    /\ page \in [Msgs -> BOOLEAN]
    /\ analyses \in [Msgs -> Analyses]
    /\ marked \subseteq Msgs
    /\ effects \in [Msgs -> [Effects -> Nat]]
    /\ budget \in [Failures -> Nat]

Init ==
    /\ ckpt = [m \in Msgs |-> NewThread] /\ live = NewThread /\ unsaved = <<>>
    /\ cur = NoMsg /\ pc = "idle" /\ target = NoMsg
    /\ rows = [m \in Msgs |-> NoRow] /\ page = [m \in Msgs |-> FALSE]
    /\ analyses = [m \in Msgs |-> "none"] /\ marked = {}
    /\ effects = [m \in Msgs |-> [e \in Effects |-> 0]]
    /\ budget = Budget

Spend(f) == budget[f] > 0 /\ budget' = [budget EXCEPT ![f] = @ - 1]

Had(m, e) == effects' = [effects EXCEPT ![m][e] = @ + 1]

-----------------------------------------------------------------------------
(* handle_email around the graph *)

\* Mutant: every call starts the thread anew.
BeginAnew(m) ==
    /\ pc = "idle" /\ m \notin marked
    /\ cur' = m /\ pc' = "graph"
    /\ live' = [NewThread EXCEPT !.at = "analyze"]
    /\ unsaved' = <<live'>>
    /\ UNCHANGED <<ckpt, target, rows, page, analyses, marked, effects, budget>>

\* A thread without values starts from the email; an interrupted one resumes
\* at its checkpoint; a completed one is not run again.
Begin(m) ==
    /\ pc = "idle" /\ m \notin marked
    /\ cur' = m /\ pc' = "graph"
    /\ live' = IF ckpt[m].at = "new" THEN [NewThread EXCEPT !.at = "analyze"] ELSE ckpt[m]
    /\ unsaved' = IF ckpt[m].at = "new" THEN <<live'>> ELSE <<>>
    /\ UNCHANGED <<ckpt, target, rows, page, analyses, marked, effects, budget>>

\* The background write of the oldest outstanding checkpoint.
SaveCheckpoint ==
    /\ unsaved # <<>>
    /\ ckpt' = [ckpt EXCEPT ![cur] = Head(unsaved)]
    /\ unsaved' = Tail(unsaved)
    /\ UNCHANGED <<live, cur, pc, target, rows, page, analyses, marked, effects, budget>>

\* Mutant: nodes run however far behind the checkpoints are.
AtUnthrottled(node) == pc = "graph" /\ live.at = node

\* The node live is at may run.
At(node) == pc = "graph" /\ live.at = node /\ Len(unsaved) <= Lag

\* A node's result joins the state and the next node follows.
Complete(s) == live' = s /\ unsaved' = Append(unsaved, s)

\* invoke returned: the analysis, if there is one, is persisted in one
\* transaction with its classification unless its row exists.
Persist ==
    /\ pc = "graph" /\ live.at = "end" /\ unsaved = <<>>
    /\ analyses' = [analyses EXCEPT ![cur] = IF @ = "none" THEN live.analysis ELSE @]
    /\ pc' = "mark"
    /\ UNCHANGED <<ckpt, live, unsaved, cur, target, rows, page, marked, effects, budget>>

Mark ==
    /\ pc = "mark"
    /\ marked' = marked \union {cur}
    /\ cur' = NoMsg /\ pc' = "idle" /\ live' = NewThread
    /\ UNCHANGED <<ckpt, unsaved, target, rows, page, analyses, effects, budget>>

-----------------------------------------------------------------------------
(* Nodes of the email graph *)

\* _route_by_category
Route(a) == CASE a = "expense" -> "extract"
              [] a = "calendar" /\ CalendarEnabled -> "calendar"
              [] OTHER -> "notify"

\* The model answers with a category, or with nothing usable.
Analyze ==
    /\ At("analyze")
    /\ \E a \in Analyses :
         Complete([live EXCEPT !.analysis = a, !.at = Route(a)])
    /\ Had(cur, "analyze")
    /\ UNCHANGED <<ckpt, cur, pc, target, rows, page, analyses, marked, budget>>

\* Mutants: a failed analysis ends the graph unreported, or is raised to the
\* poller, which tries again.
AnalyzeTooLongSilent ==
    /\ At("analyze")
    /\ Complete([live EXCEPT !.side = "failed", !.at = "end"])
    /\ Had(cur, "analyze")
    /\ UNCHANGED <<ckpt, cur, pc, target, rows, page, analyses, marked, budget>>

AnalyzeTooLongRaises ==
    /\ At("analyze")
    /\ cur' = NoMsg /\ pc' = "idle" /\ live' = NewThread /\ unsaved' = <<>>
    /\ UNCHANGED <<ckpt, target, rows, page, analyses, marked, effects, budget>>

\* The content does not fit the model's context: reported, not retried.
AnalyzeTooLong ==
    /\ At("analyze")
    /\ Complete([live EXCEPT !.side = "failed", !.at = "notify"])
    /\ Had(cur, "analyze")
    /\ UNCHANGED <<ckpt, cur, pc, target, rows, page, analyses, marked, budget>>

\* The calendar subgraph, taken as one node.
Calendar ==
    /\ At("calendar")
    /\ Complete([live EXCEPT !.side = "calendar", !.at = "notify"])
    /\ UNCHANGED <<ckpt, cur, pc, target, rows, page, analyses, marked, effects, budget>>

\* A message goes out unless there is neither an analysis nor a reason why not.
Reportable(s) == s.analysis # "none" \/ s.side = "failed"

Notify ==
    /\ At("notify") /\ Reportable(live)
    /\ Had(cur, "telegram")
    /\ Complete([live EXCEPT !.at = "end"])
    /\ UNCHANGED <<ckpt, cur, pc, target, rows, page, analyses, marked, budget>>

NotifySkip ==
    /\ At("notify") /\ ~Reportable(live)
    /\ Complete([live EXCEPT !.at = "end"])
    /\ UNCHANGED <<ckpt, cur, pc, target, rows, page, analyses, marked, effects, budget>>

-----------------------------------------------------------------------------
(* Nodes of the expense subgraph *)

Extract ==
    /\ At("extract")
    /\ \E d \in Drafts : Complete([live EXCEPT !.extracted = d, !.at = "persist"])
    /\ Had(cur, "extract")
    /\ UNCHANGED <<ckpt, cur, pc, target, rows, page, analyses, marked, budget>>

\* Nothing readable: no call is made.
ExtractNoText ==
    /\ At("extract")
    /\ Complete([live EXCEPT !.side = "review", !.at = "persist"])
    /\ UNCHANGED <<ckpt, cur, pc, target, rows, page, analyses, marked, effects, budget>>

HasDraft == live.side = "none" /\ ~Sparse(live.extracted)

PersistSkip ==
    /\ At("persist") /\ ~HasDraft
    /\ Complete([live EXCEPT !.side = "review", !.at = "notify"])
    /\ UNCHANGED <<ckpt, cur, pc, target, rows, page, analyses, marked, effects, budget>>

\* Mutant: the new row is not committed.
PersistNothing ==
    /\ At("persist") /\ HasDraft
    /\ target' = cur
    /\ pc' = "graph" /\ Complete([live EXCEPT !.side = "logged", !.at = "notify"])
    /\ UNCHANGED <<ckpt, cur, rows, page, analyses, marked, effects, budget>>

\* The row is settled on: an existing one, this message's own from a run that
\* was cut short (its insert collides), or a new one.  Unless it has a page it
\* is mirrored next.
PersistRow ==
    /\ At("persist") /\ HasDraft
    /\ LET d == live.extracted
           dups == FindDuplicate(rows, d)
       IN  \/ dups # {} /\ target' \in dups /\ UNCHANGED rows
           \/ dups = {} /\ rows[cur] # NoRow /\ target' = cur /\ UNCHANGED rows
           \/ dups = {} /\ rows[cur] = NoRow /\ target' = cur
              /\ rows' = [rows EXCEPT ![cur] = d]
    /\ IF NotionEnabled /\ ~page[target']
         THEN pc' = "notion" /\ UNCHANGED <<live, unsaved>>
         ELSE pc' = "graph" /\ Complete([live EXCEPT !.side = "logged", !.at = "notify"])
    /\ UNCHANGED <<ckpt, cur, page, analyses, marked, effects, budget>>

NotionCreate ==
    /\ pc = "notion"
    /\ Had(target, "page")
    /\ pc' = "notionCommit"
    /\ UNCHANGED <<ckpt, live, unsaved, cur, target, rows, page, analyses, marked, budget>>

NotionCommit ==
    /\ pc = "notionCommit"
    /\ page' = [page EXCEPT ![target] = TRUE]
    /\ pc' = "graph"
    /\ Complete([live EXCEPT !.side = "logged", !.at = "notify"])
    /\ UNCHANGED <<ckpt, cur, target, rows, analyses, marked, effects, budget>>

\* NotionSyncError is recorded in the row and does not stop the email; the
\* page may exist although its reply was lost.
NotionFails ==
    /\ pc = "notion"
    /\ \/ Spend("raise") /\ UNCHANGED effects
       \/ Spend("lost") /\ Had(target, "page")
    /\ pc' = "graph"
    /\ Complete([live EXCEPT !.side = "logged", !.at = "notify"])
    /\ UNCHANGED <<ckpt, cur, target, rows, page, analyses, marked>>

-----------------------------------------------------------------------------
(* Failures *)

Written == IF unsaved = <<>> THEN ckpt ELSE [ckpt EXCEPT ![cur] = unsaved[Len(unsaved)]]

\* An exception leaves handle_email; the checkpoints are written first.
Abandon == cur' = NoMsg /\ pc' = "idle" /\ live' = NewThread /\ unsaved' = <<>>

Raise ==
    /\ pc \notin {"idle", "notionCommit"} /\ Spend("raise")
    /\ ckpt' = Written
    /\ Abandon
    /\ UNCHANGED <<target, rows, page, analyses, marked, effects>>

\* The content is refused, today and at every retry: too long for the model or
\* an answer that does not parse (extract, and what analyze does not catch), a
\* value too long for its column (persist), a text Telegram will not take
\* (notify).  No handler catches it.  What refused model calls cost is not
\* counted: the retries have no bound.
Refused ==
    /\ <<cur, live.at>> \in Doomed /\ At(live.at)
    /\ live.at = "persist" => HasDraft
    /\ live.at = "notify" => Reportable(live)
    /\ ckpt' = Written
    /\ Abandon
    /\ UNCHANGED <<target, rows, page, analyses, marked, effects, budget>>

\* A call times out after it took effect, or the commit that stores the id of a
\* created Notion page fails.
LostReply ==
    /\ \/ \E e \in {"analyze", "extract"} : At(e) /\ Had(cur, e)
       \/ At("notify") /\ Reportable(live) /\ Had(cur, "telegram")
       \/ pc = "notionCommit" /\ UNCHANGED effects
    /\ Spend("lost")
    /\ ckpt' = Written
    /\ Abandon
    /\ UNCHANGED <<target, rows, page, analyses, marked>>

Crash ==
    /\ pc # "idle" /\ Spend("crash")
    /\ Abandon
    /\ UNCHANGED <<ckpt, target, rows, page, analyses, marked, effects>>

-----------------------------------------------------------------------------
Work ==
    \/ \E m \in Msgs : Begin(m)
    \/ SaveCheckpoint \/ Persist \/ Mark
    \/ Analyze \/ AnalyzeTooLong \/ Calendar \/ Notify \/ NotifySkip
    \/ Extract \/ ExtractNoText \/ PersistSkip \/ PersistRow
    \/ NotionCreate \/ NotionCommit

Fail == NotionFails \/ Raise \/ Refused \/ LostReply \/ Crash

Next == Work \/ Fail

Spec == Init /\ [][Next]_vars

\* The poller comes back to a message until it is marked.
FairSpec == Spec /\ WF_vars(Work)

-----------------------------------------------------------------------------
(* Properties *)

Spent(f) == Budget[f] - budget[f]

\* No effect on the world is had a second time for a message without a crash or
\* a lost reply to show for it: other failures never cost a second LLM call, a
\* second Telegram message or a second Notion page.  A model call that may be
\* refused at every attempt is excepted: every retry pays for it again.
DuplicatesArePaidFor ==
    \A m \in Msgs, e \in Effects :
        <<m, e>> \notin Doomed => effects[m][e] <= 1 + Spent("crash") + Spent("lost")

\* A processed message ran to the end of its graph, what there was to report
\* was sent, and its analysis is the stored one.
NothingSwallowed ==
    \A m \in marked :
        /\ ckpt[m].at = "end"
        /\ Reportable(ckpt[m]) => effects[m]["telegram"] > 0
        /\ analyses[m] = ckpt[m].analysis

\* An expense that was reported as logged is in the table: as this message's
\* row, or as a row this message's draft matches.
LoggedIsRecorded ==
    \A m \in Msgs : ckpt[m].side = "logged" =>
        \/ rows[m] # NoRow
        \/ SameOrder(rows, ckpt[m].extracted) \union SamePurchase(rows, ckpt[m].extracted) # {}

\* One purchase, one row: no two rows carry the same order number, whatever is
\* replayed.
NoDoubleBooking ==
    \A m, n \in Rows(rows) : rows[m].order # None /\ rows[m].order = rows[n].order => m = n

\* Seen from outside handle_email is a handler of one message at a time that
\* never calls the model or Telegram for a thread whose end is checkpointed, asks
\* the model before it ends one, and keeps ends and marks for good.
Handler == INSTANCE MailHandler WITH
    Calls <- Effects \ {"page"},
    hand <- cur,
    calls <- [m \in Msgs |-> [c \in Effects \ {"page"} |-> effects[m][c]]],
    ended <- {m \in Msgs : ckpt[m].at = "end"}
ImplementsMailHandler == Handler!Spec

\* One thing alone keeps messages from being processed: the poller coming back
\* for ever to a message whose content a node's call refuses.  An analysis that
\* is too long, or that there is none of, and every other failure are got over.
EventuallyMarked ==
    \/ \A m \in Msgs : <>(m \in marked)
    \/ \E d \in Doomed : []<>(cur = d[1] /\ pc = "graph" /\ live.at = d[2])

=============================================================================
