------------------------------- MODULE Poller -------------------------------
(***************************************************************************)
(* The Gmail poller (gmail/poller.py) with its callers: POST /poll, which  *)
(* runs a tick under a Postgres advisory lock (web/routers/poll.py,        *)
(* coordination/advisory_lock.py), and the commands `tick` and             *)
(* `run-legacy`, which run the same tick without it (app.py).              *)
(*                                                                         *)
(* A tick is a sequence of calls to Gmail and of short database            *)
(* transactions; each is one action here, so that mailbox events, other    *)
(* ticks and crashes may fall between any two of them.  The mailbox is     *)
(* external: a counter of history records, of which the program sees what  *)
(* history.list, messages.get and getProfile return.                       *)
(***************************************************************************)
EXTENDS Integers, FiniteSets

CONSTANTS
    Ticks,      \* callers that may run a tick, each in a process of its own
    CliTicks,   \* those of them that are CLI commands, which take no lock
    Msgs,       \* Gmail message ids
    NoTick,     \* the advisory lock is free
    NoMsg,      \* the loop holds no message
    MaxHist,    \* bound: the largest history id of the mailbox
    Budget      \* bound: how often each kind of fault or interference occurs

Faults == {"touch", "delete", "expire", "fail", "crash", "lockloss", "unreachable"}

ASSUME CallersAssumption == CliTicks \subseteq Ticks /\ NoTick \notin Ticks
ASSUME MsgsAssumption == NoMsg \notin Msgs
ASSUME BoundsAssumption == MaxHist \in Nat \ {0} /\ Budget \in [Faults -> Nat]

VARIABLES
    hist,       \* mailbox: its current historyId
    added,      \* mailbox: history id of each message's messageAdded record, 0 before
    mhist,      \* mailbox: historyId of each message, the last record that touched it
    gone,       \* mailbox: messages deleted since
    retained,   \* mailbox: history.list answers 404 to a startHistoryId below this
    cursor,     \* gmail_sync_state.history_id, 0 while there is no row
    processed,  \* processed_messages
    handled,    \* history: messages the handler has returned for
    writtenOff, \* history: backlog a baseline or a re-baseline skipped
    lock,       \* the session that holds TICK_LOCK_KEY
    stop,       \* processes whose stop_event is set
    budget,     \* faults still allowed
    reply,      \* history: how the latest call to end was answered
    pc,         \* per caller: where its tick is
    start, pos, todo, more, cur, curHist, maxh, prof  \* per caller: locals of the tick

mailbox == <<hist, added, mhist, gone, retained>>
db == <<cursor, processed, handled, writtenOff>>
locals == <<start, pos, todo, more, cur, curHist, maxh, prof>>
vars == <<mailbox, db, lock, stop, budget, pc, reply, locals>>

HistIds == 0 .. MaxHist

Steps == {"idle", "profile", "baseline", "insert", "read", "next", "fetch",
          "handle", "mark", "advance", "save", "rebase", "rebaseWrite"}

Replies == {"none", "ok", "baselined", "rebaselined", "credential", "http500", "conflict"}

TypeOK ==
    /\ hist \in HistIds /\ retained \in HistIds /\ cursor \in HistIds
    /\ added \in [Msgs -> HistIds] /\ mhist \in [Msgs -> HistIds]
    /\ gone \subseteq Msgs /\ processed \subseteq Msgs
    /\ handled \subseteq Msgs /\ writtenOff \subseteq Msgs
    /\ lock \in Ticks \union {NoTick} /\ stop \subseteq Ticks
    /\ budget \in [Faults -> Nat]
    /\ pc \in [Ticks -> Steps] /\ reply \in Replies
    /\ start \in [Ticks -> HistIds] /\ pos \in [Ticks -> HistIds]
    /\ todo \in [Ticks -> SUBSET Msgs] /\ more \in [Ticks -> BOOLEAN]
    /\ cur \in [Ticks -> Msgs \union {NoMsg}] /\ curHist \in [Ticks -> HistIds]
    /\ maxh \in [Ticks -> HistIds] /\ prof \in [Ticks -> HistIds]

Init ==
    /\ hist = 1 /\ retained = 0 /\ cursor = 0
    /\ added = [m \in Msgs |-> 0] /\ mhist = [m \in Msgs |-> 0]
    /\ gone = {} /\ processed = {} /\ handled = {} /\ writtenOff = {}
    /\ lock = NoTick /\ stop = {} /\ budget = Budget
    /\ pc = [t \in Ticks |-> "idle"] /\ reply = "none"
    /\ start = [t \in Ticks |-> 0] /\ pos = [t \in Ticks |-> 0]
    /\ todo = [t \in Ticks |-> {}] /\ more = [t \in Ticks |-> FALSE]
    /\ cur = [t \in Ticks |-> NoMsg] /\ curHist = [t \in Ticks |-> 0]
    /\ maxh = [t \in Ticks |-> 0] /\ prof = [t \in Ticks |-> 0]

Spend(f) == budget[f] > 0 /\ budget' = [budget EXCEPT ![f] = @ - 1]

Arrived(m) == added[m] > 0
Settled == processed \union writtenOff

-----------------------------------------------------------------------------
(* The mailbox.  Every event takes the next history id. *)

Arrive(m) ==
    /\ ~Arrived(m) /\ hist < MaxHist
    /\ hist' = hist + 1
    /\ added' = [added EXCEPT ![m] = hist + 1]
    /\ mhist' = [mhist EXCEPT ![m] = hist + 1]
    /\ UNCHANGED <<gone, retained, db, lock, stop, budget, pc, reply, locals>>

\* A label change: the message's own historyId moves past its messageAdded record.
Touch(m) ==
    /\ Arrived(m) /\ m \notin gone /\ hist < MaxHist
    /\ Spend("touch")
    /\ hist' = hist + 1
    /\ mhist' = [mhist EXCEPT ![m] = hist + 1]
    /\ UNCHANGED <<added, gone, retained, db, lock, stop, pc, reply, locals>>

Delete(m) ==
    /\ Arrived(m) /\ m \notin gone /\ hist < MaxHist
    /\ Spend("delete")
    /\ hist' = hist + 1
    /\ gone' = gone \union {m}
    /\ UNCHANGED <<added, mhist, retained, db, lock, stop, pc, reply, locals>>

\* Gmail drops history records older than about a week.
Expire ==
    /\ Spend("expire")
    /\ \E r \in (retained + 1) .. hist : retained' = r
    /\ UNCHANGED <<hist, added, mhist, gone, db, lock, stop, pc, reply, locals>>

-----------------------------------------------------------------------------
(* A caller starts and ends a tick. *)

Begin(t) == pc' = [pc EXCEPT ![t] = "profile"] /\ UNCHANGED reply

\* The tick returns or raises: the stack frame is gone, a CLI process exits
\* and an advisory lock that was taken is released.
End(t, r) ==
    /\ pc' = [pc EXCEPT ![t] = "idle"]
    /\ reply' = r
    /\ lock' = IF lock = t THEN NoTick ELSE lock
    /\ stop' = IF t \in CliTicks THEN stop \ {t} ELSE stop
    /\ start' = [start EXCEPT ![t] = 0]
    /\ pos' = [pos EXCEPT ![t] = 0]
    /\ todo' = [todo EXCEPT ![t] = {}]
    /\ more' = [more EXCEPT ![t] = FALSE]
    /\ cur' = [cur EXCEPT ![t] = NoMsg]
    /\ curHist' = [curHist EXCEPT ![t] = 0]
    /\ maxh' = [maxh EXCEPT ![t] = 0]
    /\ prof' = [prof EXCEPT ![t] = 0]

Goto(t, step) == pc' = [pc EXCEPT ![t] = step] /\ UNCHANGED <<reply, lock, stop>>

\* Mutant: the lock is per process, as an asyncio.Lock is.
PollAcquireUnguarded(t) ==
    /\ t \notin CliTicks /\ pc[t] = "idle"
    /\ lock' = t
    /\ Begin(t)
    /\ UNCHANGED <<mailbox, db, stop, budget, locals>>

\* POST /poll got the lock.
PollAcquire(t) ==
    /\ t \notin CliTicks /\ pc[t] = "idle" /\ lock = NoTick
    /\ lock' = t
    /\ Begin(t)
    /\ UNCHANGED <<mailbox, db, stop, budget, locals>>

\* POST /poll did not: 409.
PollConflict(t) ==
    /\ t \notin CliTicks /\ pc[t] = "idle" /\ lock # NoTick
    /\ reply' = "conflict"
    /\ UNCHANGED <<mailbox, db, lock, stop, budget, pc, locals>>

CliTick(t) ==
    /\ t \in CliTicks /\ pc[t] = "idle"
    /\ Begin(t)
    /\ UNCHANGED <<mailbox, db, lock, stop, budget, locals>>

-----------------------------------------------------------------------------
(* tick_once *)

GetProfile(t) ==
    /\ pc[t] = "profile"
    /\ prof' = [prof EXCEPT ![t] = hist]
    /\ Goto(t, "baseline")
    /\ UNCHANGED <<mailbox, db, budget, start, pos, todo, more, cur, curHist, maxh>>

BaselineCheck(t) ==
    /\ pc[t] = "baseline"
    /\ Goto(t, IF cursor = 0 THEN "insert" ELSE "read")
    /\ UNCHANGED <<mailbox, db, budget, locals>>

\* What a cursor set to h skips: everything up to h that was never processed.
Backlog(h) == {m \in Msgs : Arrived(m) /\ added[m] <= h} \ processed

BaselineInsert(t) ==
    /\ pc[t] = "insert" /\ cursor = 0
    /\ cursor' = prof[t]
    /\ writtenOff' = writtenOff \union Backlog(prof[t])
    /\ End(t, "baselined")
    /\ UNCHANGED <<mailbox, processed, handled, budget>>

\* Another tick inserted the row since the check: IntegrityError.
BaselineCollision(t) ==
    /\ pc[t] = "insert" /\ cursor # 0
    /\ End(t, "http500")
    /\ UNCHANGED <<mailbox, db, budget>>

ReadCursor(t) ==
    /\ pc[t] = "read"
    /\ start' = [start EXCEPT ![t] = cursor]
    /\ pos' = [pos EXCEPT ![t] = cursor]
    /\ maxh' = [maxh EXCEPT ![t] = cursor]
    /\ more' = [more EXCEPT ![t] = TRUE]
    /\ Goto(t, "next")
    /\ UNCHANGED <<mailbox, db, budget, todo, cur, curHist, prof>>

AtPage(t) == pc[t] = "next" /\ todo[t] = {} /\ more[t]

\* Mutant: nextPageToken is ignored.
ListFirstPageOnly(t) ==
    /\ AtPage(t) /\ start[t] >= retained
    /\ \E q \in pos[t] .. hist :
         /\ q > pos[t] \/ q = hist
         /\ todo' = [todo EXCEPT ![t] = {m \in Msgs : pos[t] < added[m] /\ added[m] <= q}]
         /\ pos' = [pos EXCEPT ![t] = q]
         /\ more' = [more EXCEPT ![t] = FALSE]
    /\ UNCHANGED <<mailbox, db, lock, stop, budget, pc, reply, start, cur, curHist, maxh, prof>>

\* One history.list call: the ids added in the next stretch of history, which
\* is the last page when it reaches the present.
ListPage(t) ==
    /\ AtPage(t) /\ start[t] >= retained
    /\ \E q \in pos[t] .. hist :
         /\ q > pos[t] \/ q = hist
         /\ todo' = [todo EXCEPT ![t] = {m \in Msgs : pos[t] < added[m] /\ added[m] <= q}]
         /\ pos' = [pos EXCEPT ![t] = q]
         /\ more' = [more EXCEPT ![t] = q < hist]
    /\ UNCHANGED <<mailbox, db, lock, stop, budget, pc, reply, start, cur, curHist, maxh, prof>>

\* Mutant: the 404 is not caught.
HistoryExpiredRaises(t) ==
    /\ AtPage(t) /\ start[t] < retained
    /\ End(t, "http500")
    /\ UNCHANGED <<mailbox, db, budget>>

HistoryExpired(t) ==
    /\ AtPage(t) /\ start[t] < retained
    /\ Goto(t, "rebase")
    /\ UNCHANGED <<mailbox, db, budget, locals>>

\* Mutant: ids are taken in no particular order.
AnyListed(t, m) == m \in todo[t]

\* The id the generator yields next: pages are chronological.
Oldest(t, m) == m \in todo[t] /\ \A n \in todo[t] : added[m] <= added[n]

\* The break of the loop; it comes before the dedup check.
StopRequested(t) ==
    /\ pc[t] = "next" /\ todo[t] # {} /\ t \in stop
    /\ Goto(t, "advance")
    /\ UNCHANGED <<mailbox, db, budget, locals>>

SkipProcessed(t, m) ==
    /\ pc[t] = "next" /\ Oldest(t, m) /\ t \notin stop
    /\ m \in processed
    /\ todo' = [todo EXCEPT ![t] = @ \ {m}]
    /\ UNCHANGED <<mailbox, db, lock, stop, budget, pc, reply,
                   start, pos, more, cur, curHist, maxh, prof>>

BeginMessage(t, m) ==
    /\ pc[t] = "next" /\ Oldest(t, m) /\ t \notin stop
    /\ m \notin processed
    /\ cur' = [cur EXCEPT ![t] = m]
    /\ Goto(t, "fetch")
    /\ UNCHANGED <<mailbox, db, budget, start, pos, todo, more, curHist, maxh, prof>>

LoopDone(t) ==
    /\ pc[t] = "next" /\ todo[t] = {} /\ ~more[t]
    /\ Goto(t, "advance")
    /\ UNCHANGED <<mailbox, db, budget, locals>>

\* Mutant: the dedup row is written before the handler runs.
FetchAndMark(t) ==
    /\ pc[t] = "fetch" /\ cur[t] \notin gone
    /\ curHist' = [curHist EXCEPT ![t] = mhist[cur[t]]]
    /\ processed' = processed \union {cur[t]}
    /\ Goto(t, "handle")
    /\ UNCHANGED <<mailbox, cursor, handled, writtenOff, budget,
                   start, pos, todo, more, cur, maxh, prof>>

FetchMessage(t) ==
    /\ pc[t] = "fetch" /\ cur[t] \notin gone
    /\ curHist' = [curHist EXCEPT ![t] = mhist[cur[t]]]
    /\ Goto(t, "handle")
    /\ UNCHANGED <<mailbox, db, budget, start, pos, todo, more, cur, maxh, prof>>

\* MessageNotFoundError: recorded as processed, and it does not move the cursor.
FetchGone(t) ==
    /\ pc[t] = "fetch" /\ cur[t] \in gone
    /\ curHist' = [curHist EXCEPT ![t] = 0]
    /\ Goto(t, "mark")
    /\ UNCHANGED <<mailbox, db, budget, start, pos, todo, more, cur, maxh, prof>>

Handle(t) ==
    /\ pc[t] = "handle"
    /\ handled' = handled \union {cur[t]}
    /\ Goto(t, "mark")
    /\ UNCHANGED <<mailbox, cursor, processed, writtenOff, budget, locals>>

\* Mutant: the whole page is recorded at once.
MarkPage(t) ==
    /\ pc[t] = "mark" /\ cur[t] \notin processed
    /\ processed' = processed \union todo[t]
    /\ maxh' = [maxh EXCEPT ![t] = IF curHist[t] > @ THEN curHist[t] ELSE @]
    /\ todo' = [todo EXCEPT ![t] = {}]
    /\ cur' = [cur EXCEPT ![t] = NoMsg]
    /\ curHist' = [curHist EXCEPT ![t] = 0]
    /\ Goto(t, "next")
    /\ UNCHANGED <<mailbox, cursor, handled, writtenOff, budget, start, pos, more, prof>>

MarkProcessed(t) ==
    /\ pc[t] = "mark" /\ cur[t] \notin processed
    /\ processed' = processed \union {cur[t]}
    /\ maxh' = [maxh EXCEPT ![t] = IF curHist[t] > @ THEN curHist[t] ELSE @]
    /\ todo' = [todo EXCEPT ![t] = @ \ {cur[t]}]
    /\ cur' = [cur EXCEPT ![t] = NoMsg]
    /\ curHist' = [curHist EXCEPT ![t] = 0]
    /\ Goto(t, "next")
    /\ UNCHANGED <<mailbox, cursor, handled, writtenOff, budget, start, pos, more, prof>>

\* Another tick marked it first: the primary key of processed_messages raises.
MarkCollision(t) ==
    /\ pc[t] = "mark" /\ cur[t] \in processed
    /\ End(t, "http500")
    /\ UNCHANGED <<mailbox, db, budget>>

CursorBehind(t) == maxh[t] > start[t] /\ maxh[t] > cursor

AdvanceNone(t) ==
    /\ pc[t] = "advance" /\ ~CursorBehind(t)
    /\ End(t, "ok")
    /\ UNCHANGED <<mailbox, db, budget>>

AdvanceCheck(t) ==
    /\ pc[t] = "advance" /\ CursorBehind(t)
    /\ Goto(t, "save")
    /\ UNCHANGED <<mailbox, db, budget, locals>>

\* Mutants: the cursor is set to the mailbox's present, or one past the message.
AdvanceToPresent(t) ==
    /\ pc[t] = "save"
    /\ cursor' = hist
    /\ End(t, "ok")
    /\ UNCHANGED <<mailbox, processed, handled, writtenOff, budget>>

AdvancePast(t) ==
    /\ pc[t] = "save"
    /\ cursor' = maxh[t] + 1
    /\ End(t, "ok")
    /\ UNCHANGED <<mailbox, processed, handled, writtenOff, budget>>

AdvanceSave(t) ==
    /\ pc[t] = "save"
    /\ cursor' = maxh[t]
    /\ End(t, "ok")
    /\ UNCHANGED <<mailbox, processed, handled, writtenOff, budget>>

RebaseProfile(t) ==
    /\ pc[t] = "rebase"
    /\ prof' = [prof EXCEPT ![t] = hist]
    /\ Goto(t, "rebaseWrite")
    /\ UNCHANGED <<mailbox, db, budget, start, pos, todo, more, cur, curHist, maxh>>

\* Mutant: the row is cleared so that the next tick takes a baseline.
RebaseClear(t) ==
    /\ pc[t] = "rebaseWrite"
    /\ cursor' = 0
    /\ writtenOff' = writtenOff \union Backlog(prof[t])
    /\ End(t, "rebaselined")
    /\ UNCHANGED <<mailbox, processed, handled, budget>>

\* Unlike AdvanceSave, written without a comparison with the row.
RebaseWrite(t) ==
    /\ pc[t] = "rebaseWrite"
    /\ cursor' = prof[t]
    /\ writtenOff' = writtenOff \union Backlog(prof[t])
    /\ End(t, "rebaselined")
    /\ UNCHANGED <<mailbox, processed, handled, budget>>

-----------------------------------------------------------------------------
(* Failures *)

\* A RefreshError from a Gmail call, or out of the handler, is caught by
\* tick_once and answered with 200 and an error text.
RefreshFails(t) ==
    /\ pc[t] \in {"profile", "fetch", "handle"} \/ AtPage(t)
    /\ Spend("fail")
    /\ End(t, "credential")
    /\ UNCHANGED <<mailbox, db>>

\* Any other exception, and a RefreshError while re-baselining: HTTP 500.
Raises(t) ==
    /\ pc[t] # "idle"
    /\ Spend("fail")
    /\ End(t, "http500")
    /\ UNCHANGED <<mailbox, db>>

\* The process is killed; its database sessions close.  It restarts with a
\* fresh stop_event.
Crash(t) ==
    /\ pc[t] # "idle" \/ t \in stop
    /\ Spend("crash")
    /\ pc' = [pc EXCEPT ![t] = "idle"]
    /\ reply' = "none"
    /\ lock' = IF lock = t THEN NoTick ELSE lock
    /\ stop' = stop \ {t}
    /\ start' = [start EXCEPT ![t] = 0]
    /\ pos' = [pos EXCEPT ![t] = 0]
    /\ todo' = [todo EXCEPT ![t] = {}]
    /\ more' = [more EXCEPT ![t] = FALSE]
    /\ cur' = [cur EXCEPT ![t] = NoMsg]
    /\ curHist' = [curHist EXCEPT ![t] = 0]
    /\ maxh' = [maxh EXCEPT ![t] = 0]
    /\ prof' = [prof EXCEPT ![t] = 0]
    /\ UNCHANGED <<mailbox, db>>

\* The lock's connection drops under a running tick: Postgres frees the lock
\* and the tick does not notice.
LockLost(t) ==
    /\ lock = t
    /\ Spend("lockloss")
    /\ lock' = NoTick
    /\ UNCHANGED <<mailbox, db, stop, pc, reply, locals>>

\* The checkpointer pool's reconnect_failed callback; a signal handler does
\* the same for run-legacy.
Unreachable(t) ==
    /\ t \notin stop
    /\ Spend("unreachable")
    /\ stop' = stop \union {t}
    /\ UNCHANGED <<mailbox, db, lock, pc, reply, locals>>

-----------------------------------------------------------------------------
MailboxStep ==
    \/ \E m \in Msgs : Arrive(m) \/ Touch(m) \/ Delete(m)
    \/ Expire

Start(t) == PollAcquire(t) \/ CliTick(t)

TickStep(t) ==
    \/ GetProfile(t) \/ BaselineCheck(t) \/ BaselineInsert(t) \/ BaselineCollision(t)
    \/ ReadCursor(t) \/ ListPage(t) \/ HistoryExpired(t) \/ StopRequested(t)
    \/ \E m \in Msgs : SkipProcessed(t, m) \/ BeginMessage(t, m)
    \/ LoopDone(t) \/ FetchMessage(t) \/ FetchGone(t) \/ Handle(t)
    \/ MarkProcessed(t) \/ MarkCollision(t)
    \/ AdvanceNone(t) \/ AdvanceCheck(t) \/ AdvanceSave(t)
    \/ RebaseProfile(t) \/ RebaseWrite(t)

FaultStep(t) ==
    \/ RefreshFails(t) \/ Raises(t) \/ Crash(t) \/ LockLost(t) \/ Unreachable(t)

Next ==
    \/ MailboxStep
    \/ \E t \in Ticks : Start(t) \/ PollConflict(t) \/ TickStep(t) \/ FaultStep(t)

Spec == Init /\ [][Next]_vars

\* A tick that started takes its next step, and the scheduler keeps calling
\* while no tick runs.
Fairness ==
    /\ \A t \in Ticks : WF_vars(TickStep(t))
    /\ WF_vars(\E t \in Ticks : Start(t))

FairSpec == Spec /\ Fairness

-----------------------------------------------------------------------------
(* Properties *)

\* Every message whose record the stored cursor has passed was processed or
\* knowingly written off by a (re-)baseline: history.list will never report it
\* again (poller.py, the cursor advance at the end of _run_tick).
NoMessageLost == \A m \in Msgs : Arrived(m) /\ added[m] <= cursor => m \in Settled

\* poll.py and advisory_lock.py: at most one tick in flight system-wide.
AtMostOneTick == \A t, u \in Ticks : pc[t] # "idle" /\ pc[u] # "idle" => t = u

\* An insert into processed_messages or gmail_sync_state never meets a row
\* another tick put there after this tick looked (_process_message checks in
\* one transaction and inserts in another, so does _baseline_if_needed).
NoKeyCollision ==
    \A t \in Ticks : /\ pc[t] = "mark" => cur[t] \notin processed
                     /\ pc[t] = "insert" => cursor = 0

\* Only what the handler returned for, or what vanished from the mailbox, is
\* recorded as processed, whatever crashes and overlaps occur.
ProcessedWasHandled == processed \subseteq handled \union gone

\* Messages are settled oldest first: a processed one has no unsettled elder,
\* so the backlog is always a suffix of the arrivals.
OldestFirst ==
    \A m, n \in Msgs :
        m \in processed /\ Arrived(n) /\ added[n] < added[m] => n \in Settled

\* The stored cursor never moves back (_rebaseline writes it unconditionally,
\* _run_tick writes what it compared in an earlier statement).
CursorMonotone == [][cursor' >= cursor]_vars

\* A tick that was not asked to stop and answers 200 without an error has
\* processed everything that had arrived, past its start cursor, when it asked
\* for the profile.
OkTickDrained ==
    [][\A t \in Ticks \ stop :
          pc[t] \in {"advance", "save"} /\ reply' = "ok" /\ pc'[t] = "idle" =>
            \A m \in Msgs : start[t] < added[m] /\ added[m] <= prof[t] => m \in processed]_vars

\* Dealt with oldest first, never forgotten: the poller implements MailQueue.
Queue == INSTANCE MailQueue WITH
    Stamps <- HistIds, arrival <- added, done <- processed, dropped <- writtenOff
ImplementsMailQueue == Queue!Spec

\* Every message is eventually processed or written off.
EventuallySettled == \A m \in Msgs : Arrived(m) ~> m \in Settled

=============================================================================
