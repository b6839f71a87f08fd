---------------------------- MODULE PollerProofs ----------------------------
(***************************************************************************)
(* Proofs about Poller for any number of callers, messages and faults:     *)
(*   - types, and that what is recorded as processed was handled or gone;  *)
(*   - with no label change, whatever overlaps, crashes or expires: no     *)
(*     message is passed over, and MailQueue is implemented;               *)
(*   - with every caller behind a lock that is not lost: one tick at a     *)
(*     time, no key collision, a cursor that never moves back;             *)
(*   - a tick that answers ok has processed what it asked for.             *)
(* Each rests on an invariant of its own, preserved group of actions by    *)
(* group of actions.                                                       *)
(***************************************************************************)
EXTENDS Poller, TLAPS

Working(t) == pc[t] \in {"fetch", "handle", "mark"}

\* While a message is being processed the loop still holds it.
HoldsMessage == \A t \in Ticks : Working(t) => cur[t] \in todo[t]

TypeInv == TypeOK /\ HoldsMessage

LEMMA TypeInit == Init => TypeInv
BY CallersAssumption, MsgsAssumption, BoundsAssumption
DEF Init, TypeInv, TypeOK, HoldsMessage, Working, HistIds, Steps, Replies, Faults

LEMMA TypeStep == TypeInv /\ [Next]_vars => TypeInv'
<1> SUFFICES ASSUME TypeInv, [Next]_vars PROVE TypeInv'
  OBVIOUS
<1> USE CallersAssumption, MsgsAssumption, BoundsAssumption
    DEF TypeInv, TypeOK, HoldsMessage, Working, HistIds, Steps, Replies,
        mailbox, db, locals
<1>0. CASE UNCHANGED vars
  BY <1>0 DEF vars
<1>1. ASSUME NEW m \in Msgs, Arrive(m) PROVE TypeInv'
  BY <1>1 DEF Arrive
<1>2. ASSUME NEW m \in Msgs, Touch(m) PROVE TypeInv'
  BY <1>2 DEF Touch, Spend, Faults
<1>3. ASSUME NEW m \in Msgs, Delete(m) PROVE TypeInv'
  BY <1>3 DEF Delete, Spend, Faults
<1>4. ASSUME Expire PROVE TypeInv'
  BY <1>4 DEF Expire, Spend, Faults
<1>5. ASSUME NEW t \in Ticks, PollAcquire(t) \/ CliTick(t) \/ PollConflict(t)
      PROVE  TypeInv'
  BY <1>5 DEF PollAcquire, CliTick, PollConflict, Begin
<1>6. ASSUME NEW t \in Ticks, GetProfile(t) \/ RebaseProfile(t) PROVE TypeInv'
  BY <1>6 DEF GetProfile, RebaseProfile, Goto
<1>7. ASSUME NEW t \in Ticks, BaselineCheck(t) \/ HistoryExpired(t) \/
    StopRequested(t) \/ LoopDone(t) \/ AdvanceCheck(t)
      PROVE  TypeInv'
  BY <1>7 DEF BaselineCheck, HistoryExpired, StopRequested, LoopDone,
      AdvanceCheck, CursorBehind, AtPage, Goto
<1>8. ASSUME NEW t \in Ticks, BaselineInsert(t) PROVE TypeInv'
  BY <1>8 DEF BaselineInsert, Backlog, End
<1>9. ASSUME NEW t \in Ticks, BaselineCollision(t) PROVE TypeInv'
  BY <1>9 DEF BaselineCollision, End
<1>10. ASSUME NEW t \in Ticks, MarkCollision(t) PROVE TypeInv'
  BY <1>10 DEF MarkCollision, End
<1>11. ASSUME NEW t \in Ticks, AdvanceNone(t) PROVE TypeInv'
  BY <1>11 DEF AdvanceNone, End
<1>12. ASSUME NEW t \in Ticks, ReadCursor(t) PROVE TypeInv'
  BY <1>12 DEF ReadCursor, Goto
<1>13. ASSUME NEW t \in Ticks, ListPage(t) PROVE TypeInv'
  BY <1>13 DEF ListPage, AtPage
<1>14. ASSUME NEW t \in Ticks, NEW m \in Msgs, SkipProcessed(t, m)
      PROVE  TypeInv'
  BY <1>14 DEF SkipProcessed
<1>15. ASSUME NEW t \in Ticks, NEW m \in Msgs, BeginMessage(t, m) PROVE TypeInv'
  BY <1>15 DEF BeginMessage, Oldest, Goto
<1>16. ASSUME NEW t \in Ticks, FetchMessage(t) \/ FetchGone(t) PROVE TypeInv'
  BY <1>16 DEF FetchMessage, FetchGone, Goto
<1>17. ASSUME NEW t \in Ticks, Handle(t) PROVE TypeInv'
  BY <1>17 DEF Handle, Goto
<1>18. ASSUME NEW t \in Ticks, MarkProcessed(t) PROVE TypeInv'
  BY <1>18 DEF MarkProcessed, Goto
<1>19. ASSUME NEW t \in Ticks, AdvanceSave(t) PROVE TypeInv'
  BY <1>19 DEF AdvanceSave, End
<1>20. ASSUME NEW t \in Ticks, RebaseWrite(t) PROVE TypeInv'
  BY <1>20 DEF RebaseWrite, Backlog, End
<1>21. ASSUME NEW t \in Ticks, RefreshFails(t) PROVE TypeInv'
  BY <1>21 DEF RefreshFails, End, Spend, Faults
<1>22. ASSUME NEW t \in Ticks, Raises(t) PROVE TypeInv'
  BY <1>22 DEF Raises, End, Spend, Faults
<1>23. ASSUME NEW t \in Ticks, Crash(t) PROVE TypeInv'
  BY <1>23 DEF Crash, Spend, Faults
<1>24. ASSUME NEW t \in Ticks, LockLost(t) \/ Unreachable(t) PROVE TypeInv'
  BY <1>24 DEF LockLost, Unreachable, Spend, Faults
<1> QED BY <1>0, <1>1, <1>2, <1>3, <1>4, <1>5, <1>6, <1>7, <1>8, <1>9, <1>10,
    <1>11, <1>12, <1>13, <1>14, <1>15, <1>16, <1>17, <1>18, <1>19, <1>20,
    <1>21, <1>22, <1>23, <1>24 DEF Next, MailboxStep, Start, TickStep,
    FaultStep

\* Every variable keeps its type, whatever the callers and the faults.
THEOREM TypeCorrect == Spec => []TypeOK
<1>1. TypeInv => TypeOK
  BY DEF TypeInv
<1> QED BY <1>1, TypeInit, TypeStep, PTL DEF Spec

LEMMA TypeInvariant == Spec => []TypeInv
BY TypeInit, TypeStep, PTL DEF Spec

-----------------------------------------------------------------------------
(* What is recorded as processed was handled, or had vanished. *)

\* _mark_processed is reached only behind the handler or a 404.
MarksHandled == \A t \in Ticks : pc[t] = "mark" => cur[t] \in handled \union gone

HandledInv == ProcessedWasHandled /\ MarksHandled

LEMMA HandledStep == TypeInv /\ HandledInv /\ [Next]_vars => HandledInv'
<1> SUFFICES ASSUME TypeInv, HandledInv, [Next]_vars PROVE HandledInv'
  OBVIOUS
<1> USE DEF TypeInv, TypeOK, HandledInv, ProcessedWasHandled, MarksHandled, Steps,
        mailbox, db, locals
<1>0. CASE UNCHANGED vars
  BY <1>0 DEF vars
<1>1. ASSUME NEW m \in Msgs, Arrive(m) PROVE HandledInv'
  BY <1>1 DEF Arrive
<1>2. ASSUME NEW m \in Msgs, Touch(m) PROVE HandledInv'
  BY <1>2 DEF Touch, Spend, Faults
<1>3. ASSUME NEW m \in Msgs, Delete(m) PROVE HandledInv'
  BY <1>3 DEF Delete, Spend, Faults
<1>4. ASSUME Expire PROVE HandledInv'
  BY <1>4 DEF Expire, Spend, Faults
<1>5. ASSUME NEW t \in Ticks, PollAcquire(t) \/ CliTick(t) \/ PollConflict(t)
      PROVE  HandledInv'
  BY <1>5 DEF PollAcquire, CliTick, PollConflict, Begin
<1>6. ASSUME NEW t \in Ticks, GetProfile(t) \/ RebaseProfile(t)
      PROVE  HandledInv'
  BY <1>6 DEF GetProfile, RebaseProfile, Goto
<1>7. ASSUME NEW t \in Ticks, BaselineCheck(t) \/ HistoryExpired(t) \/
    StopRequested(t) \/ LoopDone(t) \/ AdvanceCheck(t)
      PROVE  HandledInv'
  BY <1>7 DEF BaselineCheck, HistoryExpired, StopRequested, LoopDone,
      AdvanceCheck, CursorBehind, AtPage, Goto
<1>8. ASSUME NEW t \in Ticks, BaselineInsert(t) PROVE HandledInv'
  BY <1>8 DEF BaselineInsert, Backlog, End
<1>9. ASSUME NEW t \in Ticks, BaselineCollision(t) PROVE HandledInv'
  BY <1>9 DEF BaselineCollision, End
<1>10. ASSUME NEW t \in Ticks, MarkCollision(t) PROVE HandledInv'
  BY <1>10 DEF MarkCollision, End
<1>11. ASSUME NEW t \in Ticks, AdvanceNone(t) PROVE HandledInv'
  BY <1>11 DEF AdvanceNone, End
<1>12. ASSUME NEW t \in Ticks, ReadCursor(t) PROVE HandledInv'
  BY <1>12 DEF ReadCursor, Goto
<1>13. ASSUME NEW t \in Ticks, ListPage(t) PROVE HandledInv'
  BY <1>13 DEF ListPage, AtPage
<1>14. ASSUME NEW t \in Ticks, NEW m \in Msgs, SkipProcessed(t, m)
      PROVE  HandledInv'
  BY <1>14 DEF SkipProcessed
<1>15. ASSUME NEW t \in Ticks, NEW m \in Msgs, BeginMessage(t, m)
      PROVE  HandledInv'
  BY <1>15 DEF BeginMessage, Oldest, Goto
<1>16. ASSUME NEW t \in Ticks, FetchMessage(t) \/ FetchGone(t) PROVE HandledInv'
  BY <1>16 DEF FetchMessage, FetchGone, Goto
<1>17. ASSUME NEW t \in Ticks, Handle(t) PROVE HandledInv'
  BY <1>17 DEF Handle, Goto
<1>18. ASSUME NEW t \in Ticks, MarkProcessed(t) PROVE HandledInv'
  BY <1>18 DEF MarkProcessed, Goto
<1>19. ASSUME NEW t \in Ticks, AdvanceSave(t) PROVE HandledInv'
  BY <1>19 DEF AdvanceSave, End
<1>20. ASSUME NEW t \in Ticks, RebaseWrite(t) PROVE HandledInv'
  BY <1>20 DEF RebaseWrite, Backlog, End
<1>21. ASSUME NEW t \in Ticks, RefreshFails(t) PROVE HandledInv'
  BY <1>21 DEF RefreshFails, End, Spend, Faults
<1>22. ASSUME NEW t \in Ticks, Raises(t) PROVE HandledInv'
  BY <1>22 DEF Raises, End, Spend, Faults
<1>23. ASSUME NEW t \in Ticks, Crash(t) PROVE HandledInv'
  BY <1>23 DEF Crash, Spend, Faults
<1>24. ASSUME NEW t \in Ticks, LockLost(t) \/ Unreachable(t) PROVE HandledInv'
  BY <1>24 DEF LockLost, Unreachable, Spend, Faults
<1> QED BY <1>0, <1>1, <1>2, <1>3, <1>4, <1>5, <1>6, <1>7, <1>8, <1>9, <1>10,
    <1>11, <1>12, <1>13, <1>14, <1>15, <1>16, <1>17, <1>18, <1>19, <1>20,
    <1>21, <1>22, <1>23, <1>24 DEF Next, MailboxStep, Start, TickStep,
    FaultStep

\* The dedup row is written only for a message the handler returned for or
\* Gmail no longer has: no crash, overlap or failure turns an unhandled message
\* into a processed one.
THEOREM ProcessedHandled == Spec => []ProcessedWasHandled
<1>1. Init => HandledInv
  BY DEF Init, HandledInv, ProcessedWasHandled, MarksHandled
<1>2. HandledInv => ProcessedWasHandled
  BY DEF HandledInv
<1> QED BY <1>1, <1>2, TypeInvariant, HandledStep, PTL DEF Spec

-----------------------------------------------------------------------------
(* Without label changes no message is passed over. *)

CoveredTo(h) == \A m \in Msgs : Arrived(m) /\ added[m] <= h => m \in Settled

\* A message's historyId is that of its arrival while no label changes.
Untouched == budget["touch"] = 0 /\ mhist = added

\* The mailbox numbers arrivals apart, and nothing is ahead of its present.
Chronology ==
    /\ \A m \in Msgs : added[m] <= hist
    /\ \A m, n \in Msgs : Arrived(m) /\ added[m] = added[n] => m = n
    /\ \A m \in processed : Arrived(m)
    /\ cursor <= hist
    /\ \A t \in Ticks : pos[t] <= hist /\ maxh[t] <= hist /\ prof[t] <= hist

\* Before it reads the cursor a tick has nothing to do.
Fresh(t) == pc[t] \in {"idle", "profile", "baseline", "insert", "read"} => todo[t] = {}

\* What it holds it has listed, and what it has listed is settled or held.
ListedOnly(t) == \A m \in todo[t] : Arrived(m) /\ added[m] <= pos[t]
NothingSkipped(t) ==
    \A m \in Msgs : Arrived(m) /\ added[m] <= pos[t] => m \in Settled \union todo[t]

\* It works on the oldest message it holds, and reports that one's history id.
OnOldest(t) == /\ Working(t) => Oldest(t, cur[t])
               /\ pc[t] \in {"handle", "mark"} => curHist[t] \in {0, added[cur[t]]}

LoopInv ==
    \A t \in Ticks : /\ CoveredTo(maxh[t]) /\ Fresh(t) /\ ListedOnly(t)
                     /\ NothingSkipped(t) /\ OnOldest(t)

SafeInv == /\ Untouched /\ Chronology /\ LoopInv
           /\ CoveredTo(cursor) /\ OldestFirst

LEMMA SafeInit ==
  ASSUME Budget["touch"] = 0
  PROVE  Init => SafeInv
BY DEF Init, SafeInv, Untouched, Chronology, LoopInv, CoveredTo, Fresh, ListedOnly,
       NothingSkipped, OnOldest, OldestFirst, Arrived, Settled, Working

LEMMA SafeStep == TypeInv /\ SafeInv /\ [Next]_vars => SafeInv'
<1> SUFFICES ASSUME TypeInv, SafeInv, [Next]_vars PROVE SafeInv'
  OBVIOUS
<1> USE MsgsAssumption, BoundsAssumption
    DEF TypeInv, TypeOK, HoldsMessage, HistIds, Steps, SafeInv, Untouched, Chronology,
        LoopInv, CoveredTo, Fresh, ListedOnly, NothingSkipped, OnOldest, OldestFirst,
        Arrived, Settled, Working, Oldest,
        mailbox, db, locals
<1>0. CASE UNCHANGED vars
  BY <1>0 DEF vars
<1>1. ASSUME NEW m \in Msgs, Arrive(m) PROVE SafeInv'
  <2>1. /\ hist' = hist + 1 /\ added' = [added EXCEPT ![m] = hist + 1]
        /\ mhist' = [mhist EXCEPT ![m] = hist + 1] /\ added[m] = 0
        /\ UNCHANGED <<db, budget, pc, locals>>
    BY <1>1 DEF Arrive
  <2>2. Untouched' /\ Chronology'
    BY <2>1
  <2>3. \A n \in Msgs, h \in HistIds :
          Arrived(n)' /\ added'[n] <= h /\ h <= hist => Arrived(n) /\ added[n] <= h
    BY <2>1
  <2>4. CoveredTo(cursor)' /\ OldestFirst'
    <3>1. CoveredTo(cursor)'
      BY <2>1, <2>3
    <3>2. m \notin processed
      BY <2>1
    <3>3. ASSUME NEW k \in Msgs, NEW n \in Msgs,
                 k \in processed', Arrived(n)', added'[n] < added'[k]
          PROVE  n \in Settled'
      <4>1. n # m /\ k # m
        BY <2>1, <3>2, <3>3
      <4> QED BY <2>1, <3>3, <4>1
    <3> QED BY <3>1, <3>3
  <2>5. ASSUME NEW t \in Ticks PROVE CoveredTo(maxh[t])'
    <3>1. ASSUME NEW n \in Msgs, Arrived(n)', added'[n] <= maxh'[t] PROVE n \in Settled'
      <4>1. maxh[t] \in HistIds /\ maxh[t] <= hist /\ maxh'[t] = maxh[t]
        BY <2>1
      <4>2. Arrived(n) /\ added[n] <= maxh[t]
        BY <2>3, <3>1, <4>1
      <4> QED BY <2>1, <4>2
    <3> QED BY <3>1
  <2>6. ASSUME NEW t \in Ticks PROVE Fresh(t)' /\ ListedOnly(t)'
    <3>1. m \notin todo[t]
      BY <2>1
    <3> QED BY <2>1, <3>1
  <2>7. ASSUME NEW t \in Ticks PROVE NothingSkipped(t)'
    BY <2>1, <2>3
  <2>8. ASSUME NEW t \in Ticks PROVE OnOldest(t)'
    BY <2>1
  <2> QED BY <2>2, <2>4, <2>5, <2>7, <2>8, <2>6
<1>2. ASSUME NEW m \in Msgs, Touch(m) PROVE SafeInv'
  BY <1>2 DEF Touch, Spend, Faults
<1>3. ASSUME NEW m \in Msgs, Delete(m) PROVE SafeInv'
  BY <1>3 DEF Delete, Spend, Faults
<1>4. ASSUME Expire PROVE SafeInv'
  BY <1>4 DEF Expire, Spend, Faults
<1>5. ASSUME NEW t \in Ticks, PollAcquire(t) \/ CliTick(t) \/ PollConflict(t)
      PROVE  SafeInv'
  BY <1>5 DEF PollAcquire, CliTick, PollConflict, Begin
<1>6. ASSUME NEW t \in Ticks, GetProfile(t) \/ RebaseProfile(t) PROVE SafeInv'
  BY <1>6 DEF GetProfile, RebaseProfile, Goto
<1>7. ASSUME NEW t \in Ticks, BaselineCheck(t) \/ HistoryExpired(t) \/
    StopRequested(t) \/ LoopDone(t) \/ AdvanceCheck(t)
      PROVE  SafeInv'
  BY <1>7 DEF BaselineCheck, HistoryExpired, StopRequested, LoopDone,
      AdvanceCheck, CursorBehind, AtPage, Goto
<1>8. ASSUME NEW t \in Ticks, BaselineInsert(t) PROVE SafeInv'
  BY <1>8 DEF BaselineInsert, Backlog, End
<1>9. ASSUME NEW t \in Ticks, BaselineCollision(t) PROVE SafeInv'
  BY <1>9 DEF BaselineCollision, End
<1>10. ASSUME NEW t \in Ticks, MarkCollision(t) PROVE SafeInv'
  BY <1>10 DEF MarkCollision, End
<1>11. ASSUME NEW t \in Ticks, AdvanceNone(t) PROVE SafeInv'
  BY <1>11 DEF AdvanceNone, End
<1>12. ASSUME NEW t \in Ticks, ReadCursor(t) PROVE SafeInv'
  BY <1>12 DEF ReadCursor, Goto
<1>13. ASSUME NEW t \in Ticks, ListPage(t) PROVE SafeInv'
  BY <1>13 DEF ListPage, AtPage
<1>14. ASSUME NEW t \in Ticks, NEW m \in Msgs, SkipProcessed(t, m)
      PROVE  SafeInv'
  BY <1>14 DEF SkipProcessed
<1>15. ASSUME NEW t \in Ticks, NEW m \in Msgs, BeginMessage(t, m) PROVE SafeInv'
  BY <1>15 DEF BeginMessage, Oldest, Goto
<1>16. ASSUME NEW t \in Ticks, FetchMessage(t) \/ FetchGone(t) PROVE SafeInv'
  BY <1>16 DEF FetchMessage, FetchGone, Goto
<1>17. ASSUME NEW t \in Ticks, Handle(t) PROVE SafeInv'
  BY <1>17 DEF Handle, Goto
<1>18. ASSUME NEW t \in Ticks, MarkProcessed(t) PROVE SafeInv'
  <2> DEFINE c == cur[t]
  <2>1. /\ c \in todo[t] /\ c \in Msgs /\ Oldest(t, c)
        /\ Arrived(c) /\ added[c] <= pos[t] /\ curHist[t] \in {0, added[c]}
    BY <1>18 DEF MarkProcessed
  <2>2. /\ processed' = processed \union {c}
        /\ todo' = [todo EXCEPT ![t] = @ \ {c}]
        /\ pc' = [pc EXCEPT ![t] = "next"]
        /\ maxh' = [maxh EXCEPT ![t] = IF curHist[t] > @ THEN curHist[t] ELSE @]
        /\ UNCHANGED <<mailbox, cursor, writtenOff, budget, pos, prof>>
    BY <1>18 DEF MarkProcessed, Goto
  <2>3. ASSUME NEW n \in Msgs, Arrived(n), added[n] <= added[c] PROVE n \in Settled'
    <3>1. CASE n \in todo[t]
      <4>1. added[c] <= added[n]
        BY <2>1, <3>1
      <4>2. added[c] \in Int /\ added[n] \in Int
        BY <2>1
      <4>3. added[c] = added[n]
        BY ONLY <2>3, <4>1, <4>2
      <4> QED BY <2>1, <2>2, <2>3, <4>3
    <3>2. CASE n \notin todo[t]
      <4>1. added[n] <= pos[t]
        BY <2>1, <2>3
      <4> QED BY <2>2, <2>3, <3>2, <4>1
    <3> QED BY <3>1, <3>2
  <2>4. Untouched' /\ Chronology'
    <3>1. curHist[t] \in HistIds /\ curHist[t] <= hist /\ maxh[t] <= hist
      BY <2>1
    <3>2. \A u \in Ticks : maxh'[u] <= hist
      BY <2>2, <3>1
    <3> QED BY <2>1, <2>2, <3>2
  <2>5. CoveredTo(cursor)' /\ OldestFirst'
    BY <2>1, <2>2, <2>3
  <2>6. ASSUME NEW u \in Ticks PROVE CoveredTo(maxh[u])'
    BY <2>1, <2>2, <2>3
  <2>7. ASSUME NEW u \in Ticks PROVE Fresh(u)' /\ ListedOnly(u)' /\ NothingSkipped(u)'
    BY <2>1, <2>2
  <2>8. ASSUME NEW u \in Ticks PROVE OnOldest(u)'
    BY <1>18, <2>1, <2>2 DEF MarkProcessed
  <2> QED BY <2>4, <2>5, <2>6, <2>7, <2>8
<1>19. ASSUME NEW t \in Ticks, AdvanceSave(t) PROVE SafeInv'
  BY <1>19 DEF AdvanceSave, End
<1>20. ASSUME NEW t \in Ticks, RebaseWrite(t) PROVE SafeInv'
  BY <1>20 DEF RebaseWrite, Backlog, End
<1>21. ASSUME NEW t \in Ticks, RefreshFails(t) PROVE SafeInv'
  BY <1>21 DEF RefreshFails, End, Spend, Faults
<1>22. ASSUME NEW t \in Ticks, Raises(t) PROVE SafeInv'
  BY <1>22 DEF Raises, End, Spend, Faults
<1>23. ASSUME NEW t \in Ticks, Crash(t) PROVE SafeInv'
  BY <1>23 DEF Crash, Spend, Faults
<1>24. ASSUME NEW t \in Ticks, LockLost(t) \/ Unreachable(t) PROVE SafeInv'
  BY <1>24 DEF LockLost, Unreachable, Spend, Faults
<1> QED BY <1>0, <1>1, <1>2, <1>3, <1>4, <1>5, <1>6, <1>7, <1>8, <1>9, <1>10,
    <1>11, <1>12, <1>13, <1>14, <1>15, <1>16, <1>17, <1>18, <1>19, <1>20,
    <1>21, <1>22, <1>23, <1>24 DEF Next, MailboxStep, Start, TickStep,
    FaultStep

\* Without label changes no message is passed over: every message the stored
\* cursor has passed was processed or written off, whichever ticks overlap,
\* with or without the lock.
THEOREM NothingLost ==
  ASSUME Budget["touch"] = 0
  PROVE  Spec => []NoMessageLost
<1>1. SafeInv => NoMessageLost
  BY DEF SafeInv, CoveredTo, NoMessageLost
<1> QED BY <1>1, SafeInit, TypeInvariant, SafeStep, PTL DEF Spec

\* Nor is one processed before its elders are settled.
THEOREM ChronologicalOrder ==
  ASSUME Budget["touch"] = 0
  PROVE  Spec => []OldestFirst
<1>1. SafeInv => OldestFirst
  BY DEF SafeInv
<1> QED BY <1>1, SafeInit, TypeInvariant, SafeStep, PTL DEF Spec

-----------------------------------------------------------------------------
(* The poller implements MailQueue. *)

LEMMA QueueInit == Init => Queue!Init
BY DEF Init, Queue!Init

\* Arrivals, dedup rows and (re-)baselines are the abstract steps; every other
\* step of the poller is invisible.
LEMMA QueueStep == TypeInv /\ SafeInv /\ [Next]_vars => [Queue!Next]_Queue!vars
<1> SUFFICES ASSUME TypeInv, SafeInv, [Next]_vars PROVE [Queue!Next]_Queue!vars
  OBVIOUS
<1> USE DEF mailbox, db, Queue!vars
<1>0. CASE UNCHANGED vars
  BY <1>0 DEF vars
<1>1. ASSUME NEW m \in Msgs, Arrive(m) PROVE [Queue!Next]_Queue!vars
  <2>1. hist + 1 \in HistIds /\ \A n \in Msgs : added[n] < hist + 1
    BY <1>1, BoundsAssumption
    DEF Arrive, TypeInv, TypeOK, HistIds, SafeInv, Chronology
  <2>2. /\ added[m] = 0 /\ added' = [added EXCEPT ![m] = hist + 1]
        /\ processed' = processed /\ writtenOff' = writtenOff
    BY <1>1 DEF Arrive, Arrived, TypeInv, TypeOK, HistIds
  <2>3. Queue!Arrive(m)
    BY <2>1, <2>2 DEF Queue!Arrive
  <2> QED BY <2>3 DEF Queue!Next
<1>2. ASSUME NEW m \in Msgs, Touch(m) PROVE [Queue!Next]_Queue!vars
  BY <1>2 DEF Touch, Spend, Faults
<1>3. ASSUME NEW m \in Msgs, Delete(m) PROVE [Queue!Next]_Queue!vars
  BY <1>3 DEF Delete, Spend, Faults
<1>4. ASSUME Expire PROVE [Queue!Next]_Queue!vars
  BY <1>4 DEF Expire, Spend, Faults
<1>5. ASSUME NEW t \in Ticks, PollAcquire(t) \/ CliTick(t) \/ PollConflict(t)
      PROVE  [Queue!Next]_Queue!vars
  BY <1>5 DEF PollAcquire, CliTick, PollConflict, Begin
<1>6. ASSUME NEW t \in Ticks, GetProfile(t) \/ RebaseProfile(t)
      PROVE  [Queue!Next]_Queue!vars
  BY <1>6 DEF GetProfile, RebaseProfile, Goto
<1>7. ASSUME NEW t \in Ticks, BaselineCheck(t) \/ HistoryExpired(t) \/
    StopRequested(t) \/ LoopDone(t) \/ AdvanceCheck(t)
      PROVE  [Queue!Next]_Queue!vars
  BY <1>7 DEF BaselineCheck, HistoryExpired, StopRequested, LoopDone,
      AdvanceCheck, CursorBehind, AtPage, Goto
<1>8. ASSUME NEW t \in Ticks, BaselineInsert(t) PROVE [Queue!Next]_Queue!vars
  <2>1. prof[t] \in HistIds
    BY DEF TypeInv, TypeOK
  <2>2. Queue!WriteOff(prof[t])
    BY <1>8 DEF BaselineInsert, Backlog, Arrived, Queue!WriteOff, Queue!Waiting
  <2> QED BY <2>1, <2>2 DEF Queue!Next
<1>9. ASSUME NEW t \in Ticks, BaselineCollision(t) PROVE [Queue!Next]_Queue!vars
  BY <1>9 DEF BaselineCollision, End
<1>10. ASSUME NEW t \in Ticks, MarkCollision(t) PROVE [Queue!Next]_Queue!vars
  BY <1>10 DEF MarkCollision, End
<1>11. ASSUME NEW t \in Ticks, AdvanceNone(t) PROVE [Queue!Next]_Queue!vars
  BY <1>11 DEF AdvanceNone, End
<1>12. ASSUME NEW t \in Ticks, ReadCursor(t) PROVE [Queue!Next]_Queue!vars
  BY <1>12 DEF ReadCursor, Goto
<1>13. ASSUME NEW t \in Ticks, ListPage(t) PROVE [Queue!Next]_Queue!vars
  BY <1>13 DEF ListPage, AtPage
<1>14. ASSUME NEW t \in Ticks, NEW m \in Msgs, SkipProcessed(t, m)
      PROVE  [Queue!Next]_Queue!vars
  BY <1>14 DEF SkipProcessed
<1>15. ASSUME NEW t \in Ticks, NEW m \in Msgs, BeginMessage(t, m)
      PROVE  [Queue!Next]_Queue!vars
  BY <1>15 DEF BeginMessage, Oldest, Goto
<1>16. ASSUME NEW t \in Ticks, FetchMessage(t) \/ FetchGone(t)
      PROVE  [Queue!Next]_Queue!vars
  BY <1>16 DEF FetchMessage, FetchGone, Goto
<1>17. ASSUME NEW t \in Ticks, Handle(t) PROVE [Queue!Next]_Queue!vars
  BY <1>17 DEF Handle, Goto
<1>18. ASSUME NEW t \in Ticks, MarkProcessed(t) PROVE [Queue!Next]_Queue!vars
  <2>1. cur[t] \in todo[t] /\ Oldest(t, cur[t])
    BY <1>18 DEF MarkProcessed, TypeInv, HoldsMessage, SafeInv, LoopInv, OnOldest, Working
  <2>2. cur[t] \in Msgs /\ added[cur[t]] > 0 /\ added[cur[t]] <= pos[t]
    BY <2>1 DEF TypeInv, TypeOK, SafeInv, LoopInv, ListedOnly, Arrived
  <2>3. ASSUME NEW n \in Msgs, Queue!Waiting(n) PROVE added[cur[t]] <= added[n]
    <3>1. n \in todo[t] => added[cur[t]] <= added[n]
      BY <2>1 DEF Oldest
    <3>2. n \notin todo[t] => ~(added[n] <= pos[t])
      BY <2>3 DEF SafeInv, LoopInv, NothingSkipped, Queue!Waiting, Arrived, Settled
    <3> QED BY <2>2, <3>1, <3>2 DEF TypeInv, TypeOK, HistIds
  <2>4. Queue!Deal(cur[t])
    BY <1>18, <2>2, <2>3 DEF MarkProcessed, Queue!Deal
  <2> QED BY <2>2, <2>4 DEF Queue!Next
<1>19. ASSUME NEW t \in Ticks, AdvanceSave(t) PROVE [Queue!Next]_Queue!vars
  BY <1>19 DEF AdvanceSave, End
<1>20. ASSUME NEW t \in Ticks, RebaseWrite(t) PROVE [Queue!Next]_Queue!vars
  <2>1. prof[t] \in HistIds
    BY DEF TypeInv, TypeOK
  <2>2. Queue!WriteOff(prof[t])
    BY <1>20 DEF RebaseWrite, Backlog, Arrived, Queue!WriteOff, Queue!Waiting
  <2> QED BY <2>1, <2>2 DEF Queue!Next
<1>21. ASSUME NEW t \in Ticks, RefreshFails(t) PROVE [Queue!Next]_Queue!vars
  BY <1>21 DEF RefreshFails, End, Spend, Faults
<1>22. ASSUME NEW t \in Ticks, Raises(t) PROVE [Queue!Next]_Queue!vars
  BY <1>22 DEF Raises, End, Spend, Faults
<1>23. ASSUME NEW t \in Ticks, Crash(t) PROVE [Queue!Next]_Queue!vars
  BY <1>23 DEF Crash, Spend, Faults
<1>24. ASSUME NEW t \in Ticks, LockLost(t) \/ Unreachable(t)
      PROVE  [Queue!Next]_Queue!vars
  BY <1>24 DEF LockLost, Unreachable, Spend, Faults
<1> QED BY <1>0, <1>1, <1>2, <1>3, <1>4, <1>5, <1>6, <1>7, <1>8, <1>9, <1>10,
    <1>11, <1>12, <1>13, <1>14, <1>15, <1>16, <1>17, <1>18, <1>19, <1>20,
    <1>21, <1>22, <1>23, <1>24 DEF Next, MailboxStep, Start, TickStep,
    FaultStep

\* Without label changes the poller, with any number of overlapping and dying
\* ticks, is a queue that deals with mail oldest first and forgets none.
THEOREM Implementation ==
  ASSUME Budget["touch"] = 0
  PROVE  Spec => ImplementsMailQueue
BY SafeInit, QueueInit, TypeInvariant, SafeStep, QueueStep, PTL
DEF Spec, ImplementsMailQueue, Queue!Spec

-----------------------------------------------------------------------------
(* Behind the advisory lock. *)

\* Whoever runs a tick holds the lock.
Locked == budget["lockloss"] = 0 /\ \A t \in Ticks : pc[t] # "idle" => lock = t

\* No history id ever seen is ahead of the mailbox.
NotAhead ==
    /\ cursor <= hist /\ \A m \in Msgs : mhist[m] <= hist
    /\ \A t \in Ticks : curHist[t] <= hist /\ maxh[t] <= hist /\ prof[t] <= hist

\* What the tick in flight found is still so.
StillTrue(t) ==
    /\ Working(t) => cur[t] \notin processed
    /\ pc[t] = "insert" => cursor = 0
    /\ pc[t] = "save" => maxh[t] > cursor
    /\ pc[t] = "rebaseWrite" => prof[t] >= cursor

LockInv == Locked /\ NotAhead /\ \A t \in Ticks : StillTrue(t)

LEMMA LockInit ==
  ASSUME Budget["lockloss"] = 0
  PROVE  Init => LockInv
BY DEF Init, LockInv, Locked, NotAhead, StillTrue, Working

LEMMA LockStep ==
  ASSUME CliTicks = {}
  PROVE  TypeInv /\ LockInv /\ [Next]_vars => LockInv'
<1> SUFFICES ASSUME TypeInv, LockInv, [Next]_vars PROVE LockInv'
  OBVIOUS
<1> USE CallersAssumption, MsgsAssumption, BoundsAssumption
    DEF TypeInv, TypeOK, HoldsMessage, HistIds, Steps, LockInv, Locked, NotAhead, StillTrue,
        Working, mailbox, db, locals
<1>0. CASE UNCHANGED vars
  BY <1>0 DEF vars
<1>1. ASSUME NEW m \in Msgs, Arrive(m) PROVE LockInv'
  BY <1>1 DEF Arrive
<1>2. ASSUME NEW m \in Msgs, Touch(m) PROVE LockInv'
  BY <1>2 DEF Touch, Spend, Faults
<1>3. ASSUME NEW m \in Msgs, Delete(m) PROVE LockInv'
  BY <1>3 DEF Delete, Spend, Faults
<1>4. ASSUME Expire PROVE LockInv'
  BY <1>4 DEF Expire, Spend, Faults
<1>5. ASSUME NEW t \in Ticks, PollAcquire(t) \/ CliTick(t) \/ PollConflict(t)
      PROVE  LockInv'
  BY <1>5 DEF PollAcquire, CliTick, PollConflict, Begin
<1>6. ASSUME NEW t \in Ticks, GetProfile(t) \/ RebaseProfile(t) PROVE LockInv'
  BY <1>6 DEF GetProfile, RebaseProfile, Goto
<1>7. ASSUME NEW t \in Ticks, BaselineCheck(t) \/ HistoryExpired(t) \/
    StopRequested(t) \/ LoopDone(t) \/ AdvanceCheck(t)
      PROVE  LockInv'
  BY <1>7 DEF BaselineCheck, HistoryExpired, StopRequested, LoopDone,
      AdvanceCheck, CursorBehind, AtPage, Goto
<1>8. ASSUME NEW t \in Ticks, BaselineInsert(t) PROVE LockInv'
  BY <1>8 DEF BaselineInsert, Backlog, End
<1>9. ASSUME NEW t \in Ticks, BaselineCollision(t) PROVE LockInv'
  BY <1>9 DEF BaselineCollision, End
<1>10. ASSUME NEW t \in Ticks, MarkCollision(t) PROVE LockInv'
  BY <1>10 DEF MarkCollision, End
<1>11. ASSUME NEW t \in Ticks, AdvanceNone(t) PROVE LockInv'
  BY <1>11 DEF AdvanceNone, End
<1>12. ASSUME NEW t \in Ticks, ReadCursor(t) PROVE LockInv'
  BY <1>12 DEF ReadCursor, Goto
<1>13. ASSUME NEW t \in Ticks, ListPage(t) PROVE LockInv'
  BY <1>13 DEF ListPage, AtPage
<1>14. ASSUME NEW t \in Ticks, NEW m \in Msgs, SkipProcessed(t, m)
      PROVE  LockInv'
  BY <1>14 DEF SkipProcessed
<1>15. ASSUME NEW t \in Ticks, NEW m \in Msgs, BeginMessage(t, m) PROVE LockInv'
  BY <1>15 DEF BeginMessage, Oldest, Goto
<1>16. ASSUME NEW t \in Ticks, FetchMessage(t) \/ FetchGone(t) PROVE LockInv'
  BY <1>16 DEF FetchMessage, FetchGone, Goto
<1>17. ASSUME NEW t \in Ticks, Handle(t) PROVE LockInv'
  BY <1>17 DEF Handle, Goto
<1>18. ASSUME NEW t \in Ticks, MarkProcessed(t) PROVE LockInv'
  BY <1>18 DEF MarkProcessed, Goto
<1>19. ASSUME NEW t \in Ticks, AdvanceSave(t) PROVE LockInv'
  BY <1>19 DEF AdvanceSave, End
<1>20. ASSUME NEW t \in Ticks, RebaseWrite(t) PROVE LockInv'
  BY <1>20 DEF RebaseWrite, Backlog, End
<1>21. ASSUME NEW t \in Ticks, RefreshFails(t) PROVE LockInv'
  BY <1>21 DEF RefreshFails, End, Spend, Faults
<1>22. ASSUME NEW t \in Ticks, Raises(t) PROVE LockInv'
  BY <1>22 DEF Raises, End, Spend, Faults
<1>23. ASSUME NEW t \in Ticks, Crash(t) PROVE LockInv'
  BY <1>23 DEF Crash, Spend, Faults
<1>24. ASSUME NEW t \in Ticks, LockLost(t) \/ Unreachable(t) PROVE LockInv'
  BY <1>24 DEF LockLost, Unreachable, Spend, Faults
<1> QED BY <1>0, <1>1, <1>2, <1>3, <1>4, <1>5, <1>6, <1>7, <1>8, <1>9, <1>10,
    <1>11, <1>12, <1>13, <1>14, <1>15, <1>16, <1>17, <1>18, <1>19, <1>20,
    <1>21, <1>22, <1>23, <1>24 DEF Next, MailboxStep, Start, TickStep,
    FaultStep

\* Two calls of POST /poll never run a tick at the same time, on any number of
\* replicas and with crashes, as long as the lock's session survives.
THEOREM SingleFlight ==
  ASSUME CliTicks = {}, Budget["lockloss"] = 0
  PROVE  Spec => []AtMostOneTick
<1>1. LockInv => AtMostOneTick
  BY DEF LockInv, Locked, AtMostOneTick
<1> QED BY <1>1, LockInit, LockStep, TypeInvariant, PTL DEF Spec

\* Then no insert meets another tick's row.
THEOREM NoCollision ==
  ASSUME CliTicks = {}, Budget["lockloss"] = 0
  PROVE  Spec => []NoKeyCollision
<1>1. LockInv => NoKeyCollision
  BY DEF LockInv, StillTrue, NoKeyCollision, Working
<1> QED BY <1>1, LockInit, LockStep, TypeInvariant, PTL DEF Spec

LEMMA CursorStep == TypeInv /\ LockInv /\ [Next]_vars => [cursor' >= cursor]_vars
<1> SUFFICES ASSUME TypeInv, LockInv, Next PROVE cursor' >= cursor
  OBVIOUS
<1> USE DEF TypeInv, TypeOK, HistIds, LockInv, StillTrue, mailbox, db
<1>1. ASSUME NEW m \in Msgs, Arrive(m) PROVE cursor' >= cursor
  BY <1>1 DEF Arrive
<1>2. ASSUME NEW m \in Msgs, Touch(m) PROVE cursor' >= cursor
  BY <1>2 DEF Touch, Spend, Faults
<1>3. ASSUME NEW m \in Msgs, Delete(m) PROVE cursor' >= cursor
  BY <1>3 DEF Delete, Spend, Faults
<1>4. ASSUME Expire PROVE cursor' >= cursor
  BY <1>4 DEF Expire, Spend, Faults
<1>5. ASSUME NEW t \in Ticks, PollAcquire(t) \/ CliTick(t) \/ PollConflict(t)
      PROVE  cursor' >= cursor
  BY <1>5 DEF PollAcquire, CliTick, PollConflict, Begin
<1>6. ASSUME NEW t \in Ticks, GetProfile(t) \/ RebaseProfile(t)
      PROVE  cursor' >= cursor
  BY <1>6 DEF GetProfile, RebaseProfile, Goto
<1>7. ASSUME NEW t \in Ticks, BaselineCheck(t) \/ HistoryExpired(t) \/
    StopRequested(t) \/ LoopDone(t) \/ AdvanceCheck(t)
      PROVE  cursor' >= cursor
  BY <1>7 DEF BaselineCheck, HistoryExpired, StopRequested, LoopDone,
      AdvanceCheck, CursorBehind, AtPage, Goto
<1>8. ASSUME NEW t \in Ticks, BaselineInsert(t) PROVE cursor' >= cursor
  BY <1>8 DEF BaselineInsert, Backlog, End
<1>9. ASSUME NEW t \in Ticks, BaselineCollision(t) PROVE cursor' >= cursor
  BY <1>9 DEF BaselineCollision, End
<1>10. ASSUME NEW t \in Ticks, MarkCollision(t) PROVE cursor' >= cursor
  BY <1>10 DEF MarkCollision, End
<1>11. ASSUME NEW t \in Ticks, AdvanceNone(t) PROVE cursor' >= cursor
  BY <1>11 DEF AdvanceNone, End
<1>12. ASSUME NEW t \in Ticks, ReadCursor(t) PROVE cursor' >= cursor
  BY <1>12 DEF ReadCursor, Goto
<1>13. ASSUME NEW t \in Ticks, ListPage(t) PROVE cursor' >= cursor
  BY <1>13 DEF ListPage, AtPage
<1>14. ASSUME NEW t \in Ticks, NEW m \in Msgs, SkipProcessed(t, m)
      PROVE  cursor' >= cursor
  BY <1>14 DEF SkipProcessed
<1>15. ASSUME NEW t \in Ticks, NEW m \in Msgs, BeginMessage(t, m)
      PROVE  cursor' >= cursor
  BY <1>15 DEF BeginMessage, Oldest, Goto
<1>16. ASSUME NEW t \in Ticks, FetchMessage(t) \/ FetchGone(t)
      PROVE  cursor' >= cursor
  BY <1>16 DEF FetchMessage, FetchGone, Goto
<1>17. ASSUME NEW t \in Ticks, Handle(t) PROVE cursor' >= cursor
  BY <1>17 DEF Handle, Goto
<1>18. ASSUME NEW t \in Ticks, MarkProcessed(t) PROVE cursor' >= cursor
  BY <1>18 DEF MarkProcessed, Goto
<1>19. ASSUME NEW t \in Ticks, AdvanceSave(t) PROVE cursor' >= cursor
  BY <1>19 DEF AdvanceSave, End
<1>20. ASSUME NEW t \in Ticks, RebaseWrite(t) PROVE cursor' >= cursor
  BY <1>20 DEF RebaseWrite, Backlog, End
<1>21. ASSUME NEW t \in Ticks, RefreshFails(t) PROVE cursor' >= cursor
  BY <1>21 DEF RefreshFails, End, Spend, Faults
<1>22. ASSUME NEW t \in Ticks, Raises(t) PROVE cursor' >= cursor
  BY <1>22 DEF Raises, End, Spend, Faults
<1>23. ASSUME NEW t \in Ticks, Crash(t) PROVE cursor' >= cursor
  BY <1>23 DEF Crash, Spend, Faults
<1>24. ASSUME NEW t \in Ticks, LockLost(t) \/ Unreachable(t)
      PROVE  cursor' >= cursor
  BY <1>24 DEF LockLost, Unreachable, Spend, Faults
<1> QED BY <1>1, <1>2, <1>3, <1>4, <1>5, <1>6, <1>7, <1>8, <1>9, <1>10,
    <1>11, <1>12, <1>13, <1>14, <1>15, <1>16, <1>17, <1>18, <1>19, <1>20,
    <1>21, <1>22, <1>23, <1>24 DEF Next, MailboxStep, Start, TickStep,
    FaultStep

\* And the stored cursor only moves forward, re-baselines included.
THEOREM CursorForward ==
  ASSUME CliTicks = {}, Budget["lockloss"] = 0
  PROVE  Spec => CursorMonotone
BY LockInit, LockStep, CursorStep, TypeInvariant, PTL DEF Spec, CursorMonotone

-----------------------------------------------------------------------------
(* A tick that answers ok drained what it asked for *)

\* Nothing a tick has read is later than the mailbox's present.
NoFuture ==
    /\ cursor <= hist
    /\ \A m \in Msgs : added[m] <= hist /\ mhist[m] <= hist
    /\ \A t \in Ticks : /\ pos[t] <= hist /\ prof[t] <= hist
                        /\ maxh[t] <= hist /\ curHist[t] <= hist

\* In the loop, what the pages reported is processed or still listed, and the
\* last page reaches past the profile.  After the loop, unless it was broken
\* off, all up to the profile is processed.
Draining ==
    \A t \in Ticks :
        /\ pc[t] \in {"next", "fetch", "handle", "mark"} =>
              /\ \A m \in Msgs : start[t] < added[m] /\ added[m] <= pos[t] =>
                    m \in processed \union todo[t]
              /\ ~more[t] => prof[t] <= pos[t]
        /\ pc[t] \in {"advance", "save"} /\ t \notin stop =>
              \A m \in Msgs : start[t] < added[m] /\ added[m] <= prof[t] => m \in processed

DrainInv == NoFuture /\ Draining

LEMMA DrainInit == Init => DrainInv
BY BoundsAssumption DEF Init, DrainInv, NoFuture, Draining

LEMMA DrainStep == TypeInv /\ DrainInv /\ [Next]_vars => DrainInv'
<1> SUFFICES ASSUME TypeInv, DrainInv, [Next]_vars PROVE DrainInv'
  OBVIOUS
<1> USE CallersAssumption, MsgsAssumption, BoundsAssumption
    DEF TypeInv, TypeOK, HoldsMessage, Working, HistIds, Steps, DrainInv, NoFuture, Draining,
        mailbox, db, locals
<1>0. CASE UNCHANGED vars
  BY <1>0 DEF vars
<1>1. ASSUME NEW m \in Msgs, Arrive(m) PROVE DrainInv'
  <2>1. hist' = hist + 1 /\ added' = [added EXCEPT ![m] = hist + 1]
    BY <1>1 DEF Arrive
  <2>2. \A n \in Msgs, p \in HistIds :
          p <= hist => (added'[n] <= p => n # m /\ added'[n] = added[n])
    BY <2>1
  <2> QED BY <1>1, <2>1, <2>2 DEF Arrive
<1>2. ASSUME NEW m \in Msgs, Touch(m) PROVE DrainInv'
  BY <1>2 DEF Touch, Spend, Faults
<1>3. ASSUME NEW m \in Msgs, Delete(m) PROVE DrainInv'
  BY <1>3 DEF Delete, Spend, Faults
<1>4. ASSUME Expire PROVE DrainInv'
  BY <1>4 DEF Expire, Spend, Faults
<1>5. ASSUME NEW t \in Ticks, PollAcquire(t) \/ CliTick(t) \/ PollConflict(t)
      PROVE  DrainInv'
  BY <1>5 DEF PollAcquire, CliTick, PollConflict, Begin
<1>6. ASSUME NEW t \in Ticks, GetProfile(t) \/ RebaseProfile(t) PROVE DrainInv'
  BY <1>6 DEF GetProfile, RebaseProfile, Goto
<1>7. ASSUME NEW t \in Ticks, BaselineCheck(t) \/ HistoryExpired(t) \/
    StopRequested(t) \/ LoopDone(t) \/ AdvanceCheck(t)
      PROVE  DrainInv'
  BY <1>7 DEF BaselineCheck, HistoryExpired, StopRequested, LoopDone,
      AdvanceCheck, CursorBehind, AtPage, Goto
<1>8. ASSUME NEW t \in Ticks, BaselineInsert(t) PROVE DrainInv'
  BY <1>8 DEF BaselineInsert, Backlog, End
<1>9. ASSUME NEW t \in Ticks, BaselineCollision(t) PROVE DrainInv'
  BY <1>9 DEF BaselineCollision, End
<1>10. ASSUME NEW t \in Ticks, MarkCollision(t) PROVE DrainInv'
  BY <1>10 DEF MarkCollision, End
<1>11. ASSUME NEW t \in Ticks, AdvanceNone(t) PROVE DrainInv'
  BY <1>11 DEF AdvanceNone, End
<1>12. ASSUME NEW t \in Ticks, ReadCursor(t) PROVE DrainInv'
  BY <1>12 DEF ReadCursor, Goto
<1>13. ASSUME NEW t \in Ticks, ListPage(t) PROVE DrainInv'
  BY <1>13 DEF ListPage, AtPage
<1>14. ASSUME NEW t \in Ticks, NEW m \in Msgs, SkipProcessed(t, m)
      PROVE  DrainInv'
  BY <1>14 DEF SkipProcessed
<1>15. ASSUME NEW t \in Ticks, NEW m \in Msgs, BeginMessage(t, m) PROVE DrainInv'
  BY <1>15 DEF BeginMessage, Oldest, Goto
<1>16. ASSUME NEW t \in Ticks, FetchMessage(t) \/ FetchGone(t) PROVE DrainInv'
  BY <1>16 DEF FetchMessage, FetchGone, Goto
<1>17. ASSUME NEW t \in Ticks, Handle(t) PROVE DrainInv'
  BY <1>17 DEF Handle, Goto
<1>18. ASSUME NEW t \in Ticks, MarkProcessed(t) PROVE DrainInv'
  BY <1>18 DEF MarkProcessed, Goto
<1>19. ASSUME NEW t \in Ticks, AdvanceSave(t) PROVE DrainInv'
  BY <1>19 DEF AdvanceSave, End
<1>20. ASSUME NEW t \in Ticks, RebaseWrite(t) PROVE DrainInv'
  BY <1>20 DEF RebaseWrite, Backlog, End
<1>21. ASSUME NEW t \in Ticks, RefreshFails(t) PROVE DrainInv'
  BY <1>21 DEF RefreshFails, End, Spend, Faults
<1>22. ASSUME NEW t \in Ticks, Raises(t) PROVE DrainInv'
  BY <1>22 DEF Raises, End, Spend, Faults
<1>23. ASSUME NEW t \in Ticks, Crash(t) PROVE DrainInv'
  BY <1>23 DEF Crash, Spend, Faults
<1>24. ASSUME NEW t \in Ticks, LockLost(t) \/ Unreachable(t) PROVE DrainInv'
  BY <1>24 DEF LockLost, Unreachable, Spend, Faults
<1> QED BY <1>0, <1>1, <1>2, <1>3, <1>4, <1>5, <1>6, <1>7, <1>8, <1>9, <1>10,
    <1>11, <1>12, <1>13, <1>14, <1>15, <1>16, <1>17, <1>18, <1>19, <1>20,
    <1>21, <1>22, <1>23, <1>24 DEF Next, MailboxStep, Start, TickStep,
    FaultStep

\* On any number of replicas, overlapping and crashing as they may: a tick that
\* answers 200 without an error and was not asked to stop has processed all
\* that arrived between its start cursor and its profile.
THEOREM DrainedWhenOk == Spec => OkTickDrained
<1>1. DrainInv => [\A t \in Ticks \ stop :
          pc[t] \in {"advance", "save"} /\ reply' = "ok" /\ pc'[t] = "idle" =>
            \A m \in Msgs : start[t] < added[m] /\ added[m] <= prof[t] => m \in processed]_vars
  BY DEF DrainInv, Draining
<1> QED BY <1>1, DrainInit, DrainStep, TypeInvariant, PTL DEF Spec, OkTickDrained

=============================================================================
