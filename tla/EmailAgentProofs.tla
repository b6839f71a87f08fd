-------------------------- MODULE EmailAgentProofs --------------------------
(***************************************************************************)
(* Proofs about EmailAgent for any messages, drafts, checkpoint lag and    *)
(* failures: its types, that no order is booked twice, that what was       *)
(* reported as logged is recorded, that nothing processed was swallowed,   *)
(* that every repeated effect has a crash or a lost reply to show for it,  *)
(* and that it handles mail as MailHandler asks.                           *)
(***************************************************************************)
EXTENDS EmailAgent, SequenceTheorems, TLAPS

Running == cur # NoMsg

\* The checkpoints of the running thread lead up to its state in memory, and
\* none follows the one that ends it.
Threads ==
    /\ pc = "idle" <=> ~Running
    /\ pc = "idle" => unsaved = <<>>
    /\ Running => live = IF unsaved = <<>> THEN ckpt[cur] ELSE unsaved[Len(unsaved)]
    /\ \A i \in 1 .. Len(unsaved) : unsaved[i].at = "end" => i = Len(unsaved)
    /\ Running /\ ckpt[cur].at = "end" => unsaved = <<>>

\* What is stored of a message comes from the end of its thread.
Finished(m) == ckpt[m].at = "end" /\ analyses[m] = ckpt[m].analysis

Stored ==
    /\ \A m \in Msgs : analyses[m] # "none" => Finished(m)
    /\ \A m \in marked : m # cur /\ Finished(m)
    /\ pc = "mark" => unsaved = <<>> /\ Finished(cur)

\* The recorded expenses have one the message's draft d is about.
Recorded(table, m, d) ==
    table[m] # NoRow \/ SameOrder(table, d) \union SamePurchase(table, d) # {}

\* A row is mirrored for a draft that is recorded, and while it has no page.
Mirroring ==
    pc \in {"notion", "notionCommit"} =>
        /\ live.at = "persist" /\ Len(unsaved) <= Lag
        /\ target \in Msgs /\ (pc = "notion" => ~page[target])
        /\ Recorded(rows, cur, live.extracted)

\* A state s that thread m may be in, given the table and m's Telegram messages.
Good(table, sent, m, s) ==
    /\ s.at \in {"new", "analyze", "extract", "calendar"} => s.side = "none"
    /\ s.at = "persist" /\ s.side = "none" => s.extracted \in Drafts
    /\ s.side = "logged" => Recorded(table, m, s.extracted)
    /\ s.at = "end" /\ Reportable(s) => sent > 0

Sent(m) == effects[m]["telegram"]

GoodThreads ==
    /\ \A m \in Msgs : Good(rows, Sent(m), m, ckpt[m])
    /\ \A i \in 1 .. Len(unsaved) : Good(rows, Sent(cur), cur, unsaved[i])

\* State s is past the node with effect e.
Past(s, e) ==
    \/ e = "analyze" /\ s.at \notin {"new", "analyze"}
    \/ e = "extract" /\ s.at \notin {"new", "analyze", "extract"}
    \/ e = "telegram" /\ s.at = "end"

Now(m) == IF m = cur THEN live ELSE ckpt[m]
Mirrored(m) == page[m] \/ (pc = "notionCommit" /\ target = m)
Done(m, e) == Past(Now(m), e) \/ (e = "page" /\ Mirrored(m))

Faults == Spent("crash") + Spent("lost")
Once(done) == IF done THEN 1 ELSE 0

\* An effect was had once if it is done, and again only for a crash or a lost
\* reply.
Paid ==
    /\ \A f \in Failures : budget[f] <= Budget[f]
    /\ \A m \in Msgs, e \in Effects : effects[m][e] <= Once(Done(m, e)) + Faults

AgentInv == TypeOK /\ Threads /\ Stored /\ Mirroring /\ GoodThreads /\ Paid /\ NoDoubleBooking

-----------------------------------------------------------------------------
(* How effects, failures and threads change *)

LEMMA HadOnce ==
    ASSUME TypeOK, NEW m \in Msgs, NEW e \in Effects, Had(m, e)
    PROVE  /\ effects' \in [Msgs -> [Effects -> Nat]]
           /\ \A n \in Msgs, x \in Effects :
                effects'[n][x] = IF n = m /\ x = e THEN effects[n][x] + 1 ELSE effects[n][x]
<1>1. effects \in [Msgs -> [Effects -> Nat]]
  BY DEF TypeOK
<1>2. effects' = [effects EXCEPT ![m] = [effects[m] EXCEPT ![e] = effects[m][e] + 1]]
  BY DEF Had
<1>3. effects[m] \in [Effects -> Nat] /\ effects[m][e] + 1 \in Nat
  BY <1>1
<1>4. [effects[m] EXCEPT ![e] = effects[m][e] + 1] \in [Effects -> Nat]
  BY <1>3
<1> QED BY <1>1, <1>2, <1>3, <1>4

LEMMA SpentOnce ==
    ASSUME TypeOK, NEW f \in Failures, Spend(f)
    PROVE  /\ budget' \in [Failures -> Nat]
           /\ \A g \in Failures : budget'[g] = IF g = f THEN budget[g] - 1 ELSE budget[g]
BY DEF TypeOK, Spend

LEMMA WrittenType ==
    ASSUME TypeOK
    PROVE  /\ Written \in [Msgs -> State]
           /\ \A m \in Msgs : m # cur => Written[m] = ckpt[m]
           /\ unsaved = <<>> => Written = ckpt
           /\ unsaved # <<>> /\ cur \in Msgs => Written[cur] = unsaved[Len(unsaved)]
           /\ unsaved # <<>> => Len(unsaved) \in 1 .. Len(unsaved) /\ unsaved[Len(unsaved)] \in State
<1>1. /\ unsaved \in Seq(State) /\ ckpt \in [Msgs -> State]
  BY DEF TypeOK
<1>2. unsaved # <<>> => Len(unsaved) \in 1 .. Len(unsaved) /\ unsaved[Len(unsaved)] \in State
  BY <1>1, LenProperties, EmptySeq
<1> QED BY <1>1, <1>2 DEF Written

LEMMA NewType == NewThread \in State /\ [NewThread EXCEPT !.at = "analyze"] \in State
BY DEF NewThread, State, Nodes, Analyses, Verticals, SideEffects

\* Each field of a thread's state may be replaced on its own.
LEMMA ChangedState ==
    ASSUME NEW s \in State
    PROVE  /\ \A n \in Nodes : [s EXCEPT !.at = n] \in State
           /\ \A n \in Nodes, x \in SideEffects : [s EXCEPT !.side = x, !.at = n] \in State
           /\ \A n \in Nodes, a \in Analyses : [s EXCEPT !.analysis = a, !.at = n] \in State
           /\ \A n \in Nodes, d \in Drafts : [s EXCEPT !.extracted = d, !.at = n] \in State
BY DEF State

LEMMA RouteType == \A a \in Analyses : Route(a) \in {"extract", "calendar", "notify"}
BY DEF Route, Analyses, Verticals

LEMMA Duplicates ==
    ASSUME TypeOK, NEW d
    PROVE  /\ FindDuplicate(rows, d) \subseteq Msgs
           /\ FindDuplicate(rows, d) \subseteq SameOrder(rows, d) \union SamePurchase(rows, d)
           /\ FindDuplicate(rows, d) = {} => SameOrder(rows, d) = {}
BY DEF TypeOK, FindDuplicate, SameOrder, SamePurchase, Rows

-----------------------------------------------------------------------------
(* The kinds of step a thread can take *)

\* A node's result s joins the running thread.
Moves(s) ==
    /\ pc \in {"graph", "notion", "notionCommit"} /\ pc' = "graph"
    /\ live.at # "end" /\ Len(unsaved) <= Lag
    /\ live.at = "analyze" \/ s.at \in {"persist", "notify", "end"}
    /\ Complete(s)
    /\ UNCHANGED <<cur, ckpt, analyses, marked>>

\* The node goes on with its next statement.
GoesOn ==
    /\ pc \in {"graph", "notion"} /\ pc' \in {"notion", "notionCommit"}
    /\ UNCHANGED <<cur, ckpt, live, unsaved, analyses, marked>>

\* The process gives the thread up; only a crash loses checkpoints.
GivesUp ==
    /\ pc # "idle" /\ Abandon
    /\ ckpt' = Written \/ (ckpt' = ckpt /\ Spend("crash"))
    /\ UNCHANGED <<analyses, marked>>

EmailNode == Analyze \/ AnalyzeTooLong \/ Calendar \/ Notify \/ NotifySkip
ExpenseNode == Extract \/ ExtractNoText \/ PersistSkip \/ NotionCommit \/ NotionFails

LEMMA EmailNodeMoves ==
    ASSUME TypeOK, EmailNode
    PROVE  \E s \in State : Moves(s)
<1> USE DEF Moves, At
<1>1. live \in State
  BY DEF TypeOK
<1>2. {"extract", "calendar", "notify", "end"} \subseteq Nodes /\ {"failed", "calendar"} \subseteq SideEffects
  BY DEF Nodes, SideEffects
<1>3. CASE Analyze
  <2>1. PICK a \in Analyses : Complete([live EXCEPT !.analysis = a, !.at = Route(a)])
    BY <1>3 DEF Analyze
  <2>2. Route(a) \in {"extract", "calendar", "notify"}
    BY RouteType
  <2> DEFINE s == [live EXCEPT !.analysis = a, !.at = Route(a)]
  <2>3. s \in State /\ s.at = Route(a)
    BY <1>1, <1>2, <2>2, ChangedState DEF State
  <2> HIDE DEF s
  <2>4. Complete(s)
    BY <2>1 DEF s
  <2> QED BY <1>3, <2>2, <2>3, <2>4 DEF Analyze
<1>4. CASE AnalyzeTooLong
  <2> DEFINE s == [live EXCEPT !.side = "failed", !.at = "notify"]
  <2>1. s \in State /\ s.at = "notify"
    BY <1>1, <1>2, ChangedState DEF State
  <2>2. Complete(s)
    BY <1>4 DEF AnalyzeTooLong
  <2> HIDE DEF s
  <2> QED BY <1>4, <2>1, <2>2 DEF AnalyzeTooLong
<1>5. CASE Calendar
  <2> DEFINE s == [live EXCEPT !.side = "calendar", !.at = "notify"]
  <2>1. s \in State /\ s.at = "notify"
    BY <1>1, <1>2, ChangedState DEF State
  <2>2. Complete(s)
    BY <1>5 DEF Calendar
  <2> HIDE DEF s
  <2> QED BY <1>5, <2>1, <2>2 DEF Calendar
<1>6. CASE Notify \/ NotifySkip
  <2> DEFINE s == [live EXCEPT !.at = "end"]
  <2>1. s \in State /\ s.at = "end"
    BY <1>1, <1>2, ChangedState DEF State
  <2>2. Complete(s)
    BY <1>6 DEF Notify, NotifySkip
  <2> HIDE DEF s
  <2> QED BY <1>6, <2>1, <2>2 DEF Notify, NotifySkip
<1> QED BY <1>3, <1>4, <1>5, <1>6 DEF EmailNode

\* The state persist leaves behind.
Logged == [live EXCEPT !.side = "logged", !.at = "notify"]

LEMMA LoggedType ==
    ASSUME TypeOK
    PROVE  /\ Logged \in State /\ Logged.at = "notify" /\ Logged.side = "logged"
           /\ Logged.extracted = live.extracted /\ Logged.analysis = live.analysis
<1>1. live \in State
  BY DEF TypeOK
<1> QED BY <1>1 DEF Logged, State, Nodes, SideEffects

LEMMA ExpenseNodeMoves ==
    ASSUME TypeOK, Mirroring, ExpenseNode
    PROVE  \E s \in State : Moves(s)
<1> USE DEF Moves, At
<1>1. live \in State
  BY DEF TypeOK
<1>2. {"persist", "notify"} \subseteq Nodes /\ "review" \in SideEffects
  BY DEF Nodes, SideEffects
<1>3. CASE Extract
  <2>1. PICK d \in Drafts : Complete([live EXCEPT !.extracted = d, !.at = "persist"])
    BY <1>3 DEF Extract
  <2> DEFINE s == [live EXCEPT !.extracted = d, !.at = "persist"]
  <2>2. s \in State /\ s.at = "persist"
    BY <1>1, <1>2, ChangedState DEF State
  <2> HIDE DEF s
  <2>3. Complete(s)
    BY <2>1 DEF s
  <2> QED BY <1>3, <2>2, <2>3 DEF Extract
<1>4. CASE ExtractNoText
  <2> DEFINE s == [live EXCEPT !.side = "review", !.at = "persist"]
  <2>1. s \in State /\ s.at = "persist"
    BY <1>1, <1>2, ChangedState DEF State
  <2>2. Complete(s)
    BY <1>4 DEF ExtractNoText
  <2> HIDE DEF s
  <2> QED BY <1>4, <2>1, <2>2 DEF ExtractNoText
<1>5. CASE PersistSkip
  <2> DEFINE s == [live EXCEPT !.side = "review", !.at = "notify"]
  <2>1. s \in State /\ s.at = "notify"
    BY <1>1, <1>2, ChangedState DEF State
  <2>2. Complete(s)
    BY <1>5 DEF PersistSkip
  <2> HIDE DEF s
  <2> QED BY <1>5, <2>1, <2>2 DEF PersistSkip
<1>6. CASE NotionCommit \/ NotionFails
  <2>1. Complete(Logged)
    BY <1>6 DEF NotionCommit, NotionFails, Logged
  <2>2. live.at # "end" /\ Len(unsaved) <= Lag
    BY <1>6 DEF NotionCommit, NotionFails, Mirroring
  <2> QED BY <1>6, <2>1, <2>2, LoggedType DEF NotionCommit, NotionFails
<1> QED BY <1>3, <1>4, <1>5, <1>6 DEF ExpenseNode

LEMMA GoodLive ==
    ASSUME TypeOK, Threads, GoodThreads, Running
    PROVE  Good(rows, Sent(cur), cur, live)
<1>1. cur \in Msgs
  BY DEF TypeOK, Running
<1>2. live = IF unsaved = <<>> THEN ckpt[cur] ELSE unsaved[Len(unsaved)]
  BY DEF Threads
<1>3. CASE unsaved = <<>>
  BY <1>1, <1>2, <1>3 DEF GoodThreads
<1>4. CASE unsaved # <<>>
  BY <1>2, <1>4, WrittenType DEF GoodThreads
<1> QED BY <1>3, <1>4

\* persist settles on a row for a draft: it is then recorded.
LEMMA PersistRowSettles ==
    ASSUME TypeOK, GoodThreads, Threads, PersistRow
    PROVE  /\ live.extracted \in Drafts /\ live.at = "persist" /\ live.side = "none" /\ cur \in Msgs
           /\ target' \in Msgs
           /\ \/ UNCHANGED rows
              \/ /\ rows[cur] = NoRow /\ SameOrder(rows, live.extracted) = {}
                 /\ rows' = [rows EXCEPT ![cur] = live.extracted]
           /\ Recorded(rows', cur, live.extracted)
           /\ \/ Moves(Logged)
              \/ GoesOn /\ pc' = "notion" /\ ~page[target'] /\ Len(unsaved) <= Lag
<1>1. pc = "graph" /\ live.at = "persist" /\ live.side = "none" /\ Len(unsaved) <= Lag
  BY DEF PersistRow, HasDraft, At
<1>2. cur \in Msgs
  BY <1>1 DEF TypeOK, Threads, Running
<1>3. Good(rows, Sent(cur), cur, live)
  BY <1>1, GoodLive DEF Threads
<1>4. live.extracted \in Drafts
  BY <1>1, <1>3 DEF Good
<1>5. /\ target' \in Msgs
      /\ \/ UNCHANGED rows
         \/ /\ rows[cur] = NoRow /\ SameOrder(rows, live.extracted) = {}
            /\ rows' = [rows EXCEPT ![cur] = live.extracted]
      /\ Recorded(rows', cur, live.extracted)
  <2>1. CASE /\ FindDuplicate(rows, live.extracted) # {} /\ UNCHANGED rows
             /\ target' \in FindDuplicate(rows, live.extracted)
    BY <2>1, Duplicates DEF Recorded
  <2>2. CASE rows[cur] # NoRow /\ target' = cur /\ UNCHANGED rows
    BY <1>2, <2>2 DEF Recorded
  <2>3. CASE /\ FindDuplicate(rows, live.extracted) = {} /\ rows[cur] = NoRow /\ target' = cur
             /\ rows' = [rows EXCEPT ![cur] = live.extracted]
    <3>1. rows'[cur] # NoRow
      BY <1>2, <1>4, <2>3, NoRowAssumption DEF TypeOK
    <3> QED BY <1>2, <2>3, <3>1, Duplicates DEF Recorded
  <2> QED BY <2>1, <2>2, <2>3 DEF PersistRow
<1>6. \/ Moves(Logged)
      \/ GoesOn /\ pc' = "notion" /\ ~page[target']
  BY <1>1 DEF PersistRow, Moves, GoesOn, Logged
<1> QED BY <1>1, <1>2, <1>4, <1>5, <1>6

LEMMA ThreadStep ==
    ASSUME AgentInv, [Next]_vars
    PROVE  \/ \E m \in Msgs : Begin(m)
           \/ SaveCheckpoint \/ Persist \/ Mark
           \/ \E s \in State : Moves(s)
           \/ GoesOn
           \/ GivesUp
           \/ UNCHANGED vars
<1> USE DEF AgentInv
<1>1. CASE EmailNode
  BY <1>1, EmailNodeMoves
<1>2. CASE ExpenseNode
  BY <1>2, ExpenseNodeMoves
<1>3. CASE PersistRow
  BY <1>3, PersistRowSettles, LoggedType
<1>4. CASE NotionCreate
  BY <1>4 DEF NotionCreate, GoesOn
<1>5. CASE Raise \/ Refused \/ LostReply \/ Crash
  BY <1>5 DEF Raise, Refused, LostReply, Crash, GivesUp, At
<1> QED BY <1>1, <1>2, <1>3, <1>4, <1>5 DEF Next, Work, Fail, EmailNode, ExpenseNode

-----------------------------------------------------------------------------
(* Types *)

\* What only one kind of step changes.
LedgerType ==
    /\ target \in Msgs \union {NoMsg}
    /\ rows \in [Msgs -> Drafts \union {NoRow}]
    /\ page \in [Msgs -> BOOLEAN]
    /\ effects \in [Msgs -> [Effects -> Nat]]
    /\ budget \in [Failures -> Nat]

ThreadType ==
    /\ ckpt \in [Msgs -> State] /\ live \in State
    /\ unsaved \in Seq(State) /\ Len(unsaved) <= Lag + 1
    /\ cur \in Msgs \union {NoMsg}
    /\ pc \in {"idle", "graph", "notion", "notionCommit", "mark"}
    /\ analyses \in [Msgs -> Analyses]
    /\ marked \subseteq Msgs

LEMMA TypeParts == TypeOK <=> LedgerType /\ ThreadType
BY DEF TypeOK, LedgerType, ThreadType

LEMMA LedgerStep ==
    ASSUME AgentInv, [Next]_vars PROVE LedgerType'
<1> USE DEF AgentInv
<1>1. LedgerType /\ TypeOK
  BY TypeParts
<1>2. pc # "idle" => cur \in Msgs
  BY DEF TypeOK, Threads, Running
<1>3. {"analyze", "extract", "telegram", "page"} \subseteq Effects
  BY DEF Effects
<1>4. {"raise", "lost", "crash"} \subseteq Failures
  BY DEF Failures
<1>5. CASE Analyze \/ AnalyzeTooLong \/ Notify \/ Extract
  <2>1. UNCHANGED <<target, rows, page, budget>> /\ \E e \in Effects : Had(cur, e)
    BY <1>5, <1>3 DEF Analyze, AnalyzeTooLong, Notify, Extract
  <2>2. cur \in Msgs
    BY <1>5, <1>2 DEF Analyze, AnalyzeTooLong, Notify, Extract, At
  <2> QED BY <1>1, <2>1, <2>2, HadOnce DEF LedgerType
<1>6. CASE Calendar \/ NotifySkip \/ ExtractNoText \/ PersistSkip \/ SaveCheckpoint \/ Persist \/ Mark
  BY <1>1, <1>6 DEF LedgerType, Calendar, NotifySkip, ExtractNoText, PersistSkip, SaveCheckpoint, Persist, Mark
<1>7. CASE PersistRow
  <2>1. live.extracted \in Drafts /\ target' \in Msgs
        /\ (UNCHANGED rows \/ rows' = [rows EXCEPT ![cur] = live.extracted])
    BY <1>7, PersistRowSettles
  <2>2. rows' \in [Msgs -> Drafts \union {NoRow}]
    BY <1>1, <2>1 DEF LedgerType
  <2> QED BY <1>1, <1>7, <2>1, <2>2 DEF LedgerType, PersistRow
<1>8. CASE NotionCreate
  <2>1. target \in Msgs /\ Had(target, "page")
    BY <1>8 DEF NotionCreate, Mirroring
  <2> QED BY <1>1, <1>3, <1>8, <2>1, HadOnce DEF LedgerType, NotionCreate
<1>9. CASE NotionCommit
  BY <1>1, <1>9 DEF LedgerType, NotionCommit
<1>10. CASE NotionFails
  <2>1. target \in Msgs
    BY <1>10 DEF NotionFails, Mirroring
  <2>2. budget' \in [Failures -> Nat]
    BY <1>4, <1>10, SpentOnce DEF NotionFails
  <2>3. effects' \in [Msgs -> [Effects -> Nat]]
    BY <1>1, <1>3, <1>10, <2>1, HadOnce DEF NotionFails, LedgerType
  <2> QED BY <1>1, <1>10, <2>2, <2>3 DEF LedgerType, NotionFails
<1>11. CASE Raise \/ Refused \/ LostReply \/ Crash
  <2>1. budget' \in [Failures -> Nat]
    BY <1>1, <1>4, <1>11, SpentOnce DEF LedgerType, Raise, Refused, LostReply, Crash
  <2>2. effects' \in [Msgs -> [Effects -> Nat]]
    <3>1. UNCHANGED effects \/ (pc = "graph" /\ \E e \in Effects : Had(cur, e))
      BY <1>3, <1>11 DEF Raise, Refused, LostReply, Crash, At
    <3> QED BY <1>1, <1>2, <3>1, HadOnce DEF LedgerType
  <2> QED BY <1>1, <1>11, <2>1, <2>2 DEF LedgerType, Raise, Refused, LostReply, Crash
<1>12. CASE \E m \in Msgs : Begin(m)
  BY <1>1, <1>12 DEF LedgerType, Begin
<1>13. CASE UNCHANGED vars
  BY <1>1, <1>13 DEF LedgerType, vars
<1> QED BY <1>5, <1>6, <1>7, <1>8, <1>9, <1>10, <1>11, <1>12, <1>13 DEF Next, Work, Fail

LEMMA ThreadTypeStep ==
    ASSUME AgentInv, [Next]_vars PROVE ThreadType'
<1> USE DEF AgentInv
<1>1. ThreadType /\ TypeOK
  BY TypeParts
<1>2. pc # "idle" => cur \in Msgs
  BY DEF TypeOK, Threads, Running
<1>3. Lag \in Nat
  BY AgentAssumption
<1>4. CASE \E m \in Msgs : Begin(m)
  <2>1. PICK m \in Msgs : Begin(m)
    BY <1>4
  <2>2. ckpt[m] \in State
    BY <1>1 DEF ThreadType
  <2>3. live' \in State /\ unsaved' \in {<<>>, <<live'>>}
    BY <2>1, <2>2, NewType DEF Begin
  <2>4. unsaved' \in Seq(State) /\ Len(unsaved') <= Lag + 1
    <3>1. CASE unsaved' = <<>>
      BY <1>3, <3>1, EmptySeq
    <3>2. CASE unsaved' = <<live'>>
      <4>1. <<live'>> \in Seq(State) /\ Len(<<live'>>) = 1
        BY <2>3
      <4> QED BY <1>3, <3>2, <4>1
    <3> QED BY <2>3, <3>1, <3>2
  <2> QED BY <1>1, <2>1, <2>3, <2>4 DEF ThreadType, Begin
<1>5. CASE SaveCheckpoint
  <2>1. Head(unsaved) \in State /\ Tail(unsaved) \in Seq(State) /\ Len(Tail(unsaved)) = Len(unsaved) - 1
    BY <1>1, <1>5, HeadTailProperties DEF ThreadType, SaveCheckpoint
  <2>2. Len(unsaved) \in Nat
    BY <1>1, LenProperties DEF ThreadType
  <2>3. Len(unsaved') <= Lag + 1
    BY <1>1, <1>3, <1>5, <2>1, <2>2 DEF ThreadType, SaveCheckpoint
  <2>4. ckpt' \in [Msgs -> State]
    BY <1>1, <1>5, <2>1 DEF ThreadType, SaveCheckpoint
  <2> QED BY <1>1, <1>5, <2>1, <2>3, <2>4 DEF ThreadType, SaveCheckpoint
<1>6. CASE Persist
  BY <1>1, <1>6 DEF ThreadType, Persist, State
<1>7. CASE Mark
  BY <1>1, <1>2, <1>7, NewType DEF ThreadType, Mark
<1>8. CASE \E s \in State : Moves(s)
  <2>1. PICK s \in State : Moves(s)
    BY <1>8
  <2>2. unsaved' \in Seq(State) /\ Len(unsaved') = Len(unsaved) + 1
    BY <1>1, <2>1, AppendProperties DEF ThreadType, Moves, Complete
  <2>3. Len(unsaved) \in Nat
    BY <1>1, LenProperties DEF ThreadType
  <2>4. Len(unsaved') <= Lag + 1
    BY <1>3, <2>1, <2>2, <2>3 DEF Moves
  <2>5. live' = s
    BY <2>1 DEF Moves, Complete
  <2> QED BY <1>1, <2>1, <2>2, <2>4, <2>5 DEF ThreadType, Moves
<1>9. CASE GoesOn
  BY <1>1, <1>9 DEF ThreadType, GoesOn
<1>10. CASE GivesUp
  <2>1. ckpt' \in [Msgs -> State]
    BY <1>1, <1>10, WrittenType DEF GivesUp, ThreadType
  <2>2. unsaved' \in Seq(State) /\ Len(unsaved') <= Lag + 1
    BY <1>3, <1>10 DEF GivesUp, Abandon
  <2> QED BY <1>1, <1>10, <2>1, <2>2, NewType DEF ThreadType, GivesUp, Abandon
<1>11. CASE UNCHANGED vars
  BY <1>1, <1>11 DEF ThreadType, vars
<1> QED BY <1>4, <1>5, <1>6, <1>7, <1>8, <1>9, <1>10, <1>11, ThreadStep

-----------------------------------------------------------------------------
(* Checkpoints, and what is stored at the end of a thread *)

\* While the thread runs on, neither its last checkpoint nor one still to be
\* written is its end.
LEMMA NotEnded ==
    ASSUME TypeOK, Threads, Stored, Running, live.at # "end"
    PROVE  /\ ckpt[cur].at # "end" /\ analyses[cur] = "none" /\ cur \notin marked
           /\ \A i \in 1 .. Len(unsaved) : unsaved[i].at # "end"
<1>1. cur \in Msgs
  BY DEF TypeOK, Running
<1>2. ckpt[cur].at # "end"
  BY DEF Threads
<1>3. ASSUME NEW i \in 1 .. Len(unsaved) PROVE unsaved[i].at # "end"
  <2>1. unsaved # <<>>
    BY <1>3
  <2> QED BY <1>3, <2>1 DEF Threads
<1> QED BY <1>1, <1>2, <1>3 DEF Stored, Finished

LEMMA MovesKeeps ==
    ASSUME TypeOK, Threads, Stored, NEW s \in State, Moves(s)
    PROVE  Threads' /\ Stored'
<1>1. /\ Running /\ Running' /\ cur \in Msgs /\ cur' = cur
      /\ pc # "idle" /\ pc' = "graph" /\ live' = s /\ live.at # "end"
      /\ UNCHANGED <<ckpt, analyses, marked>>
  BY DEF Moves, Complete, Threads, Running, TypeOK
<1>2. /\ Len(unsaved') = Len(unsaved) + 1 /\ unsaved' # <<>> /\ Len(unsaved) \in Nat
      /\ unsaved'[Len(unsaved')] = s
      /\ \A i \in 1 .. Len(unsaved) : unsaved'[i] = unsaved[i]
  BY AppendProperties, LenProperties DEF Moves, Complete, TypeOK
<1>3. /\ ckpt[cur].at # "end"
      /\ \A i \in 1 .. Len(unsaved) : unsaved[i].at # "end"
  BY <1>1, NotEnded
<1>4. Threads'
  <2>1. \A i \in 1 .. Len(unsaved') : unsaved'[i].at = "end" => i = Len(unsaved')
    BY <1>2, <1>3
  <2> QED BY <1>1, <1>2, <1>3, <2>1 DEF Threads
<1>5. Stored'
  BY <1>1 DEF Stored, Finished
<1> QED BY <1>4, <1>5

LEMMA SaveKeeps ==
    ASSUME TypeOK, Threads, Stored, SaveCheckpoint
    PROVE  Threads' /\ Stored'
<1>1. /\ unsaved # <<>> /\ unsaved' = Tail(unsaved) /\ ckpt' = [ckpt EXCEPT ![cur] = Head(unsaved)]
      /\ UNCHANGED <<live, cur, pc, analyses, marked>>
  BY DEF SaveCheckpoint
<1>2. Running /\ cur \in Msgs /\ pc # "mark"
  BY <1>1 DEF Threads, Stored, Running, TypeOK
<1>3. /\ Len(unsaved) \in Nat \ {0} /\ Len(unsaved') = Len(unsaved) - 1
      /\ \A i \in 1 .. Len(unsaved') : unsaved'[i] = unsaved[i + 1]
      /\ Len(unsaved') = 0 => unsaved' = <<>>
  <2>1. unsaved \in Seq(State)
    BY DEF TypeOK
  <2>2. Tail(unsaved) \in Seq(State)
    BY <1>1, <2>1, HeadTailProperties
  <2> QED BY <1>1, <2>1, <2>2, HeadTailProperties, EmptySeq
<1>4. Head(unsaved) = unsaved[1]
  BY <1>1 DEF TypeOK
<1>5. /\ ckpt' = [ckpt EXCEPT ![cur] = unsaved[1]] /\ ckpt'[cur] = unsaved[1]
      /\ \A m \in Msgs : m # cur => ckpt'[m] = ckpt[m]
  BY <1>1, <1>2, <1>4 DEF TypeOK
<1>6. Threads'
  <2>1. live = unsaved[Len(unsaved)]
    BY <1>1, <1>2 DEF Threads
  <2>2. live = IF unsaved' = <<>> THEN ckpt'[cur] ELSE unsaved'[Len(unsaved')]
    <3>1. CASE unsaved' = <<>>
      <4>1. Len(unsaved) = 1
        BY <1>3, <3>1
      <4> QED BY <1>5, <2>1, <3>1, <4>1
    <3>2. CASE unsaved' # <<>>
      <4>1. Len(unsaved') \in 1 .. Len(unsaved') /\ Len(unsaved') + 1 = Len(unsaved)
        BY <1>3, <3>2
      <4> QED BY <1>3, <2>1, <3>2, <4>1
    <3> QED BY <3>1, <3>2
  <2>3. ASSUME NEW i \in 1 .. Len(unsaved'), unsaved'[i].at = "end" PROVE i = Len(unsaved')
    <3>1. i + 1 \in 1 .. Len(unsaved) /\ unsaved[i + 1].at = "end"
      BY <1>3, <2>3
    <3>2. i + 1 = Len(unsaved)
      BY <3>1 DEF Threads
    <3> QED BY <1>3, <3>2
  <2>4. ckpt'[cur].at = "end" => unsaved' = <<>>
    <3>1. SUFFICES ASSUME unsaved[1].at = "end" PROVE Len(unsaved') = 0
      BY <1>3, <1>5
    <3>2. 1 = Len(unsaved)
      BY <1>3, <3>1 DEF Threads
    <3> QED BY <1>3, <3>2
  <2>5. (pc = "idle" <=> ~Running) /\ pc # "idle" /\ cur' = cur /\ live' = live /\ pc' = pc
    BY <1>1, <1>2 DEF Threads
  <2> QED BY <2>2, <2>3, <2>4, <2>5 DEF Threads, Running
<1>7. Stored'
  <2>1. ckpt[cur].at # "end"
    BY <1>1, <1>2 DEF Threads
  <2>2. analyses[cur] = "none"
    BY <1>2, <2>1 DEF Stored, Finished
  <2>3. marked \subseteq Msgs
    BY DEF TypeOK
  <2> QED BY <1>1, <1>2, <1>5, <2>2, <2>3 DEF Stored, Finished
<1> QED BY <1>6, <1>7

LEMMA GivesUpKeeps ==
    ASSUME TypeOK, Threads, Stored, GivesUp
    PROVE  Threads' /\ Stored'
<1>1. /\ cur' = NoMsg /\ pc' = "idle" /\ unsaved' = <<>> /\ UNCHANGED <<analyses, marked>>
      /\ Running /\ cur \in Msgs /\ NoMsg \notin Msgs
  BY AgentAssumption DEF GivesUp, Abandon, Threads, Running, TypeOK
<1>2. \A m \in Msgs : ckpt[m].at = "end" => ckpt'[m] = ckpt[m]
  <2>1. ckpt[cur].at = "end" => Written = ckpt
    BY <1>1, WrittenType DEF Threads
  <2> QED BY <2>1, WrittenType DEF GivesUp
<1>3. Threads'
  BY <1>1, EmptySeq DEF Threads, Running
<1>4. Stored'
  <2>1. marked \subseteq Msgs
    BY DEF TypeOK
  <2> QED BY <1>1, <1>2, <2>1 DEF Stored, Finished
<1> QED BY <1>3, <1>4

LEMMA BeginKeeps ==
    ASSUME TypeOK, Threads, Stored, NEW m \in Msgs, Begin(m)
    PROVE  Threads' /\ Stored'
<1>1. /\ cur' = m /\ pc' = "graph" /\ m \notin marked /\ m # NoMsg
      /\ UNCHANGED <<ckpt, analyses, marked>>
  BY AgentAssumption DEF Begin
<1>2. Threads'
  <2>1. CASE ckpt[m].at = "new"
    <3>1. unsaved' = <<live'>>
      BY <2>1 DEF Begin
    <3>2. unsaved' # <<>> /\ Len(unsaved') = 1 /\ unsaved'[1] = live'
      BY <3>1
    <3> QED BY <1>1, <2>1, <3>2 DEF Threads, Running
  <2>2. CASE ckpt[m].at # "new"
    <3>1. unsaved' = <<>> /\ live' = ckpt[m]
      BY <2>2 DEF Begin
    <3> QED BY <1>1, <3>1, EmptySeq DEF Threads, Running
  <2> QED BY <2>1, <2>2
<1>3. Stored'
  BY <1>1 DEF Stored, Finished
<1> QED BY <1>2, <1>3

LEMMA EndKeeps ==
    ASSUME TypeOK, Threads, Stored, Persist \/ Mark
    PROVE  Threads' /\ Stored'
<1>1. cur \in Msgs /\ Running /\ NoMsg \notin Msgs /\ marked \subseteq Msgs
  BY AgentAssumption DEF Persist, Mark, Threads, Running, TypeOK
<1>2. CASE Persist
  <2>1. /\ unsaved = <<>> /\ live = ckpt[cur] /\ live.at = "end"
        /\ pc' = "mark" /\ UNCHANGED <<ckpt, live, unsaved, cur, marked>>
    BY <1>1, <1>2 DEF Persist, Threads
  <2>2. /\ analyses'[cur] = ckpt[cur].analysis
        /\ \A m \in Msgs : m # cur => analyses'[m] = analyses[m]
    BY <1>1, <1>2, <2>1 DEF Persist, TypeOK, Stored, Finished
  <2>3. Threads'
    BY <1>1, <2>1, EmptySeq DEF Threads, Running
  <2>4. Stored'
    BY <1>1, <2>1, <2>2 DEF Stored, Finished
  <2> QED BY <2>3, <2>4
<1>3. CASE Mark
  <2>1. /\ pc' = "idle" /\ cur' = NoMsg /\ marked' = marked \union {cur}
        /\ UNCHANGED <<ckpt, unsaved, analyses>> /\ unsaved = <<>> /\ Finished(cur)
    BY <1>3 DEF Mark, Stored
  <2>2. Threads'
    BY <2>1, EmptySeq DEF Threads, Running
  <2>3. Stored'
    BY <1>1, <2>1 DEF Stored, Finished
  <2> QED BY <2>2, <2>3
<1> QED BY <1>2, <1>3

LEMMA ThreadsStep ==
    ASSUME AgentInv, [Next]_vars PROVE Threads' /\ Stored'
<1> USE DEF AgentInv
<1>1. CASE GoesOn
  BY <1>1 DEF GoesOn, Threads, Stored, Finished, Running
<1>2. CASE UNCHANGED vars
  BY <1>2 DEF vars, Threads, Stored, Finished, Running
<1> QED BY <1>1, <1>2, ThreadStep, BeginKeeps, SaveKeeps, EndKeeps, MovesKeeps, GivesUpKeeps

-----------------------------------------------------------------------------
(* What a thread's states claim of the world *)

\* Rows are never dropped or rewritten and effects are never taken back.
LEMMA LedgerGrows ==
    ASSUME AgentInv, [Next]_vars
    PROVE  /\ \A m \in Msgs : rows[m] # NoRow => rows'[m] = rows[m]
           /\ \A m \in Msgs : Sent(m) \in Nat /\ effects'[m]["telegram"] >= Sent(m)
<1> USE DEF AgentInv
<1>1. /\ rows \in [Msgs -> Drafts \union {NoRow}] /\ effects \in [Msgs -> [Effects -> Nat]]
      /\ \A m \in Msgs, e \in Effects : effects[m][e] \in Nat
  BY DEF TypeOK
<1>2. "telegram" \in Effects
  BY DEF Effects
<1>3. \A m \in Msgs : rows[m] # NoRow => rows'[m] = rows[m]
  <2>1. CASE PersistRow
    BY <1>1, <2>1, PersistRowSettles
  <2>2. CASE ~PersistRow
    <3>1. UNCHANGED rows
      BY <2>2 DEF Next, Work, Fail, Begin, SaveCheckpoint, Persist, Mark, Analyze, AnalyzeTooLong,
         Calendar, Notify, NotifySkip, Extract, ExtractNoText, PersistSkip, NotionCreate,
         NotionCommit, NotionFails, Raise, Refused, LostReply, Crash, vars
    <3> QED BY <3>1
  <2> QED BY <2>1, <2>2
<1>4. \/ UNCHANGED effects
      \/ \E m \in Msgs, e \in Effects : Had(m, e)
  <2>1. pc # "idle" => cur \in Msgs
    BY DEF TypeOK, Threads, Running
  <2>2. pc = "notion" => target \in Msgs
    BY DEF Mirroring
  <2>3. {"analyze", "extract", "telegram", "page"} \subseteq Effects
    BY DEF Effects
  <2>4. CASE Work
    BY <2>1, <2>2, <2>3, <2>4 DEF Work, Begin, SaveCheckpoint, Persist, Mark, Analyze,
       AnalyzeTooLong, Calendar, Notify, NotifySkip, Extract, ExtractNoText, PersistSkip,
       PersistRow, NotionCreate, NotionCommit, At
  <2>5. CASE Fail
    BY <2>1, <2>2, <2>3, <2>5 DEF Fail, NotionFails, Raise, Refused, LostReply, Crash, At
  <2> QED BY <2>4, <2>5 DEF Next, vars
<1>5. \A m \in Msgs : effects'[m]["telegram"] >= effects[m]["telegram"]
  <2>1. CASE UNCHANGED effects
    BY <1>1, <1>2, <2>1
  <2>2. CASE \E m \in Msgs, e \in Effects : Had(m, e)
    <3>1. PICK m \in Msgs, e \in Effects : Had(m, e)
      BY <2>2
    <3>2. \A n \in Msgs, x \in Effects :
            effects'[n][x] = IF n = m /\ x = e THEN effects[n][x] + 1 ELSE effects[n][x]
      BY <3>1, HadOnce
    <3> QED BY <1>1, <1>2, <3>2
  <2> QED BY <1>4, <2>1, <2>2
<1> QED BY <1>1, <1>2, <1>3, <1>5 DEF Sent

LEMMA RecordedGrows ==
    ASSUME NEW old \in [Msgs -> Drafts \union {NoRow}], NEW new \in [Msgs -> Drafts \union {NoRow}],
           \A n \in Msgs : old[n] # NoRow => new[n] = old[n],
           NEW m \in Msgs, NEW d, Recorded(old, m, d)
    PROVE  Recorded(new, m, d)
<1>1. SameOrder(old, d) \subseteq SameOrder(new, d)
  BY DEF SameOrder, Rows
<1>2. SamePurchase(old, d) \subseteq SamePurchase(new, d)
  BY DEF SamePurchase, Rows
<1> QED BY <1>1, <1>2 DEF Recorded

LEMMA GoodGrows ==
    ASSUME NEW old \in [Msgs -> Drafts \union {NoRow}], NEW new \in [Msgs -> Drafts \union {NoRow}],
           \A n \in Msgs : old[n] # NoRow => new[n] = old[n],
           NEW sent \in Nat, NEW more \in Nat, more >= sent,
           NEW m \in Msgs, NEW s \in State, Good(old, sent, m, s)
    PROVE  Good(new, more, m, s)
<1>1. s.side = "logged" => Recorded(new, m, s.extracted)
  BY RecordedGrows DEF Good
<1> QED BY <1>1 DEF Good

\* The state a node's result leads to is one the thread may be in.
LEMMA NewStateGood ==
    ASSUME AgentInv, [Next]_vars, NEW s \in State, Moves(s)
    PROVE  Good(rows', effects'[cur]["telegram"], cur, s)
<1> USE DEF AgentInv
<1>1. /\ cur \in Msgs /\ Good(rows, Sent(cur), cur, live) /\ live \in State
      /\ live' = s /\ pc' = "graph" /\ pc # "idle" /\ cur' = cur
      /\ "telegram" \in Effects
  BY GoodLive DEF Moves, Complete, Threads, Running, TypeOK, Effects
<1>2. CASE Analyze
  <2>1. PICK a \in Analyses : s = [live EXCEPT !.analysis = a, !.at = Route(a)]
    BY <1>1, <1>2 DEF Analyze, Complete
  <2>2. live.side = "none"
    BY <1>1, <1>2 DEF Analyze, At, Good
  <2>3. s.side = "none" /\ s.at \in {"extract", "calendar", "notify"}
    BY <1>1, <2>1, <2>2, RouteType DEF State
  <2> QED BY <2>3 DEF Good
<1>3. CASE AnalyzeTooLong
  <2>1. s.side = "failed" /\ s.at = "notify"
    BY <1>1, <1>3 DEF AnalyzeTooLong, Complete, State
  <2> QED BY <2>1 DEF Good
<1>4. CASE Calendar
  <2>1. s.side = "calendar" /\ s.at = "notify"
    BY <1>1, <1>4 DEF Calendar, Complete, State
  <2> QED BY <2>1 DEF Good
<1>5. CASE Notify \/ NotifySkip
  <2>1. s.at = "end" /\ s.side = live.side /\ s.extracted = live.extracted /\ s.analysis = live.analysis
    BY <1>1, <1>5 DEF Notify, NotifySkip, Complete, State
  <2>2. UNCHANGED rows
    BY <1>5 DEF Notify, NotifySkip
  <2>3. Reportable(s) => effects'[cur]["telegram"] > 0
    <3>1. CASE NotifySkip
      BY <2>1, <3>1 DEF NotifySkip, Reportable
    <3>2. CASE Notify
      <4>1. Had(cur, "telegram") /\ effects[cur]["telegram"] \in Nat
        BY <1>1, <3>2 DEF Notify, TypeOK
      <4> QED BY <1>1, <4>1, HadOnce
    <3> QED BY <1>5, <3>1, <3>2
  <2> QED BY <1>1, <2>1, <2>2, <2>3 DEF Good
<1>6. CASE Extract
  <2>1. PICK d \in Drafts : s = [live EXCEPT !.extracted = d, !.at = "persist"]
    BY <1>1, <1>6 DEF Extract, Complete
  <2>2. live.side = "none"
    BY <1>1, <1>6 DEF Extract, At, Good
  <2>3. s.side = "none" /\ s.at = "persist" /\ s.extracted = d
    BY <1>1, <2>1, <2>2 DEF State
  <2> QED BY <2>3 DEF Good
<1>7. CASE ExtractNoText \/ PersistSkip
  <2>1. s.side = "review" /\ s.at \in {"persist", "notify"}
    BY <1>1, <1>7 DEF ExtractNoText, PersistSkip, Complete, State
  <2> QED BY <2>1 DEF Good
<1>8. CASE PersistRow \/ NotionCommit \/ NotionFails
  <2>1. s = Logged
    BY <1>1, <1>8 DEF PersistRow, NotionCommit, NotionFails, Complete, Logged
  <2>2. Recorded(rows', cur, live.extracted)
    <3>1. CASE PersistRow
      BY <3>1, PersistRowSettles
    <3>2. CASE NotionCommit \/ NotionFails
      BY <3>2 DEF NotionCommit, NotionFails, Mirroring
    <3> QED BY <1>8, <3>1, <3>2
  <2> QED BY <2>1, <2>2, LoggedType DEF Good
<1>9. ~(Persist \/ Mark \/ NotionCreate \/ Raise \/ Refused \/ LostReply \/ Crash)
  BY <1>1 DEF Persist, Mark, NotionCreate, Raise, Refused, LostReply, Crash, Abandon
<1>10. ~(\E m \in Msgs : Begin(m)) /\ ~SaveCheckpoint /\ ~UNCHANGED vars
  <2>1. Len(unsaved') = Len(unsaved) + 1 /\ Len(unsaved) \in Nat
    BY AppendProperties, LenProperties DEF Moves, Complete, TypeOK
  <2>2. SaveCheckpoint => Len(unsaved') = Len(unsaved) - 1
    BY HeadTailProperties DEF SaveCheckpoint, TypeOK
  <2> QED BY <1>1, <2>1, <2>2 DEF Begin, vars
<1> QED BY <1>2, <1>3, <1>4, <1>5, <1>6, <1>7, <1>8, <1>9, <1>10 DEF Next, Work, Fail

LEMMA GoodStep ==
    ASSUME AgentInv, TypeOK', [Next]_vars PROVE GoodThreads'
<1> USE DEF AgentInv
<1>1. ASSUME NEW m \in Msgs, NEW s \in State, Good(rows, Sent(m), m, s)
      PROVE  Good(rows', effects'[m]["telegram"], m, s)
  <2>1. /\ rows \in [Msgs -> Drafts \union {NoRow}] /\ rows' \in [Msgs -> Drafts \union {NoRow}]
        /\ effects'[m]["telegram"] \in Nat
    BY DEF TypeOK, Effects
  <2> QED BY <1>1, <2>1, GoodGrows, LedgerGrows
<1>2. /\ ckpt \in [Msgs -> State] /\ unsaved \in Seq(State) /\ Len(unsaved) \in Nat
      /\ \A i \in 1 .. Len(unsaved) : unsaved[i] \in State
  BY LenProperties DEF TypeOK
<1>3. \A m \in Msgs : Good(rows', effects'[m]["telegram"], m, ckpt[m])
  BY <1>1, <1>2 DEF GoodThreads
<1>4. cur \in Msgs => \A i \in 1 .. Len(unsaved) : Good(rows', effects'[cur]["telegram"], cur, unsaved[i])
  BY <1>1, <1>2 DEF GoodThreads
<1>5. cur \in Msgs \/ unsaved = <<>>
  BY DEF TypeOK, Threads, Running
<1>6. CASE \E m \in Msgs : Begin(m)
  <2>1. PICK m \in Msgs : Begin(m)
    BY <1>6
  <2>2. Good(rows', effects'[m]["telegram"], m, [NewThread EXCEPT !.at = "analyze"])
    BY DEF Good, NewThread
  <2>3. CASE ckpt[m].at = "new"
    <3>1. unsaved' = <<[NewThread EXCEPT !.at = "analyze"]>> /\ cur' = m /\ ckpt' = ckpt
      BY <2>1, <2>3 DEF Begin
    <3>2. \A i \in 1 .. Len(unsaved') : unsaved'[i] = [NewThread EXCEPT !.at = "analyze"]
      BY <3>1
    <3> QED BY <1>3, <2>2, <3>1, <3>2 DEF GoodThreads, Sent
  <2>4. CASE ckpt[m].at # "new"
    <3>1. unsaved' = <<>> /\ ckpt' = ckpt
      BY <2>1, <2>4 DEF Begin
    <3> QED BY <1>3, <3>1, EmptySeq DEF GoodThreads, Sent
  <2> QED BY <2>3, <2>4
<1>7. CASE SaveCheckpoint
  <2>1. unsaved # <<>> /\ cur' = cur /\ unsaved' = Tail(unsaved) /\ ckpt' = [ckpt EXCEPT ![cur] = Head(unsaved)]
    BY <1>7 DEF SaveCheckpoint
  <2>2. Len(unsaved) \in Nat \ {0} /\ Len(unsaved') = Len(unsaved) - 1 /\ Head(unsaved) = unsaved[1]
        /\ \A i \in 1 .. Len(unsaved') : unsaved'[i] = unsaved[i + 1] /\ i + 1 \in 1 .. Len(unsaved)
    BY <1>2, <2>1, HeadTailProperties, EmptySeq
  <2>3. \A i \in 1 .. Len(unsaved') : Good(rows', effects'[cur]["telegram"], cur, unsaved'[i])
    BY <1>4, <1>5, <2>1, <2>2
  <2>4. Good(rows', effects'[cur]["telegram"], cur, unsaved[1])
    BY <1>4, <1>5, <2>1, <2>2
  <2>5. \A m \in Msgs : Good(rows', effects'[m]["telegram"], m, ckpt'[m])
    BY <1>2, <1>3, <2>1, <2>2, <2>4
  <2> QED BY <2>1, <2>3, <2>5 DEF GoodThreads, Sent
<1>8. CASE Persist \/ Mark
  <2>1. unsaved' = <<>> /\ ckpt' = ckpt
    BY <1>8 DEF Persist, Mark, Stored
  <2> QED BY <1>3, <2>1, EmptySeq DEF GoodThreads, Sent
<1>9. CASE \E s \in State : Moves(s)
  <2>1. PICK s \in State : Moves(s)
    BY <1>9
  <2>2. /\ Len(unsaved') = Len(unsaved) + 1 /\ unsaved'[Len(unsaved')] = s
        /\ \A i \in 1 .. Len(unsaved) : unsaved'[i] = unsaved[i]
    BY <1>2, <2>1, AppendProperties DEF Moves, Complete
  <2>3. Good(rows', effects'[cur]["telegram"], cur, s)
    BY <2>1, NewStateGood
  <2>4. cur \in Msgs /\ cur' = cur /\ ckpt' = ckpt
    BY <2>1 DEF Moves, TypeOK, Threads, Running
  <2>5. \A i \in 1 .. Len(unsaved') : Good(rows', effects'[cur]["telegram"], cur, unsaved'[i])
    BY <1>2, <1>4, <2>2, <2>3, <2>4
  <2> QED BY <1>3, <2>4, <2>5 DEF GoodThreads, Sent
<1>10. CASE GoesOn \/ UNCHANGED vars
  <2>1. UNCHANGED <<cur, ckpt, unsaved>>
    BY <1>10 DEF GoesOn, vars
  <2>2. \A i \in 1 .. Len(unsaved) : Good(rows', effects'[cur]["telegram"], cur, unsaved[i])
    BY <1>4, <1>5, EmptySeq
  <2> QED BY <1>3, <2>1, <2>2 DEF GoodThreads, Sent
<1>11. CASE GivesUp
  <2>1. unsaved' = <<>>
    BY <1>11 DEF GivesUp, Abandon
  <2>2. \A m \in Msgs : Good(rows', effects'[m]["telegram"], m, Written[m])
    <3>1. ASSUME NEW m \in Msgs PROVE Good(rows', effects'[m]["telegram"], m, Written[m])
      <4>1. CASE m = cur /\ unsaved # <<>>
        BY <1>4, <4>1, WrittenType
      <4>2. CASE ~(m = cur /\ unsaved # <<>>)
        <5>1. Written[m] = ckpt[m]
          BY <4>2, WrittenType
        <5> QED BY <1>3, <5>1
      <4> QED BY <4>1, <4>2
    <3> QED BY <3>1
  <2> QED BY <1>3, <1>11, <2>1, <2>2, EmptySeq DEF GoodThreads, Sent, GivesUp
<1> QED BY <1>6, <1>7, <1>8, <1>9, <1>10, <1>11, ThreadStep

LEMMA MirroringStep ==
    ASSUME AgentInv, [Next]_vars PROVE Mirroring'
<1> USE DEF AgentInv
<1>1. CASE PersistRow
  <2>1. CASE Moves(Logged)
    BY <2>1 DEF Moves, Mirroring
  <2>2. CASE GoesOn /\ pc' = "notion" /\ ~page[target'] /\ Len(unsaved) <= Lag
    <3>1. UNCHANGED <<live, unsaved, cur, page>>
      BY <1>1, <2>2 DEF PersistRow, GoesOn
    <3> QED BY <1>1, <2>2, <3>1, PersistRowSettles DEF Mirroring
  <2> QED BY <1>1, <2>1, <2>2, PersistRowSettles
<1>2. CASE NotionCreate
  BY <1>2 DEF NotionCreate, Mirroring
<1>3. CASE SaveCheckpoint
  <2>1. Len(unsaved') = Len(unsaved) - 1 /\ Len(unsaved) \in Nat
    BY <1>3, HeadTailProperties, LenProperties DEF SaveCheckpoint, TypeOK
  <2>2. Lag \in Nat
    BY AgentAssumption
  <2> QED BY <1>3, <2>1, <2>2 DEF SaveCheckpoint, Mirroring
<1>4. CASE UNCHANGED vars
  BY <1>4 DEF vars, Mirroring
<1>5. ASSUME ~PersistRow, ~NotionCreate, ~SaveCheckpoint, ~UNCHANGED vars PROVE Mirroring'
  <2>1. pc' \notin {"notion", "notionCommit"}
    <3>1. CASE Fail
      BY <3>1 DEF Fail, NotionFails, Raise, Refused, LostReply, Crash, Abandon
    <3>2. CASE Work
      BY <1>5, <3>2 DEF Work, Begin, Persist, Mark, Analyze, AnalyzeTooLong, Calendar, Notify,
         NotifySkip, Extract, ExtractNoText, PersistSkip, NotionCommit, At
    <3> QED BY <1>5, <3>1, <3>2 DEF Next
  <2> QED BY <2>1 DEF Mirroring
<1> QED BY <1>1, <1>2, <1>3, <1>4, <1>5

-----------------------------------------------------------------------------
(* Two rows of one order *)

LEMMA BookingStep ==
    ASSUME AgentInv, [Next]_vars PROVE NoDoubleBooking'
<1> USE DEF AgentInv
<1>1. CASE UNCHANGED rows
  BY <1>1 DEF NoDoubleBooking, Rows
<1>2. CASE PersistRow /\ ~UNCHANGED rows
  <2> DEFINE d == live.extracted
  <2>1. /\ cur \in Msgs /\ d \in Drafts /\ SameOrder(rows, d) = {} /\ rows' = [rows EXCEPT ![cur] = d]
        /\ rows \in [Msgs -> Drafts \union {NoRow}]
    BY <1>2, PersistRowSettles DEF TypeOK
  <2> HIDE DEF d
  <2>2. \A m \in Rows(rows) : d.order # None => rows[m].order # d.order
    BY <2>1 DEF SameOrder
  <2>3. \A m \in Rows(rows') : (m = cur /\ rows'[m] = d) \/ (m \in Rows(rows) /\ rows'[m] = rows[m])
    BY <2>1 DEF Rows
  <2>4. ASSUME NEW m \in Rows(rows'), NEW n \in Rows(rows'),
               rows'[m].order # None, rows'[m].order = rows'[n].order
        PROVE  m = n
    BY <2>2, <2>3, <2>4 DEF NoDoubleBooking
  <2> QED BY <2>4 DEF NoDoubleBooking
<1>3. PersistRow \/ UNCHANGED rows
  BY DEF Next, Work, Fail, Begin, SaveCheckpoint, Persist, Mark, Analyze, AnalyzeTooLong,
     Calendar, Notify, NotifySkip, Extract, ExtractNoText, PersistSkip, NotionCreate,
     NotionCommit, NotionFails, Raise, Refused, LostReply, Crash, vars
<1> QED BY <1>1, <1>2, <1>3

-----------------------------------------------------------------------------
(* Effects and what pays for them *)

LEMMA PastKeeps ==
    ASSUME AgentInv, [Next]_vars, NEW m \in Msgs, NEW e \in Effects, Past(Now(m), e)
    PROVE  Past(Now(m), e)' \/ Spend("crash")
<1> USE DEF AgentInv
<1>1. cur \in Msgs \/ cur = NoMsg
  BY DEF TypeOK
<1>2. NoMsg \notin Msgs
  BY AgentAssumption
<1>3. CASE \E n \in Msgs : Begin(n)
  <2>1. PICK n \in Msgs : Begin(n)
    BY <1>3
  <2>2. cur = NoMsg /\ cur' = n /\ ckpt' = ckpt
    BY <2>1 DEF Begin, Threads, Running
  <2>3. ckpt[m].at # "new"
    BY <1>2, <2>2 DEF Now, Past
  <2>4. n = m => live' = ckpt[m]
    BY <2>1, <2>3 DEF Begin
  <2> QED BY <1>2, <2>2, <2>4 DEF Now, Past
<1>4. CASE SaveCheckpoint
  <2>1. m # cur => ckpt'[m] = ckpt[m]
    BY <1>4 DEF SaveCheckpoint, TypeOK
  <2> QED BY <1>4, <2>1 DEF SaveCheckpoint, Now, Past
<1>5. CASE Persist
  BY <1>5 DEF Persist, Now, Past
<1>6. CASE Mark
  <2>1. cur' = NoMsg /\ ckpt' = ckpt /\ (cur \in Msgs => live = ckpt[cur])
    BY <1>2, <1>6 DEF Mark, Stored, Threads, Running
  <2> QED BY <1>2, <2>1 DEF Now, Past
<1>7. CASE \E s \in State : Moves(s)
  <2>1. PICK s \in State : Moves(s)
    BY <1>7
  <2>2. cur' = cur /\ ckpt' = ckpt /\ live' = s
    BY <2>1 DEF Moves, Complete
  <2>3. Past(live, e) => Past(s, e)
    BY <2>1 DEF Moves, Past
  <2> QED BY <2>2, <2>3 DEF Now, Past
<1>8. CASE GoesOn \/ UNCHANGED vars
  BY <1>8 DEF GoesOn, vars, Now, Past
<1>9. CASE GivesUp
  <2>1. CASE ckpt' = Written
    <3>1. cur' = NoMsg /\ Running
      BY <1>9 DEF GivesUp, Abandon, Threads
    <3>2. m # cur => ckpt'[m] = ckpt[m]
      BY <2>1, WrittenType
    <3>3. m = cur => ckpt'[m] = live
      BY <2>1, <3>1, WrittenType DEF Threads
    <3> QED BY <1>2, <3>1, <3>2, <3>3 DEF Now, Past
  <2> QED BY <1>9, <2>1 DEF GivesUp
<1> QED BY <1>3, <1>4, <1>5, <1>6, <1>7, <1>8, <1>9, ThreadStep

\* A step has at most one effect, and an LLM or Telegram call only of a thread
\* that has not ended.
LEMMA OneEffect ==
    ASSUME AgentInv, [Next]_vars
    PROVE  \/ UNCHANGED effects
           \/ /\ target \in Msgs /\ Had(target, "page")
              /\ ~Mirrored(target) /\ ((Mirrored(target)' /\ target' = target) \/ Spend("lost"))
           \/ /\ cur \in Msgs /\ live.at # "end"
              /\ \E e \in {"analyze", "extract", "telegram"} :
                   Had(cur, e) /\ ((~Past(live, e) /\ Past(live, e)' /\ cur' = cur) \/ Spend("lost"))
<1> USE DEF AgentInv
<1>1. pc # "idle" => cur \in Msgs
  BY DEF TypeOK, Threads, Running
<1>2. CASE Analyze \/ AnalyzeTooLong
  <2>1. live.at = "analyze" /\ cur \in Msgs /\ Had(cur, "analyze") /\ cur' = cur
    BY <1>1, <1>2 DEF Analyze, AnalyzeTooLong, At
  <2>2. live'.at \in {"extract", "calendar", "notify"}
    BY <1>2, RouteType DEF Analyze, AnalyzeTooLong, Complete, TypeOK, State
  <2> QED BY <2>1, <2>2 DEF Past
<1>3. CASE Extract
  <2>1. live.at = "extract" /\ cur \in Msgs /\ Had(cur, "extract") /\ cur' = cur
    BY <1>1, <1>3 DEF Extract, At
  <2>2. live'.at = "persist"
    BY <1>3 DEF Extract, Complete, TypeOK, State
  <2> QED BY <2>1, <2>2 DEF Past
<1>4. CASE Notify
  <2>1. live.at = "notify" /\ cur \in Msgs /\ Had(cur, "telegram") /\ cur' = cur
    BY <1>1, <1>4 DEF Notify, At
  <2>2. live'.at = "end"
    BY <1>4 DEF Notify, Complete, TypeOK, State
  <2> QED BY <2>1, <2>2 DEF Past
<1>5. CASE NotionCreate
  BY <1>5 DEF NotionCreate, Mirroring, Mirrored
<1>6. CASE NotionFails
  BY <1>6 DEF NotionFails, Mirroring, Mirrored
<1>7. CASE LostReply
  <2>1. CASE \E e \in {"analyze", "extract"} : At(e) /\ Had(cur, e)
    BY <1>1, <1>7, <2>1 DEF LostReply, At
  <2>2. CASE At("notify") /\ Had(cur, "telegram")
    BY <1>1, <1>7, <2>2 DEF LostReply, At
  <2> QED BY <1>7, <2>1, <2>2 DEF LostReply
<1>8. ASSUME ~(Analyze \/ AnalyzeTooLong \/ Extract \/ Notify \/ NotionCreate \/ NotionFails \/ LostReply)
      PROVE  UNCHANGED effects
  BY <1>8 DEF Next, Work, Fail, Begin, SaveCheckpoint, Persist, Mark, Calendar, NotifySkip,
     ExtractNoText, PersistSkip, PersistRow, NotionCommit, Raise, Refused, Crash, vars
<1> QED BY <1>2, <1>3, <1>4, <1>5, <1>6, <1>7, <1>8

\* Once a page is there, or being committed, it stays so unless the commit fails.
LEMMA MirroredKeeps ==
    ASSUME AgentInv, [Next]_vars, NEW m \in Msgs, Mirrored(m)
    PROVE  Mirrored(m)' \/ Spend("crash") \/ Spend("lost")
<1> USE DEF AgentInv
<1>1. page \in [Msgs -> BOOLEAN]
  BY DEF TypeOK
<1>2. CASE page[m]
  <2>1. page' = page \/ page' = [page EXCEPT ![target] = TRUE]
    BY DEF Next, Work, Fail, Begin, SaveCheckpoint, Persist, Mark, Analyze, AnalyzeTooLong,
       Calendar, Notify, NotifySkip, Extract, ExtractNoText, PersistSkip, PersistRow, NotionCreate,
       NotionCommit, NotionFails, Raise, Refused, LostReply, Crash, vars
  <2> QED BY <1>1, <1>2, <2>1 DEF Mirrored
<1>3. CASE pc = "notionCommit" /\ target = m
  <2>1. CASE NotionCommit
    BY <1>1, <1>3, <2>1 DEF NotionCommit, Mirrored
  <2>2. CASE SaveCheckpoint \/ UNCHANGED vars
    BY <1>3, <2>2 DEF SaveCheckpoint, vars, Mirrored
  <2>3. CASE LostReply \/ Crash
    BY <2>3 DEF LostReply, Crash
  <2>4. ~NotionCommit /\ ~SaveCheckpoint /\ ~LostReply /\ ~Crash => UNCHANGED vars
    BY <1>3 DEF Next, Work, Fail, Begin, Persist, Mark, Analyze, AnalyzeTooLong, Calendar, Notify,
       NotifySkip, Extract, ExtractNoText, PersistSkip, PersistRow, NotionCreate, NotionFails,
       Raise, Refused, At
  <2> QED BY <2>1, <2>2, <2>3, <2>4
<1> QED BY <1>2, <1>3 DEF Mirrored

LEMMA FaultsCount ==
    ASSUME AgentInv, [Next]_vars
    PROVE  /\ Faults \in Nat /\ Faults' \in Nat /\ Faults' >= Faults
           /\ Spend("crash") \/ Spend("lost") => Faults' = Faults + 1
           /\ ~(Spend("crash") /\ Spend("lost"))
           /\ \A f \in Failures : budget'[f] <= Budget[f]
<1> USE DEF AgentInv
<1>1. /\ budget \in [Failures -> Nat] /\ Budget \in [Failures -> Nat]
      /\ \A f \in Failures : budget[f] \in Nat /\ Budget[f] \in Nat /\ budget[f] <= Budget[f]
      /\ "crash" \in Failures /\ "lost" \in Failures /\ "raise" \in Failures
  BY AgentAssumption DEF TypeOK, Paid, Failures
<1>2. UNCHANGED budget \/ \E f \in Failures : Spend(f)
  BY <1>1 DEF Next, Work, Fail, Begin, SaveCheckpoint, Persist, Mark, Analyze, AnalyzeTooLong,
     Calendar, Notify, NotifySkip, Extract, ExtractNoText, PersistSkip, PersistRow, NotionCreate,
     NotionCommit, NotionFails, Raise, Refused, LostReply, Crash, vars
<1>3. ASSUME NEW f \in Failures, Spend(f)
      PROVE  /\ \A g \in Failures : budget'[g] = IF g = f THEN budget[g] - 1 ELSE budget[g]
             /\ budget' \in [Failures -> Nat] /\ budget' # budget
  <2>1. /\ budget' \in [Failures -> Nat]
        /\ \A g \in Failures : budget'[g] = IF g = f THEN budget[g] - 1 ELSE budget[g]
    BY <1>3, SpentOnce
  <2>2. budget'[f] # budget[f]
    BY <1>1, <2>1
  <2> QED BY <2>1, <2>2
<1>4. CASE \E f \in Failures : Spend(f)
  <2>1. PICK f \in Failures : Spend(f)
    BY <1>4
  <2>2. \A g \in Failures : /\ budget'[g] = IF g = f THEN budget[g] - 1 ELSE budget[g]
                            /\ budget'[g] \in Nat
    BY <1>3, <2>1
  <2>3. Spend("crash") => f = "crash"
    BY <1>1, <1>3, <2>2
  <2>4. Spend("lost") => f = "lost"
    BY <1>1, <1>3, <2>2
  <2> QED BY <1>1, <2>2, <2>3, <2>4 DEF Faults, Spent
<1>5. CASE UNCHANGED budget
  <2>1. ~Spend("crash") /\ ~Spend("lost")
    BY <1>1, <1>3, <1>5
  <2> QED BY <1>1, <1>5, <2>1 DEF Faults, Spent
<1> QED BY <1>2, <1>4, <1>5

LEMMA PaidStep ==
    ASSUME AgentInv, TypeOK', [Next]_vars PROVE Paid'
<1> USE DEF AgentInv
<1>1. /\ Faults \in Nat /\ Faults' \in Nat /\ Faults' >= Faults
      /\ Spend("crash") \/ Spend("lost") => Faults' = Faults + 1
      /\ ~(Spend("crash") /\ Spend("lost"))
      /\ \A f \in Failures : budget'[f] <= Budget[f]
  BY FaultsCount
<1>2. ASSUME NEW m \in Msgs, NEW e \in Effects
      PROVE  effects'[m][e] <= Once(Done(m, e)') + Faults'
  <2>1. effects[m][e] \in Nat /\ effects'[m][e] \in Nat /\ effects[m][e] <= Once(Done(m, e)) + Faults
    BY DEF TypeOK, Paid
  <2>2. Done(m, e) => Done(m, e)' \/ Spend("crash") \/ Spend("lost")
    BY PastKeeps, MirroredKeeps DEF Done
  <2>3. CASE effects'[m][e] = effects[m][e]
    BY <1>1, <2>1, <2>2, <2>3 DEF Once
  <2>4. CASE effects'[m][e] = effects[m][e] + 1 /\ Spend("lost") /\ (Done(m, e) => Done(m, e)')
    BY <1>1, <2>1, <2>4 DEF Once
  <2>5. CASE effects'[m][e] = effects[m][e] + 1 /\ ~Done(m, e) /\ Done(m, e)'
    BY <1>1, <2>1, <2>5 DEF Once
  <2>6. CASE UNCHANGED effects
    BY <2>3, <2>6
  <2>7. CASE /\ target \in Msgs /\ Had(target, "page")
             /\ ~Mirrored(target) /\ ((Mirrored(target)' /\ target' = target) \/ Spend("lost"))
    <3>1. CASE m = target /\ e = "page"
      <4>1. effects'[m][e] = effects[m][e] + 1
        BY <2>7, <3>1, HadOnce
      <4>2. ~Done(m, e)
        BY <2>7, <3>1 DEF Done, Past
      <4>3. Mirrored(target)' /\ target' = target => Done(m, e)'
        BY <3>1 DEF Done, Mirrored
      <4> QED BY <2>4, <2>5, <2>7, <4>1, <4>2, <4>3
    <3>2. CASE ~(m = target /\ e = "page")
      <4>1. effects'[m][e] = effects[m][e]
        BY <2>7, <3>2, HadOnce DEF Effects
      <4> QED BY <2>3, <4>1
    <3> QED BY <3>1, <3>2
  <2>8. ASSUME cur \in Msgs,
               NEW x \in {"analyze", "extract", "telegram"}, Had(cur, x),
               (~Past(live, x) /\ Past(live, x)' /\ cur' = cur) \/ Spend("lost")
        PROVE  effects'[m][e] <= Once(Done(m, e)') + Faults'
    <3>1. x \in Effects
      BY DEF Effects
    <3>2. CASE m = cur /\ e = x
      <4>1. effects'[m][e] = effects[m][e] + 1
        BY <2>8, <3>1, <3>2, HadOnce
      <4>2. CASE ~Past(live, x) /\ Past(live, x)' /\ cur' = cur
        <5>1. ~Done(m, e) /\ Done(m, e)'
          BY <3>2, <4>2 DEF Done, Now, Past
        <5> QED BY <2>5, <4>1, <5>1
      <4>3. CASE Spend("lost")
        <5>1. Done(m, e) => Done(m, e)'
          BY <1>1, <2>8, <3>2, <4>3, PastKeeps DEF Done
        <5> QED BY <2>4, <4>1, <4>3, <5>1
      <4> QED BY <2>8, <4>2, <4>3
    <3>3. CASE ~(m = cur /\ e = x)
      <4>1. effects'[m][e] = effects[m][e]
        BY <2>8, <3>1, <3>3, HadOnce
      <4> QED BY <2>3, <4>1
    <3> QED BY <3>2, <3>3
  <2> QED BY <2>6, <2>7, <2>8, OneEffect
<1> QED BY <1>1, <1>2 DEF Paid

-----------------------------------------------------------------------------
(* The theorems *)

LEMMA AgentInit == Init => AgentInv
<1> SUFFICES ASSUME Init PROVE AgentInv
  OBVIOUS
<1>1. /\ NewThread \in State /\ \A m \in Msgs : ckpt[m] = NewThread
      /\ NewThread.at = "new" /\ NewThread.side = "none" /\ NewThread.analysis = "none"
  BY NewType DEF Init, NewThread
<1>2. TypeOK
  BY <1>1, EmptySeq, AgentAssumption DEF Init, TypeOK, Analyses
<1>3. Threads
  BY EmptySeq, AgentAssumption DEF Init, Threads, Running
<1>4. Stored
  BY DEF Init, Stored, Finished
<1>5. Mirroring
  BY DEF Init, Mirroring
<1>6. GoodThreads
  BY <1>1, EmptySeq DEF Init, GoodThreads, Good
<1>7. Paid
  <2>1. Budget \in [Failures -> Nat] /\ budget = Budget /\ "crash" \in Failures /\ "lost" \in Failures
    BY AgentAssumption DEF Init, Failures
  <2>2. Faults = 0
    BY <2>1 DEF Faults, Spent
  <2>3. \A m \in Msgs, e \in Effects : effects[m][e] = 0
    BY DEF Init
  <2> QED BY <2>1, <2>2, <2>3 DEF Paid, Once
<1>8. NoDoubleBooking
  BY DEF Init, NoDoubleBooking, Rows
<1> QED BY <1>2, <1>3, <1>4, <1>5, <1>6, <1>7, <1>8 DEF AgentInv

LEMMA AgentStep == AgentInv /\ [Next]_vars => AgentInv'
<1> SUFFICES ASSUME AgentInv, [Next]_vars PROVE AgentInv'
  OBVIOUS
<1>1. TypeOK'
  BY LedgerStep, ThreadTypeStep, TypeParts, PTL
<1> QED BY <1>1, ThreadsStep, MirroringStep, GoodStep, PaidStep, BookingStep DEF AgentInv

LEMMA AgentInvariant == Spec => []AgentInv
BY AgentInit, AgentStep, PTL DEF Spec

\* Whatever fails in handle_email and its graph, every variable keeps its type;
\* the checkpoints LangGraph is behind never exceed Lag + 1.
THEOREM TypeCorrect == Spec => []TypeOK
BY AgentInvariant, PTL DEF AgentInv

\* persist never books an order number a second time, for whatever emails,
\* extractions, replays and Notion failures.
THEOREM OneRowPerOrder == Spec => []NoDoubleBooking
BY AgentInvariant, PTL DEF AgentInv

\* A thread whose checkpoint says persist logged its expense has a row for it:
\* its own, or one its draft matches.
THEOREM LoggedStaysRecorded == Spec => []LoggedIsRecorded
<1>1. AgentInv => LoggedIsRecorded
  BY DEF AgentInv, GoodThreads, Good, Recorded, LoggedIsRecorded
<1> QED BY <1>1, AgentInvariant, PTL

\* The poller marks a message only after its graph ended, its report was sent,
\* and its analysis was stored.
THEOREM MarkedIsDone == Spec => []NothingSwallowed
<1>1. AgentInv => NothingSwallowed
  <2> SUFFICES ASSUME AgentInv, NEW m \in marked
               PROVE  /\ ckpt[m].at = "end"
                      /\ Reportable(ckpt[m]) => effects[m]["telegram"] > 0
                      /\ analyses[m] = ckpt[m].analysis
    BY DEF NothingSwallowed
  <2>1. m \in Msgs /\ Finished(m) /\ Good(rows, Sent(m), m, ckpt[m])
    BY DEF AgentInv, TypeOK, Stored, GoodThreads
  <2> QED BY <2>1 DEF Finished, Good, Sent
<1> QED BY <1>1, AgentInvariant, PTL

\* Repeated LLM calls, Telegram messages and Notion pages of one message number
\* at most the crashes and lost replies there were.
THEOREM RepeatsArePaidFor == Spec => []DuplicatesArePaidFor
<1>1. AgentInv => DuplicatesArePaidFor
  <2> SUFFICES ASSUME AgentInv, NEW m \in Msgs, NEW e \in Effects
               PROVE  effects[m][e] <= 1 + Spent("crash") + Spent("lost")
    BY DEF DuplicatesArePaidFor
  <2>1. /\ effects[m][e] \in Nat /\ budget["crash"] \in Nat /\ budget["lost"] \in Nat
        /\ Budget["crash"] \in Nat /\ Budget["lost"] \in Nat
    BY AgentAssumption DEF AgentInv, TypeOK, Failures
  <2>2. effects[m][e] <= Once(Done(m, e)) + Faults
    BY DEF AgentInv, Paid
  <2> QED BY <2>1, <2>2 DEF Once, Faults, Spent
<1> QED BY <1>1, AgentInvariant, PTL

-----------------------------------------------------------------------------
(* The agent as a handler of mail *)

\* Whatever state a thread may be in, past its first node the model was asked.
AskedOf(m, s) == s.at \in {"new", "analyze"} \/ effects[m]["analyze"] > 0

Asked ==
    /\ \A m \in Msgs : AskedOf(m, ckpt[m])
    /\ \A i \in 1 .. Len(unsaved) : AskedOf(cur, unsaved[i])

\* Effects are never taken back.
LEMMA EffectsGrow ==
    ASSUME AgentInv, [Next]_vars, NEW m \in Msgs, effects[m]["analyze"] > 0
    PROVE  effects'[m]["analyze"] > 0
<1> USE DEF AgentInv
<1>1. "analyze" \in Effects /\ effects[m]["analyze"] \in Nat
  BY DEF TypeOK, Effects
<1>2. CASE UNCHANGED effects
  BY <1>2
<1>3. ASSUME NEW n \in Msgs, NEW e \in Effects, Had(n, e)
      PROVE  effects'[m]["analyze"] > 0
  <2>1. effects'[m]["analyze"] \in {effects[m]["analyze"], effects[m]["analyze"] + 1}
    BY <1>1, <1>3, HadOnce
  <2> QED BY <1>1, <2>1
<1> QED BY <1>2, <1>3, OneEffect DEF Effects

\* A thread moves on from a node, and from its first one by asking.
LEMMA MovesAsk ==
    ASSUME AgentInv, [Next]_vars, NEW s \in State, Moves(s)
    PROVE  live.at # "new" /\ (live.at = "analyze" => Had(cur, "analyze"))
<1> USE DEF AgentInv
<1>1. pc # "idle" /\ pc' = "graph"
  BY DEF Moves
<1>2. ~(\E m \in Msgs : Begin(m)) /\ ~SaveCheckpoint /\ ~UNCHANGED vars
  <2>1. Len(unsaved') = Len(unsaved) + 1 /\ Len(unsaved) \in Nat
    BY AppendProperties, LenProperties DEF Moves, Complete, TypeOK
  <2>2. SaveCheckpoint => Len(unsaved') = Len(unsaved) - 1
    BY HeadTailProperties DEF SaveCheckpoint, TypeOK
  <2> QED BY <1>1, <2>1, <2>2 DEF Begin, vars
<1>3. ~(Persist \/ Mark \/ NotionCreate \/ Raise \/ Refused \/ LostReply \/ Crash)
  BY <1>1 DEF Persist, Mark, NotionCreate, Raise, Refused, LostReply, Crash, Abandon
<1>4. CASE NotionCommit \/ NotionFails
  BY <1>4 DEF NotionCommit, NotionFails, Mirroring
<1>5. CASE Calendar \/ Notify \/ NotifySkip \/ Extract \/ ExtractNoText \/ PersistSkip \/ PersistRow
  BY <1>5 DEF Calendar, Notify, NotifySkip, Extract, ExtractNoText, PersistSkip, PersistRow, At
<1>6. CASE Analyze \/ AnalyzeTooLong
  BY <1>6 DEF Analyze, AnalyzeTooLong, At
<1> QED BY <1>2, <1>3, <1>4, <1>5, <1>6 DEF Next, Work, Fail

LEMMA AskedLive ==
    ASSUME TypeOK, Threads, Asked, Running
    PROVE  cur \in Msgs /\ AskedOf(cur, live)
<1>1. cur \in Msgs
  BY DEF TypeOK, Running
<1>2. CASE unsaved = <<>>
  BY <1>1, <1>2 DEF Threads, Asked
<1>3. CASE unsaved # <<>>
  <2>1. Len(unsaved) \in 1 .. Len(unsaved)
    BY <1>3, WrittenType
  <2> QED BY <1>1, <1>3, <2>1 DEF Threads, Asked
<1> QED BY <1>1, <1>2, <1>3

LEMMA AskedStep ==
    ASSUME AgentInv, Asked, [Next]_vars
    PROVE  Asked'
<1> USE DEF AgentInv
<1>0. /\ \A m \in Msgs : \A s : AskedOf(m, s) => s.at \in {"new", "analyze"} \/ effects'[m]["analyze"] > 0
      /\ NoMsg \notin Msgs
  BY EffectsGrow, AgentAssumption DEF AskedOf
<1>1. CASE \E m \in Msgs : Begin(m)
  <2>1. PICK m \in Msgs : Begin(m)
    BY <1>1
  <2>2. ckpt' = ckpt /\ cur' = m
    BY <2>1 DEF Begin
  <2>3. unsaved' = <<>> \/ (unsaved' = <<live'>> /\ live'.at = "analyze")
    BY <2>1 DEF Begin, NewThread
  <2>4. \A i \in 1 .. Len(unsaved') : unsaved'[i].at = "analyze"
    BY <2>3
  <2> QED BY <1>0, <2>2, <2>4 DEF Asked, AskedOf
<1>2. CASE SaveCheckpoint
  <2>1. /\ unsaved # <<>> /\ cur' = cur /\ unsaved' = Tail(unsaved) /\ cur \in Msgs
        /\ ckpt' = [ckpt EXCEPT ![cur] = Head(unsaved)]
    BY <1>2 DEF SaveCheckpoint, Threads, Running, TypeOK
  <2>2. /\ Len(unsaved) \in Nat \ {0} /\ Len(unsaved') = Len(unsaved) - 1
        /\ \A i \in 1 .. Len(unsaved') : unsaved'[i] = unsaved[i + 1]
        /\ Head(unsaved) = unsaved[1]
    BY <2>1, HeadTailProperties, EmptySeq DEF TypeOK
  <2>3. \A m \in Msgs : ckpt'[m] = IF m = cur THEN unsaved[1] ELSE ckpt[m]
    BY <2>1, <2>2 DEF TypeOK
  <2>4. AskedOf(cur, unsaved[1])
    BY <2>2 DEF Asked
  <2>5. \A i \in 1 .. Len(unsaved') : AskedOf(cur, unsaved'[i])
    BY <2>2 DEF Asked
  <2> QED BY <1>0, <2>1, <2>3, <2>4, <2>5 DEF Asked, AskedOf
<1>3. CASE Persist \/ GoesOn \/ UNCHANGED vars
  <2>1. UNCHANGED <<ckpt, unsaved, cur>> /\ (cur \notin Msgs => unsaved = <<>>)
    BY <1>3 DEF Persist, GoesOn, vars, Threads, Running, TypeOK
  <2>2. \A i \in 1 .. Len(unsaved) : cur \in Msgs
    BY <2>1
  <2> QED BY <1>0, <2>1, <2>2 DEF Asked, AskedOf
<1>4. CASE Mark
  <2>1. ckpt' = ckpt /\ unsaved' = <<>>
    BY <1>4 DEF Mark, Stored
  <2> QED BY <1>0, <2>1 DEF Asked, AskedOf
<1>5. ASSUME NEW s \in State, Moves(s)
      PROVE  Asked'
  <2>1. Running /\ cur' = cur /\ ckpt' = ckpt /\ unsaved' = Append(unsaved, s)
    BY <1>5 DEF Moves, Complete, Threads
  <2>2. cur \in Msgs /\ AskedOf(cur, live)
    BY <2>1, AskedLive
  <2>3. effects'[cur]["analyze"] > 0
    <3>1. CASE live.at = "analyze"
      <4>1. "analyze" \in Effects /\ effects[cur]["analyze"] \in Nat /\ Had(cur, "analyze")
        BY <1>5, <2>2, <3>1, MovesAsk DEF TypeOK, Effects
      <4>2. effects'[cur]["analyze"] = effects[cur]["analyze"] + 1
        BY <2>2, <4>1, HadOnce
      <4> QED BY <4>1, <4>2
    <3>2. CASE live.at # "analyze"
      <4>1. live.at # "new"
        BY <1>5, MovesAsk
      <4> QED BY <2>2, <3>2, <4>1, EffectsGrow DEF AskedOf
    <3> QED BY <3>1, <3>2
  <2> QED BY <1>0, <2>1, <2>2, <2>3 DEF Asked, AskedOf
<1>6. CASE GivesUp
  <2>1. unsaved' = <<>> /\ ckpt' \in {ckpt, Written} /\ cur \in Msgs /\ Running
    BY <1>6 DEF GivesUp, Abandon, Threads, Running, TypeOK
  <2>2. \A m \in Msgs : AskedOf(m, ckpt'[m])
    <3>1. unsaved # <<>> => AskedOf(cur, Written[cur])
      BY <2>1, WrittenType DEF Asked
    <3>2. \A m \in Msgs : Written[m] = ckpt[m] \/ (m = cur /\ unsaved # <<>>)
      BY <2>1, WrittenType
    <3> QED BY <2>1, <3>1, <3>2 DEF Asked
  <2> QED BY <1>0, <2>1, <2>2 DEF Asked, AskedOf
<1> QED BY <1>1, <1>2, <1>3, <1>4, <1>5, <1>6, ThreadStep

\* Whoever lets go of a message leaves its thread as it was checkpointed, or
\* ended, and a thread that goes on has not ended.
LEMMA GivesUpEnds ==
    ASSUME AgentInv, Asked, GivesUp
    PROVE  /\ cur \in Msgs /\ cur' = NoMsg /\ marked' = marked
           /\ \A m \in Msgs : m # cur => ckpt'[m] = ckpt[m]
           /\ ckpt[cur].at = "end" => ckpt'[cur] = ckpt[cur]
           /\ ckpt'[cur].at = "end" => effects[cur]["analyze"] > 0
           /\ live.at # "end" => ckpt'[cur].at # "end"
<1> USE DEF AgentInv
<1>1. Running /\ cur \in Msgs /\ cur' = NoMsg /\ marked' = marked /\ ckpt' \in {ckpt, Written}
  BY DEF GivesUp, Abandon, Threads, Running, TypeOK
<1>2. /\ \A m \in Msgs : m # cur => Written[m] = ckpt[m]
      /\ unsaved = <<>> => Written = ckpt
      /\ Written[cur] = live
  BY <1>1, WrittenType DEF Threads
<1>3. ckpt[cur].at = "end" => unsaved = <<>>
  BY <1>1 DEF Threads
<1>4. AskedOf(cur, live) /\ AskedOf(cur, ckpt[cur])
  BY <1>1, AskedLive DEF Asked
<1>5. live.at # "end" => ckpt[cur].at # "end"
  BY <1>1, NotEnded
<1> QED BY <1>1, <1>2, <1>3, <1>4, <1>5 DEF AskedOf

Counted == [m \in Msgs |-> [c \in Effects \ {"page"} |-> effects[m][c]]]
EndedNow == {m \in Msgs : ckpt[m].at = "end"}

\* A step leaves the counts of calls alone, or is one call of a thread in hand
\* that has not ended.
LEMMA CallsStep ==
    ASSUME AgentInv, [Next]_vars
    PROVE  \/ Counted' = Counted
           \/ /\ cur \in Msgs \ EndedNow /\ live.at # "end"
              /\ \E c \in Effects \ {"page"} :
                   Counted' = [Counted EXCEPT ![cur][c] = @ + 1]
<1> USE DEF AgentInv
<1>1. CASE UNCHANGED effects
  BY <1>1 DEF Counted
<1>2. CASE target \in Msgs /\ Had(target, "page")
  <2>1. "page" \in Effects
    BY DEF Effects
  <2>2. \A m \in Msgs, c \in Effects \ {"page"} : effects'[m][c] = effects[m][c]
    BY <1>2, <2>1, HadOnce
  <2> QED BY <2>2 DEF Counted
<1>3. ASSUME cur \in Msgs, live.at # "end", NEW c \in {"analyze", "extract", "telegram"}, Had(cur, c)
      PROVE  /\ cur \in Msgs \ EndedNow /\ c \in Effects \ {"page"}
             /\ Counted' = [Counted EXCEPT ![cur][c] = @ + 1]
  <2>1. c \in Effects \ {"page"}
    BY DEF Effects
  <2>2. ckpt[cur].at # "end"
    BY <1>3, NotEnded, AgentAssumption DEF Running
  <2>3. \A m \in Msgs, x \in Effects :
          effects'[m][x] = IF m = cur /\ x = c THEN effects[m][x] + 1 ELSE effects[m][x]
    BY <1>3, <2>1, HadOnce
  <2>4. Counted' = [m \in Msgs |-> [x \in Effects \ {"page"} |->
                      IF m = cur /\ x = c THEN effects[m][x] + 1 ELSE effects[m][x]]]
    BY <2>3 DEF Counted
  <2>5. [Counted[cur] EXCEPT ![c] = effects[cur][c] + 1]
          = [x \in Effects \ {"page"} |-> IF x = c THEN effects[cur][x] + 1 ELSE effects[cur][x]]
    BY <1>3, <2>1 DEF Counted
  <2>6. [Counted EXCEPT ![cur][c] = @ + 1]
          = [Counted EXCEPT ![cur] = [Counted[cur] EXCEPT ![c] = effects[cur][c] + 1]]
    BY <1>3, <2>1 DEF Counted
  <2>7. \A g : [Counted EXCEPT ![cur] = g] = [m \in Msgs |-> IF m = cur THEN g ELSE
                                                [x \in Effects \ {"page"} |-> effects[m][x]]]
    BY <1>3 DEF Counted
  <2>8. Counted' = [Counted EXCEPT ![cur] =
          [x \in Effects \ {"page"} |-> IF x = c THEN effects[cur][x] + 1 ELSE effects[cur][x]]]
    BY <1>3, <2>4, <2>7
  <2> QED BY <1>3, <2>1, <2>2, <2>5, <2>6, <2>8 DEF EndedNow
<1> QED BY <1>1, <1>2, <1>3, OneEffect

\* handle_email keeps what a handler of mail promises: it never calls the model or
\* Telegram for a thread whose end is checkpointed, ends none unasked, and marks
\* only from the hand, whatever is raised, lost or killed in it.
THEOREM Implementation == Spec => ImplementsMailHandler
<1>1. Init => Asked /\ Handler!Init
  <2>1. Init => \A m \in Msgs : ckpt[m].at = "new"
    BY DEF Init, NewThread
  <2> QED BY <2>1 DEF Init, Asked, AskedOf, Handler!Init
<1>2. AgentInv /\ Asked /\ [Next]_vars => Asked'
  BY AskedStep
<1>3. AgentInv /\ Asked /\ [Next]_vars => [Handler!Next]_(Handler!vars)
  <2> SUFFICES ASSUME AgentInv, Asked, [Next]_vars
               PROVE  Handler!Next \/ UNCHANGED <<cur, Counted, EndedNow, marked>>
    BY DEF Handler!vars, Counted, EndedNow
  <2> USE DEF AgentInv
  <2>0. NoMsg \notin Msgs
    BY AgentAssumption
  <2>1. CASE \E m \in Msgs : Begin(m)
    <3>1. PICK m \in Msgs : Begin(m)
      BY <2>1
    <3>2. cur = NoMsg
      BY <3>1 DEF Begin, Threads, Running
    <3> QED BY <3>1, <3>2 DEF Begin, Handler!Next, Handler!Take
  <2>2. CASE SaveCheckpoint
    <3>1. /\ unsaved # <<>> /\ UNCHANGED <<cur, effects, marked>> /\ cur \in Msgs /\ Running
          /\ ckpt' = [ckpt EXCEPT ![cur] = Head(unsaved)]
      BY <2>2 DEF SaveCheckpoint, Threads, Running, TypeOK
    <3>2. ckpt[cur].at # "end"
      BY <3>1 DEF Threads
    <3>3. Head(unsaved) = unsaved[1] /\ 1 \in 1 .. Len(unsaved)
      BY <3>1, HeadTailProperties, EmptySeq, LenProperties DEF TypeOK
    <3>4. AskedOf(cur, Head(unsaved))
      BY <3>3 DEF Asked
    <3>5. CASE Head(unsaved).at = "end"
      <4>1. EndedNow' = EndedNow \union {cur} /\ cur \notin EndedNow /\ Counted' = Counted
        BY <3>1, <3>2, <3>5 DEF EndedNow, Counted, TypeOK
      <4>2. effects[cur]["analyze"] > 0 /\ Counted[cur]["analyze"] = effects[cur]["analyze"]
        BY <3>1, <3>4, <3>5 DEF AskedOf, Counted, Effects
      <4> QED BY <3>1, <4>1, <4>2 DEF Handler!Next, Handler!End, EndedNow, Counted
    <3>6. CASE Head(unsaved).at # "end"
      BY <3>1, <3>2, <3>6 DEF EndedNow, Counted, TypeOK
    <3> QED BY <3>5, <3>6
  <2>3. CASE Mark
    BY <2>3, <2>0 DEF Mark, Stored, Finished, Threads, Running, TypeOK, Handler!Next, Handler!Mark
  <2>4. CASE Persist \/ UNCHANGED vars
    BY <2>4 DEF Persist, vars, Counted, EndedNow
  <2>5. ASSUME cur' \in {cur, NoMsg}, UNCHANGED <<EndedNow, marked>>, cur # NoMsg
        PROVE  Handler!Next \/ UNCHANGED <<cur, Counted, EndedNow, marked>>
    <3>1. CASE Counted' = Counted
      BY <2>5, <3>1 DEF Handler!Next, Handler!LetGo, Counted, EndedNow
    <3>2. ASSUME NEW c \in Effects \ {"page"}, cur \in Msgs \ EndedNow,
                 Counted' = [Counted EXCEPT ![cur][c] = @ + 1]
          PROVE  Handler!Next
      BY <2>5, <3>2 DEF Handler!Next, Handler!Call, Counted, EndedNow
    <3> QED BY <3>1, <3>2, CallsStep
  <2>6. CASE (\E s \in State : Moves(s)) \/ GoesOn
    <3>1. cur' = cur /\ UNCHANGED <<ckpt, marked>> /\ cur # NoMsg
      BY <2>6 DEF Moves, GoesOn, Threads, Running
    <3> QED BY <2>5, <3>1 DEF EndedNow
  <2>7. CASE GivesUp
    <3>1. /\ cur \in Msgs /\ cur' = NoMsg /\ marked' = marked
          /\ \A m \in Msgs : m # cur => ckpt'[m] = ckpt[m]
          /\ ckpt[cur].at = "end" => ckpt'[cur] = ckpt[cur]
          /\ ckpt'[cur].at = "end" => effects[cur]["analyze"] > 0
          /\ live.at # "end" => ckpt'[cur].at # "end"
      BY <2>7, GivesUpEnds
    <3>2. CASE EndedNow' = EndedNow
      BY <2>0, <2>5, <3>1, <3>2
    <3>3. CASE EndedNow' # EndedNow
      <4>1. ckpt[cur].at # "end" /\ ckpt'[cur].at = "end"
        BY <3>1, <3>3 DEF EndedNow
      <4>2. EndedNow' = EndedNow \union {cur} /\ cur \notin EndedNow
        BY <3>1, <4>1 DEF EndedNow
      <4>3. Counted' = Counted
        BY <3>1, <4>1, CallsStep
      <4>4. effects[cur]["analyze"] > 0 /\ Counted[cur]["analyze"] = effects[cur]["analyze"]
        BY <3>1, <4>1 DEF Counted, Effects
      <4> QED BY <3>1, <4>2, <4>3, <4>4 DEF Handler!Next, Handler!End, EndedNow, Counted
    <3> QED BY <3>2, <3>3
  <2> QED BY <2>1, <2>2, <2>3, <2>4, <2>6, <2>7, ThreadStep
<1> QED BY <1>1, <1>2, <1>3, AgentInvariant, PTL DEF Spec, ImplementsMailHandler, Handler!Spec

=============================================================================
