------------------------- MODULE ClassificationProofs -------------------------
(***************************************************************************)
(* Proofs about ClassificationHistory for any number of messages,          *)
(* transactions and files: what is committed is one timeline per message,  *)
(* human judgements stand, what a transaction accepted is current when it  *)
(* commits, the committed histories implement VersionHistory, and running  *)
(* transactions never all wait.                                            *)
(***************************************************************************)
EXTENDS ClassificationHistory, FiniteSetTheorems, WellFoundedInduction, TLAPS

-----------------------------------------------------------------------------
(***************************************************************************)
(* One step of growth keeps a history a timeline and keeps human           *)
(* judgements last, whatever versions it is made of.                       *)
(***************************************************************************)

\* Only the new version is current, the closed one meets it, and the others
\* ended before either began.
LEMMA GrowsTimeline ==
    ASSUME NEW h \in SUBSET Versions, NEW g \in SUBSET Versions, Timeline(h), Grows(h, g)
    PROVE  Timeline(g)
<1> USE MaxTimeAssumption
<1>1. PICK v \in g : /\ v \in Versions /\ v.to = Open
                     /\ \/ h = {} /\ g = {v}
                        \/ \E c \in Current(h) : MaySupersede(v, c) /\ g = Supersede(h, c, v)
  BY DEF Grows
<1>2. CASE h = {} /\ g = {v}
  BY <1>1, <1>2 DEF Timeline, Current
<1>3. CASE \E c \in Current(h) : MaySupersede(v, c) /\ g = Supersede(h, c, v)
  <2>1. PICK c \in Current(h) : MaySupersede(v, c) /\ g = Supersede(h, c, v)
    BY <1>3
  <2> DEFINE d == [c EXCEPT !.to = v.from]
  <2>2. /\ c \in h /\ c \in Versions /\ c.to = Open
        /\ v.from > c.from /\ v.from \in Nat \ {0} /\ c.from \in Nat
    BY <1>1, <2>1 DEF Current, MaySupersede, Versions, Times
  <2>3. d.from = c.from /\ d.to = v.from /\ d \in g
    BY <2>1, <2>2 DEF Supersede, Versions
  <2>4. \A u \in g : u = v \/ u = d \/ (u \in h /\ u # c)
    BY <2>1 DEF Supersede
  <2>5. \A u \in h : u # c => u \in g /\ u.to # Open /\ u.to <= c.from
    BY <2>1, <2>2 DEF Supersede, Timeline, Current, Versions, Times
  <2>6. \A u \in h : u.from \in Nat /\ u.to \in Nat
    BY DEF Versions, Times, Open
  <2>7. Current(g) = {v}
    BY <1>1, <2>2, <2>3, <2>4, <2>5 DEF Current, Open
  <2>8. ASSUME NEW u \in g, u.to # Open
        PROVE  u.from < u.to /\ \E x \in g : x.from = u.to
    <3>1. CASE u = d
      BY <2>2, <2>3, <3>1, <1>1
    <3>2. CASE u \in h /\ u # c
      <4>1. u.from < u.to /\ \E x \in h : x.from = u.to
        BY <2>8, <3>2 DEF Timeline
      <4>2. PICK x \in h : x.from = u.to
        BY <4>1
      <4>3. CASE x = c
        BY <4>1, <4>2, <4>3, <2>3
      <4>4. CASE x # c
        BY <4>1, <4>2, <4>4, <2>5
      <4> QED
        BY <4>3, <4>4
    <3> QED
      BY <2>4, <2>8, <3>1, <3>2, <1>1
  <2>9. ASSUME NEW u \in g, NEW x \in g, u # x
        PROVE  \/ u.to # Open /\ u.to <= x.from
               \/ x.to # Open /\ x.to <= u.from
    <3>1. \A y \in g : y # v => y.to # Open /\ y.to <= v.from
      <4>1. d.to # Open /\ d.to <= v.from
        BY <2>2, <2>3 DEF Open
      <4>2. \A y \in h : y # c => y.to # Open /\ y.to <= v.from
        BY <2>2, <2>5, <2>6
      <4> HIDE DEF d
      <4> QED
        BY <2>4, <4>1, <4>2
    <3>2. \A y \in h : y # c => y.to # Open /\ y.to <= d.from
      BY <2>3, <2>5
    <3>3. CASE u = v \/ x = v
      BY <2>9, <3>1, <3>3
    <3>4. CASE u = d /\ x \in h /\ x # c
      BY <3>2, <3>4
    <3>5. CASE x = d /\ u \in h /\ u # c
      BY <3>2, <3>5
    <3>6. CASE u \in h /\ x \in h
      BY <2>9, <3>6 DEF Timeline
    <3> QED
      BY <2>4, <2>9, <3>3, <3>4, <3>5, <3>6
  <2> QED
    BY <1>1, <2>7, <2>8, <2>9 DEF Timeline
<1> QED
  BY <1>1, <1>2, <1>3

\* The version a judgement supersedes is the latest, so a human one anywhere
\* before is a human one there.
LEMMA GrowsHumanLast ==
    ASSUME NEW h \in SUBSET Versions, NEW g \in SUBSET Versions,
           Timeline(h), HumanLast(h), Grows(h, g)
    PROVE  HumanLast(g)
<1> USE MaxTimeAssumption
<1>1. PICK v \in g : /\ v \in Versions /\ v.to = Open
                     /\ \/ h = {} /\ g = {v}
                        \/ \E c \in Current(h) : MaySupersede(v, c) /\ g = Supersede(h, c, v)
  BY DEF Grows
<1>2. CASE h = {} /\ g = {v}
  BY <1>2 DEF HumanLast
<1>3. CASE \E c \in Current(h) : MaySupersede(v, c) /\ g = Supersede(h, c, v)
  <2>1. PICK c \in Current(h) : MaySupersede(v, c) /\ g = Supersede(h, c, v)
    BY <1>3
  <2> DEFINE d == [c EXCEPT !.to = v.from]
  <2>2. c \in h /\ c \in Versions /\ c.to = Open
    BY <2>1 DEF Current
  <2>3. d.from = c.from /\ d.source = c.source
    BY <2>2 DEF Versions
  <2>4. \A u \in g : u = v \/ u = d \/ (u \in h /\ u # c)
    BY <2>1 DEF Supersede
  <2>5. v.from > c.from /\ (c.source = "human" => v.source = "human")
    BY <2>1 DEF MaySupersede
  <2>6. \A u \in h : u # c => u.to # Open /\ u.from < u.to /\ u.to <= c.from
    BY <2>2 DEF Timeline
  <2>7. /\ \A u \in h : u.from \in Nat /\ u.to \in Nat
        /\ v.from \in Nat
    BY <1>1 DEF Versions, Times, Open
  <2>8. \A u \in h : u # c => u.from < c.from /\ u.from < v.from
    BY <2>2, <2>5, <2>6, <2>7
  <2>9. \A u \in h : u.source = "human" => c.source = "human"
    BY <2>2, <2>8 DEF HumanLast
  <2>10. ASSUME NEW u \in g, NEW x \in g, u.source = "human", u.from < x.from
         PROVE  x.source = "human"
    <3> HIDE DEF d
    <3>0. u # v /\ c.source = "human"
      BY <2>2, <2>3, <2>4, <2>5, <2>7, <2>8, <2>9, <2>10
    <3>1. CASE x = v
      BY <2>5, <3>0, <3>1
    <3>2. CASE x = d
      BY <2>3, <3>0, <3>2
    <3>3. CASE x \in h /\ x # c
      BY <2>2, <2>3, <2>4, <2>7, <2>8, <2>10, <3>3 DEF HumanLast
    <3> QED
      BY <2>4, <3>1, <3>2, <3>3
  <2> QED
    BY <2>10 DEF HumanLast
<1> QED
  BY <1>1, <1>2, <1>3

-----------------------------------------------------------------------------
(* The transactions that make the histories grow. *)

Working(w) == pc[w] \in {"look", "wait", "decide", "insert"}

\* A transaction works on one of the messages it has still to do, its file says
\* something about each of them, where it decides it has read a row, and the row it waits
\* for was current.
Reading ==
    \A w \in Writers :
        /\ Working(w) => cur[w] \in todo[w]
        /\ \A m \in todo[w] : file[w].verdicts[m] # NoVerdict
        /\ pc[w] = "decide" => got[w] \in Versions
        /\ pc[w] = "wait" => got[w].to = Open

TypeInv == TypeOK /\ Reading

LEMMA SeedFile ==
    ASSUME TypeOK
    PROVE  /\ [source |-> "llm", verdicts |-> Unseeded] \in FileType
           /\ \A m \in Msgs : Unseeded[m] # NoVerdict => Analyzed(m)
BY DEF TypeOK, FileType, Unseeded, Sources, Analyzed

LEMMA NoFileType == NoFile \in FileType
BY DEF NoFile, FileType, Sources

\* What a transaction records of the message it works on is a version.
LEMMA JudgementType ==
    ASSUME TypeInv, NEW w \in Writers, Working(w)
    PROVE  /\ Judgement(w) \in Versions
           /\ Judgement(w).to = Open
           /\ cur[w] \in Msgs /\ file[w].verdicts[cur[w]] \in Verdicts
           /\ Judgement(w).from = file[w].verdicts[cur[w]].at
           /\ Judgement(w).category = file[w].verdicts[cur[w]].category
           /\ Judgement(w).source = file[w].source
<1>1. cur[w] \in Msgs /\ file[w].verdicts[cur[w]] # NoVerdict
  BY DEF TypeInv, Reading, TypeOK
<1>2. file[w] \in FileType
  BY DEF TypeInv, TypeOK
<1>3. file[w].verdicts[cur[w]] \in Verdicts /\ file[w].source \in Sources
  BY <1>1, <1>2 DEF FileType
<1> QED
  BY <1>1, <1>3 DEF Judgement, Verdicts, Versions

LEMMA SupersedeType ==
    ASSUME NEW h \in SUBSET Versions, NEW c \in Versions, NEW v \in Versions
    PROVE  Supersede(h, c, v) \in SUBSET Versions
BY DEF Supersede, Versions

LEMMA TypeInit == Init => TypeInv
<1> SUFFICES ASSUME Init PROVE TypeInv
  OBVIOUS
<1>1. TypeOK
  BY NoFileType, HistoryAssumption DEF Init, TypeOK
<1>2. Reading
  BY DEF Init, Reading, Working
<1> QED
  BY <1>1, <1>2 DEF TypeInv

LEMMA TypeStep == TypeInv /\ [Next]_vars => TypeInv'
<1> SUFFICES ASSUME TypeInv, [Next]_vars PROVE TypeInv'
  OBVIOUS
<1> USE DEF TypeInv, Reading, Working, store, local
<1>0. CASE UNCHANGED vars
  BY <1>0 DEF vars, TypeOK
<1>1. ASSUME NEW m \in Msgs, NEW v \in Answers, Analyze(m, v) \/ AnalyzeBefore(m, v)
      PROVE  TypeInv'
  <2>1. v \in Verdicts /\ [category |-> v.category, source |-> "llm", from |-> v.at, to |-> Open] \in Versions
    BY HistoryAssumption DEF Verdicts, Versions, Sources
  <2> QED
    BY <1>1, <2>1 DEF Analyze, AnalyzeBefore, TypeOK
<1>2. ASSUME NEW w \in Writers, NEW f \in FileType, Begin(w, f) PROVE TypeInv'
  <2>1. TypeOK'
    BY <1>2 DEF Begin, TypeOK
  <2>2. Reading'
    BY <1>2 DEF Begin, TypeOK
  <2> QED
    BY <2>1, <2>2
<1>3. ASSUME NEW w \in Writers, NEW m \in Msgs, Pick(w, m) PROVE TypeInv'
  BY <1>3 DEF Pick, Upcoming, TypeOK
<1>4. ASSUME NEW w \in Writers, NEW m \in Msgs, RejectUnknown(w, m) PROVE TypeInv'
  BY <1>4 DEF RejectUnknown, TypeOK
<1>5. ASSUME NEW w \in Writers, LookNone(w) PROVE TypeInv'
  BY <1>5 DEF LookNone, Goto, TypeOK
<1>6. ASSUME NEW w \in Writers, LookLock(w) \/ LookWait(w) PROVE TypeInv'
  <2>1. /\ cur[w] \in Msgs /\ Current(hist[cur[w]]) \subseteq Versions
        /\ \A v \in Current(hist[cur[w]]) : v.to = Open
    BY <1>6 DEF LookLock, LookWait, TypeOK, Current
  <2> QED
    BY <1>6, <2>1 DEF LookLock, LookWait, Lock, Goto, TypeOK
<1>7. ASSUME NEW w \in Writers, WaitOver(w) PROVE TypeInv'
  <2>1. cur[w] \in Msgs /\ hist[cur[w]] \subseteq Versions
    BY <1>7 DEF WaitOver, TypeOK
  <2> QED
    BY <1>7, <2>1 DEF WaitOver, Lock, Goto, TypeOK
<1>8. ASSUME NEW w \in Writers, Unchanged(w) \/ Refuse(w) PROVE TypeInv'
  BY <1>8 DEF Unchanged, Refuse, Leave, TypeOK
<1>9. ASSUME NEW w \in Writers, NewVersion(w) PROVE TypeInv'
  <2>1. Judgement(w) \in Versions /\ got[w] \in Versions /\ cur[w] \in Msgs
    BY <1>9, JudgementType DEF NewVersion
  <2>2. Supersede(draft[cur[w]], got[w], Judgement(w)) \in SUBSET Versions
    BY <2>1, SupersedeType DEF TypeOK
  <2> QED
    BY <1>9, <2>1, <2>2 DEF NewVersion, Leave, TypeOK
<1>10. ASSUME NEW w \in Writers, Insert(w) PROVE TypeInv'
  <2>1. Judgement(w) \in Versions /\ cur[w] \in Msgs
    BY <1>10, JudgementType DEF Insert
  <2> QED
    BY <1>10, <2>1 DEF Insert, Lock, Leave, TypeOK
<1>11. ASSUME NEW w \in Writers, Retry(w) PROVE TypeInv'
  BY <1>11 DEF Retry, Collides, TypeOK
<1>12. ASSUME NEW w \in Writers, Rollback(w) PROVE TypeInv'
  BY <1>12, NoFileType DEF Rollback, End, Release, TypeOK
<1>13. ASSUME NEW w \in Writers, Commit(w) PROVE TypeInv'
  BY <1>13, NoFileType DEF Commit, End, Release, TypeOK
<1> QED
  BY <1>0, <1>1, <1>2, <1>3, <1>4, <1>5, <1>6, <1>7, <1>8, <1>9, <1>10, <1>11,
     <1>12, <1>13, SeedFile, HistoryAssumption
  DEF Next, BeginSeed, BeginImport, Step, GiveUp, DeadlockVictim, Abort, Writers

\* Every variable keeps its type.
THEOREM TypeCorrect == Spec => []TypeOK
<1>1. TypeInv => TypeOK
  BY DEF TypeInv
<1> QED
  BY TypeInit, TypeStep, <1>1, PTL DEF Spec

-----------------------------------------------------------------------------
(* Isolation: what a writer may rely on while it does not hold the lock, and *)
(* while it does.                                                            *)

\* A history nobody holds has no uncommitted change.
Clean == \A m \in Msgs : owner[m] = NoWriter => draft[m] = hist[m]

\* There is neither history nor writer before the analysis, and whoever works
\* on a message, or seeds one, has seen its analysis.
Known ==
    /\ \A m \in Msgs : ~Analyzed(m) => hist[m] = {} /\ owner[m] = NoWriter
    /\ \A w \in Writers : Working(w) => Analyzed(cur[w])
    /\ \A m \in Msgs : file[Seeder].verdicts[m] # NoVerdict => Analyzed(m)

\* A transaction that decides holds the row it read, and the row is current.
Held ==
    \A w \in Writers : pc[w] = "decide" =>
        /\ owner[cur[w]] = w /\ draft[cur[w]] = hist[cur[w]]
        /\ got[w] \in Current(hist[cur[w]])

\* An uncommitted change is one step of growth.
Pending == \A m \in Msgs : draft[m] = hist[m] \/ Grows(hist[m], draft[m])

\* What is accepted is not done again, and only by a running transaction.
Accepted ==
    \A w \in Writers : /\ kept[w] \cap todo[w] = {}
                       /\ pc[w] = "idle" => kept[w] = {}

IsolationInv ==
    /\ Clean /\ Known /\ Held /\ Pending /\ Accepted /\ AcceptedStands
    /\ OneTimeline /\ HumanStands

\* A step commits at most one judgement per message.
HistoryStep == \A m \in Msgs : hist'[m] = hist[m] \/ Grows(hist[m], hist'[m])

Preserved == Clean' /\ Known' /\ Held' /\ Pending' /\ Accepted' /\ AcceptedStands'

LEMMA IsolationInit == TypeInv /\ Init => IsolationInv
<1> SUFFICES ASSUME TypeInv, Init PROVE IsolationInv
  OBVIOUS
<1>1. Clean /\ Pending /\ Accepted /\ AcceptedStands /\ Held
  BY DEF Init, Clean, Pending, Accepted, AcceptedStands, Held
<1>2. Known
  BY HistoryAssumption DEF Init, Known, Analyzed, Working, NoFile, Writers
<1>3. OneTimeline /\ HumanStands
  BY DEF Init, OneTimeline, HumanStands, Timeline, HumanLast
<1> QED
  BY <1>1, <1>2, <1>3 DEF IsolationInv

\* A first version where there is none is growth, and so is a supersession of
\* the current version that record lets pass.
LEMMA InsertGrows ==
    ASSUME NEW v \in Versions, v.to = Open
    PROVE  Grows({}, {v})
BY DEF Grows

LEMMA SupersedeGrows ==
    ASSUME NEW h \in SUBSET Versions, NEW c \in Current(h), NEW v \in Versions,
           v.to = Open, MaySupersede(v, c)
    PROVE  Grows(h, Supersede(h, c, v)) /\ v \in Current(Supersede(h, c, v))
BY DEF Grows, Supersede, Current

LEMMA GoodStep ==
    ASSUME TypeInv, TypeInv', OneTimeline, HumanStands, HistoryStep
    PROVE  OneTimeline' /\ HumanStands'
<1> SUFFICES ASSUME NEW m \in Msgs PROVE Timeline(hist'[m]) /\ HumanLast(hist'[m])
  BY DEF OneTimeline, HumanStands
<1>1. /\ hist[m] \in SUBSET Versions /\ hist'[m] \in SUBSET Versions
      /\ Timeline(hist[m]) /\ HumanLast(hist[m])
  BY DEF TypeInv, TypeOK, OneTimeline, HumanStands
<1> QED
  BY <1>1, GrowsTimeline, GrowsHumanLast DEF HistoryStep

-----------------------------------------------------------------------------
(* One lemma per kind of step. *)

LEMMA AnalyzeStep ==
    ASSUME TypeInv, IsolationInv, NEW m \in Msgs, NEW v \in Answers,
           Analyze(m, v) \/ AnalyzeBefore(m, v)
    PROVE  HistoryStep /\ Preserved
<1> USE DEF TypeInv, TypeOK, IsolationInv, store, local
<1> DEFINE j == [category |-> v.category, source |-> "llm", from |-> v.at, to |-> Open]
<1>1. v \in Verdicts /\ v # NoVerdict /\ j \in Versions /\ j.to = Open
  BY HistoryAssumption DEF Verdicts, Versions, Sources
<1>2. Grows({}, {j})
  BY <1>1, InsertGrows
<1>3. /\ ~Analyzed(m) /\ hist[m] = {} /\ draft[m] = {} /\ owner[m] = NoWriter
      /\ UNCHANGED <<owner, pc, file, todo, cur, got, kept>>
      /\ analyses' = [analyses EXCEPT ![m] = v]
  BY DEF Analyze, AnalyzeBefore, Known, Clean
<1>4. /\ \A n \in Msgs : n # m => hist'[n] = hist[n] /\ draft'[n] = draft[n]
      /\ hist'[m] = draft'[m] /\ hist'[m] \in {{}, {j}}
  BY <1>3 DEF Analyze, AnalyzeBefore
<1> HIDE DEF j
<1>5. HistoryStep
  BY <1>2, <1>3, <1>4 DEF HistoryStep
<1>6. Clean' /\ Pending'
  BY <1>3, <1>4 DEF Clean, Pending
<1>7. \A n \in Msgs : Analyzed(n)' <=> Analyzed(n) \/ n = m
  BY <1>1, <1>3 DEF Analyzed
<1>8. Known'
  <2>1. \A n \in Msgs : ~Analyzed(n)' => hist'[n] = {} /\ owner'[n] = NoWriter
    BY <1>3, <1>4, <1>7 DEF Known
  <2>2. ASSUME NEW w \in Writers, Working(w)' PROVE Analyzed(cur[w])'
    <3>1. Working(w) /\ cur[w] \in Msgs
      BY <1>3, <2>2 DEF Working, Reading
    <3> QED
      BY <1>3, <1>7, <3>1 DEF Known, Analyzed
  <2> QED
    BY <1>3, <1>7, <2>1, <2>2 DEF Known
<1>9. \A w \in Writers : pc[w] = "decide" => cur[w] \in Msgs /\ cur[w] # m
  BY <1>3, HistoryAssumption DEF Held, Reading, Working
<1>10. Held'
  BY <1>3, <1>4, <1>9 DEF Held
<1>11. \A w \in Writers : \A n \in kept[w] : n \in Msgs /\ n # m
  BY <1>3, HistoryAssumption DEF AcceptedStands
<1>12. Accepted' /\ AcceptedStands'
  BY <1>3, <1>4, <1>11 DEF Accepted, AcceptedStands
<1> QED
  BY <1>5, <1>6, <1>8, <1>10, <1>12 DEF Preserved

LEMMA BeginStep ==
    ASSUME TypeInv, IsolationInv, NEW w \in Writers, NEW f \in FileType, Begin(w, f),
           w = Seeder => \A m \in Msgs : f.verdicts[m] # NoVerdict => Analyzed(m)
    PROVE  HistoryStep /\ Preserved
<1> USE DEF TypeInv, TypeOK, IsolationInv, store, local
<1>1. UNCHANGED <<hist, analyses, draft, owner, cur, got, kept>> /\ kept[w] = {}
  BY DEF Begin, Accepted
<1>2. HistoryStep /\ Clean' /\ Pending'
  BY <1>1 DEF HistoryStep, Clean, Pending
<1>3. Known'
  <2>1. \A u \in Writers : Working(u)' => Working(u) /\ Analyzed(cur[u])'
    BY <1>1 DEF Begin, Working, Known, Analyzed
  <2>2. \A m \in Msgs : file'[Seeder].verdicts[m] # NoVerdict => Analyzed(m)'
    BY <1>1, HistoryAssumption DEF Begin, Known, Analyzed, Writers
  <2> QED
    BY <1>1, <2>1, <2>2 DEF Known, Analyzed
<1>4. Held'
  BY <1>1 DEF Begin, Held
<1>5. Accepted'
  BY <1>1 DEF Begin, Accepted
<1>6. AcceptedStands'
  BY <1>1 DEF Begin, AcceptedStands
<1> QED
  BY <1>2, <1>3, <1>4, <1>5, <1>6 DEF Preserved

\* Steps that only move a transaction on.
LEMMA MoveStep ==
    ASSUME TypeInv, IsolationInv, NEW w \in Writers,
           \/ \E m \in Msgs : Pick(w, m) \/ RejectUnknown(w, m)
           \/ LookNone(w) \/ LookWait(w) \/ Refuse(w) \/ Retry(w)
    PROVE  HistoryStep /\ Preserved
<1> USE DEF TypeInv, TypeOK, IsolationInv, store, local
<1>1. UNCHANGED <<hist, analyses, draft, owner, file, kept>>
  BY DEF Pick, RejectUnknown, LookNone, LookWait, Refuse, Retry, Goto, Leave
<1>2. /\ \A u \in Writers : u # w => pc'[u] = pc[u] /\ cur'[u] = cur[u]
                                     /\ got'[u] = got[u] /\ todo'[u] = todo[u]
      /\ pc'[w] # "decide" /\ todo'[w] \subseteq todo[w] /\ pc'[w] # "idle"
  BY DEF Pick, RejectUnknown, LookNone, LookWait, Refuse, Retry, Goto, Leave
<1>3. HistoryStep /\ Clean' /\ Pending'
  BY <1>1 DEF HistoryStep, Clean, Pending
<1>4. Working(w)' => cur'[w] \in Msgs /\ Analyzed(cur'[w])
  <2>1. ASSUME NEW m \in Msgs, Pick(w, m) PROVE cur'[w] \in Msgs /\ Analyzed(cur'[w])
    <3>1. Analyzed(m)
      BY <2>1 DEF Pick, Upcoming, Reading, Known, Writers
    <3> QED
      BY <2>1, <3>1 DEF Pick
  <2>2. ASSUME LookNone(w) \/ LookWait(w) \/ Retry(w)
        PROVE  cur'[w] \in Msgs /\ Analyzed(cur'[w])
    BY <2>2 DEF LookNone, LookWait, Retry, Collides, Goto, Known, Reading, Working
  <2>3. ASSUME Refuse(w) \/ \E m \in Msgs : RejectUnknown(w, m) PROVE ~Working(w)'
    BY <2>3 DEF Refuse, Leave, RejectUnknown, Working
  <2> QED
    BY <2>1, <2>2, <2>3
<1>5. Known'
  <2>1. ASSUME NEW u \in Writers, Working(u)' PROVE Analyzed(cur[u])'
    <3>1. CASE u = w
      BY <1>1, <1>4, <2>1, <3>1 DEF Analyzed
    <3>2. CASE u # w
      BY <1>1, <1>2, <2>1, <3>2 DEF Known, Analyzed, Working
    <3> QED
      BY <3>1, <3>2
  <2> QED
    BY <1>1, <2>1 DEF Known, Analyzed
<1>6. Held'
  BY <1>1, <1>2 DEF Held
<1>7. Accepted'
  BY <1>1, <1>2 DEF Accepted
<1>8. AcceptedStands'
  BY <1>1 DEF AcceptedStands
<1> QED
  BY <1>3, <1>5, <1>6, <1>7, <1>8 DEF Preserved

\* A lock is taken on a row nobody holds, and found current.
LEMMA LockStep ==
    ASSUME TypeInv, IsolationInv, NEW w \in Writers, LookLock(w) \/ WaitOver(w)
    PROVE  HistoryStep /\ Preserved
<1> USE DEF TypeInv, TypeOK, IsolationInv, store, local
<1>1. UNCHANGED <<hist, analyses, draft, file, todo, cur, attempt, kept>>
  BY DEF LookLock, WaitOver, Goto
<1>2. /\ Working(w) /\ cur[w] \in Msgs /\ Analyzed(cur[w])
      /\ owner[cur[w]] = NoWriter /\ draft[cur[w]] = hist[cur[w]]
  BY DEF LookLock, WaitOver, Working, Reading, Known, Clean
<1>3. /\ \A u \in Writers : u # w => pc'[u] = pc[u] /\ got'[u] = got[u]
      /\ \A m \in Msgs : m # cur[w] => owner'[m] = owner[m]
      /\ pc'[w] \in {"decide", "insert"}
  BY <1>2 DEF LookLock, WaitOver, Goto, Lock
<1>4. HistoryStep /\ Clean' /\ Pending'
  BY <1>1, <1>2, <1>3 DEF HistoryStep, Clean, Pending
<1>5. Known'
  BY <1>1, <1>2, <1>3 DEF Known, Analyzed, Working
<1>6. ASSUME pc'[w] = "decide"
      PROVE  owner'[cur[w]] = w /\ got'[w] \in Current(hist[cur[w]])
  <2>1. CASE LookLock(w)
    BY <1>2, <2>1 DEF LookLock, Lock, Goto
  <2>2. CASE WaitOver(w)
    <3>1. got[w] \in hist[cur[w]] /\ Lock(w) /\ UNCHANGED got
      BY <1>6, <2>2 DEF WaitOver, Goto
    <3>2. got[w].to = Open
      BY <2>2 DEF WaitOver, Reading
    <3> QED
      BY <1>2, <3>1, <3>2 DEF Lock, Current
  <2> QED
    BY <2>1, <2>2
<1>7. Held'
  <2>1. ASSUME NEW u \in Writers, u # w, pc[u] = "decide" PROVE cur[u] # cur[w] /\ cur[u] \in Msgs
    BY <1>2, <2>1, HistoryAssumption DEF Held, Reading, Working
  <2> QED
    BY <1>1, <1>2, <1>3, <1>6, <2>1 DEF Held
<1>8. Accepted' /\ AcceptedStands'
  BY <1>1, <1>2, <1>3, HistoryAssumption DEF Accepted, AcceptedStands, Working
<1> QED
  BY <1>4, <1>5, <1>7, <1>8 DEF Preserved

\* The judgement stands already: it is accepted, under the lock.
LEMMA UnchangedStep ==
    ASSUME TypeInv, IsolationInv, NEW w \in Writers, Unchanged(w)
    PROVE  HistoryStep /\ Preserved
<1> USE DEF TypeInv, TypeOK, IsolationInv, store, local
<1>1. /\ UNCHANGED <<hist, analyses, draft, owner, file>>
      /\ kept' = [kept EXCEPT ![w] = @ \union {cur[w]}]
      /\ todo' = [todo EXCEPT ![w] = @ \ {cur[w]}]
      /\ pc' = [pc EXCEPT ![w] = "next"]
      /\ cur' = [cur EXCEPT ![w] = NoMsg] /\ got' = [got EXCEPT ![w] = NoRow]
  BY DEF Unchanged, Leave
<1>2. Working(w) /\ pc[w] = "decide" /\ cur[w] \in Msgs
  BY DEF Unchanged, Working, Reading
<1>3. HistoryStep /\ Clean' /\ Pending'
  BY <1>1 DEF HistoryStep, Clean, Pending
<1>4. Known' /\ Held'
  BY <1>1 DEF Known, Analyzed, Working, Held
<1>5. Accepted'
  BY <1>1 DEF Accepted
<1>6. /\ owner[cur[w]] = w /\ got[w] \in Current(draft[cur[w]])
      /\ got[w].category = file[w].verdicts[cur[w]].category
      /\ got[w].source = file[w].source
  BY <1>2, JudgementType DEF Held, Unchanged, SameJudgement
<1>7. AcceptedStands'
  <2>1. ASSUME NEW u \in Writers, NEW n \in kept'[u]
        PROVE  /\ owner[n] = u
               /\ \E v \in Current(draft[n]) : /\ v.category = file[u].verdicts[n].category
                                               /\ v.source = file[u].source
    <3>1. CASE n \in kept[u]
      BY <3>1 DEF AcceptedStands
    <3>2. CASE n \notin kept[u]
      <4>1. u = w /\ n = cur[w]
        BY <1>1, <2>1, <3>2
      <4> QED
        BY <1>6, <4>1
    <3> QED
      BY <3>1, <3>2
  <2> QED
    BY <1>1, <2>1 DEF AcceptedStands
<1> QED
  BY <1>3, <1>4, <1>5, <1>7 DEF Preserved

\* A version is written: over the current one, under its lock, or as the first.
LEMMA WriteStep ==
    ASSUME TypeInv, IsolationInv, NEW w \in Writers, NewVersion(w) \/ Insert(w)
    PROVE  HistoryStep /\ Preserved
<1> USE DEF TypeInv, TypeOK, IsolationInv, store, local
<1> DEFINE m == cur[w]  j == Judgement(w)
<1>1. /\ UNCHANGED <<hist, analyses, file>>
      /\ kept' = [kept EXCEPT ![w] = @ \union {m}]
      /\ todo' = [todo EXCEPT ![w] = @ \ {m}]
      /\ pc' = [pc EXCEPT ![w] = "next"]
      /\ cur' = [cur EXCEPT ![w] = NoMsg] /\ got' = [got EXCEPT ![w] = NoRow]
  BY DEF NewVersion, Insert, Leave
<1>2. Working(w) /\ m \in Msgs /\ m \notin kept[w] /\ Analyzed(m)
  BY DEF NewVersion, Insert, Working, Reading, Accepted, Known
<1>3. /\ j \in Versions /\ j.to = Open
      /\ j.category = file[w].verdicts[m].category /\ j.source = file[w].source
  BY <1>2, JudgementType
<1>4. /\ owner[m] \in {w, NoWriter} /\ owner' = [owner EXCEPT ![m] = w]
      /\ \A n \in Msgs : n # m => draft'[n] = draft[n]
  BY <1>2 DEF NewVersion, Insert, Held, Lock
<1>5. Grows(hist[m], draft'[m]) /\ j \in Current(draft'[m])
  <2>1. CASE NewVersion(w)
    <3>1. /\ draft[m] = hist[m] /\ got[w] \in Current(hist[m])
          /\ draft'[m] = Supersede(hist[m], got[w], j)
      BY <1>2, <2>1 DEF NewVersion, Held
    <3>2. MaySupersede(j, got[w])
      BY <1>2, <1>3, <2>1 DEF NewVersion, SameJudgement, HumanKept, MaySupersede
    <3> QED
      BY <1>2, <1>3, <3>1, <3>2, SupersedeGrows
  <2>2. CASE Insert(w)
    <3>1. Current(hist[m]) = {}
      BY <2>2 DEF Insert, Conflict, Current
    <3>2. hist[m] = {}
      BY <1>2, <3>1 DEF OneTimeline, Timeline
    <3>3. draft'[m] = {j}
      BY <1>2, <2>2, <3>2 DEF Insert, Clean
    <3> QED
      BY <1>3, <3>2, <3>3, InsertGrows DEF Current
  <2> QED
    BY <2>1, <2>2
<1> HIDE DEF m, j
<1>6. HistoryStep /\ Clean' /\ Pending'
  BY <1>1, <1>2, <1>4, <1>5, HistoryAssumption DEF HistoryStep, Clean, Pending
<1>7. Known'
  BY <1>1, <1>2, <1>4 DEF Known, Analyzed, Working
<1>8. Held'
  <2>1. ASSUME NEW u \in Writers, u # w, pc[u] = "decide" PROVE cur[u] # m /\ cur[u] \in Msgs
    BY <1>4, <2>1, HistoryAssumption DEF Held, Reading, Working
  <2> QED
    BY <1>1, <1>4, <2>1 DEF Held
<1>9. Accepted'
  BY <1>1 DEF Accepted
<1>10. AcceptedStands'
  <2>1. ASSUME NEW u \in Writers, NEW n \in kept[u] PROVE n \in Msgs /\ n # m
    BY <1>2, <1>4, <2>1, HistoryAssumption DEF AcceptedStands
  <2>2. ASSUME NEW u \in Writers, NEW n \in kept'[u]
        PROVE  /\ owner'[n] = u
               /\ \E v \in Current(draft'[n]) : /\ v.category = file[u].verdicts[n].category
                                                /\ v.source = file[u].source
    <3>1. CASE n \in kept[u]
      <4>1. n \in Msgs /\ n # m
        BY <2>1, <3>1
      <4>2. owner'[n] = owner[n] /\ draft'[n] = draft[n]
        BY <1>4, <4>1
      <4> QED
        BY <3>1, <4>2 DEF AcceptedStands
    <3>2. CASE n \notin kept[u]
      <4>1. u = w /\ n = m
        BY <1>1, <2>2, <3>2
      <4> QED
        BY <1>2, <1>3, <1>4, <1>5, <4>1
    <3> QED
      BY <3>1, <3>2
  <2> QED
    BY <1>1, <2>2 DEF AcceptedStands
<1> QED
  BY <1>6, <1>7, <1>8, <1>9, <1>10 DEF Preserved

\* The transaction ends: what it held is committed, or as it was.
LEMMA EndStep ==
    ASSUME TypeInv, IsolationInv, NEW w \in Writers, Commit(w) \/ Rollback(w)
    PROVE  HistoryStep /\ Preserved
<1> USE DEF TypeInv, TypeOK, IsolationInv, store, local
<1>1. /\ UNCHANGED analyses /\ owner' = Release(w)
      /\ \A u \in Writers : u # w => /\ pc'[u] = pc[u] /\ file'[u] = file[u]
                                     /\ cur'[u] = cur[u] /\ got'[u] = got[u]
                                     /\ todo'[u] = todo[u] /\ kept'[u] = kept[u]
      /\ pc'[w] = "idle" /\ kept'[w] = {} /\ file'[w] = NoFile
  BY DEF Commit, Rollback, End
<1>2. \A n \in Msgs : /\ owner[n] = w => owner'[n] = NoWriter /\ draft'[n] = hist'[n]
                                         /\ hist'[n] \in {hist[n], draft[n]}
                      /\ owner[n] # w => /\ owner'[n] = owner[n] /\ draft'[n] = draft[n]
                                         /\ hist'[n] = hist[n]
  BY DEF Commit, Rollback, End, Release
<1>3. HistoryStep /\ Clean' /\ Pending'
  BY <1>2 DEF HistoryStep, Clean, Pending
<1>4. Known'
  <2>1. \A n \in Msgs : ~Analyzed(n)' => hist'[n] = {} /\ owner'[n] = NoWriter
    BY <1>1, <1>2, HistoryAssumption DEF Known, Analyzed, Writers
  <2>2. \A u \in Writers : Working(u)' => Analyzed(cur[u])'
    BY <1>1 DEF Known, Analyzed, Working
  <2>3. \A n \in Msgs : file'[Seeder].verdicts[n] # NoVerdict => Analyzed(n)'
    BY <1>1 DEF Known, Analyzed, NoFile, Writers
  <2> QED
    BY <2>1, <2>2, <2>3 DEF Known
<1>5. Held'
  <2>1. ASSUME NEW u \in Writers, u # w, pc[u] = "decide"
        PROVE  cur[u] \in Msgs /\ owner[cur[u]] # w
    BY <2>1 DEF Held, Reading, Working
  <2> QED
    BY <1>1, <1>2, <2>1 DEF Held
<1>6. Accepted'
  BY <1>1 DEF Accepted
<1>7. AcceptedStands'
  <2>1. ASSUME NEW u \in Writers, NEW n \in kept'[u]
        PROVE  /\ owner'[n] = u
               /\ \E v \in Current(draft'[n]) : /\ v.category = file'[u].verdicts[n].category
                                                /\ v.source = file'[u].source
    <3>1. u # w /\ n \in kept[u] /\ file'[u] = file[u]
      BY <1>1, <2>1
    <3>2. n \in Msgs /\ owner[n] = u
      BY <3>1 DEF AcceptedStands
    <3>3. owner'[n] = u /\ draft'[n] = draft[n]
      BY <1>2, <3>1, <3>2
    <3> QED
      BY <3>1, <3>3 DEF AcceptedStands
  <2> QED
    BY <2>1 DEF AcceptedStands
<1> QED
  BY <1>3, <1>4, <1>5, <1>6, <1>7 DEF Preserved

-----------------------------------------------------------------------------
LEMMA IsolationStep ==
    TypeInv /\ TypeInv' /\ IsolationInv /\ [Next]_vars => HistoryStep /\ IsolationInv'
<1> SUFFICES ASSUME TypeInv, TypeInv', IsolationInv, [Next]_vars
             PROVE  HistoryStep /\ Preserved
  BY GoodStep DEF IsolationInv, Preserved
<1>1. CASE UNCHANGED vars
  <2>1. HistoryStep
    BY <1>1 DEF vars, store, HistoryStep
  <2>2. Clean' /\ Pending' /\ Accepted'
    BY <1>1 DEF vars, store, local, IsolationInv, Clean, Pending, Accepted
  <2>3. Known' /\ Held' /\ AcceptedStands'
    BY <1>1 DEF vars, store, local, IsolationInv, Known, Held, AcceptedStands, Analyzed, Working
  <2> QED
    BY <2>1, <2>2, <2>3 DEF Preserved
<1>2. CASE Next
  <2>1. CASE \E m \in Msgs, v \in Answers : Analyze(m, v) \/ AnalyzeBefore(m, v)
    BY <2>1, AnalyzeStep
  <2>2. CASE BeginSeed
    BY <2>2, SeedFile, BeginStep DEF BeginSeed, TypeInv, Writers
  <2>3. ASSUME NEW w \in Writers, BeginImport(w) PROVE HistoryStep /\ Preserved
    BY <2>3, BeginStep, HistoryAssumption DEF BeginImport
  <2>4. ASSUME NEW w \in Writers, Step(w) \/ Abort(w) PROVE HistoryStep /\ Preserved
    BY <2>4, MoveStep, LockStep, UnchangedStep, WriteStep, EndStep
    DEF Step, Abort, GiveUp, DeadlockVictim
  <2> QED
    BY <1>2, <2>1, <2>2, <2>3, <2>4 DEF Next
<1> QED
  BY <1>1, <1>2

THEOREM Isolation == Spec => [](TypeInv /\ IsolationInv)
<1>1. Init => TypeInv /\ IsolationInv
  BY TypeInit, IsolationInit
<1>2. TypeInv /\ IsolationInv /\ [Next]_vars => (TypeInv /\ IsolationInv)'
  BY TypeStep, IsolationStep
<1> QED
  BY <1>1, <1>2, PTL DEF Spec

\* Every message that was judged has one current version and a history without
\* gap or overlap.
THEOREM TimelineKept == Spec => []OneTimeline
<1>1. TypeInv /\ IsolationInv => OneTimeline
  BY DEF IsolationInv
<1> QED
  BY Isolation, <1>1, PTL

\* No interleaving of writers puts a machine's judgement after a human's.
THEOREM HumansStand == Spec => []HumanStands
<1>1. TypeInv /\ IsolationInv => HumanStands
  BY DEF IsolationInv
<1> QED
  BY Isolation, <1>1, PTL

\* No update is lost: what a transaction accepted is the current version when
\* it commits.
THEOREM NoLostUpdate == Spec => []AcceptedStands
<1>1. TypeInv /\ IsolationInv => AcceptedStands
  BY DEF IsolationInv
<1> QED
  BY Isolation, <1>1, PTL

\* The committed histories are a behaviour of VersionHistory.
THEOREM Implementation == Spec => ImplementsVersionHistory
<1>1. Init => History!Init
  BY DEF Init, History!Init
<1>2. TypeInv /\ IsolationInv /\ TypeInv' /\ [Next]_vars => [History!Next]_hist
  <2> SUFFICES ASSUME TypeInv, IsolationInv, TypeInv', [Next]_vars PROVE History!Next
    OBVIOUS
  <2>1. hist' \in [Msgs -> SUBSET Versions]
    BY DEF TypeInv, TypeOK
  <2>2. \A m \in Msgs : hist'[m] = hist[m] \/ Grows(hist[m], hist'[m])
    BY IsolationStep DEF HistoryStep
  <2> QED
    BY <2>1, <2>2 DEF History!Next, History!Versions, History!Grows, History!Sources,
       History!Times, History!Open, History!Current, History!Supersede,
       History!MaySupersede, Versions, Grows, Sources, Times, Open, Current,
       Supersede, MaySupersede
<1> QED
  BY Isolation, <1>1, <1>2, PTL DEF Spec, ImplementsVersionHistory, History!Spec

-----------------------------------------------------------------------------
(***************************************************************************)
(* Nobody waits for ever.  A lock belongs to a transaction that runs       *)
(* (OwnersRun), so if none of those that run can go on, each waits for     *)
(* another of them, and among finitely many that is a ring.                *)
(***************************************************************************)

OwnersRun == \A m \in Msgs : owner[m] # NoWriter => pc[owner[m]] # "idle"

Running == {w \in Writers : pc[w] # "idle"}

LEMMA OwnersRunStep ==
    ASSUME TypeInv, OwnersRun, [Next]_vars
    PROVE  OwnersRun'
<1> USE DEF TypeInv, TypeOK, store, local
<1>1. CASE UNCHANGED <<owner, pc>>
  BY <1>1 DEF OwnersRun
<1>2. ASSUME NEW w \in Writers, NEW f, Begin(w, f)
      PROVE  OwnersRun'
  BY <1>2 DEF Begin, OwnersRun
<1>3. ASSUME NEW w \in Writers, pc'[w] # "idle", UNCHANGED owner \/ Lock(w),
             \A u \in Writers : u # w => pc'[u] = pc[u]
      PROVE  OwnersRun'
  <2>1. ASSUME NEW m \in Msgs, owner'[m] # NoWriter PROVE pc'[owner'[m]] # "idle"
    <3>1. owner'[m] = w \/ owner'[m] = owner[m]
      BY <1>3 DEF Lock
    <3> QED
      BY <1>3, <2>1, <3>1 DEF OwnersRun
  <2> QED
    BY <2>1 DEF OwnersRun
<1>4. ASSUME NEW w \in Writers, End(w)
      PROVE  OwnersRun'
  <2>1. ASSUME NEW m \in Msgs, owner'[m] # NoWriter PROVE pc'[owner'[m]] # "idle"
    <3>1. owner'[m] = owner[m] /\ owner[m] # w
      BY <1>4, <2>1 DEF End, Release
    <3> QED
      BY <1>4, <2>1, <3>1 DEF End, OwnersRun
  <2> QED
    BY <2>1 DEF OwnersRun
<1>5. ASSUME NEW w \in Writers, Step(w) \/ Abort(w)
      PROVE  OwnersRun'
  <2>1. ASSUME NEW m \in Msgs, Pick(w, m) \/ RejectUnknown(w, m) PROVE OwnersRun'
    BY <1>3, <2>1 DEF Pick, RejectUnknown
  <2>2. CASE LookNone(w) \/ LookLock(w) \/ LookWait(w) \/ WaitOver(w)
    <3>1. /\ pc'[w] # "idle" /\ (UNCHANGED owner \/ Lock(w))
          /\ \A u \in Writers : u # w => pc'[u] = pc[u]
      BY <2>2 DEF LookNone, LookLock, LookWait, WaitOver, Goto
    <3> QED
      BY <1>3, <3>1
  <2>3. CASE Unchanged(w) \/ Refuse(w) \/ NewVersion(w) \/ Insert(w) \/ Retry(w)
    <3>1. /\ pc'[w] # "idle" /\ (UNCHANGED owner \/ Lock(w))
          /\ \A u \in Writers : u # w => pc'[u] = pc[u]
      BY <2>3 DEF Unchanged, Refuse, NewVersion, Insert, Retry, Leave
    <3> QED
      BY <1>3, <3>1
  <2>4. CASE GiveUp(w) \/ DeadlockVictim(w) \/ Commit(w) \/ Abort(w)
    BY <1>4, <2>4 DEF GiveUp, DeadlockVictim, Commit, Abort, Rollback
  <2> QED
    BY <1>5, <2>1, <2>2, <2>3, <2>4 DEF Step
<1>6. CASE Next
  BY <1>1, <1>2, <1>5, <1>6
  DEF Next, Analyze, AnalyzeBefore, BeginSeed, BeginImport, Writers
<1> QED
  BY <1>1, <1>6 DEF vars

\* A transaction between two messages can pick one or commit.
LEMMA NextCanStep ==
    ASSUME TypeInv, NEW w \in Writers, pc[w] = "next"
    PROVE  CanStep(w)
<1>1. CASE todo[w] = {}
  BY <1>1 DEF CanStep
<1>2. CASE todo[w] # {}
  <2>1. todo[w] \subseteq Msgs /\ \A m \in todo[w] : file[w].verdicts[m].at \in Nat
    <3>1. file[w] \in FileType /\ todo[w] \subseteq Msgs
      BY DEF TypeInv, TypeOK
    <3>2. \A m \in todo[w] : file[w].verdicts[m] \in Verdicts
      BY <3>1 DEF TypeInv, Reading, FileType
    <3> QED
      BY <3>1, <3>2, MaxTimeAssumption DEF Verdicts, Times
  <2> DEFINE T == {file[w].verdicts[m].at : m \in todo[w]}
  <2>2. T \subseteq Nat /\ T # {}
    BY <1>2, <2>1
  <2>3. PICK t \in T : \A u \in T : ~(<<u, t>> \in OpToRel(<, Nat))
    <3> HIDE DEF T
    <3> QED
      BY <2>2, NatLessThanWellFounded, WFMin
  <2>4. \A u \in T : t <= u
    <3> HIDE DEF T
    <3>1. \A u \in T : u \in Nat /\ t \in Nat /\ ~(u < t)
      BY <2>2, <2>3 DEF OpToRel
    <3> QED
      BY <3>1
  <2>5. PICK m \in todo[w] : t = file[w].verdicts[m].at
    BY <2>3
  <2>6. Upcoming(w, m)
    BY <2>4, <2>5 DEF Upcoming
  <2> QED
    BY <2>1, <2>6 DEF CanStep
<1> QED
  BY <1>1, <1>2

\* One that cannot go on waits for another that runs.
LEMMA StuckWaits ==
    ASSUME TypeInv, OwnersRun, NEW w \in Running, ~CanStep(w)
    PROVE  Blocked(w) /\ owner[cur[w]] \in Running
<1>1. w \in Writers /\ pc[w] # "idle" /\ pc[w] # "next"
  BY NextCanStep DEF Running, CanStep
<1>2. pc[w] \in {"wait", "insert"} /\ owner[cur[w]] # NoWriter /\ ~Collides(w)
  BY <1>1 DEF CanStep, TypeInv, TypeOK
<1>3. cur[w] \in Msgs
  BY <1>1, <1>2 DEF TypeInv, TypeOK, Reading, Working
<1> QED
  BY <1>2, <1>3 DEF Blocked, OwnersRun, Running, TypeInv, TypeOK

\* In a finite set from which a function does not lead out, it permutes a part.
LEMMA PermutedPart ==
    ASSUME NEW S, IsFiniteSet(S), S # {}, NEW f \in [S -> S]
    PROVE  \E R \in SUBSET S : R # {} /\ \A y : y \in R <=> \E x \in R : y = f[x]
<1> DEFINE Closed == {R \in SUBSET S : R # {} /\ \A x \in R : f[x] \in R}
<1>1. S \in Closed
  OBVIOUS
<1>2. FiniteSubsetsOf(S) = SUBSET S
  BY FS_FiniteSubsetsOfFinite
<1>3. PICK R \in Closed : \A Q \in Closed : ~(<<Q, R>> \in StrictSubsetOrdering(S))
  <2>1. Closed \subseteq FiniteSubsetsOf(S) /\ Closed # {}
    BY <1>1, <1>2
  <2> HIDE DEF Closed
  <2> QED
    BY <2>1, FS_StrictSubsetOrderingWellFounded, WFMin
<1> DEFINE Q == {f[x] : x \in R}
<1>4. Q \in Closed /\ Q \subseteq R
  OBVIOUS
<1>5. Q = R
  BY <1>3, <1>4 DEF StrictSubsetOrdering
<1> QED
  BY <1>5

LEMMA SomebodyCanStep ==
    ASSUME TypeInv, OwnersRun
    PROVE  NeverStuck
<1> SUFFICES ASSUME Running # {}, \A w \in Writers : ~CanStep(w)
             PROVE  FALSE
  BY DEF NeverStuck, Running
<1>1. \A w \in Running : Blocked(w) /\ owner[cur[w]] \in Running
  BY StuckWaits DEF Running
<1>2. IsFiniteSet(Running)
  <2>1. IsFiniteSet(Writers)
    BY HistoryAssumption, FS_AddElement DEF Writers
  <2> QED
    BY <2>1, FS_Subset DEF Running
<1> DEFINE f == [w \in Running |-> owner[cur[w]]]
<1>3. f \in [Running -> Running]
  BY <1>1
<1>4. PICK ring \in SUBSET Running : ring # {} /\ \A v : v \in ring <=> \E u \in ring : v = f[u]
  <2> HIDE DEF f
  <2> QED
    BY <1>2, <1>3, PermutedPart
<1>5. {owner[cur[u]] : u \in ring} = ring
  <2>1. \A u \in ring : f[u] = owner[cur[u]]
    OBVIOUS
  <2> HIDE DEF f
  <2> QED
    BY <1>4, <2>1
<1>6. PICK w \in ring : TRUE
  BY <1>4
<1>7. InRing(w)
  BY <1>1, <1>4, <1>5, <1>6 DEF InRing, Running
<1> QED
  BY <1>4, <1>6, <1>7 DEF CanStep, Running

\* However many transactions wait for each other's rows and keys, one of them
\* can execute its next statement or is the victim of deadlock detection.
THEOREM NobodyWaitsForEver == Spec => []NeverStuck
<1>1. Init => OwnersRun
  BY DEF Init, OwnersRun
<1>2. Init => TypeInv
  BY TypeInit
<1>3. TypeInv /\ OwnersRun /\ [Next]_vars => (TypeInv /\ OwnersRun)'
  BY TypeStep, OwnersRunStep
<1>4. TypeInv /\ OwnersRun => NeverStuck
  BY SomebodyCanStep
<1> QED
  BY <1>1, <1>2, <1>3, <1>4, PTL DEF Spec

=============================================================================
