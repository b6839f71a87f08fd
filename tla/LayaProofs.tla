------------------------------ MODULE LayaProofs ------------------------------
(***************************************************************************)
(* Proofs about LayaProgram: the questions dictionary, for every one that  *)
(* is accepted; the shadow classifier, for any calls, workers, outages and *)
(* restarts; and the tools that make training data of what is stored, for  *)
(* any messages, verdicts, errors and kills.                               *)
(*                                                                         *)
(* Slots: a call that was not made yet is in flight nowhere (Untold), so   *)
(* accepting it adds one sample to Busy, with its slot or, if the submit   *)
(* then fails, without; releasing or restarting takes them out again.      *)
(*                                                                         *)
(* The honest test set rests on the file of pairs: no message has two lines*)
(* that parse, since the rows a backfill has left, the lines it has not    *)
(* flushed and the file are of different messages (Resumed), also when it  *)
(* is killed in the middle of a line and the next run appends to that.     *)
(***************************************************************************)
EXTENDS LayaProgram, FiniteSetTheorems, SequenceTheorems, WellFoundedInduction, TLAPS

(* Reading a v1 category in v2 leaves the message where v1 routed it, also  *)
(* where the mapping is only approximate (taxonomy.py and the rows of       *)
(* taxonomy_mappings in migration 0009).                                    *)
THEOREM MappingKeepsVertical ==
  ASSUME NEW c \in CategoryV1
  PROVE  /\ V1ToV2(c) \in CategoryV2
         /\ VerticalFor("v2", V1ToV2(c)) = VerticalFor("v1", c)
BY DEF CategoryV1, CategoryV2, V1ToV2, VerticalFor

(* laya can agree with the LLM on every category: what load_questions_file  *)
(* accepts, and merges the calendar rightly, has for each category of its   *)
(* version a choice whose label agrees with it.                             *)
THEOREM EveryCategoryHasAChoice ==
  ASSUME NEW d, NEW current, Accepted(d, current), MergesTheCalendar(d),
         NEW c \in Categories(current)
  PROVE  \E en \in Criteria(d) : IsAgreement(ZhByEn(d)[en], c, current)
<1>1. PICK en \in DOMAIN d.label_map : d.label_map[en] = c
  BY DEF Accepted, Image
<1>2. CASE d.version # "v1"
  BY <1>1, <1>2 DEF Accepted, Criteria, ZhByEn, IsAgreement
<1>3. CASE d.version = "v1" /\ en \in CalendarMerge
  <2>1. CalendarLabel \in Criteria(d) /\ ZhByEn(d)[CalendarLabel] = CalendarZh
    BY <1>3 DEF Criteria, ZhByEn
  <2>2. c \in CalendarZhMembers /\ current = "v1"
    BY <1>1, <1>3 DEF MergesTheCalendar, Accepted
  <2> QED BY <2>1, <2>2 DEF IsAgreement
<1>4. CASE d.version = "v1" /\ en \notin CalendarMerge
  <2>1. en # CalendarLabel
    BY <1>4 DEF MergesTheCalendar
  <2>2. en \in Kept(d) /\ en \in Criteria(d)
    BY <1>1, <1>4, <2>1 DEF Kept, Criteria, Accepted
  <2>3. ZhByEn(d)[en] = c
    BY <1>1, <1>4, <2>1, <2>2 DEF ZhByEn
  <2> QED BY <2>2, <2>3 DEF IsAgreement
<1> QED BY <1>2, <1>3, <1>4

(* A choice agrees with the category it stands for and with no other, so    *)
(* that the agreement counter neither hides nor invents a disagreement: it  *)
(* counts an agreement exactly if the choice names the LLM's category or is *)
(* the merged label of v1 and that category one of the calendar's two.      *)
THEOREM AgreementIsExact ==
  ASSUME NEW d, NEW current, Accepted(d, current), MergesTheCalendar(d),
         NEW en \in Criteria(d), NEW c \in Categories(current)
  PROVE  IsAgreement(ZhByEn(d)[en], c, current) <=>
           \/ en \in DOMAIN d.label_map /\ d.label_map[en] = c
           \/ current = "v1" /\ en = CalendarLabel /\ c \in CalendarZhMembers
<1>1. CASE d.version # "v1"
  <2>1. current # "v1" /\ en \in DOMAIN d.label_map /\ ZhByEn(d)[en] = d.label_map[en]
    BY <1>1 DEF Accepted, Criteria, ZhByEn
  <2> QED BY <2>1 DEF IsAgreement
<1>2. CASE d.version = "v1" /\ en = CalendarLabel
  <2>1. ZhByEn(d)[en] = CalendarZh /\ current = "v1"
    BY <1>2 DEF ZhByEn, Accepted
  <2>2. CalendarZh \notin CategoryV1
    BY DEF CalendarZh, CategoryV1
  <2>3. en \notin DOMAIN d.label_map
    BY <1>2 DEF MergesTheCalendar
  <2>4. c # CalendarZh
    BY <2>1, <2>2 DEF Categories
  <2> QED BY <1>2, <2>1, <2>3, <2>4 DEF IsAgreement
<1>3. CASE d.version = "v1" /\ en # CalendarLabel
  <2>1. en \in Kept(d) /\ en \in DOMAIN d.label_map
    BY <1>3 DEF Criteria, Kept, Accepted
  <2>2. ZhByEn(d)[en] = d.label_map[en]
    BY <1>3, <2>1 DEF ZhByEn
  <2>3. d.label_map[en] \in CategoryV1
    BY <1>3, <2>1 DEF Accepted, Image, Categories
  <2>4. d.label_map[en] # CalendarZh
    BY <2>3 DEF CategoryV1, CalendarZh
  <2> QED BY <1>3, <2>1, <2>2, <2>4 DEF IsAgreement
<1> QED BY <1>1, <1>2, <1>3

-----------------------------------------------------------------------------
(* The shadow classifier. *)

Untold == \A i \in Samples : i >= next => stage[i] = "none"

\* What is persisted is an answer.
Answered == \A i \in Samples : stage[i] \in {"classified", "stored"} =>
                                 outcome[i] \in Errors \cup Labels

\* ShadowTypeOK for the proofs.
Shape ==
  /\ next \in 1 .. Len(Calls) + 1 /\ slots \in 0 .. MaxWorkers /\ unslotted \in Nat
  /\ stage \in [Samples -> Stages]
  /\ outcome \in [Samples -> Errors \cup Labels \cup {"none"}]
  /\ version \in ModelVersions /\ restarts \in 0 .. MaxRestarts
  /\ rows \in [Mails \X ModelVersions -> Errors \cup Labels \cup {NoRow}]

ShadowInv == Shape /\ Untold /\ Answered /\ SlotsConserved

LEMMA CallsFacts == /\ Len(Calls) \in Nat
                    /\ \A i \in Samples : i \in 1 .. Len(Calls) /\ Calls[i] \in Mails
BY ShadowAssumption DEF Samples

(* Fewer samples are in flight than were handed over: a finite number.      *)
LEMMA BusyFinite == ASSUME Shape PROVE IsFiniteSet(Busy) /\ Cardinality(Busy) \in Nat
<1>1. IsFiniteSet(Samples)
  BY CallsFacts, FS_Interval DEF Samples
<1>2. Busy \subseteq Samples
  BY DEF Busy
<1> QED BY <1>1, <1>2, FS_Subset, FS_CardinalityType

LEMMA InitShadow == ShadowInit => ShadowInv
<1> SUFFICES ASSUME ShadowInit PROVE ShadowInv
  OBVIOUS
<1>1. Shape /\ Untold /\ Answered
  BY ShadowAssumption, CallsFacts
  DEF ShadowInit, Shape, Untold, Answered, Samples, Stages
<1>2. Busy = {}
  BY DEF ShadowInit, Busy, InFlight
<1> QED BY <1>1, <1>2, FS_EmptySet, ShadowAssumption DEF ShadowInv, SlotsConserved, ShadowInit

(* What a step does to the samples in flight decides what the slots owe.    *)
LEMMA HandedOver ==
  ASSUME ShadowInv, NEW i \in Samples, i = next, stage[i] = "none",
         NEW s \in Stages, stage' = [stage EXCEPT ![i] = s]
  PROVE  Cardinality(Busy') =
           IF s \in InFlight THEN Cardinality(Busy) + 1 ELSE Cardinality(Busy)
<1>1. i \notin Busy
  BY DEF Busy, InFlight
<1>2. Busy' = IF s \in InFlight THEN Busy \cup {i} ELSE Busy
  BY <1>1 DEF ShadowInv, Shape, Busy
<1> QED BY <1>1, <1>2, BusyFinite, FS_AddElement DEF ShadowInv

LEMMA StaysBusy ==
  ASSUME ShadowInv, NEW i \in Samples, stage[i] \in InFlight,
         NEW s \in InFlight, stage' = [stage EXCEPT ![i] = s]
  PROVE  Busy' = Busy
BY DEF ShadowInv, Shape, Busy

LEMMA LeavesBusy ==
  ASSUME ShadowInv, NEW i \in Samples, stage[i] \in InFlight,
         stage' = [stage EXCEPT ![i] = "gone"]
  PROVE  Cardinality(Busy') = Cardinality(Busy) - 1 /\ Cardinality(Busy') \in Nat
<1>1. Busy' = Busy \ {i} /\ i \in Busy
  BY DEF ShadowInv, Shape, Busy, InFlight
<1>2. IsFiniteSet(Busy')
  BY <1>1, BusyFinite, FS_RemoveElement DEF ShadowInv
<1> QED BY <1>1, <1>2, BusyFinite, FS_RemoveElement, FS_CardinalityType DEF ShadowInv

LEMMA ClassifyKeeps == ShadowInv /\ Classify => ShadowInv'
<1> SUFFICES ASSUME ShadowInv, Classify PROVE ShadowInv'
  OBVIOUS
<1>1. next \in Samples /\ stage[next] = "none" /\ next \in Nat
  BY CallsFacts DEF Classify, ShadowInv, Shape, Untold, Samples
<1> USE DEF Classify, Accept, Drop, SubmitRefused, SubmitFails, Set
<1>2. Shape'
  BY CallsFacts, ShadowAssumption, <1>1 DEF ShadowInv, Shape, Stages
<1>3. Untold'
  BY CallsFacts, <1>1 DEF ShadowInv, Shape, Untold, Samples
<1>4. Answered'
  BY <1>1 DEF ShadowInv, Shape, Answered, Samples
<1>5. Cardinality(Busy) \in Nat /\ slots \in Nat /\ MaxWorkers \in Nat /\ unslotted \in Nat
  BY BusyFinite, ShadowAssumption DEF ShadowInv, Shape
<1>6. SlotsConserved'
  <2>1. CASE Accept(next) \/ SubmitFails(next)
    <3>1. Cardinality(Busy') = Cardinality(Busy) + 1
      BY <1>1, <2>1, HandedOver DEF InFlight, Stages
    <3>2. \/ slots' = slots - 1 /\ unslotted' = unslotted
          \/ slots' = slots /\ unslotted' = unslotted + 1
      BY <2>1
    <3> QED BY <1>5, <3>1, <3>2 DEF SlotsConserved, ShadowInv
  <2>2. CASE Drop(next) \/ SubmitRefused(next)
    <3>1. Cardinality(Busy') = Cardinality(Busy) /\ slots' = slots /\ unslotted' = unslotted
      BY <1>1, <2>2, HandedOver DEF InFlight, Stages
    <3> QED BY <1>5, <3>1 DEF SlotsConserved, ShadowInv
  <2> QED BY <2>1, <2>2
<1> QED BY <1>2, <1>3, <1>4, <1>6 DEF ShadowInv

LEMMA WorkerKeeps == ASSUME ShadowInv, NEW i \in Samples, Worker(i) PROVE ShadowInv'
<1>1. CASE Begin(i)
  <2> USE <1>1 DEF Begin, Set
  <2>1. Busy' = Busy
    BY StaysBusy DEF InFlight
  <2>2. Shape' /\ Untold' /\ Answered'
    BY DEF ShadowInv, Shape, Untold, Answered, Stages, Samples
  <2> QED BY <2>1, <2>2 DEF ShadowInv, SlotsConserved
<1>2. CASE Answer(i)
  <2> USE <1>2 DEF Answer, Set
  <2>1. Busy' = Busy
    BY StaysBusy DEF InFlight
  <2>2. PICK o : o \in Outages \cup {Result(a) : a \in Answers}
                 /\ outcome' = [outcome EXCEPT ![i] = o]
    OBVIOUS
  <2>3. o \in Errors \cup Labels
    BY <2>2 DEF Result, Errors, Labels
  <2>4. Shape' /\ Untold' /\ Answered'
    BY <2>2, <2>3 DEF ShadowInv, Shape, Untold, Answered, Stages, Samples
  <2> QED BY <2>1, <2>4 DEF ShadowInv, SlotsConserved
<1>3. CASE Persist(i)
  <2> USE <1>3 DEF Persist, Set
  <2>1. Busy' = Busy
    BY StaysBusy DEF InFlight
  <2>2. <<Calls[i], version>> \in Mails \X ModelVersions
    BY CallsFacts DEF ShadowInv, Shape
  <2>3. rows' \in [Mails \X ModelVersions -> Errors \cup Labels \cup {NoRow}]
    BY <2>2 DEF ShadowInv, Shape, Answered
  <2>4. Shape' /\ Untold' /\ Answered'
    BY <2>3 DEF ShadowInv, Shape, Untold, Answered, Stages, Samples
  <2> QED BY <2>1, <2>4 DEF ShadowInv, SlotsConserved
<1>4. CASE Release(i)
  <2> USE <1>4 DEF Release, Freed, Set
  <2>1. Cardinality(Busy') = Cardinality(Busy) - 1 /\ Cardinality(Busy') \in Nat
    BY LeavesBusy DEF InFlight
  <2>2. SlotsConserved'
    <3>1. /\ MaxWorkers <= slots + Cardinality(Busy)
          /\ slots + Cardinality(Busy) <= MaxWorkers + unslotted
      BY DEF ShadowInv, SlotsConserved
    <3>2. Cardinality(Busy) \in Nat
      BY BusyFinite DEF ShadowInv
    <3>3. slots \in 0 .. MaxWorkers /\ MaxWorkers \in Nat /\ unslotted \in Nat
      BY ShadowAssumption DEF ShadowInv, Shape
    <3>4. unslotted' = unslotted /\ slots' = IF slots < MaxWorkers THEN slots + 1 ELSE slots
      OBVIOUS
    <3>5. /\ MaxWorkers <= slots' + Cardinality(Busy')
          /\ slots' + Cardinality(Busy') <= MaxWorkers + unslotted'
      <4>1. CASE slots < MaxWorkers
        BY <2>1, <3>1, <3>2, <3>3, <3>4, <4>1
      <4>2. CASE slots = MaxWorkers
        BY <2>1, <3>1, <3>2, <3>3, <3>4, <4>2
      <4> QED BY <3>3, <4>1, <4>2
    <3> QED BY <3>5 DEF SlotsConserved
  <2>3. Shape' /\ Untold' /\ Answered'
    BY ShadowAssumption DEF ShadowInv, Shape, Untold, Answered, Stages, Samples
  <2> QED BY <2>2, <2>3 DEF ShadowInv
<1> QED BY <1>1, <1>2, <1>3, <1>4 DEF Worker

LEMMA RestartKeeps == ShadowInv /\ Restart => ShadowInv'
<1> SUFFICES ASSUME ShadowInv, Restart PROVE ShadowInv'
  OBVIOUS
<1> USE DEF Restart
<1>1. Busy' = {}
  BY DEF ShadowInv, Shape, Busy, InFlight
<1>2. SlotsConserved'
  BY <1>1, FS_EmptySet, ShadowAssumption DEF SlotsConserved
<1>3. Shape' /\ Untold' /\ Answered'
  BY ShadowAssumption
  DEF ShadowInv, Shape, Untold, Answered, Stages, Samples, Busy, InFlight
<1> QED BY <1>2, <1>3 DEF ShadowInv

LEMMA ShadowStep == ShadowInv /\ [ShadowNext]_shadowVars => ShadowInv'
<1>1. ShadowInv /\ UNCHANGED shadowVars => ShadowInv'
  BY DEF ShadowInv, Shape, Untold, Answered, SlotsConserved, Busy, shadowVars
<1> QED BY <1>1, ClassifyKeeps, WorkerKeeps, RestartKeeps DEF ShadowNext

LEMMA ShadowAlways == Spec => []ShadowInv
<1>1. Init => ShadowInv
  BY InitShadow DEF Init
<1>2. ShadowInv /\ [Next]_vars => ShadowInv'
  BY ShadowStep DEF Next, vars
<1> QED BY <1>1, <1>2, PTL DEF Spec

(* No slot is lost, whatever calls, outages, failed submissions, failed     *)
(* commits, refused releases and restarts occur; there is a surplus only of *)
(* the items whose submit failed after it had queued them.                  *)
THEOREM NoSlotLost == Spec => []SlotsConserved
<1>1. ShadowInv => SlotsConserved
  BY DEF ShadowInv
<1> QED BY <1>1, ShadowAlways, PTL
-----------------------------------------------------------------------------
(* The lines of the files.  *)

LEMMA DoneOf ==
  ASSUME NEW s \in Seq(Lines), NEW x
  PROVE  x \in LoadDone(s) <=> \E i \in 1 .. Len(s) : s[i] # Broken /\ s[i].msg = x
<1>1. DOMAIN s = 1 .. Len(s)
  BY LenProperties
<1> QED BY <1>1 DEF LoadDone, ToSet

\* The lines of t are those of s from the d-th on.
LEMMA Piece ==
  ASSUME NEW s \in Seq(Lines), OneEach(s), NEW t \in Seq(Lines), NEW d \in Nat,
         \A j \in 1 .. Len(t) : j + d \in 1 .. Len(s) /\ t[j] = s[j + d]
  PROVE  OneEach(t) /\ LoadDone(t) \subseteq LoadDone(s)
<1>1. OneEach(t)
  <2> SUFFICES ASSUME NEW i \in 1 .. Len(t), NEW j \in 1 .. Len(t),
                      t[i] # Broken, t[j] # Broken, t[i].msg = t[j].msg
               PROVE  i = j
    BY DEF OneEach
  <2>1. i + d = j + d
    BY DEF OneEach
  <2> QED BY <2>1
<1>2. ASSUME NEW x \in LoadDone(t) PROVE x \in LoadDone(s)
  <2>1. PICK j \in 1 .. Len(t) : t[j] # Broken /\ t[j].msg = x
    BY DoneOf
  <2>2. j + d \in 1 .. Len(s) /\ s[j + d] # Broken /\ s[j + d].msg = x
    BY <2>1
  <2> QED BY <2>2, DoneOf
<1> QED BY <1>1, <1>2

LEMMA TailLines ==
  ASSUME NEW s \in Seq(Lines), OneEach(s), s # <<>>
  PROVE  Tail(s) \in Seq(Lines) /\ OneEach(Tail(s)) /\ LoadDone(Tail(s)) \subseteq LoadDone(s)
<1>1. /\ Tail(s) \in Seq(Lines) /\ Len(Tail(s)) = Len(s) - 1 /\ Len(s) \in Nat
      /\ \A j \in 1 .. Len(Tail(s)) : Tail(s)[j] = s[j + 1]
  BY HeadTailProperties, LenProperties
<1>2. \A j \in 1 .. Len(Tail(s)) : j + 1 \in 1 .. Len(s)
  BY <1>1
<1> QED BY <1>1, <1>2, Piece

LEMMA SomeLines ==
  ASSUME NEW s \in Seq(Lines), OneEach(s), NEW k \in 0 .. Len(s)
  PROVE  /\ SubSeq(s, 1, k) \in Seq(Lines) /\ OneEach(SubSeq(s, 1, k))
         /\ LoadDone(SubSeq(s, 1, k)) \subseteq LoadDone(s)
<1> DEFINE t == SubSeq(s, 1, k)
<1>1. \A i \in 1 .. k : s[i] \in Lines
  BY ElementOfSeq, LenProperties
<1>2. /\ t \in Seq(Lines) /\ Len(t) = IF 1 <= k THEN k - 1 + 1 ELSE 0
      /\ \A i \in 1 .. k - 1 + 1 : t[i] = s[1 + i - 1]
  BY <1>1, LenProperties, SubSeqProperties
<1> HIDE DEF t
<1>3. \A j \in 1 .. Len(t) : j + 0 \in 1 .. Len(s) /\ t[j] = s[j + 0]
  BY <1>2, LenProperties
<1>4. OneEach(t) /\ LoadDone(t) \subseteq LoadDone(s)
  BY <1>2, <1>3, Piece
<1> QED BY <1>2, <1>4 DEF t

LEMMA Concat ==
  ASSUME NEW s \in Seq(Lines), OneEach(s), NEW t \in Seq(Lines), OneEach(t),
         LoadDone(s) \cap LoadDone(t) = {}
  PROVE  /\ s \o t \in Seq(Lines) /\ OneEach(s \o t)
         /\ LoadDone(s \o t) \subseteq LoadDone(s) \cup LoadDone(t)
<1> DEFINE u == s \o t
           m == Len(s)
           n == Len(t)
<1>1. m \in Nat /\ n \in Nat
  BY LenProperties
<1>2. /\ u \in Seq(Lines) /\ Len(u) = m + n
      /\ \A i \in 1 .. m + n : u[i] = IF i <= m THEN s[i] ELSE t[i - m]
  BY ConcatProperties
<1> HIDE DEF u
<1>3. ASSUME NEW i \in 1 .. m + n
      PROVE  \/ i \in 1 .. m /\ u[i] = s[i]
             \/ i - m \in 1 .. n /\ u[i] = t[i - m]
  BY <1>1, <1>2
<1>4. ASSUME NEW i \in 1 .. m + n, u[i] # Broken
      PROVE  \/ i \in 1 .. m /\ u[i] = s[i] /\ u[i].msg \in LoadDone(s)
             \/ i - m \in 1 .. n /\ u[i] = t[i - m] /\ u[i].msg \in LoadDone(t)
  <2>1. CASE i \in 1 .. m /\ u[i] = s[i]
    BY <1>4, <2>1, DoneOf
  <2>2. CASE i - m \in 1 .. n /\ u[i] = t[i - m]
    BY <1>4, <2>2, DoneOf
  <2> QED BY <1>3, <2>1, <2>2
<1>5. OneEach(u)
  <2> SUFFICES ASSUME NEW i \in 1 .. m + n, NEW j \in 1 .. m + n,
                      u[i] # Broken, u[j] # Broken, u[i].msg = u[j].msg
               PROVE  i = j
    BY <1>2 DEF OneEach
  <2>1. CASE i \in 1 .. m /\ u[i] = s[i] /\ u[i].msg \in LoadDone(s)
    <3>1. j \in 1 .. m /\ u[j] = s[j]
      BY <1>4, <2>1
    <3> QED BY <2>1, <3>1 DEF OneEach
  <2>2. CASE i - m \in 1 .. n /\ u[i] = t[i - m] /\ u[i].msg \in LoadDone(t)
    <3>1. j - m \in 1 .. n /\ u[j] = t[j - m]
      BY <1>4, <2>2
    <3>2. i - m = j - m
      BY <2>2, <3>1 DEF OneEach
    <3> QED BY <1>1, <3>2
  <2> QED BY <1>4, <2>1, <2>2
<1>6. ASSUME NEW x \in LoadDone(u) PROVE x \in LoadDone(s) \cup LoadDone(t)
  <2>1. PICK i \in 1 .. m + n : u[i] # Broken /\ u[i].msg = x
    BY <1>2, DoneOf
  <2> QED BY <1>4, <2>1
<1> QED BY <1>2, <1>5, <1>6 DEF u

LEMMA EmptyLines == <<>> \in Seq(Lines) /\ OneEach(<<>>) /\ LoadDone(<<>>) = {}
<1>1. <<>> \in Seq(Lines) /\ Len(<<>>) = 0
  BY EmptySeq
<1>2. \A i \in 1 .. Len(<<>>) : FALSE
  BY <1>1
<1>3. \A x : x \notin LoadDone(<<>>)
  BY <1>1, <1>2, DoneOf
<1> QED BY <1>1, <1>2, <1>3 DEF OneEach

LEMMA OneMore ==
  ASSUME NEW s \in Seq(Lines), OneEach(s), NEW l \in Lines,
         l # Broken => l.msg \notin LoadDone(s)
  PROVE  /\ Append(s, l) \in Seq(Lines) /\ OneEach(Append(s, l))
         /\ \A x \in LoadDone(Append(s, l)) : x \in LoadDone(s) \/ (l # Broken /\ x = l.msg)
<1>1. /\ Append(s, l) \in Seq(Lines) /\ Len(Append(s, l)) = Len(s) + 1 /\ Len(s) \in Nat
      /\ \A i \in 1 .. Len(s) : Append(s, l)[i] = s[i]
      /\ Append(s, l)[Len(s) + 1] = l
  BY AppendProperties, LenProperties
<1>2. \A i \in 1 .. Len(s) + 1 : i \in 1 .. Len(s) \/ i = Len(s) + 1
  BY <1>1
<1>3. OneEach(Append(s, l))
  <2> SUFFICES ASSUME NEW i \in 1 .. Len(s) + 1, NEW j \in 1 .. Len(s) + 1,
                      Append(s, l)[i] # Broken, Append(s, l)[j] # Broken,
                      Append(s, l)[i].msg = Append(s, l)[j].msg
               PROVE  i = j
    BY <1>1 DEF OneEach
  <2>1. \A k \in 1 .. Len(s) : s[k] # Broken => s[k].msg \in LoadDone(s)
    BY DoneOf
  <2>2. CASE i \in 1 .. Len(s) /\ j \in 1 .. Len(s)
    BY <1>1, <2>2 DEF OneEach
  <2>3. CASE i = Len(s) + 1 \/ j = Len(s) + 1
    BY <1>1, <1>2, <2>1, <2>3
  <2> QED BY <1>2, <2>2, <2>3
<1>4. ASSUME NEW x \in LoadDone(Append(s, l))
      PROVE  x \in LoadDone(s) \/ (l # Broken /\ x = l.msg)
  <2> DEFINE u == Append(s, l)
  <2>0. u \in Seq(Lines) /\ Len(u) = Len(s) + 1
    BY <1>1
  <2>1. PICK i \in 1 .. Len(s) + 1 : u[i] # Broken /\ u[i].msg = x
    <3> HIDE DEF u
    <3>1. x \in LoadDone(u)
      BY <1>4 DEF u
    <3>2. \E i \in 1 .. Len(u) : u[i] # Broken /\ u[i].msg = x
      BY <2>0, <3>1, DoneOf
    <3> QED BY <2>0, <3>2
  <2>2. CASE i \in 1 .. Len(s)
    BY <1>1, <2>1, <2>2, DoneOf
  <2>3. CASE i = Len(s) + 1
    BY <1>1, <2>1, <2>3
  <2> QED BY <1>2, <2>2, <2>3
<1> QED BY <1>1, <1>3, <1>4
-----------------------------------------------------------------------------
(* The backfill. *)

(* No message has two lines in the file, on the way to it or still to come. *)
Resumed ==
  /\ pairs \in Seq(Lines) /\ buffer \in Seq(Lines) /\ torn \in BOOLEAN
  /\ OneEach(pairs) /\ OneEach(buffer) /\ LoadDone(pairs) \cap LoadDone(buffer) = {}
  /\ IF todo = Nobody THEN buffer = <<>>
     ELSE todo \subseteq Msgs /\ todo \cap (LoadDone(pairs) \cup LoadDone(buffer)) = {}

Counted ==
  /\ handled \in Nat /\ streak \in 0 .. MaxErrors
  /\ todo # Nobody /\ todo # {} => streak < MaxErrors
  /\ runs \in 0 .. MaxRuns /\ fetchErrors \in 0 .. MaxFetchErrors

BackfillInv == Resumed /\ Counted

LEMMA JoinedLines ==
  ASSUME NEW s \in Seq(Lines), OneEach(s)
  PROVE  Joined(s) \in Seq(Lines) /\ OneEach(Joined(s)) /\ LoadDone(Joined(s)) \subseteq LoadDone(s)
BY TailLines DEF Joined

\* What reaches the file are lines of messages it does not have.
LEMMA Written ==
  ASSUME Resumed, NEW s \in Seq(Lines), OneEach(s), LoadDone(pairs) \cap LoadDone(s) = {},
         Appended(s) \/ CutOff(s)
  PROVE  /\ pairs' \in Seq(Lines) /\ OneEach(pairs)' /\ torn' \in BOOLEAN
         /\ LoadDone(pairs)' \subseteq LoadDone(pairs) \cup LoadDone(s)
<1>1. PICK t \in Seq(Lines) : OneEach(t) /\ LoadDone(t) \subseteq LoadDone(s)
                              /\ pairs' = pairs \o Joined(t)
  <2>1. CASE Appended(s)
    BY <2>1 DEF Appended
  <2>2. CASE CutOff(s)
    <3>1. /\ Append(s, Broken) \in Seq(Lines) /\ OneEach(Append(s, Broken))
          /\ LoadDone(Append(s, Broken)) \subseteq LoadDone(s)
      BY OneMore DEF Lines
    <3> QED BY <2>2, <3>1 DEF CutOff
  <2> QED BY <2>1, <2>2
<1> DEFINE u == Joined(t)
<1>2. u \in Seq(Lines) /\ OneEach(u) /\ LoadDone(u) \subseteq LoadDone(t)
  BY <1>1, JoinedLines
<1> HIDE DEF u
<1>3. pairs' = pairs \o u /\ LoadDone(pairs) \cap LoadDone(u) = {}
  BY <1>1, <1>2 DEF u
<1>4. /\ pairs \o u \in Seq(Lines) /\ OneEach(pairs \o u)
      /\ LoadDone(pairs \o u) \subseteq LoadDone(pairs) \cup LoadDone(u)
  BY <1>2, <1>3, Concat DEF Resumed
<1>5. torn' \in BOOLEAN
  BY DEF Resumed, Appended, CutOff
<1>6. OneEach(pairs)' /\ LoadDone(pairs)' = LoadDone(pairs \o u)
  BY <1>3, <1>4 DEF OneEach, LoadDone
<1> QED BY <1>1, <1>2, <1>3, <1>4, <1>5, <1>6

LEMMA StepWrites ==
  ASSUME BackfillInv, NEW s \in Seq(Lines), OneEach(s),
         LoadDone(pairs) \cap LoadDone(s) = {}, Step(s)
  PROVE  /\ pairs' \in Seq(Lines) /\ OneEach(pairs)' /\ torn' \in BOOLEAN
         /\ buffer' \in Seq(Lines) /\ OneEach(buffer)' /\ handled' \in Nat
         /\ LoadDone(pairs)' \cap LoadDone(buffer)' = {}
         /\ LoadDone(pairs)' \cup LoadDone(buffer)' \subseteq LoadDone(pairs) \cup LoadDone(s)
<1>1. handled' \in Nat
  BY DEF Step, BackfillInv, Counted
<1>2. CASE Appended(s) /\ buffer' = <<>>
  <2>1. OneEach(buffer)' /\ LoadDone(buffer)' = {} /\ buffer' \in Seq(Lines)
    BY <1>2, EmptyLines DEF OneEach, LoadDone
  <2> QED BY <1>1, <1>2, <2>1, Written DEF BackfillInv
<1>3. CASE buffer' = s /\ UNCHANGED <<pairs, torn>>
  <2>1. OneEach(buffer)' /\ LoadDone(buffer)' = LoadDone(s)
    BY <1>3 DEF OneEach, LoadDone
  <2>2. OneEach(pairs)' /\ LoadDone(pairs)' = LoadDone(pairs)
    BY <1>3 DEF OneEach, LoadDone, BackfillInv, Resumed
  <2> QED BY <1>1, <1>3, <2>1, <2>2 DEF BackfillInv, Resumed
<1> QED BY <1>2, <1>3 DEF Step

LEMMA LineOf ==
  ASSUME NEW m \in Msgs, NEW deleted \in BOOLEAN
  PROVE  /\ Line(m, deleted) \in Lines /\ Line(m, deleted) # Broken
         /\ Line(m, deleted).msg = m
<1>1. PICK v \in Versions : \E c \in Categories(v) : Current[m] = <<v, c>>
  BY LabelAssumption
<1>2. PICK c \in Categories(v) : Current[m] = <<v, c>>
  BY <1>1
<1>3. MappedTo(v, c) \in AnyCategory
  BY <1>2, MappingKeepsVertical DEF Versions, Categories, MappedTo, AnyCategory
<1>4. Line(m, deleted) \in PairLines
  BY <1>2, <1>3 DEF Line, PairLines
<1> QED BY <1>4, LabelAssumption DEF Line, Lines

LEMMA BackfillStartKeeps == BackfillInv /\ BackfillStart => BackfillInv'
<1> SUFFICES ASSUME BackfillInv, BackfillStart PROVE BackfillInv'
  OBVIOUS
<1>1. /\ UNCHANGED <<pairs, torn, buffer, fetchErrors>> /\ buffer = <<>>
      /\ todo' = ExactRows \ LoadDone(pairs)
  BY DEF BackfillStart, BackfillInv, Resumed
<1>2. LoadDone(buffer)' = {} /\ LoadDone(buffer) = {} /\ LoadDone(pairs)' = LoadDone(pairs)
  BY <1>1, EmptyLines DEF LoadDone
<1>3. todo' \in SUBSET Msgs /\ todo' # Nobody
  BY <1>1, LabelAssumption DEF ExactRows
<1>4. Resumed'
  BY <1>1, <1>2, <1>3 DEF BackfillInv, Resumed, OneEach
<1>5. Counted'
  BY <1>1, LabelAssumption DEF BackfillStart, BackfillInv, Counted
<1> QED BY <1>4, <1>5 DEF BackfillInv

LEMMA FetchKeeps == BackfillInv /\ Fetch => BackfillInv'
<1> SUFFICES ASSUME BackfillInv, Fetch PROVE BackfillInv'
  OBVIOUS
<1>1. PICK m \in todo, deleted \in BOOLEAN :
        todo' = todo \ {m} /\ Step(Append(buffer, Line(m, deleted)))
  BY DEF Fetch
<1>2. todo # Nobody /\ todo \subseteq Msgs /\ m \in Msgs
      /\ todo \cap (LoadDone(pairs) \cup LoadDone(buffer)) = {}
  BY <1>1 DEF Fetch, BackfillInv, Resumed
<1> DEFINE l == Line(m, deleted)
           s == Append(buffer, l)
<1>3. l \in Lines /\ l # Broken /\ l.msg = m
  BY <1>2, LineOf
<1> HIDE DEF l
<1>4. /\ s \in Seq(Lines) /\ OneEach(s)
      /\ \A x \in LoadDone(s) : x \in LoadDone(buffer) \/ x = m
  BY <1>1, <1>2, <1>3, OneMore DEF BackfillInv, Resumed
<1>5. Step(s)
  BY <1>1 DEF l
<1> HIDE DEF s
<1>6. LoadDone(pairs) \cap LoadDone(s) = {}
  BY <1>1, <1>2, <1>4 DEF BackfillInv, Resumed
<1>7. /\ pairs' \in Seq(Lines) /\ OneEach(pairs)' /\ torn' \in BOOLEAN
      /\ buffer' \in Seq(Lines) /\ OneEach(buffer)' /\ handled' \in Nat
      /\ LoadDone(pairs)' \cap LoadDone(buffer)' = {}
      /\ LoadDone(pairs)' \cup LoadDone(buffer)' \subseteq LoadDone(pairs) \cup LoadDone(s)
  BY <1>4, <1>5, <1>6, StepWrites
<1>8. todo' \subseteq Msgs /\ todo' # Nobody
  BY <1>1, <1>2, LabelAssumption
<1>9. Resumed'
  BY <1>1, <1>2, <1>4, <1>7, <1>8 DEF Resumed
<1>10. Counted'
  BY <1>7, LabelAssumption DEF Fetch, BackfillInv, Counted
<1> QED BY <1>9, <1>10 DEF BackfillInv

LEMMA FetchErrorKeeps == BackfillInv /\ FetchError => BackfillInv'
<1> SUFFICES ASSUME BackfillInv, FetchError PROVE BackfillInv'
  OBVIOUS
<1>1. /\ todo # Nobody /\ todo # {} /\ todo \subseteq Msgs
      /\ todo \cap (LoadDone(pairs) \cup LoadDone(buffer)) = {}
  BY DEF FetchError, BackfillInv, Resumed
<1>2. /\ streak' = streak + 1 /\ streak' \in 0 .. MaxErrors
      /\ fetchErrors' \in 0 .. MaxFetchErrors /\ runs' = runs
  BY <1>1, LabelAssumption DEF FetchError, BackfillInv, Counted
<1>3. CASE streak + 1 >= MaxErrors
  <2>1. todo' = {} /\ UNCHANGED <<pairs, torn, buffer, handled>>
    BY <1>3 DEF FetchError
  <2>2. todo' # Nobody
    BY <2>1, LabelAssumption
  <2>3. Resumed'
    BY <2>1, <2>2 DEF BackfillInv, Resumed, OneEach, LoadDone
  <2>4. Counted'
    BY <1>2, <2>1 DEF BackfillInv, Counted
  <2> QED BY <2>3, <2>4 DEF BackfillInv
<1>4. CASE ~(streak + 1 >= MaxErrors)
  <2>1. PICK m \in todo : todo' = todo \ {m} /\ Step(buffer)
    BY <1>4 DEF FetchError
  <2>2. /\ pairs' \in Seq(Lines) /\ OneEach(pairs)' /\ torn' \in BOOLEAN
        /\ buffer' \in Seq(Lines) /\ OneEach(buffer)' /\ handled' \in Nat
        /\ LoadDone(pairs)' \cap LoadDone(buffer)' = {}
        /\ LoadDone(pairs)' \cup LoadDone(buffer)' \subseteq LoadDone(pairs) \cup LoadDone(buffer)
    BY <2>1, StepWrites DEF BackfillInv, Resumed
  <2>3. todo' \subseteq Msgs /\ todo' # Nobody
    BY <1>1, <2>1, LabelAssumption
  <2>4. Resumed'
    BY <1>1, <2>1, <2>2, <2>3 DEF Resumed
  <2>5. Counted'
    BY <1>2, <1>4, <2>2, LabelAssumption DEF BackfillInv, Counted
  <2> QED BY <2>4, <2>5 DEF BackfillInv
<1> QED BY <1>3, <1>4

\* The run ends, or is killed, and what it has not written is lost.
LEMMA BackfillStops ==
  ASSUME BackfillInv, NEW s \in Seq(Lines), OneEach(s), LoadDone(s) \subseteq LoadDone(buffer),
         Appended(s) \/ CutOff(s), todo' = Nobody, buffer' = <<>>,
         UNCHANGED <<handled, streak, runs, fetchErrors>>
  PROVE  BackfillInv'
<1>1. LoadDone(pairs) \cap LoadDone(s) = {}
  BY DEF BackfillInv, Resumed
<1>2. pairs' \in Seq(Lines) /\ OneEach(pairs)' /\ torn' \in BOOLEAN
  BY <1>1, Written DEF BackfillInv
<1>3. buffer' \in Seq(Lines) /\ OneEach(buffer)' /\ LoadDone(buffer)' = {}
  BY EmptyLines DEF OneEach, LoadDone
<1>4. Resumed'
  BY <1>2, <1>3 DEF Resumed
<1>5. Counted'
  BY DEF BackfillInv, Counted
<1> QED BY <1>4, <1>5 DEF BackfillInv

LEMMA StopKeeps == BackfillInv /\ (BackfillEnd \/ Kill) => BackfillInv'
<1> SUFFICES ASSUME BackfillInv, BackfillEnd \/ Kill PROVE BackfillInv'
  OBVIOUS
<1>1. CASE BackfillEnd
  BY <1>1, BackfillStops DEF BackfillEnd, BackfillInv, Resumed
<1>2. CASE Kill
  <2>1. PICK k \in 0 .. Len(buffer) :
          Appended(SubSeq(buffer, 1, k)) \/ CutOff(SubSeq(buffer, 1, k))
    BY <1>2 DEF Kill
  <2> DEFINE s == SubSeq(buffer, 1, k)
  <2>2. s \in Seq(Lines) /\ OneEach(s) /\ LoadDone(s) \subseteq LoadDone(buffer)
    BY SomeLines DEF BackfillInv, Resumed
  <2> HIDE DEF s
  <2>3. Appended(s) \/ CutOff(s)
    BY <2>1 DEF s
  <2> QED BY <1>2, <2>2, <2>3, BackfillStops DEF Kill
<1> QED BY <1>1, <1>2
-----------------------------------------------------------------------------
(* The verdicts, and the sets made of them. *)

\* A set of numbers up to n has a greatest one.
LEMMA MaxIn ==
  ASSUME NEW n \in Nat, NEW S, S \subseteq 1 .. n, S # {}
  PROVE  Max(S) \in S
<1> DEFINE D == {n - k : k \in S}
<1>1. D \subseteq Nat /\ D # {}
  <2>1. ASSUME NEW k \in S PROVE n - k \in Nat
    <3>1. k \in 1 .. n
      OBVIOUS
    <3> QED BY <3>1
  <2> QED BY <2>1
<1>2. PICK d \in D : \A e \in D : ~(<<e, d>> \in OpToRel(<, Nat))
  <2> HIDE DEF D
  <2> QED BY <1>1, NatLessThanWellFounded, WFMin
<1>3. \A e \in D : ~(e < d)
  BY <1>1, <1>2 DEF OpToRel
<1>4. PICK m \in S : d = n - m
  BY <1>2
<1>5. \A k \in S : m >= k
  <2> SUFFICES ASSUME NEW k \in S PROVE m >= k
    OBVIOUS
  <2>1. ~(n - k < n - m)
    BY <1>3, <1>4
  <2> QED BY <2>1
<1> QED BY <1>5 DEF Max

Records == [msg : Msgs, verified : AnyCategory]

LEMMA VerdictType ==
  ASSUME verdicts \in Seq(Records), NEW m
  PROVE  IF m \in Done THEN Verdict(m) \in AnyCategory ELSE Verdict(m) = NoVerdict
<1> DEFINE mine == {i \in DOMAIN verdicts : verdicts[i].msg = m}
<1>1. DOMAIN verdicts = 1 .. Len(verdicts) /\ Len(verdicts) \in Nat
  BY LenProperties
<1>2. m \in Done <=> mine # {}
  BY DEF Done, ToSet
<1>3. CASE mine = {}
  BY <1>2, <1>3 DEF Verdict
<1>4. CASE mine # {}
  <2>1. Max(mine) \in mine
    BY <1>1, <1>4, MaxIn
  <2>2. Verdict(m) = verdicts[Max(mine)].verified
    BY <1>4 DEF Verdict
  <2> HIDE DEF mine
  <2>3. Max(mine) \in 1 .. Len(verdicts)
    BY <1>1, <2>1 DEF mine
  <2>4. verdicts[Max(mine)] \in Records
    BY <2>3, ElementOfSeq
  <2> QED BY <1>2, <1>4, <2>2, <2>4 DEF Records
<1> QED BY <1>3, <1>4

Reviewed ==
  /\ verdicts \in Seq(Records)
  /\ terminal \in (SUBSET PairLines) \cup {Nobody}
  /\ candidates \in (SUBSET Msgs) \cup {Nobody}
  /\ browser \subseteq Msgs /\ undo \in Seq(Msgs)

LEMMA PairsAreLines ==
  ASSUME pairs \in Seq(Lines), NEW i \in Pairs
  PROVE  i \in 1 .. Len(pairs) /\ pairs[i] \in PairLines
<1>1. i \in 1 .. Len(pairs) /\ pairs[i] # Broken
  BY LenProperties DEF Pairs
<1> QED BY <1>1, ElementOfSeq DEF Lines

LEMMA RecordType ==
  ASSUME Reviewed, NEW m \in Msgs, NEW c \in AnyCategory, Record(m, c)
  PROVE  verdicts' \in Seq(Records)
<1>1. [msg |-> m, verified |-> c] \in Records
  BY DEF Records
<1> QED BY <1>1, AppendProperties DEF Record, Reviewed

LEMMA ReviewKeeps ==
  ASSUME Reviewed, pairs \in Seq(Lines),
         \/ OpenTerminal \/ Decide \/ SkipRow \/ CloseTerminal
         \/ StartServer(Exported) \/ LoadPage \/ Submit \/ Undo
  PROVE  Reviewed'
<1>1. CASE OpenTerminal
  <2>1. PICK suspectOnly \in BOOLEAN :
          terminal' = {l \in {pairs[i] : i \in Pairs} :
                         l.msg \notin Done /\ (suspectOnly => IsSuspect(l))}
    BY <1>1 DEF OpenTerminal
  <2>2. terminal' \subseteq PairLines
    BY <2>1, PairsAreLines
  <2> QED BY <1>1, <2>2 DEF OpenTerminal, Reviewed
<1>2. CASE Decide
  <2>0. PICK l \in terminal : \E c \in Menu \cup {l.category} :
          Record(l.msg, c) /\ terminal' = terminal \ {l}
    BY <1>2 DEF Decide
  <2>1. PICK c \in Menu \cup {l.category} : Record(l.msg, c) /\ terminal' = terminal \ {l}
    BY <2>0
  <2>2. terminal \subseteq PairLines
    BY <1>2 DEF Decide, Reviewed
  <2>3. l.msg \in Msgs /\ c \in AnyCategory
    BY <2>1, <2>2, LabelAssumption DEF PairLines, AnyCategory
  <2>4. verdicts' \in Seq(Records)
    BY <2>1, <2>3, RecordType
  <2> QED BY <1>2, <2>1, <2>2, <2>4 DEF Decide, Reviewed
<1>3. CASE SkipRow \/ CloseTerminal
  BY <1>3 DEF SkipRow, CloseTerminal, Reviewed
<1>4. CASE StartServer(Exported)
  <2>1. Exported \subseteq Msgs
    BY ExportAssumption DEF Exported
  <2> QED BY <1>4, <2>1 DEF StartServer, Reviewed
<1>5. CASE LoadPage
  BY <1>5, EmptySeq DEF LoadPage, Reviewed
<1>6. CASE Submit
  <2>1. PICK m \in browser, c \in Menu :
          Record(m, c) /\ browser' = browser \ {m} /\ undo' = Append(undo, m)
    BY <1>6 DEF Submit
  <2>2. m \in Msgs /\ c \in AnyCategory
    BY LabelAssumption DEF Reviewed, AnyCategory
  <2>3. verdicts' \in Seq(Records) /\ undo' \in Seq(Msgs)
    BY <2>1, <2>2, RecordType, AppendProperties DEF Reviewed
  <2> QED BY <1>6, <2>1, <2>3 DEF Submit, Reviewed
<1>7. CASE Undo
  <2>1. undo \in Seq(Msgs) /\ undo # <<>> /\ Len(undo) \in Nat
    BY <1>7, LenProperties DEF Undo, Reviewed
  <2>2. Len(undo) \in 1 .. Len(undo)
    BY <2>1, EmptySeq
  <2>3. Last(undo) \in Msgs
    BY <2>1, <2>2, ElementOfSeq DEF Last
  <2>4. \A i \in 1 .. Len(undo) - 1 : undo[i] \in Msgs
    BY <2>1, ElementOfSeq
  <2>5. Front(undo) \in Seq(Msgs)
    BY <2>1, <2>4, SubSeqProperties DEF Front
  <2> QED BY <1>7, <2>3, <2>5 DEF Undo, Reviewed
<1> QED BY <1>1, <1>2, <1>3, <1>4, <1>5, <1>6, <1>7

\* A row has the last verdict on its message, or the label it was stored with.
LEMMA RowType ==
  ASSUME pairs \in Seq(Lines), verdicts \in Seq(Records), NEW i \in Pairs
  PROVE  /\ Row(i) \in Rows /\ Row(i).msg = pairs[i].msg
         /\ IF pairs[i].msg \in Done THEN Row(i).category = Verdict(pairs[i].msg)
            ELSE /\ Row(i).category = pairs[i].category
                 /\ Row(i).suspect = IsSuspect(pairs[i])
<1> DEFINE m == pairs[i].msg
<1>1. pairs[i] \in PairLines /\ m \in Msgs /\ pairs[i].category \in AnyCategory
  BY PairsAreLines DEF PairLines
<1>2. IF m \in Done THEN Verdict(m) \in AnyCategory ELSE Verdict(m) = NoVerdict
  BY VerdictType
<1>3. NoVerdict \notin AnyCategory
  BY LabelAssumption
<1>4. CASE m \in Done
  BY <1>1, <1>2, <1>3, <1>4 DEF Row, Rows
<1>5. CASE m \notin Done
  BY <1>1, <1>2, <1>5 DEF Row, Rows, IsSuspect
<1> QED BY <1>4, <1>5

LEMMA PrepareKeeps ==
  ASSUME pairs \in Seq(Lines), verdicts \in Seq(Records), Prepare
  PROVE  train' \subseteq Rows /\ test' \subseteq Rows
<1>1. PICK T \in SUBSET Pairs, R \in SUBSET Pairs :
        train' = {Row(i) : i \in R} /\ test' = {Row(i) : i \in T}
  BY DEF Prepare
<1> QED BY <1>1, RowType
-----------------------------------------------------------------------------
(* The program. *)

LabelInv == BackfillInv /\ Reviewed /\ train \subseteq Rows /\ test \subseteq Rows

LEMMA InitLabel == LabelInit => LabelInv
<1> SUFFICES ASSUME LabelInit PROVE LabelInv
  OBVIOUS
<1>1. Resumed
  BY EmptyLines, LabelAssumption DEF LabelInit, Resumed
<1>2. Counted
  BY LabelAssumption DEF LabelInit, Counted
<1>3. Reviewed
  BY EmptySeq DEF LabelInit, Reviewed
<1> QED BY <1>1, <1>2, <1>3 DEF LabelInit, LabelInv, BackfillInv

LEMMA LabelStep == LabelInv /\ [LabelNext(Exported)]_labelVars => LabelInv'
<1> SUFFICES ASSUME LabelInv, [LabelNext(Exported)]_labelVars PROVE LabelInv'
  OBVIOUS
<1>1. /\ BackfillInv /\ Reviewed /\ train \subseteq Rows /\ test \subseteq Rows
      /\ pairs \in Seq(Lines) /\ verdicts \in Seq(Records)
  BY DEF LabelInv, BackfillInv, Resumed, Reviewed
<1>2. CASE BackfillStart \/ Fetch \/ FetchError \/ BackfillEnd \/ Kill
  <2>1. UNCHANGED <<reviewVars, splitVars>>
    BY <1>2 DEF BackfillStart, Fetch, FetchError, BackfillEnd, Kill
  <2>2. Reviewed' /\ train' = train /\ test' = test
    BY <1>1, <2>1 DEF reviewVars, splitVars, Reviewed
  <2>3. BackfillInv'
    BY <1>1, <1>2, BackfillStartKeeps, FetchKeeps, FetchErrorKeeps, StopKeeps
  <2> QED BY <1>1, <2>2, <2>3 DEF LabelInv
<1>3. ASSUME UNCHANGED backfillVars PROVE BackfillInv'
  BY <1>1, <1>3 DEF backfillVars, BackfillInv, Resumed, Counted, OneEach, LoadDone
<1>4. CASE \/ OpenTerminal \/ Decide \/ SkipRow \/ CloseTerminal
           \/ StartServer(Exported) \/ LoadPage \/ Submit \/ Undo
  <2>1. UNCHANGED <<backfillVars, splitVars>>
    BY <1>4 DEF OpenTerminal, Decide, SkipRow, CloseTerminal, StartServer, LoadPage, Submit, Undo
  <2> QED BY <1>1, <1>3, <1>4, <2>1, ReviewKeeps DEF LabelInv, splitVars
<1>5. CASE Prepare
  <2>1. UNCHANGED <<backfillVars, reviewVars>>
    BY <1>5 DEF Prepare
  <2>2. Reviewed'
    BY <1>1, <2>1 DEF reviewVars, Reviewed
  <2> QED BY <1>1, <1>3, <1>5, <2>1, <2>2, PrepareKeeps DEF LabelInv
<1>6. CASE UNCHANGED labelVars
  BY <1>1, <1>3, <1>6 DEF labelVars, reviewVars, splitVars, Reviewed, LabelInv
<1> QED BY <1>2, <1>4, <1>5, <1>6 DEF LabelNext

LEMMA LabelAlways == Spec => []LabelInv
<1>1. Init => LabelInv
  BY InitLabel DEF Init
<1>2. LabelInv /\ [Next]_vars => LabelInv'
  BY LabelStep DEF Next, vars
<1> QED BY <1>1, <1>2, PTL DEF Spec

(* Every variable keeps its type, in production and in the tools: slots the *)
(* bound of a BoundedSemaphore, the streak of errors the backfill's bound,  *)
(* and the files their lines.                                               *)
THEOREM TypeCorrect == Spec => []TypeOK
<1>1. ShadowInv => ShadowTypeOK
  BY BusyFinite, ShadowAssumption DEF ShadowInv, Shape, SlotsConserved, ShadowTypeOK
<1>2. LabelInv => LabelTypeOK
  BY DEF LabelInv, BackfillInv, Resumed, Counted, Reviewed, Records, LabelTypeOK
<1>3. ShadowInv /\ LabelInv => TypeOK
  BY <1>1, <1>2 DEF TypeOK
<1> QED BY <1>3, ShadowAlways, LabelAlways, PTL

LEMMA SplitIsHonest ==
  ASSUME LabelInv, Prepare
  PROVE  /\ {r.msg : r \in train'} \cap {r.msg : r \in test'} = {}
         /\ \A r \in test' :
              IF r.msg \in Done THEN r.category = Verdict(r.msg)
              ELSE ~r.suspect /\ ~IsSuspect(r)
<1>1. PICK T \in SUBSET {i \in Pairs : ~Row(i).suspect} : \E R \in SUBSET (Pairs \ T) :
        train' = {Row(i) : i \in R} /\ test' = {Row(i) : i \in T}
  BY DEF Prepare
<1>2. PICK R \in SUBSET (Pairs \ T) :
        train' = {Row(i) : i \in R} /\ test' = {Row(i) : i \in T}
  BY <1>1
<1>3. pairs \in Seq(Lines) /\ verdicts \in Seq(Records) /\ OneEach(pairs)
  BY DEF LabelInv, BackfillInv, Resumed, Reviewed
<1>4. ASSUME NEW i \in R, NEW j \in T PROVE Row(i).msg # Row(j).msg
  <2>1. i \in Pairs /\ j \in Pairs /\ i # j
    OBVIOUS
  <2>2. /\ i \in 1 .. Len(pairs) /\ j \in 1 .. Len(pairs)
        /\ pairs[i] # Broken /\ pairs[j] # Broken
    BY <1>3, <2>1, PairsAreLines DEF Pairs
  <2>3. pairs[i].msg # pairs[j].msg
    BY <1>3, <2>1, <2>2 DEF OneEach
  <2>4. Row(i).msg = pairs[i].msg /\ Row(j).msg = pairs[j].msg
    BY <1>3, <2>1, RowType
  <2> QED BY <2>3, <2>4
<1>5. ASSUME NEW r \in test'
      PROVE  IF r.msg \in Done THEN r.category = Verdict(r.msg)
             ELSE ~r.suspect /\ ~IsSuspect(r)
  <2>1. PICK j \in T : r = Row(j)
    BY <1>2
  <2>2. j \in Pairs /\ ~Row(j).suspect
    BY <2>1
  <2>3. /\ Row(j).msg = pairs[j].msg
        /\ IF pairs[j].msg \in Done THEN Row(j).category = Verdict(pairs[j].msg)
           ELSE /\ Row(j).category = pairs[j].category
                /\ Row(j).suspect = IsSuspect(pairs[j])
    BY <1>3, <2>2, RowType
  <2> QED BY <2>1, <2>2, <2>3 DEF IsSuspect
<1> QED BY <1>2, <1>4, <1>5

(* The test set judges honestly, whatever was killed, resumed, reviewed     *)
(* twice or undone before it is made, over any number of runs: no message   *)
(* of it is trained on, and its labels are the last human verdicts or are   *)
(* above suspicion.                                                         *)
THEOREM TestIsHonest == Spec => HonestTest
<1>1. ASSUME LabelInv, [Next]_vars, test' # test PROVE Prepare
  <2>1. LabelNext(Exported)
    BY <1>1 DEF Next, vars, labelVars, splitVars
  <2> QED BY <1>1, <2>1 DEF LabelNext, splitVars, BackfillStart, Fetch, FetchError, BackfillEnd,
         Kill, OpenTerminal, Decide, SkipRow, CloseTerminal, StartServer, LoadPage, Submit, Undo
<1>2. LabelInv /\ [Next]_vars =>
        [test' # test =>
           /\ {r.msg : r \in train'} \cap {r.msg : r \in test'} = {}
           /\ \A r \in test' :
                IF r.msg \in Done THEN r.category = Verdict(r.msg)
                ELSE ~r.suspect /\ ~IsSuspect(r)]_labelVars
  BY <1>1, SplitIsHonest
<1> QED BY <1>2, LabelAlways, PTL DEF Spec, HonestTest
=============================================================================
