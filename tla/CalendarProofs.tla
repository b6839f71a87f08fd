--------------------------- MODULE CalendarProofs ---------------------------
(***************************************************************************)
(* Proofs about CalendarVertical for any mail, any invitations and any     *)
(* number of failures.                                                     *)
(* In any zone: types, and a second event of a message needs a lost reply. *)
(* For this a message that has an event is finished, about to be, or       *)
(* unheard of (Booked).                                                    *)
(* When CALENDAR_TIMEZONE is the zone the payload falls back on: an event  *)
(* is placed where its conflicts were looked for, a second event for one   *)
(* title and time needs a failed lookup, and what is reported is on the    *)
(* calendar.  For this the stamp of an event must agree with the place     *)
(* Google gives it, which links the second layer of dedup to the           *)
(* calendar (Stamped), and a lookup that found nothing must still be true  *)
(* at the insertion (LookedUp).                                            *)
(***************************************************************************)
EXTENDS CalendarVertical, TLAPS

-----------------------------------------------------------------------------
(* Drafts have the times of what they are read from. *)

LEMMA InZoneType ==
  ASSUME NEW dt \in Datetimes, NEW z \in Zones
  PROVE  InZone(dt, z) \in [wall : Int, tz : Zones]
BY ZoneAssumption DEF InZone, Datetimes

LEMMA IcsType ==
  ASSUME NEW vs, IsPayload(vs), ParseIcs(vs) # None
  PROVE  IsDraft(ParseIcs(vs))
<1> DEFINE v == vs[1]
<1>1. vs # <<>> /\ v.dtstart # None /\ v.dtend # None
  BY DEF ParseIcs
<1>2. v.dtstart \in Datetimes /\ v.dtend \in Datetimes
  BY <1>1 DEF IsPayload
<1>3. \A dt \in Datetimes : ResolveDatetime(dt).time \in Datetimes
  <2> SUFFICES ASSUME NEW dt \in Datetimes PROVE ResolveDatetime(dt).time \in Datetimes
    OBVIOUS
  <2>1. IcsLoadZone(DefaultZone) \in Zones
    BY ZoneAssumption DEF IcsLoadZone
  <2>2. InZone(dt, IcsLoadZone(DefaultZone)) \in Datetimes
    BY <2>1, InZoneType DEF Datetimes
  <2> QED BY <2>2 DEF ResolveDatetime
<1>4. ParseIcs(vs) = [title |-> v.summary, uid |-> v.uid,
                      start |-> ResolveDatetime(v.dtstart).time,
                      end |-> ResolveDatetime(v.dtend).time,
                      hint |-> ResolveDatetime(v.dtstart).hint]
  BY <1>1 DEF ParseIcs
<1> HIDE DEF v
<1> QED BY <1>2, <1>3, <1>4 DEF IsDraft

LEMMA AttachmentType ==
  ASSUME NEW m \in Msgs, FindIcsAttachment(Mail[m]) # None
  PROVE  IsPayload(FindIcsAttachment(Mail[m]).vevents)
BY MailAssumption DEF FindIcsAttachment

LEMMA IcsDraftType ==
  ASSUME NEW m \in Msgs, NEW b \in BOOLEAN, IcsDraft(Mail[m], b) # None
  PROVE  IsDraft(IcsDraft(Mail[m], b))
BY AttachmentType, IcsType, MailAssumption DEF IcsDraft

LEMMA AnswerType ==
  ASSUME NEW m \in Msgs, NEW a \in Mail[m].answers \ {None, Failed},
         CleanAnswer(a) # None
  PROVE  IsDraft(CleanAnswer(a))
<1> DEFINE s == StripZones(a)
<1>1. IsDraft(a)
  BY MailAssumption
<1>2. IsDraft(s)
  BY <1>1 DEF IsDraft, StripZones, Datetimes
<1>3. CleanAnswer(a) = [s EXCEPT !.uid = CoerceNullish(@), !.hint = CoerceNullish(@)]
  BY DEF CleanAnswer
<1> HIDE DEF s
<1> QED BY <1>2, <1>3 DEF IsDraft

-----------------------------------------------------------------------------
(* Where a draft is placed is where it was checked, and its stamp tells. *)

LEMMA ZoneTypes ==
  ASSUME NEW d
  PROVE  EffectiveZone(d) \in Zones /\ PayloadZone(d) \in Zones
BY ZoneAssumption DEF EffectiveZone, PayloadZone, LoadZone

LEMMA SameZone ==
  ASSUME NEW d, DefaultZone = Taipei
  PROVE  EffectiveZone(d) = PayloadZone(d) /\ SanitizeTzHint(d.hint, Taipei) = PayloadZone(d)
BY ZoneAssumption DEF EffectiveZone, PayloadZone, LoadZone, SanitizeTzHint

LEMMA Placement ==
  ASSUME NEW dt \in Datetimes, NEW z \in Zones
  PROVE  /\ NaiveIsoInTz(dt, z) - Offset[z] = Instant(InZone(dt, z))
         /\ Instant(InZone(dt, z)) \in Int
<1>1. Offset[z] \in Int /\ (dt.tz # Naive => Offset[dt.tz] \in Int) /\ dt.wall \in Int
  BY ZoneAssumption DEF Datetimes
<1>2. CASE dt.tz = Naive
  <2>1. InZone(dt, z).wall = dt.wall /\ InZone(dt, z).tz = z
    BY <1>2 DEF InZone, Datetimes
  <2> QED BY <1>1, <1>2, <2>1 DEF NaiveIsoInTz, Instant
<1>3. CASE dt.tz # Naive
  BY <1>1, <1>3 DEF InZone, NaiveIsoInTz, Instant
<1> QED BY <1>2, <1>3

(* The wall clock readings of the payload, in its zone, are the instants    *)
(* that were checked for conflicts (calendar.py, _build_insert_payload).    *)
THEOREM PlacedWhereChecked ==
  ASSUME DefaultZone = Taipei, NEW d, IsDraft(d), NEW m, NEW conf
  PROVE  /\ PlacedAt(BuildPayload(d, m, conf)) = CheckedAt(d)
         /\ CheckedAt(d) \in [from : Int, to : Int]
<1> DEFINE z == EffectiveZone(d)
<1>1. z \in Zones /\ PayloadZone(d) = z /\ SanitizeTzHint(d.hint, Taipei) = z
  BY ZoneTypes, SameZone
<1> HIDE DEF z
<1>2. d.start \in Datetimes /\ d.end \in Datetimes
  BY DEF IsDraft
<1>3. /\ NaiveIsoInTz(d.start, z) - Offset[z] = Instant(InZone(d.start, z))
      /\ NaiveIsoInTz(d.end, z) - Offset[z] = Instant(InZone(d.end, z))
      /\ Instant(InZone(d.start, z)) \in Int /\ Instant(InZone(d.end, z)) \in Int
  BY <1>1, <1>2, Placement
<1>4. CheckedAt(d) = [from |-> Instant(InZone(d.start, z)), to |-> Instant(InZone(d.end, z))]
  BY DEF CheckedAt, z
<1>5. PlacedAt(BuildPayload(d, m, conf)) =
        [from |-> NaiveIsoInTz(d.start, z) - Offset[z], to |-> NaiveIsoInTz(d.end, z) - Offset[z]]
  BY <1>1 DEF PlacedAt, BuildPayload
<1> QED BY <1>3, <1>4, <1>5

LEMMA FingerprintOf ==
  ASSUME NEW d, IsDraft(d)
  PROVE  Fingerprint(d) = <<NormalizeSummary(d.title),
                            CheckedAt(d).from - (CheckedAt(d).from % 5)>>
BY DEF Fingerprint, BucketStart, CheckedAt

-----------------------------------------------------------------------------
(* The invariant *)

\* What is in memory and in checkpoints are drafts, and create has one.
Drafted ==
  /\ draft = None \/ IsDraft(draft)
  /\ \A m \in Msgs : ckpt[m].extracted = None \/ IsDraft(ckpt[m].extracted)
  /\ ckpt = [m \in Msgs |-> ckpt[m]]
  /\ pc # "idle" => cur \in Msgs
  /\ pc \in {"layer1", "layer2", "insert"} => draft # None

\* An event of ours is where it was checked, does not end before it starts,
\* and carries the stamp of its title and time.
StampOf(e) == <<NormalizeSummary(e.summary), e.at.from - (e.at.from % 5)>>
WellPlaced(e) ==
  /\ e.at = e.checked /\ e.at.from \in Int /\ e.at.to \in Int
  /\ e.at.from <= e.at.to /\ e.fp = StampOf(e)
Stamped == \A e \in Ours : WellPlaced(e)

\* A lookup that did not fail is still right when the event is inserted.
LookedUp ==
  pc = "insert" /\ Fingerprint(draft) \notin unread =>
    \A e \in Ours : e.fp # Fingerprint(draft)

Once ==
  \A e, f \in Ours : e # f /\ e.fp = f.fp => e.fp \in unread

IInv == Drafted /\ Stamped /\ LookedUp /\ Once

LEMMA InitCalendar == Init => IInv
BY DEF Init, IInv, Drafted, Stamped, LookedUp, Once, Ours, Fresh

\* Steps that leave the calendar and the lookups alone.
LEMMA QuietStep ==
  ASSUME IInv, Drafted', events' = events, unread' = unread, pc' # "insert"
  PROVE  IInv'
BY DEF IInv, Stamped, LookedUp, Once, Ours, WellPlaced, StampOf

LEMMA BeginKeeps == ASSUME IInv, NEW m \in Msgs, Begin(m) PROVE IInv'
<1> USE DEF Begin
<1>1. Drafted'
  BY DEF IInv, Drafted
<1> QED BY <1>1, QuietStep

LEMMA ExtractKeeps == IInv /\ (ExtractIcs \/ ExtractText) => IInv'
<1> SUFFICES ASSUME IInv, ExtractIcs \/ ExtractText PROVE IInv'
  OBVIOUS
<1>1. cur \in Msgs
  BY DEF ExtractIcs, ExtractText, IInv, Drafted
<1>2. PICK d, side : Extracted(d, side) /\ (d = None \/ IsDraft(d))
  <2>1. CASE ExtractIcs
    BY <1>1, <2>1, IcsDraftType DEF ExtractIcs
  <2>2. CASE ExtractText
    BY <1>1, <2>2, AnswerType DEF ExtractText
  <2> QED BY <2>1, <2>2
<1>3. Drafted'
  BY <1>1, <1>2 DEF Extracted, IInv, Drafted
<1> QED BY <1>2, <1>3, QuietStep DEF Extracted

LEMMA SaveKeeps == IInv /\ SaveCheckpoint => IInv'
<1> SUFFICES ASSUME IInv, SaveCheckpoint PROVE IInv'
  OBVIOUS
<1> USE DEF SaveCheckpoint
<1>1. Drafted'
  BY DEF IInv, Drafted
<1> QED BY <1>1 DEF IInv, Stamped, LookedUp, Once, Ours, WellPlaced, StampOf

LEMMA BeforeInsertKeeps ==
  IInv /\ (Skip \/ CheckFreeBusy \/ LayerOne \/ Finish \/ Raises \/ Crash) => IInv'
<1> SUFFICES ASSUME IInv, Skip \/ CheckFreeBusy \/ LayerOne \/ Finish \/ Raises \/ Crash PROVE IInv'
  OBVIOUS
<1> USE DEF Skip, CheckFreeBusy, LayerOne, Finish, Raises, LeaveTick, Unfit, Crash, Degrade, Goto,
           Return
<1>1. Drafted'
  BY DEF IInv, Drafted
<1>2. events' = events /\ unread' = unread /\ pc' # "insert"
  OBVIOUS
<1> QED BY <1>1, <1>2, QuietStep

\* Google's own events and the grant: ours are as before.
LEMMA GoogleKeeps == IInv /\ (Invite \/ Grant) => IInv'
<1> SUFFICES ASSUME IInv, Invite \/ Grant PROVE IInv'
  OBVIOUS
<1> USE DEF Invite, Grant
<1>1. Drafted' /\ unread' = unread /\ draft' = draft /\ pc' = pc
  BY DEF IInv, Drafted
<1>2. Ours' = Ours
  BY CalendarAssumption DEF Ours
<1> QED BY <1>1, <1>2 DEF IInv, Stamped, LookedUp, Once, WellPlaced, StampOf

LEMMA Close ==
  ASSUME NEW a \in Int, NEW b \in Int, a - (a % 5) = b - (b % 5)
  PROVE  a < b + Day /\ a > b - Day
<1>1. a % 5 \in 0 .. 4 /\ b % 5 \in 0 .. 4
  OBVIOUS
<1> QED BY <1>1 DEF Day

(* The scan of the day around the start finds every event of ours that has  *)
(* the stamp.                                                               *)
LEMMA ScanFinds ==
  ASSUME IInv, draft # None, NEW e \in Ours, e.fp = Fingerprint(draft),
         DefaultZone = Taipei
  PROVE  e \in ByFingerprint(Fingerprint(draft), CheckedAt(draft))
<1>1. IsDraft(draft) /\ WellPlaced(e)
  BY DEF IInv, Drafted, Stamped
<1>2. CheckedAt(draft).from \in Int
  BY <1>1, PlacedWhereChecked
<1>3. e.at.from - (e.at.from % 5) = CheckedAt(draft).from - (CheckedAt(draft).from % 5)
  <2>1. e.fp[2] = e.at.from - (e.at.from % 5)
    BY <1>1 DEF WellPlaced, StampOf
  <2>2. Fingerprint(draft)[2] = CheckedAt(draft).from - (CheckedAt(draft).from % 5)
    BY <1>1, FingerprintOf
  <2> QED BY <2>1, <2>2
<1>4. e.at.from < CheckedAt(draft).from + Day /\ e.at.from > CheckedAt(draft).from - Day
  BY <1>1, <1>2, <1>3, Close DEF WellPlaced
<1>5. e.at.to > CheckedAt(draft).from - Day
  BY <1>1, <1>2, <1>4 DEF WellPlaced, Day
<1> QED BY <1>4, <1>5 DEF ByFingerprint, Ours

LEMMA LayerTwoKeeps == IInv /\ LayerTwo /\ DefaultZone = Taipei => IInv'
<1> SUFFICES ASSUME IInv, LayerTwo, DefaultZone = Taipei PROVE IInv'
  OBVIOUS
<1> USE DEF LayerTwo, Goto, Return
<1>1. draft # None /\ draft' = draft /\ events' = events /\ unread \subseteq unread'
  BY DEF IInv, Drafted
<1>2. Drafted' /\ Stamped' /\ Once'
  BY <1>1 DEF IInv, Drafted, Stamped, Once, Ours, WellPlaced, StampOf
<1>3. LookedUp'
  <2>1. CASE pc' = "insert" /\ Fingerprint(draft) \notin unread'
    <3>1. ByFingerprint(Fingerprint(draft), CheckedAt(draft)) = {}
      BY <2>1
    <3>2. \A e \in Ours : e.fp # Fingerprint(draft)
      BY <1>1, <3>1, ScanFinds
    <3> QED BY <1>1, <3>2 DEF LookedUp, Ours
  <2> QED BY <2>1, <1>1 DEF LookedUp
<1> QED BY <1>2, <1>3 DEF IInv

(* An insertion, heard of or not.                                           *)
LEMMA InsertedKeeps ==
  ASSUME IInv, pc = "insert", ~EndsEarly, events' = events \cup {NewEvent},
         unread' = unread, Drafted', pc' # "insert", DefaultZone = Taipei
  PROVE  IInv'
<1> DEFINE n == NewEvent
<1>1. IsDraft(draft) /\ cur \in Msgs
  BY DEF IInv, Drafted
<1>2. /\ n.summary = draft.title /\ n.fp = Fingerprint(draft) /\ n.msg = cur
      /\ n.at = CheckedAt(draft) /\ n.checked = CheckedAt(draft)
  BY <1>1, PlacedWhereChecked DEF NewEvent, Payload, BuildPayload
<1>3. CheckedAt(draft) \in [from : Int, to : Int]
  BY <1>1, PlacedWhereChecked
<1>4. ~(n.at.to < n.at.from)
  BY DEF EndsEarly
<1> HIDE DEF n
<1>5. n.at.from <= n.at.to
  BY <1>2, <1>3, <1>4
<1>6. WellPlaced(n)
  BY <1>1, <1>2, <1>3, <1>5, FingerprintOf DEF WellPlaced, StampOf
<1>7. Ours' = Ours \cup {n}
  BY <1>1, <1>2 DEF Ours, n
<1>8. Stamped'
  BY <1>6, <1>7 DEF IInv, Stamped, WellPlaced, StampOf
<1>9. Once'
  <2>1. Fingerprint(draft) \notin unread => \A e \in Ours : e.fp # Fingerprint(draft)
    BY DEF IInv, LookedUp
  <2> QED BY <1>2, <1>7, <2>1 DEF IInv, Once
<1> QED BY <1>8, <1>9 DEF IInv, LookedUp

LEMMA InsertKeeps == IInv /\ (Insert \/ Unanswered) /\ DefaultZone = Taipei => IInv'
<1> SUFFICES ASSUME IInv, Insert \/ Unanswered, DefaultZone = Taipei PROVE IInv'
  OBVIOUS
<1>1. Drafted'
  BY DEF Insert, Unanswered, LeaveTick, Degrade, Return, IInv, Drafted
<1>2. unread' = unread /\ pc' # "insert"
  BY DEF Insert, Unanswered, LeaveTick, Degrade, Return
<1>3. \/ events' = events
      \/ pc = "insert" /\ ~EndsEarly /\ events' = events \cup {NewEvent}
  BY DEF Insert, Unanswered, LeaveTick, Degrade, Return
<1> QED BY <1>1, <1>2, <1>3, QuietStep, InsertedKeeps

LEMMA CalendarStep == IInv /\ [Next]_vars /\ DefaultZone = Taipei => IInv'
<1>1. IInv /\ UNCHANGED vars => IInv'
  BY DEF IInv, Drafted, Stamped, LookedUp, Once, Ours, WellPlaced, StampOf, vars
<1> QED BY <1>1, BeginKeeps, ExtractKeeps, SaveKeeps, BeforeInsertKeeps, GoogleKeeps,
           LayerTwoKeeps, InsertKeeps DEF Next, Handle

LEMMA Always == ASSUME DefaultZone = Taipei PROVE Spec => []IInv
<1> QED BY InitCalendar, CalendarStep, PTL DEF Spec

(* With CALENDAR_TIMEZONE at the payload's own default, no mail and no      *)
(* failure puts an event anywhere but where its conflicts were looked for.  *)
THEOREM PlacementKept == ASSUME DefaultZone = Taipei PROVE Spec => []PlacedAsChecked
<1>1. IInv => PlacedAsChecked
  BY DEF IInv, Stamped, WellPlaced, PlacedAsChecked
<1> QED BY <1>1, Always, PTL

(* With the same default zone only (another one parts stamp and placement), *)
(* and whatever is replayed, forwarded, refused or lost: of two events of   *)
(* this program with one title in the same five minutes one was inserted    *)
(* after a lookup of that stamp had failed.                                 *)
THEOREM NoSecondUnlessUnread == ASSUME DefaultZone = Taipei PROVE Spec => []OneTentative
<1>1. IInv => OneTentative
  BY DEF IInv, Stamped, WellPlaced, StampOf, Once, OneTentative
<1> QED BY <1>1, Always, PTL

-----------------------------------------------------------------------------
(* What extract and its checkpoints can hold, in any zone *)

LEMMA IcsUid ==
  ASSUME NEW m \in Msgs, NEW b \in BOOLEAN, IcsDraft(Mail[m], b) # None
  PROVE  IcsDraft(Mail[m], b).uid \in Given(m)
<1>1. \A vs : ParseIcs(vs) # None => vs # <<>> /\ ParseIcs(vs).uid = vs[1].uid
  BY DEF ParseIcs
<1>2. FindIcsAttachment(Mail[m]) # None =>
        \E i \in DOMAIN Mail[m].attachments : FindIcsAttachment(Mail[m]) = Mail[m].attachments[i]
  BY DEF FindIcsAttachment
<1> QED BY <1>1, <1>2 DEF IcsDraft, Given

LEMMA AnswerUid ==
  ASSUME NEW m \in Msgs, NEW a \in Mail[m].answers \ {None, Failed}, CleanAnswer(a) # None
  PROVE  CleanAnswer(a).uid \in Given(m) \union {None}
<1> DEFINE s == StripZones(a)
<1>1. IsDraft(a)
  BY MailAssumption
<1>2. s.uid = a.uid /\ "uid" \in DOMAIN s
  BY <1>1 DEF IsDraft, StripZones
<1>3. CleanAnswer(a) = [s EXCEPT !.uid = CoerceNullish(@), !.hint = CoerceNullish(@)]
  BY DEF CleanAnswer
<1> HIDE DEF s
<1>4. CleanAnswer(a).uid = CoerceNullish(a.uid)
  BY <1>2, <1>3
<1> QED BY <1>4 DEF CoerceNullish, Given

\* extract settles a message without a draft, and a draft's uid is the mail's.
Settled == Skips \union {"none"}
Extracts(m, d, side) ==
  /\ side \in Settled
  /\ d = None \/ d.uid \in Given(m) \union {None}

Sane ==
  /\ TypeOK
  /\ ckpt = [m \in Msgs |-> ckpt[m]]
  /\ \A m \in Msgs : Extracts(m, ckpt[m].extracted, ckpt[m].side)
  /\ pc # "idle" /\ draft = None => outcome[cur] \in Settled
  /\ pc # "idle" /\ draft # None => draft.uid \in Given(cur) \union {None}

LEMMA SaneInit == Init => Sane
BY CalendarAssumption DEF Init, Sane, TypeOK, Fresh, Extracts, Settled, SideEffects

LEMMA ExtractSane ==
  ASSUME Sane, ExtractIcs \/ ExtractText
  PROVE  Sane'
<1>1. cur \in Msgs /\ pc = "extract"
  BY DEF ExtractIcs, ExtractText, Sane, TypeOK
<1>2. PICK d, side : Extracted(d, side) /\ Extracts(cur, d, side)
  <2>1. CASE ExtractIcs
    BY <1>1, <2>1, IcsUid DEF ExtractIcs, Extracts, Settled
  <2>2. CASE ExtractText
    <3>1. CASE Extracted(None, "extraction_failed") \/ Extracted(None, "no_event_signal")
      BY <3>1 DEF Extracts, Settled, Skips
    <3>2. CASE \E a \in Mail[cur].answers \ {None, Failed} :
                 CleanAnswer(a) # None /\ Extracted(CleanAnswer(a), "none")
      BY <1>1, <3>2, AnswerUid DEF Extracts, Settled
    <3> QED BY <2>2, <3>1, <3>2 DEF ExtractText
  <2> QED BY <2>1, <2>2
<1>3. left' \in 0 .. Budget /\ UNCHANGED scope
  BY CalendarAssumption DEF ExtractIcs, ExtractText, Extracted, Fault, Sane, TypeOK
<1>4. side \in SideEffects
  BY <1>2 DEF Extracts, Settled, SideEffects
<1> QED BY <1>1, <1>2, <1>3, <1>4 DEF Extracted, Extracts, Sane, TypeOK

LEMMA CreateSane ==
  ASSUME Sane, Skip \/ CheckFreeBusy \/ LayerOne \/ LayerTwo
  PROVE  Sane'
<1>1. cur \in Msgs /\ pc \in {"create", "layer1", "layer2"} /\ UNCHANGED <<events, scope, cur, draft, ckpt, done>>
  BY DEF Skip, CheckFreeBusy, LayerOne, LayerTwo, Sane, TypeOK
<1>2. left' \in 0 .. Budget
  BY CalendarAssumption DEF Skip, CheckFreeBusy, LayerOne, LayerTwo, Fault, Forbidden, Answered, Degrade, Sane, TypeOK
<1>3. \/ draft' = draft /\ outcome' = outcome
      \/ draft # None /\ \E x \in SideEffects : outcome' = [outcome EXCEPT ![cur] = x]
  BY <1>1 DEF Skip, CheckFreeBusy, LayerOne, LayerTwo, Degrade, Return, Sane, TypeOK, SideEffects, Skips, Duplicates
<1>4. /\ pc' \in {"layer1", "layer2", "insert", "return"}
      /\ pc' \in {"layer1", "layer2", "insert"} => draft # None
  BY DEF Skip, CheckFreeBusy, LayerOne, LayerTwo, Degrade, Return, Goto, Sane, TypeOK
<1>5. outcome' \in [Msgs -> SideEffects]
  BY <1>3 DEF Sane, TypeOK
<1> QED BY <1>1, <1>2, <1>3, <1>4, <1>5 DEF Sane, TypeOK, Extracts

LEMMA EventShape ==
  DOMAIN NewEvent = {"summary", "uid", "fp", "msg", "at", "checked", "conflicts"}
BY DEF NewEvent

LEMMA InsertSane ==
  ASSUME Sane, Insert \/ Unanswered \/ Raises
  PROVE  Sane'
<1>1. cur \in Msgs /\ draft # None /\ UNCHANGED <<scope, done>> /\ pc # "idle"
  BY DEF Insert, Unanswered, Raises, Unfit, Sane, TypeOK
<1>2. left' \in 0 .. Budget
  BY CalendarAssumption DEF Insert, Unanswered, Raises, Fault, Forbidden, Answered, Degrade,
     Sane, TypeOK
<1>3. events' \subseteq events \union {NewEvent}
  BY DEF Insert, Unanswered, Raises, Degrade
<1>4. \A e \in events' : DOMAIN e = {"summary", "uid", "fp", "msg", "at", "checked", "conflicts"}
  BY <1>3, EventShape DEF Sane, TypeOK
<1>5. \E x \in SideEffects : outcome' = [outcome EXCEPT ![cur] = x]
  BY DEF Insert, Unanswered, Raises, LeaveTick, Degrade, Return, SideEffects, Skips, Duplicates
<1>6. CASE Insert
  <2>1. pc' = "return" /\ UNCHANGED <<cur, draft, ckpt>>
    BY <1>6 DEF Insert, Degrade, Return
  <2> QED BY <1>1, <1>2, <1>4, <1>5, <2>1 DEF Sane, TypeOK, Extracts
<1>7. CASE Unanswered \/ Raises
  <2>1. pc' = "idle" /\ cur' = NoMsg /\ draft' = None
        /\ ckpt' = [ckpt EXCEPT ![cur] = [at |-> "create", extracted |-> draft, side |-> "none"]]
    BY <1>7 DEF Unanswered, Raises, LeaveTick
  <2>2. \A m \in Msgs : /\ ckpt'[m].at \in {"new", "create"} /\ ckpt'[m].side \in SideEffects
                       /\ Extracts(m, ckpt'[m].extracted, ckpt'[m].side)
    BY <1>1, <2>1 DEF Sane, TypeOK, Extracts, Settled, SideEffects
  <2>3. ckpt' = [m \in Msgs |-> ckpt'[m]]
    BY <2>1 DEF Sane
  <2>4. NoMsg \notin done
    BY CalendarAssumption DEF Sane, TypeOK
  <2> QED BY <1>1, <1>2, <1>4, <1>5, <2>1, <2>2, <2>3, <2>4 DEF Sane, TypeOK
<1> QED BY <1>6, <1>7

LEMMA SaneStep == Sane /\ [Next]_vars => Sane'
<1> SUFFICES ASSUME Sane, [Next]_vars PROVE Sane'
  OBVIOUS
<1>1. CASE \E m \in Msgs : Begin(m)
  <2>1. PICK m \in Msgs : Begin(m)
    BY <1>1
  <2>2. Extracts(m, ckpt[m].extracted, ckpt[m].side) /\ ckpt[m].side \in SideEffects
    BY DEF Sane, TypeOK
  <2>3. m # NoMsg
    BY CalendarAssumption
  <2> QED BY <2>1, <2>2, <2>3 DEF Begin, Sane, TypeOK, Extracts
<1>2. CASE SaveCheckpoint
  <2>1. cur \in Msgs /\ UNCHANGED <<events, scope, cur, pc, draft, conflicts, outcome, done, left>>
        /\ ckpt' = [ckpt EXCEPT ![cur] = [at |-> "create", extracted |-> draft,
                      side |-> IF draft = None THEN outcome[cur] ELSE "none"]]
    BY <1>2 DEF SaveCheckpoint, Sane, TypeOK
  <2>2. \A m \in Msgs : /\ ckpt'[m].at \in {"new", "create"} /\ ckpt'[m].side \in SideEffects
                       /\ Extracts(m, ckpt'[m].extracted, ckpt'[m].side)
    BY <1>2, <2>1 DEF SaveCheckpoint, Sane, TypeOK, Extracts, Settled, SideEffects
  <2>3. ckpt' = [m \in Msgs |-> ckpt'[m]]
    BY <2>1 DEF Sane
  <2> QED BY <2>1, <2>2, <2>3 DEF Sane, TypeOK
<1>3. CASE Invite \/ Grant
  BY <1>3, CalendarAssumption DEF Invite, Grant, Sane, TypeOK, Extracts
<1>4. CASE Finish
  BY <1>4, CalendarAssumption DEF Finish, Sane, TypeOK, Extracts
<1>5. CASE Crash
  BY <1>5, CalendarAssumption DEF Crash, Fault, Sane, TypeOK, Extracts, SideEffects
<1>6. CASE UNCHANGED vars
  BY <1>6 DEF vars, Sane, TypeOK, Extracts
<1> QED BY <1>1, <1>2, <1>3, <1>4, <1>5, <1>6, ExtractSane, CreateSane, InsertSane DEF Next, Handle

LEMMA AlwaysSane == Spec => []Sane
BY SaneInit, SaneStep, PTL DEF Spec

\* Through every failure and replay the subgraph's variables keep their types,
\* and a message being handled is not one that was finished.
THEOREM TypeCorrect == Spec => []TypeOK
BY AlwaysSane, PTL DEF Sane

-----------------------------------------------------------------------------
(* How a message can have two events, in any zone *)

\* A message with an event: finished, about to be, or its insertion was lost.
HasEvent(m) == m \in unheard \union done \/ (m = cur /\ pc = "return" /\ outcome[cur] = "calendar_created")

Booked ==
  /\ \A e \in events : \/ e \in Invited
                       \/ e.msg \in Msgs /\ e.uid \in {SynthesizeUid(e.msg)} \union (Given(e.msg) \ {None})
  /\ \A e, f \in events : e.uid = f.uid => e = f
  /\ \A e \in Ours : HasEvent(e.msg)
  /\ \A e, f \in Ours : e # f /\ e.msg = f.msg => e.msg \in unheard

\* An insertion meets no event of its uid, and an event of its message only if
\* that was lost.
LEMMA NewBooked ==
  ASSUME Sane, Booked, pc = "insert", ~Conflicting, events' = events \union {NewEvent},
         unheard \subseteq unheard', done' = done,
         \/ cur \in unheard'
         \/ cur' = cur /\ pc' = "return" /\ outcome'[cur] = "calendar_created"
  PROVE  Booked'
<1> DEFINE n == NewEvent
<1>1. cur \in Msgs /\ cur \notin done /\ draft # None /\ draft.uid \in Given(cur) \union {None}
  BY DEF Sane, TypeOK
<1>2. n.msg = cur /\ n.uid = Uid(draft, cur) /\ \A e \in events : e.uid # n.uid
  BY DEF NewEvent, Payload, BuildPayload, Conflicting, ByUid
<1>3. n.uid \in {SynthesizeUid(cur)} \union (Given(cur) \ {None})
  BY <1>1, <1>2 DEF Uid
<1> HIDE DEF n
<1>4. events' = events \union {n} /\ Ours' = Ours \union {n}
  BY <1>1, <1>2 DEF Ours, n
<1>5. \A e \in Ours : e.msg \in unheard \union done
  BY DEF Booked, HasEvent
<1>6. \A e \in Ours' : e.msg \in unheard' \union done' \/ (e.msg = cur' /\ pc' = "return" /\ outcome'[cur'] = "calendar_created")
  BY <1>2, <1>4, <1>5
<1>7. \A e, f \in events' : e.uid = f.uid => e = f
  BY <1>2, <1>4 DEF Booked
<1>8. \A e, f \in Ours' : e # f /\ e.msg = f.msg => e.msg \in unheard'
  BY <1>1, <1>2, <1>4, <1>5 DEF Booked
<1>9. \A e \in events' : \/ e \in Invited
                         \/ e.msg \in Msgs /\ e.uid \in {SynthesizeUid(e.msg)} \union (Given(e.msg) \ {None})
  BY <1>1, <1>2, <1>3, <1>4 DEF Booked
<1> QED BY <1>6, <1>7, <1>8, <1>9 DEF Booked, HasEvent

\* A step that leaves the events alone and forgets no message that has one.
LEMMA OldBooked ==
  ASSUME Booked, UNCHANGED events, unheard \subseteq unheard',
         \A m \in Msgs : HasEvent(m) => HasEvent(m)'
  PROVE  Booked'
<1>1. Ours' = Ours /\ \A e \in Ours : e.msg \in Msgs
  BY DEF Ours
<1> QED BY <1>1 DEF Booked

LEMMA BookedStep == Sane /\ Booked /\ [Next]_vars => Booked'
<1> SUFFICES ASSUME Sane, Booked, [Next]_vars PROVE Booked'
  OBVIOUS
<1>1. CASE Invite
  <2>1. PICK e \in Invited : e.uid \notin {f.uid : f \in events} /\ events' = events \union {e}
    BY <1>1 DEF Invite
  <2>2. Ours' = Ours
    BY <2>1, CalendarAssumption DEF Ours
  <2> QED BY <1>1, <2>1, <2>2 DEF Invite, Booked, HasEvent
<1>2. CASE Insert
  <2>1. CASE events' = events
    BY <1>2, <2>1, OldBooked DEF Insert, Degrade, Return, HasEvent
  <2>2. CASE ~Conflicting /\ events' = events \union {NewEvent} /\ Return("calendar_created")
    <3>1. outcome'[cur] = "calendar_created" /\ pc' = "return" /\ cur' = cur
      BY <1>2, <2>2 DEF Insert, Return, Sane, TypeOK
    <3> QED BY <1>2, <2>2, <3>1, NewBooked DEF Insert
  <2> QED BY <1>2, <2>1, <2>2 DEF Insert
<1>3. CASE Unanswered
  <2>1. CASE events' = events
    BY <1>3, <2>1, OldBooked DEF Unanswered, LeaveTick, HasEvent
  <2>2. CASE pc = "insert" /\ ~Conflicting /\ events' = events \union {NewEvent} /\ unheard' = unheard \union {cur}
    BY <1>3, <2>2, NewBooked DEF Unanswered, LeaveTick
  <2> QED BY <1>3, <2>1, <2>2 DEF Unanswered
<1>4. CASE \E m \in Msgs : Begin(m)
  BY <1>4, OldBooked DEF Begin, HasEvent
<1>5. CASE ExtractIcs \/ ExtractText
  BY <1>5, OldBooked DEF ExtractIcs, ExtractText, Extracted, HasEvent
<1>6. CASE Skip \/ CheckFreeBusy \/ LayerOne \/ LayerTwo
  <2>1. UNCHANGED <<events, unheard, done>> /\ pc # "return"
    BY <1>6 DEF Skip, CheckFreeBusy, LayerOne, LayerTwo
  <2> QED BY <2>1, OldBooked DEF HasEvent
<1>7. CASE SaveCheckpoint \/ Grant \/ UNCHANGED vars
  <2>1. UNCHANGED <<events, unheard, done, cur, pc, outcome>>
    BY <1>7 DEF SaveCheckpoint, Grant, vars
  <2> QED BY <2>1, OldBooked DEF HasEvent
<1>8. CASE Finish
  <2>1. UNCHANGED <<events, unheard>> /\ done' = done \union {cur}
    BY <1>8 DEF Finish
  <2> QED BY <2>1, OldBooked DEF HasEvent
<1>9. CASE Crash
  <2>1. /\ UNCHANGED <<events, done>>
        /\ unheard' = IF outcome[cur] = "calendar_created" THEN unheard \union {cur} ELSE unheard
    BY <1>9 DEF Crash
  <2> QED BY <2>1, OldBooked DEF HasEvent
<1>10. CASE Raises
  <2>1. UNCHANGED <<events, unheard, done>> /\ pc # "return"
    BY <1>10 DEF Raises, Unfit
  <2> QED BY <2>1, OldBooked DEF HasEvent
<1> QED BY <1>1, <1>2, <1>3, <1>4, <1>5, <1>6, <1>7, <1>8, <1>9, <1>10 DEF Next, Handle

LEMMA AlwaysBooked == Spec => []Booked
<1>1. Init => Booked
  BY DEF Init, Booked, Ours
<1> QED BY <1>1, AlwaysSane, BookedStep, PTL DEF Spec

\* Whatever Google answers and whatever the model reads, in any zone: a message
\* with two events was replayed after an insertion nobody heard of, and one of
\* the two has a uid out of the mail. The uid made up for a message
\* (_synthesize_ical_uid) never makes a second event.
THEOREM SecondNeedsLostInsertion == Spec => []SecondOnlyByReplay
<1>1. Booked => SecondOnlyByReplay
  <2> SUFFICES ASSUME Booked, NEW e \in Ours, NEW f \in Ours, e # f, e.msg = f.msg
               PROVE  e.msg \in unheard /\ {e.uid, f.uid} \cap (Given(e.msg) \ {None}) # {}
    BY DEF SecondOnlyByReplay
  <2>1. e \in events /\ f \in events /\ e \notin Invited /\ f \notin Invited
    BY CalendarAssumption DEF Ours
  <2>2. e.uid # f.uid
    BY <2>1 DEF Booked
  <2> QED BY <2>1, <2>2 DEF Booked
<1> QED BY <1>1, AlwaysBooked, PTL

-----------------------------------------------------------------------------
(* What is reported as on the calendar *)

Accounted == AccountedFor /\ \A e \in events : e \in Invited \/ e.msg \in Msgs

\* Events are never taken off, so a report stays true.
LEMMA StillAccounted ==
  ASSUME Accounted, events \subseteq events', \A e \in events' : e \in Invited \/ e.msg \in Msgs,
         pc' = "return" => pc = "return" /\ UNCHANGED <<cur, draft, outcome>>
  PROVE  Accounted'
BY DEF Accounted, AccountedFor

\* An event found by its stamp is one of ours, at the time the stamp says.
LEMMA FoundByStamp ==
  ASSUME IInv, Accounted, NEW e \in events, draft # None, e.fp = Fingerprint(draft)
  PROVE  e.at.from - (e.at.from % 5) = Fingerprint(draft)[2]
<1>1. e.fp = <<NormalizeSummary(draft.title), BucketStart(draft.start, EffectiveZone(draft))>>
  BY DEF Fingerprint
<1>2. e \in Ours
  BY <1>1, CalendarAssumption DEF Accounted, Ours
<1>3. e.fp = StampOf(e)
  BY <1>2 DEF IInv, Stamped, WellPlaced
<1> QED BY <1>3 DEF StampOf

LEMMA AccountedStep == IInv /\ Sane /\ Accounted /\ [Next]_vars => Accounted'
<1> SUFFICES ASSUME IInv, Sane, Accounted, [Next]_vars PROVE Accounted'
  OBVIOUS
<1>1. /\ \A e \in events : e \in Invited \/ e.msg \in Msgs
      /\ pc # "idle" => cur \in Msgs
      /\ pc \in {"layer1", "layer2", "insert"} => draft # None
  BY DEF Accounted, Sane, TypeOK
<1>2. NewEvent.msg = cur /\ NewEvent.uid = Uid(draft, cur)
  BY DEF NewEvent, Payload, BuildPayload
<1>3. CASE Skip
  BY <1>1, <1>3 DEF Skip, Sane, Settled, Skips, Duplicates, Accounted, AccountedFor
<1>4. CASE CheckFreeBusy
  <2>1. events' = events /\ (pc' = "return" => outcome' = [outcome EXCEPT ![cur] = "scope_missing"] /\ cur' = cur)
    BY <1>4 DEF CheckFreeBusy, Degrade, Return, Goto
  <2>2. pc' = "return" => outcome'[cur'] = "scope_missing"
    BY <1>1, <1>4, <2>1 DEF CheckFreeBusy, Sane, TypeOK
  <2> QED BY <1>1, <2>1, <2>2 DEF Accounted, AccountedFor, Duplicates
<1>5. CASE LayerOne
  <2>1. events' = events /\ cur' = cur /\ draft' = draft
    BY <1>5 DEF LayerOne
  <2>2. pc' = "return" => draft.uid # None /\ ByUid(draft.uid) # {}
    BY <1>5 DEF LayerOne, Return, Goto
  <2>3. pc' = "return" => \E e \in events : e.uid = Uid(draft, cur)
    BY <2>2 DEF ByUid, Uid
  <2> QED BY <1>1, <2>1, <2>3 DEF Accounted, AccountedFor
<1>6. CASE LayerTwo
  <2>1. events' = events /\ cur' = cur /\ draft' = draft /\ draft # None
    BY <1>1, <1>6 DEF LayerTwo
  <2>2. pc' = "return" => \E e \in events : e.fp = Fingerprint(draft)
    BY <1>6 DEF LayerTwo, Return, Goto, ByFingerprint
  <2>3. pc' = "return" => \E e \in events : /\ e.fp = Fingerprint(draft)
                                            /\ e.at.from - (e.at.from % 5) = Fingerprint(draft)[2]
    BY <2>1, <2>2, FoundByStamp
  <2> QED BY <1>1, <2>1, <2>3 DEF Accounted, AccountedFor
<1>7. CASE Insert
  <2>1. cur' = cur /\ draft' = draft /\ cur \in Msgs
    BY <1>1, <1>7 DEF Insert
  <2>2. /\ events' \in {events, events \union {NewEvent}}
        /\ \/ \E e \in events' : e.uid = Uid(draft, cur)
           \/ \E x \in {"extraction_failed", "scope_missing"} : outcome' = [outcome EXCEPT ![cur] = x]
    BY <1>2, <1>7 DEF Insert, Degrade, Return, Conflicting, ByUid
  <2>3. \A x : outcome' = [outcome EXCEPT ![cur] = x] => outcome'[cur] = x
    BY <2>1 DEF Sane, TypeOK
  <2>4. AccountedFor'
    BY <2>1, <2>2, <2>3 DEF AccountedFor, Duplicates
  <2> QED BY <1>1, <1>2, <2>1, <2>2, <2>4 DEF Accounted
<1>8. CASE Unanswered
  <2>1. pc' = "idle" /\ cur \in Msgs /\ events' \in {events, events \union {NewEvent}}
    BY <1>1, <1>8 DEF Unanswered, LeaveTick
  <2> QED BY <1>1, <1>2, <2>1, StillAccounted
<1>9. CASE Invite
  <2>1. UNCHANGED <<pc, cur, draft, outcome>> /\ \E e \in Invited : events' = events \union {e}
    BY <1>9 DEF Invite
  <2> QED BY <1>1, <2>1, StillAccounted
<1>10. CASE SaveCheckpoint \/ Grant \/ UNCHANGED vars
  BY <1>1, <1>10, StillAccounted DEF SaveCheckpoint, Grant, vars
<1>11. CASE (\E m \in Msgs : Begin(m)) \/ ExtractIcs \/ ExtractText \/ Finish \/ Raises \/ Crash
  <2>1. events' = events /\ pc' # "return"
    BY <1>11 DEF Begin, ExtractIcs, ExtractText, Extracted, Finish, Raises, LeaveTick, Crash
  <2> QED BY <1>1, <2>1, StillAccounted
<1> QED BY <1>3, <1>4, <1>5, <1>6, <1>7, <1>8, <1>9, <1>10, <1>11 DEF Next, Handle

\* With CALENDAR_TIMEZONE at the payload's own default: whatever is reported to
\* the operator as created or as a duplicate is on the calendar, under its uid
\* or at the time of its stamp, through every refusal, collision and replay.
THEOREM ReportIsTrue == ASSUME DefaultZone = Taipei PROVE Spec => []AccountedFor
<1>1. Init => Accounted
  BY DEF Init, Accounted, AccountedFor
<1>2. Accounted => AccountedFor
  BY DEF Accounted
<1> QED BY <1>1, <1>2, Always, AlwaysSane, AccountedStep, PTL DEF Spec
=============================================================================
