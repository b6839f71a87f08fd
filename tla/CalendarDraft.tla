--------------------------- MODULE CalendarDraft ---------------------------
(***************************************************************************)
(* What the calendar vertical computes from a message: the draft of an     *)
(* event (from an .ics payload, agents/verticals/_ics_parser.py, or from   *)
(* the language model's answer) and from a draft the time it is checked at,*)
(* its fingerprint and the body of events.insert                           *)
(* (agents/verticals/calendar.py).                                         *)
(*                                                                         *)
(* Times are minutes.  A datetime is a wall clock reading with a zone or   *)
(* with Naive; a zone is the number of minutes it is ahead of UTC.  A title*)
(* is a sequence of words.                                                 *)
(***************************************************************************)
EXTENDS Integers, Sequences, FiniteSets

CONSTANTS
    Offset,        \* of every zone a datetime may carry
    Iana,          \* those the tz database knows by name
    UTC, Taipei,   \* two of them the code names
    DefaultZone,   \* CALENDAR_TIMEZONE, which nothing validates
    UtcLike,       \* names that are rejected as a hint
    Malformed,     \* names, like /Asia/Tokyo, that ZoneInfo answers with a ValueError
    Nullish,       \* texts like "null" that stand for nothing
    Noise,         \* words like Fwd: and [Reminder]
    MinTime, MaxTime,   \* datetime.min and datetime.max
    Naive, None

Zones == DOMAIN Offset

ASSUME ZoneAssumption ==
    /\ Offset \in [Zones -> Int] /\ Naive \notin Zones
    /\ {UTC, Taipei} \subseteq Iana /\ Iana \subseteq Zones
    /\ Malformed \cap (Zones \union UtcLike \union Nullish \union {None, DefaultZone}) = {}
    /\ MinTime \in Int /\ MaxTime \in Int

-----------------------------------------------------------------------------
(* Datetimes *)

Datetimes == [wall : Int, tz : Zones \union {Naive}]

Instant(dt) == dt.wall - Offset[dt.tz]

\* dt.replace(tzinfo=z) for a naive dt; an aware one keeps its zone.
InZone(dt, z) == IF dt.tz = Naive THEN [dt EXCEPT !.tz = z] ELSE dt

\* Mutant: an aware time loses its zone without being converted.
WallAsIs(dt, z) == dt.wall

\* _naive_iso_in_tz: the wall clock reading in z.
NaiveIsoInTz(dt, z) == IF dt.tz = Naive THEN dt.wall ELSE Instant(dt) + Offset[z]

\* Of a hint ZoneInfo can be asked about: one that is malformed raises.
SanitizeTzHint(hint, default) ==
    IF hint \in UtcLike \union Nullish \union {None} \/ hint \notin Iana
    THEN default ELSE hint

LoadZone(name) == IF name \in Iana THEN name ELSE Taipei

\* The zone a draft is checked and fingerprinted in.
EffectiveZone(draft) == LoadZone(SanitizeTzHint(draft.hint, DefaultZone))

\* The zone a draft is written to the calendar in.
PayloadZone(draft) == LoadZone(SanitizeTzHint(draft.hint, Taipei))

-----------------------------------------------------------------------------
(* .ics payloads *)

\* The parser falls back on UTC where the vertical falls back on Taipei.
IcsLoadZone(name) == IF name \in Iana THEN name ELSE UTC

\* _resolve_datetime: a floating time, or a date (midnight), is in the
\* default zone; any other keeps its zone, whose name is the hint.
ResolveDatetime(v) ==
    IF v.tz = Naive
    THEN [time |-> InZone(v, IcsLoadZone(DefaultZone)), hint |-> DefaultZone]
    ELSE [time |-> v, hint |-> v.tz]

\* parse_ics_bytes on the events of a payload; one that is not a calendar has
\* none.
ParseIcs(vevents) ==
    IF vevents = <<>> \/ None \in {vevents[1].dtstart, vevents[1].dtend, vevents[1].summary}
    THEN None
    ELSE LET v == vevents[1]
         IN [title |-> v.summary, uid |-> v.uid,
             start |-> ResolveDatetime(v.dtstart).time,
             end |-> ResolveDatetime(v.dtend).time,
             hint |-> ResolveDatetime(v.dtstart).hint]

\* The times of a payload that has any.
IsPayload(vevents) ==
    vevents # <<>> => {vevents[1].dtstart, vevents[1].dtend} \subseteq Datetimes \union {None}

\* _find_ics_attachment: the first one by type or by name.
IsIcs(att) == att.mime \in {"text/calendar", "application/ics"} \/ att.named

FindIcsAttachment(mail) ==
    LET found == {i \in DOMAIN mail.attachments : IsIcs(mail.attachments[i])}
        first == {mail.attachments[i] : i \in {k \in found : \A j \in found : k <= j}}
    IN IF first = {} THEN None ELSE CHOOSE att \in first : TRUE

-----------------------------------------------------------------------------
(* The language model's answer *)

\* _looks_like_event_body: which of the date and time patterns occur.
LooksLikeEventBody(mail) == mail.signals # {}

CoerceNullish(text) == IF text \in Nullish THEN None ELSE text

IsDraft(draft) ==
    /\ {draft.start, draft.end} \subseteq Datetimes
    /\ draft = [title |-> draft.title, uid |-> draft.uid,
                start |-> draft.start, end |-> draft.end, hint |-> draft.hint]

\* If either time is aware both lose their zone.
StripZones(draft) ==
    IF draft.start.tz = Naive /\ draft.end.tz = Naive THEN draft
    ELSE [draft EXCEPT !.start.tz = Naive, !.end.tz = Naive]

\* The draft that an answer stands for; None if its title is null-ish.
CleanAnswer(draft) ==
    IF CoerceNullish(draft.title) = None THEN None
    ELSE [StripZones(draft) EXCEPT !.uid = CoerceNullish(@), !.hint = CoerceNullish(@)]

-----------------------------------------------------------------------------
(* Fingerprint and payload *)

\* _normalize_summary: noise is stripped from the front, again and again.
NormalizeSummary(title) ==
    LET words == {i \in DOMAIN title : title[i] \notin Noise}
    IN IF words = {} THEN <<>>
       ELSE SubSeq(title, CHOOSE i \in words : \A j \in words : i <= j, Len(title))

BucketStart(dt, z) == LET t == Instant(InZone(dt, z)) IN t - (t % 5)

\* Mutant: the title is hashed as it came.
FingerprintRaw(draft) ==
    <<draft.title, BucketStart(draft.start, EffectiveZone(draft))>>

\* _compute_fingerprint; SHA-1 is taken to be injective.
Fingerprint(draft) ==
    <<NormalizeSummary(draft.title), BucketStart(draft.start, EffectiveZone(draft))>>

SynthesizeUid(m) == <<"zashiki", m>>

Uid(draft, m) == IF draft.uid = None THEN SynthesizeUid(m) ELSE draft.uid

\* fb_start and fb_end: the window that is checked for other events.
CheckedAt(draft) ==
    [from |-> Instant(InZone(draft.start, EffectiveZone(draft))),
     to |-> Instant(InZone(draft.end, EffectiveZone(draft)))]

\* _build_insert_payload: wall clock readings and the zone they are in.
BuildPayload(draft, m, conflicts) ==
    [summary |-> draft.title, uid |-> Uid(draft, m), fp |-> Fingerprint(draft), msg |-> m,
     zone |-> SanitizeTzHint(draft.hint, Taipei),
     start |-> NaiveIsoInTz(draft.start, PayloadZone(draft)),
     end |-> NaiveIsoInTz(draft.end, PayloadZone(draft)),
     conflicts |-> conflicts]

\* Where Google places it.
PlacedAt(payload) ==
    [from |-> payload.start - Offset[payload.zone], to |-> payload.end - Offset[payload.zone]]
=============================================================================
