-------------------------- MODULE CalendarVertical --------------------------
(***************************************************************************)
(* CalendarSubgraph (agents/verticals/calendar.py) and the Google client it*)
(* calls (calendar/client.py): extract a draft, look for conflicts, look   *)
(* for a duplicate in two layers, insert a tentative event.                *)
(*                                                                         *)
(* Messages are handled one at a time.  The result of extract is           *)
(* checkpointed in the background: a crash before the write makes the      *)
(* replay extract anew, and the model may answer differently; one after it *)
(* makes the replay begin at create.  Every call of the API may be refused *)
(* (403), answered with another error, or not be answered at all.          *)
(***************************************************************************)
EXTENDS CalendarDraft

CONSTANTS
    Msgs, NoMsg,
    Mail,       \* per message: its attachments, inline part, body and the answers it gets
    Invited,    \* events the organizers' invitations may put on the calendar, without a stamp
    Failed,     \* the answer of a language model that raises
    Budget      \* bound: how many failures of any kind occur

ASSUME CalendarAssumption ==
    /\ NoMsg \notin Msgs /\ Budget \in Nat
    /\ \A e \in Invited : /\ e.msg \notin Msgs /\ e.fp = <<>>
                         /\ DOMAIN e = {"summary", "uid", "fp", "msg", "at", "checked", "conflicts"}

ASSUME MailAssumption ==
    \A m \in Msgs :
        /\ \A i \in DOMAIN Mail[m].attachments : IsPayload(Mail[m].attachments[i].vevents)
        /\ IsPayload(Mail[m].inline)
        /\ \A answer \in Mail[m].answers \ {None, Failed} : IsDraft(answer)

VARIABLES
    events,    \* the operator's calendar
    scope,     \* the credential has the calendar scope
    cur, pc,   \* the message in the subgraph, and where
    draft,     \* state["extracted"] in memory
    conflicts, \* the events create found in the draft's window
    outcome,   \* per message: the kind of its side effect
    ckpt,      \* per message: the checkpoint written
    done,      \* messages the agent is finished with
    left,      \* failures still allowed
    unread,    \* history: fingerprints for which the second layer failed
    unheard    \* history: messages whose insertion was lost with the process

vars == <<events, scope, cur, pc, draft, conflicts, outcome, ckpt, done, left, unread, unheard>>

\* The kinds and reasons of CalendarCreated, CalendarDuplicate, CalendarSkipped.
Skips == {"extraction_failed", "no_event_signal", "scope_missing"}
Duplicates == {"calendar_duplicate", "duplicate_by_ical_uid", "duplicate_by_fingerprint"}
SideEffects == {"none", "calendar_created"} \union Skips \union Duplicates

\* A checkpoint after extract: what it put into the state.
Fresh == [at |-> "new", extracted |-> None, side |-> "none"]

TypeOK ==
    /\ \A e \in events : DOMAIN e = {"summary", "uid", "fp", "msg", "at", "checked", "conflicts"}
    /\ scope \in BOOLEAN
    /\ cur \in Msgs \union {NoMsg} /\ (cur = NoMsg) = (pc = "idle")
    /\ pc \in {"idle", "extract", "create", "layer1", "layer2", "insert", "return"}
    /\ outcome \in [Msgs -> SideEffects]
    /\ \A m \in Msgs : ckpt[m].at \in {"new", "create"} /\ ckpt[m].side \in SideEffects
    /\ done \subseteq Msgs /\ cur \notin done
    /\ left \in 0 .. Budget
    /\ pc \in {"layer1", "layer2", "insert"} => draft # None

Init ==
    /\ events = {} /\ scope \in BOOLEAN
    /\ cur = NoMsg /\ pc = "idle" /\ draft = None /\ conflicts = {}
    /\ outcome = [m \in Msgs |-> "none"] /\ ckpt = [m \in Msgs |-> Fresh]
    /\ done = {} /\ left = Budget /\ unread = {} /\ unheard = {}

\* Something fails: a download, a call, its answer, the process.
Fault == left > 0 /\ left' = left - 1

-----------------------------------------------------------------------------
(* Google *)

\* _map_http_error: 403 is read as a missing scope, also when it is a quota.
Forbidden == IF scope THEN Fault ELSE UNCHANGED left

Answered == scope /\ UNCHANGED left

\* An invitation's event appears without the program.
Invite ==
    /\ \E e \in Invited \ events :
         /\ e.uid \notin {f.uid : f \in events}
         /\ events' = events \union {e}
    /\ UNCHANGED <<scope, cur, pc, draft, conflicts, outcome, ckpt, done, left, unread, unheard>>

\* /reauth grants the scope.
Grant ==
    /\ ~scope /\ scope' = TRUE
    /\ UNCHANGED <<events, cur, pc, draft, conflicts, outcome, ckpt, done, left, unread, unheard>>

\* A window that ends before it begins is an error, and so is such an event.
Overlapping(w) ==
    {e \in events : w.from <= w.to /\ e.at.from < w.to /\ w.from < e.at.to}

ByUid(uid) == {e \in events : e.uid = uid}

Day == 24 * 60

\* Mutant: the window of the scan begins at the draft's start.
ByFingerprintAfter(fp, w) ==
    {e \in events : e.fp = fp /\ e.at.from < w.from + Day /\ e.at.from > w.from}

\* The stamp, within a day of the draft's start.
ByFingerprint(fp, w) ==
    {e \in events : e.fp = fp /\ e.at.from < w.from + Day /\ e.at.to > w.from - Day}

-----------------------------------------------------------------------------
(* extract *)

\* Mutant: a message that was finished is handled again.
BeginAgain(m) ==
    /\ pc = "idle" /\ cur' = m /\ draft' = ckpt[m].extracted
    /\ pc' = IF ckpt[m].at = "new" THEN "extract" ELSE "create"
    /\ outcome' = [outcome EXCEPT ![m] = ckpt[m].side]
    /\ UNCHANGED <<events, scope, conflicts, ckpt, done, left, unread, unheard>>

Begin(m) ==
    /\ pc = "idle" /\ m \notin done
    /\ cur' = m /\ draft' = ckpt[m].extracted
    /\ pc' = IF ckpt[m].at = "new" THEN "extract" ELSE "create"
    /\ outcome' = [outcome EXCEPT ![m] = ckpt[m].side]
    /\ UNCHANGED <<events, scope, conflicts, ckpt, done, left, unread, unheard>>

Extracted(d, side) ==
    /\ draft' = d /\ outcome' = [outcome EXCEPT ![cur] = side] /\ pc' = "create"
    /\ UNCHANGED <<events, scope, cur, conflicts, ckpt, done, unread, unheard>>

\* The draft of the attachment, unless its download fails, or else of the
\* inline part; None if neither has one.
IcsDraft(mail, downloaded) ==
    LET att == FindIcsAttachment(mail)
        attached == IF att = None \/ ~downloaded THEN None ELSE ParseIcs(att.vevents)
    IN IF attached # None THEN attached ELSE ParseIcs(mail.inline)

ExtractIcs ==
    /\ pc = "extract"
    /\ \E downloaded \in BOOLEAN :
         /\ IF downloaded THEN UNCHANGED left
            ELSE FindIcsAttachment(Mail[cur]) # None /\ Fault
         /\ IcsDraft(Mail[cur], downloaded) # None
         /\ Extracted(IcsDraft(Mail[cur], downloaded), "none")

\* No .ics: the body, if it has text and a sign of a date, goes to the model.
ExtractText ==
    /\ pc = "extract"
    /\ \E downloaded \in BOOLEAN :
         /\ IF downloaded THEN UNCHANGED left
            ELSE FindIcsAttachment(Mail[cur]) # None /\ Fault
         /\ IcsDraft(Mail[cur], downloaded) = None
    /\ \/ Mail[cur].empty /\ Extracted(None, "extraction_failed")
       \/ /\ ~Mail[cur].empty /\ ~LooksLikeEventBody(Mail[cur])
          /\ Extracted(None, "no_event_signal")
       \/ /\ ~Mail[cur].empty /\ LooksLikeEventBody(Mail[cur])
          /\ \E answer \in Mail[cur].answers :
               IF answer \in {None, Failed} \/ CleanAnswer(answer) = None
               THEN Extracted(None, "extraction_failed")
               ELSE Extracted(CleanAnswer(answer), "none")

\* The background write of what extract returned.
SaveCheckpoint ==
    /\ pc \notin {"idle", "extract"} /\ ckpt[cur].at = "new"
    /\ ckpt' = [ckpt EXCEPT ![cur] = [at |-> "create", extracted |-> draft,
                  side |-> IF draft = None THEN outcome[cur] ELSE "none"]]
    /\ UNCHANGED <<events, scope, cur, pc, draft, conflicts, outcome, done, left, unread, unheard>>

-----------------------------------------------------------------------------
(* create *)

Goto(l) == pc' = l

Return(side) == outcome' = [outcome EXCEPT ![cur] = side] /\ pc' = "return"

\* Mutant: a missing scope is waited for.
DegradeByRetry == Forbidden /\ Goto("create") /\ UNCHANGED outcome

\* _degrade_scope_missing
Degrade == Forbidden /\ Return("scope_missing")

Fits(times) == \A t \in times : MinTime <= t /\ t <= MaxTime

\* What raises in the node itself, at the next step of create: the zone's name,
\* the fingerprint's conversion to UTC, the ends of the window of the scan, the
\* conversion for the payload.
Unfit ==
    /\ draft # None
    /\ \/ pc = "create" /\ draft.hint \in Malformed
       \/ pc = "layer1" /\ ~Fits({CheckedAt(draft).from})
       \/ pc = "layer2" /\ ~Fits({draft.start.wall - Day, draft.start.wall + Day})
       \/ pc = "insert" /\ ~Fits({NaiveIsoInTz(draft.start, PayloadZone(draft)),
                                 NaiveIsoInTz(draft.end, PayloadZone(draft))})

\* A message that extract settled is left as it is.
Skip ==
    /\ pc = "create" /\ draft = None
    /\ Goto("return")
    /\ UNCHANGED <<events, scope, cur, draft, conflicts, outcome, ckpt, done, left, unread, unheard>>

\* check_free_busy, and the list of events if something is busy; an error of
\* either leaves the conflicts unknown.
CheckFreeBusy ==
    /\ pc = "create" /\ draft # None /\ ~Unfit
    /\ \/ /\ Answered /\ Goto("layer1")
          /\ conflicts' = Overlapping(CheckedAt(draft)) /\ UNCHANGED outcome
       \/ scope /\ Fault /\ Goto("layer1") /\ conflicts' = {} /\ UNCHANGED outcome
       \/ Degrade /\ UNCHANGED conflicts
    /\ UNCHANGED <<events, scope, cur, draft, ckpt, done, unread, unheard>>

\* Mutant: an error of the lookup counts as a hit.
LayerOneClosed ==
    /\ pc = "layer1" /\ ~Unfit
    /\ \/ draft.uid = None /\ Goto("layer2") /\ UNCHANGED <<outcome, left>>
       \/ /\ draft.uid # None /\ Answered
          /\ IF ByUid(draft.uid) = {} THEN Goto("layer2") /\ UNCHANGED outcome
             ELSE Return("duplicate_by_ical_uid")
       \/ /\ draft.uid # None /\ (Forbidden \/ (scope /\ Fault))
          /\ Return("duplicate_by_ical_uid")
    /\ UNCHANGED <<events, scope, cur, draft, conflicts, ckpt, done, unread, unheard>>

\* _dedup_check, first layer: only a uid the organizer gave is looked up, and
\* an error of any kind is a miss.
LayerOne ==
    /\ pc = "layer1" /\ ~Unfit
    /\ \/ draft.uid = None /\ Goto("layer2") /\ UNCHANGED <<outcome, left>>
       \/ /\ draft.uid # None /\ Answered
          /\ IF ByUid(draft.uid) = {} THEN Goto("layer2") /\ UNCHANGED outcome
             ELSE Return("duplicate_by_ical_uid")
       \/ /\ draft.uid # None /\ (Forbidden \/ (scope /\ Fault))
          /\ Goto("layer2") /\ UNCHANGED outcome
    /\ UNCHANGED <<events, scope, cur, draft, conflicts, ckpt, done, unread, unheard>>

\* Second layer: the fingerprint this program stamps on its events.
LayerTwo ==
    /\ pc = "layer2" /\ ~Unfit
    /\ \/ /\ Answered /\ UNCHANGED unread
          /\ IF ByFingerprint(Fingerprint(draft), CheckedAt(draft)) = {}
             THEN Goto("insert") /\ UNCHANGED outcome
             ELSE Return("duplicate_by_fingerprint")
       \/ /\ Forbidden \/ (scope /\ Fault)
          /\ unread' = unread \union {Fingerprint(draft)}
          /\ Goto("insert") /\ UNCHANGED outcome
    /\ UNCHANGED <<events, scope, cur, draft, conflicts, ckpt, done, unheard>>

Payload == BuildPayload(draft, cur, {e.uid : e \in conflicts})

\* The event Google makes of the body of the request.
NewEvent == [summary |-> Payload.summary, uid |-> Payload.uid, fp |-> Payload.fp,
             msg |-> cur, at |-> PlacedAt(Payload), checked |-> CheckedAt(draft),
             conflicts |-> Payload.conflicts]

\* Mutant: the uid is not sent, so that nothing collides.
NeverConflicting == FALSE

Conflicting == ByUid(NewEvent.uid) # {}   \* 409

EndsEarly == NewEvent.at.to < NewEvent.at.from   \* 400

\* insert_event: any error but a 403 or a 409 is the end of it too.
Insert ==
    /\ pc = "insert" /\ ~Unfit
    /\ \/ Answered /\ EndsEarly /\ Return("extraction_failed") /\ UNCHANGED events
       \/ /\ Answered /\ ~EndsEarly
          /\ IF Conflicting THEN Return("calendar_duplicate") /\ UNCHANGED events
             ELSE Return("calendar_created") /\ events' = events \union {NewEvent}
       \/ Degrade /\ UNCHANGED events
       \/ scope /\ Fault /\ Return("extraction_failed") /\ UNCHANGED events
    /\ UNCHANGED <<scope, cur, draft, conflicts, ckpt, done, unread, unheard>>

\* The agent goes on to notify and the poller marks the message processed.
Finish ==
    /\ pc = "return"
    /\ done' = done \union {cur}
    /\ pc' = "idle" /\ cur' = NoMsg /\ draft' = None /\ conflicts' = {}
    /\ UNCHANGED <<events, scope, outcome, ckpt, left, unread, unheard>>

-----------------------------------------------------------------------------
(* Failures *)

\* An exception leaves the tick; checkpoints are written before it ends.
LeaveTick ==
    /\ ckpt' = [ckpt EXCEPT ![cur] = [at |-> "create", extracted |-> draft, side |-> "none"]]
    /\ outcome' = [outcome EXCEPT ![cur] = "none"]
    /\ pc' = "idle" /\ cur' = NoMsg /\ draft' = None /\ conflicts' = {}

\* Nothing in the node catches a ValueError or an OverflowError, and the draft
\* is checkpointed: the replay raises again.
Raises ==
    /\ Unfit /\ LeaveTick
    /\ UNCHANGED <<events, scope, done, left, unread, unheard>>

\* A call that is not answered raises; the answer to an insertion may be what
\* was lost.
Unanswered ==
    /\ pc \in {"create", "layer1", "layer2", "insert"} /\ draft # None /\ ~Unfit /\ Fault
    /\ pc = "layer1" => draft.uid # None
    /\ \/ UNCHANGED <<events, unheard>>
       \/ /\ pc = "insert" /\ scope /\ ~EndsEarly /\ ~Conflicting
          /\ events' = events \union {NewEvent} /\ unheard' = unheard \union {cur}
    /\ LeaveTick
    /\ UNCHANGED <<scope, done, unread>>

\* The process dies; what was not written is forgotten.
Crash ==
    /\ pc # "idle" /\ Fault
    /\ unheard' = IF outcome[cur] = "calendar_created" THEN unheard \union {cur} ELSE unheard
    /\ outcome' = [outcome EXCEPT ![cur] = "none"]
    /\ pc' = "idle" /\ cur' = NoMsg /\ draft' = None /\ conflicts' = {}
    /\ UNCHANGED <<events, scope, ckpt, done, unread>>

Handle == ExtractIcs \/ ExtractText \/ Skip \/ CheckFreeBusy \/ LayerOne \/ LayerTwo \/ Insert
          \/ Finish \/ Raises

Next ==
    \/ \E m \in Msgs : Begin(m)
    \/ Handle \/ SaveCheckpoint
    \/ Invite \/ Grant \/ Unanswered \/ Crash

Spec == Init /\ [][Next]_vars

\* The scheduler calls again and again, and a tick that runs goes on.
FairSpec == Spec /\ WF_vars(\E m \in Msgs : Begin(m)) /\ WF_vars(Handle)

-----------------------------------------------------------------------------
(* Properties *)

Ours == {e \in events : e.msg \in Msgs}

\* Two events of this program with one title (but for noise) that start in the
\* same five minutes: the second was inserted because the lookup of that very
\* fingerprint failed.  The lookup and the stamp are made at different times
\* from drafts read out of different sources.
OneTentative ==
    \A e, f \in Ours :
        e # f /\ NormalizeSummary(e.summary) = NormalizeSummary(f.summary)
              /\ e.at.from - (e.at.from % 5) = f.at.from - (f.at.from % 5)
            => e.fp \in unread

\* The uids a message's .ics or its answers carry.
Given(m) ==
    {Mail[m].attachments[i].vevents[1].uid : i \in
        {j \in DOMAIN Mail[m].attachments : Mail[m].attachments[j].vevents # <<>>}}
    \union (IF Mail[m].inline = <<>> THEN {} ELSE {Mail[m].inline[1].uid})
    \union {a.uid : a \in Mail[m].answers \ {None, Failed}}

\* One message makes a second event only when it is replayed after its
\* insertion was lost and one of the two came from a uid of the organizer: the
\* uid made up for a message is met again by the replay, even when the lookups
\* fail.
SecondOnlyByReplay ==
    \A e, f \in Ours :
        e # f /\ e.msg = f.msg
            => e.msg \in unheard /\ {e.uid, f.uid} \cap (Given(e.msg) \ {None}) # {}

\* A message reported as created or as a duplicate has its event on the
\* calendar, by its uid, or by its fingerprint and at the time it says.
AccountedFor ==
    pc = "return" /\ outcome[cur] \in {"calendar_created"} \union Duplicates =>
        \E e \in events :
            \/ e.uid = Uid(draft, cur)
            \/ /\ e.fp = Fingerprint(draft)
               /\ e.at.from - (e.at.from % 5) = Fingerprint(draft)[2]

\* An event is placed where its conflicts were looked for.
PlacedAsChecked == \A e \in Ours : e.at = e.checked

\* Every message is settled, whatever Google answers, or one whose draft the
\* node cannot process (a malformed zone, a time at the edge of the calendar) is
\* come back to for ever: nothing else, no refusal, failure or replay, keeps a
\* message from the end.
EverySettled == <>(done = Msgs) \/ []<>Unfit
=============================================================================
