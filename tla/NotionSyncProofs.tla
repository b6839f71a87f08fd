-------------------------- MODULE NotionSyncProofs --------------------------
(***************************************************************************)
(* Proofs about NotionSync for any rows, pages, pullers, edits and         *)
(* failures: its types, that pulling back what the recorder wrote changes  *)
(* nothing a person did not change, that no edit is lost behind the        *)
(* cursor, and that a pass brings home what was edited before it began.    *)
(***************************************************************************)
EXTENDS NotionSync, SequenceTheorems, TLAPS

RowType == [title : AnyTitle, vendor : Vendors, currency : Codes, uuid : Exps \union {None}]
Fetched == [id : Pages, version : Versions]

LEMMA BuildType ==
  ASSUME NEW r \in RowType, NEW t \in 0 .. MaxClock
  PROVE  Written(BuildProperties(r), t) \in Versions
<1>1. BuildProperties(r).title \in AnyTitle
  BY DEF BuildProperties, RowType, AnyTitle
<1>2. BuildProperties(r).currency \in {None} \union {Label(c) : c \in Codes}
  BY DEF BuildProperties, RowType
<1>3. /\ BuildProperties(r).vendor \in Vendors /\ BuildProperties(r).marked \in BOOLEAN
      /\ BuildProperties(r).uuid \in Exps \union {None}
  BY DEF BuildProperties, RowType
<1> QED BY <1>1, <1>2, <1>3 DEF Written, Versions

LEMMA UpdatedType ==
  ASSUME NEW r \in RowType, NEW v \in Versions
  PROVE  Updated(r, v) \in RowType
<1>1. \A f \in Diff(r, v) : f \in Syncable /\ v[f] # None
                            /\ ExtractUpdates(v)[f] = IF f = "currency" THEN Code(v[f]) ELSE v[f]
  BY DEF Diff, ExtractUpdates
<1>2. v.title \in AnyTitle /\ v.vendor \in Vendors /\ (v.currency # None => Code(v.currency) \in Codes)
  BY DEF Versions, Code, Label
<1>3. /\ "title" \in Diff(r, v) => ExtractUpdates(v)["title"] \in AnyTitle
      /\ "vendor" \in Diff(r, v) => ExtractUpdates(v)["vendor"] \in Vendors
      /\ "currency" \in Diff(r, v) => ExtractUpdates(v)["currency"] \in Codes
      /\ "uuid" \notin Diff(r, v)
  BY <1>1, <1>2 DEF Syncable
<1>4. DOMAIN r = {"title", "vendor", "currency", "uuid"}
  BY DEF RowType
<1> DEFINE u == [f \in DOMAIN r |-> IF f \in Diff(r, v) THEN ExtractUpdates(v)[f] ELSE r[f]]
<1>5. u.title \in AnyTitle /\ u.vendor \in Vendors /\ u.currency \in Codes
      /\ u.uuid \in Exps \union {None}
  BY <1>3, <1>4 DEF RowType
<1>6. u = [title |-> u.title, vendor |-> u.vendor, currency |-> u.currency, uuid |-> u.uuid]
  BY <1>4
<1> QED BY <1>5, <1>6 DEF Updated, RowType

LEMMA InitType == Init => TypeOK
<1> SUFFICES ASSUME Init PROVE TypeOK
  OBVIOUS
<1>1. 1 \in 0 .. MaxClock /\ 0 \in 0 .. MaxClock /\ 1 \in 1 .. MaxClock
  BY NotionAssumption
<1>2. Blank \in Versions
  BY <1>1 DEF Blank, Versions, AnyTitle, Vendors
<1>3. pages \in [Pages -> Versions]
  BY <1>1, <1>2, BuildType, MirrorAssumption DEF Init, RowType
<1>4. rows \in [Exps -> RowType] /\ link \in [Exps -> Pages \union {None}]
  BY MirrorAssumption DEF Init, RowType
<1>5. queue \in [Passes -> Seq(Fetched)]
  BY EmptySeq DEF Init
<1>6. /\ clock \in 1 .. MaxClock /\ cursor \in 0 .. MaxClock /\ seen \in 0 .. MaxClock
      /\ made \in [Exps -> Pages \union {None}]
      /\ pc \in [Passes -> {"idle", "fetch", "apply"}]
      /\ since \in [Passes -> 0 .. MaxClock] /\ high \in [Passes -> 0 .. MaxClock]
      /\ began \in [Passes -> 0 .. MaxClock]
  BY <1>1 DEF Init
<1>7. /\ edits \in 0 .. MaxEdits /\ left \in [{"pass", "link"} -> Nat]
      /\ touched \subseteq Pages /\ missed \subseteq Pages
  <2>1. MaxEdits \in Nat /\ Failures \in [{"pass", "link"} -> Nat]
    BY NotionAssumption
  <2>2. left = Failures /\ edits = 0 /\ touched = {} /\ missed = {}
    BY DEF Init
  <2> QED BY <2>1, <2>2
<1> QED BY <1>3, <1>4, <1>5, <1>6, <1>7 DEF TypeOK, RowType, Fetched
-----------------------------------------------------------------------------
(* TypeOK with names for what is in it. *)

Typed ==
  /\ clock \in 1 .. MaxClock /\ cursor \in 0 .. MaxClock /\ seen \in 0 .. MaxClock
  /\ rows \in [Exps -> RowType]
  /\ link \in [Exps -> Pages \union {None}] /\ made \in [Exps -> Pages \union {None}]
  /\ pages \in [Pages -> Versions]
  /\ pc \in [Passes -> {"idle", "fetch", "apply"}]
  /\ since \in [Passes -> 0 .. MaxClock] /\ high \in [Passes -> 0 .. MaxClock]
  /\ queue \in [Passes -> Seq(Fetched)]
  /\ began \in [Passes -> 0 .. MaxClock]
  /\ edits \in 0 .. MaxEdits /\ left \in [{"pass", "link"} -> Nat]
  /\ touched \subseteq Pages /\ missed \subseteq Pages

LEMMA SameTypes == TypeOK <=> Typed
BY DEF TypeOK, Typed, RowType, Fetched

LEMMA RecorderType ==
  ASSUME Typed, Tick \/ Recorder PROVE Typed'
<1>1. CASE Tick
  <2>1. clock' \in 1 .. MaxClock
    BY <1>1, NotionAssumption DEF Tick, Typed
  <2> QED BY <1>1, <2>1 DEF Tick, passVars, Typed
<1>2. ASSUME NEW e \in Exps, LinkPage(e) \/ LoseLink(e) PROVE Typed'
  <2>2. CASE LinkPage(e)
    BY <2>2 DEF LinkPage, passVars, Typed
  <2>3. CASE LoseLink(e)
    BY <2>3 DEF LoseLink, passVars, Typed
  <2> QED BY <1>2, <2>2, <2>3
<1>3. ASSUME NEW e \in Exps, NEW p \in Pages, CreatePage(e, p) PROVE Typed'
  <2>1. rows[e] \in RowType /\ clock \in 0 .. MaxClock
    BY DEF Typed
  <2>2. Written(BuildProperties(rows[e]), clock) \in Versions
    BY <2>1, BuildType
  <2>3. Shadow(p) \subseteq Pages
    BY DEF Shadow, Typed
  <2> QED BY <1>3, <2>2, <2>3 DEF CreatePage, passVars, Typed
<1> QED BY <1>1, <1>2, <1>3 DEF Recorder

LEMMA EditType ==
  ASSUME Typed, NEW p \in Pages, Edit(p) PROVE Typed'
<1>1. pages[p] \in Versions /\ clock \in 0 .. MaxClock
  BY DEF Typed
<1>2. \A v \in Versions :
        /\ \A t \in Titles \union {LongTitle, None} :
             [v EXCEPT !.title = t, !.edited = clock] \in Versions
        /\ [v EXCEPT !.marked = FALSE, !.edited = clock] \in Versions
        /\ \A e \in Exps : [v EXCEPT !.uuid = e, !.edited = clock] \in Versions
  BY <1>1 DEF Versions, AnyTitle, Vendors
<1>3. \E v \in Versions : pages' = [pages EXCEPT ![p] = v]
  <2>1. CASE \E t \in Titles \union {LongTitle, None} :
               pages' = [pages EXCEPT ![p].title = t, ![p].edited = clock]
    <3>1. PICK t \in Titles \union {LongTitle, None} :
            pages' = [pages EXCEPT ![p].title = t, ![p].edited = clock]
      BY <2>1
    <3>2. pages' = [pages EXCEPT ![p] = [pages[p] EXCEPT !.title = t, !.edited = clock]]
      BY <3>1, <1>1 DEF Typed, Versions
    <3> QED BY <1>1, <1>2, <3>2
  <2>2. CASE pages' = [pages EXCEPT ![p].marked = FALSE, ![p].edited = clock]
    <3>1. pages' = [pages EXCEPT ![p] = [pages[p] EXCEPT !.marked = FALSE, !.edited = clock]]
      BY <2>2, <1>1 DEF Typed, Versions
    <3> QED BY <1>1, <1>2, <3>1
  <2>3. CASE \E e \in Exps : pages' = [pages EXCEPT ![p].uuid = e, ![p].edited = clock]
    <3>1. PICK e \in Exps : pages' = [pages EXCEPT ![p].uuid = e, ![p].edited = clock]
      BY <2>3
    <3>2. pages' = [pages EXCEPT ![p] = [pages[p] EXCEPT !.uuid = e, !.edited = clock]]
      BY <3>1, <1>1 DEF Typed, Versions
    <3> QED BY <1>1, <1>2, <3>2
  <2> QED BY <2>1, <2>2, <2>3 DEF Edit
<1>4. Shadow(p) \subseteq Pages
  BY DEF Shadow, Typed
<1>5. edits' \in 0 .. MaxEdits
  BY NotionAssumption DEF Edit, Typed
<1>6. pages' \in [Pages -> Versions]
  BY <1>3 DEF Typed
<1>7. /\ UNCHANGED <<clock, rows, link, made, cursor, pc, since, high, queue, began, left, seen>>
      /\ touched' \subseteq Pages /\ missed' \subseteq Pages
  BY <1>4 DEF Edit, passVars, Typed
<1> QED BY <1>5, <1>6, <1>7 DEF Typed

LEMMA PassType ==
  ASSUME Typed, NEW s \in Passes, Pass(s) \/ PassFails(s) PROVE Typed'
<1>1. /\ queue[s] \in Seq(Fetched)
      /\ queue[s] # <<>> => Head(queue[s]) \in Fetched /\ Tail(queue[s]) \in Seq(Fetched)
  BY HeadTailProperties DEF Typed
<1>2. \A h \in Fetched : h.id \in Pages /\ h.version \in Versions /\ h.version.edited \in 0 .. MaxClock
  BY DEF Fetched, Versions
<1>3. CASE Begin(s)
  BY <1>3 DEF Begin, Typed
<1>4. CASE Fetch(s)
  <2>1. PICK p \in Matching(s) :
          /\ queue' = [queue EXCEPT ![s] = Append(@, [id |-> p, version |-> pages[p]])]
          /\ seen' = IF pages[p].edited > seen THEN pages[p].edited ELSE seen
    BY <1>4 DEF Fetch
  <2>2. p \in Pages /\ pages[p] \in Versions /\ pages[p].edited \in 0 .. MaxClock
    BY DEF Matching, Typed, Versions
  <2>3. Append(queue[s], [id |-> p, version |-> pages[p]]) \in Seq(Fetched)
    BY <1>1, <2>2, AppendProperties DEF Fetched
  <2>4. queue' \in [Passes -> Seq(Fetched)] /\ seen' \in 0 .. MaxClock
    BY <2>1, <2>2, <2>3 DEF Typed
  <2> QED BY <1>4, <2>4 DEF Fetch, Typed
<1>5. CASE FetchDone(s)
  BY <1>5 DEF FetchDone, Typed
<1>6. ASSUME NEW t \in 0 .. MaxClock, Consume(s, t), queue[s] # <<>>
      PROVE  queue' \in [Passes -> Seq(Fetched)] /\ high' \in [Passes -> 0 .. MaxClock]
  BY <1>1, <1>6 DEF Consume, Raised, Typed
<1>7. CASE SkipPage(s)
  <2>1. queue[s] # <<>> /\ Consume(s, Head(queue[s]).version.edited)
        /\ missed' = missed \union {Head(queue[s]).id}
    BY <1>7 DEF SkipPage
  <2>2. queue' \in [Passes -> Seq(Fetched)] /\ high' \in [Passes -> 0 .. MaxClock]
        /\ missed' \subseteq Pages
    BY <1>1, <1>2, <1>6, <2>1 DEF Typed
  <2> QED BY <1>7, <2>2 DEF SkipPage, Typed
<1>8. CASE ApplyPage(s)
  <2> DEFINE h == Head(queue[s])
  <2>1. queue[s] # <<>> /\ Consume(s, h.version.edited) /\ missed' \subseteq missed \union {h.id}
    BY <1>8 DEF ApplyPage
  <2>2. h \in Fetched
    BY <1>1, <2>1
  <2>3. PICK e \in Exps : rows' = [rows EXCEPT ![e] = Updated(@, h.version)]
    BY <1>8 DEF ApplyPage, Owners
  <2> HIDE DEF h
  <2>4. rows' \in [Exps -> RowType]
    <3>1. Updated(rows[e], h.version) \in RowType
      BY <1>2, <2>2, UpdatedType DEF Typed
    <3> QED BY <2>3, <3>1 DEF Typed
  <2>5. queue' \in [Passes -> Seq(Fetched)] /\ high' \in [Passes -> 0 .. MaxClock]
        /\ missed' \subseteq Pages
    BY <1>2, <1>6, <2>1, <2>2 DEF Typed
  <2> QED BY <1>8, <2>4, <2>5 DEF ApplyPage, Typed
<1>9. ASSUME Leave(s) PROVE /\ pc' \in [Passes -> {"idle", "fetch", "apply"}]
                            /\ since' \in [Passes -> 0 .. MaxClock]
                            /\ high' \in [Passes -> 0 .. MaxClock]
                            /\ began' \in [Passes -> 0 .. MaxClock]
                            /\ queue' \in [Passes -> Seq(Fetched)]
  BY <1>9, NotionAssumption, EmptySeq DEF Leave, Typed
<1>10. CASE WriteCursor(s)
  <2>1. cursor' \in 0 .. MaxClock
    BY <1>10 DEF WriteCursor, Typed
  <2> QED BY <1>9, <1>10, <2>1 DEF WriteCursor, Typed
<1>11. CASE PoisonPage(s)
  BY <1>9, <1>11 DEF PoisonPage, GiveUp, Typed
<1>12. CASE PassFails(s)
  <2>1. left' \in [{"pass", "link"} -> Nat]
    BY <1>12 DEF PassFails, Typed
  <2> QED BY <1>9, <1>12, <2>1 DEF PassFails, GiveUp, Typed
<1> QED BY <1>3, <1>4, <1>5, <1>7, <1>8, <1>10, <1>11, <1>12 DEF Pass

LEMMA StepType == Typed /\ [Next]_vars => Typed'
<1> SUFFICES ASSUME Typed, [Next]_vars PROVE Typed'
  OBVIOUS
<1>1. CASE UNCHANGED vars
  BY <1>1 DEF vars, Typed
<1> QED BY <1>1, RecorderType, EditType, PassType DEF Next

(* Every variable keeps its type; in particular no cursor is ahead of        *)
(* Notion's clock (sync_once's max_edited).                                  *)
THEOREM TypeCorrect == Spec => []TypeOK
BY InitType, StepType, SameTypes, PTL DEF Spec
-----------------------------------------------------------------------------
(* What the recorder wrote for a row is what the puller would read back, and *)
(* a page belongs to one row: the row keeps what was extracted.              *)

\* v would change nothing in row e but an empty title.
Faithful(e, v) ==
  \A f \in DOMAIN ExtractUpdates(v) :
    ExtractUpdates(v)[f] # Extracted[e][f] => f = "title" /\ Extracted[e].title = None

Owns(e, p) == link[e] = p \/ made[e] = p

Mirrors ==
  /\ \A e, f \in Exps, p \in Pages : Owns(e, p) /\ Owns(f, p) => e = f
  /\ \A e \in Exps, p \in Pages : Owns(e, p) =>
       pages[p].edited > 0 /\ (p \in touched \/ Faithful(e, pages[p]))
  /\ \A e \in Exps : /\ made[e] # None => link[e] = None
                     /\ link[e] = None => rows[e] = Extracted[e]

\* A fetched version of a page nobody edited is still the page's.
Current ==
  \A s \in Passes : \A i \in 1 .. Len(queue[s]) :
    /\ pages[queue[s][i].id].edited > 0
    /\ queue[s][i].id \in touched \/ queue[s][i].version = pages[queue[s][i].id]

MirrorInv == Typed /\ Mirrors /\ Current /\ OnlyPeopleCorrect

LEMMA FetchedType ==
  ASSUME Typed, NEW s \in Passes, NEW i \in 1 .. Len(queue[s])
  PROVE  /\ queue[s][i] \in Fetched
         /\ queue[s][i].id \in Pages /\ queue[s][i].version \in Versions
<1>1. queue[s] \in Seq(Fetched)
  BY DEF Typed
<1>2. queue[s][i] \in Fetched
  BY <1>1, ElementOfSeq
<1> QED BY <1>2 DEF Fetched

LEMMA BuildFaithful ==
  ASSUME NEW e \in Exps, NEW t
  PROVE  Faithful(e, Written(BuildProperties(Extracted[e]), t))
<1> DEFINE v == Written(BuildProperties(Extracted[e]), t)
<1>1. /\ v.title = Extracted[e].title \/ Extracted[e].title = None
      /\ v.vendor = Extracted[e].vendor
      /\ v.currency # None => Code(v.currency) = Extracted[e].currency
  BY DEF Written, BuildProperties, Code, Label
<1> HIDE DEF v
<1>2. \A f \in DOMAIN ExtractUpdates(v) :
        /\ f \in Syncable /\ v[f] # None
        /\ ExtractUpdates(v)[f] = IF f = "currency" THEN Code(v[f]) ELSE v[f]
  BY DEF ExtractUpdates
<1>3. Faithful(e, v)
  BY <1>1, <1>2 DEF Faithful, Syncable
<1> QED BY <1>3 DEF v

LEMMA InitMirror == Init => MirrorInv
<1> SUFFICES ASSUME Init PROVE MirrorInv
  OBVIOUS
<1>1. Typed
  BY InitType, SameTypes
<1>2. \A e \in Exps, p \in Pages : Owns(e, p) => Given[e] = p
  BY NotionAssumption DEF Init, Owns
<1>3. ASSUME NEW e \in Exps, NEW p \in Pages, Given[e] = p
      PROVE  pages[p].edited > 0 /\ Faithful(e, pages[p])
  <2>1. (CHOOSE f \in Exps : Given[f] = p) = e
    BY <1>3, MirrorAssumption, NotionAssumption
  <2>2. pages[p] = Written(BuildProperties(Extracted[e]), 1)
    BY <1>3, <2>1 DEF Init
  <2> QED BY <2>2, BuildFaithful DEF Written
<1>4. Mirrors
  <2>1. \A e, f \in Exps, p \in Pages : Owns(e, p) /\ Owns(f, p) => e = f
    BY <1>2, MirrorAssumption, NotionAssumption
  <2>2. \A e \in Exps : made[e] = None /\ rows[e] = Extracted[e]
    BY DEF Init
  <2> QED BY <1>2, <1>3, <2>1, <2>2 DEF Mirrors
<1>5. Current
  <2>1. Len(<<>>) = 0 /\ 1 .. 0 = {}
    OBVIOUS
  <2>2. \A s \in Passes : queue[s] = <<>>
    BY DEF Init
  <2> QED BY <2>1, <2>2 DEF Current
<1>6. OnlyPeopleCorrect
  BY DEF Init, OnlyPeopleCorrect
<1> QED BY <1>1, <1>4, <1>5, <1>6 DEF MirrorInv

LEMMA CreateMirrors ==
  ASSUME MirrorInv, NEW e \in Exps, NEW p \in Pages, CreatePage(e, p)
  PROVE  Mirrors' /\ Current' /\ OnlyPeopleCorrect'
<1> DEFINE v == Written(BuildProperties(rows[e]), clock)
<1>1. /\ link[e] = None /\ made[e] = None /\ pages[p].edited = 0
      /\ pages' = [pages EXCEPT ![p] = v] /\ made' = [made EXCEPT ![e] = p]
      /\ UNCHANGED <<rows, link, touched, queue>>
  BY DEF CreatePage, passVars
<1>2. Typed /\ Mirrors /\ Current /\ OnlyPeopleCorrect
  BY DEF MirrorInv
<1>3. v.edited > 0 /\ Faithful(e, v)
  <2>1. rows[e] = Extracted[e] /\ clock > 0
    BY <1>1, <1>2 DEF Mirrors, Typed
  <2>2. v.edited = clock
    BY DEF Written
  <2> QED BY <2>1, <2>2, BuildFaithful
<1> HIDE DEF v
<1>4. \A f \in Exps : ~Owns(f, p)
  BY <1>1, <1>2 DEF Mirrors
<1>5. Mirrors'
  <2>1. \A f \in Exps, q \in Pages : Owns(f, q)' <=> Owns(f, q) \/ (f = e /\ q = p)
    BY <1>1, <1>2, NotionAssumption DEF Owns, Typed
  <2>2. \A f, g \in Exps, q \in Pages : Owns(f, q)' /\ Owns(g, q)' => f = g
    BY <1>2, <1>4, <2>1 DEF Mirrors
  <2>3. \A f \in Exps, q \in Pages : Owns(f, q)' =>
          pages'[q].edited > 0 /\ (q \in touched \/ Faithful(f, pages'[q]))
    BY <1>1, <1>2, <1>3, <1>4, <2>1 DEF Mirrors, Typed
  <2>4. \A f \in Exps : /\ made'[f] # None => link'[f] = None
                        /\ link'[f] = None => rows'[f] = Extracted[f]
    BY <1>1, <1>2 DEF Mirrors, Typed
  <2> QED BY <1>1, <2>2, <2>3, <2>4 DEF Mirrors
<1>6. Current'
  <2>1. \A q \in Pages : pages[q].edited > 0 => pages'[q] = pages[q]
    BY <1>1, <1>2 DEF Typed
  <2>2. \A s \in Passes : \A i \in 1 .. Len(queue[s]) : queue[s][i].id \in Pages
    BY <1>2, FetchedType
  <2> QED BY <1>1, <1>2, <2>1, <2>2 DEF Current
<1>7. OnlyPeopleCorrect'
  BY <1>1, <1>2 DEF OnlyPeopleCorrect
<1> QED BY <1>5, <1>6, <1>7

LEMMA LinkMirrors ==
  ASSUME MirrorInv, NEW e \in Exps, LinkPage(e) \/ LoseLink(e)
  PROVE  Mirrors' /\ Current' /\ OnlyPeopleCorrect'
<1>1. /\ UNCHANGED <<rows, pages, touched, queue>>
      /\ made[e] # None /\ made' = [made EXCEPT ![e] = None]
      /\ link' = link \/ link' = [link EXCEPT ![e] = made[e]]
  BY DEF LinkPage, LoseLink, passVars
<1>2. Typed /\ Mirrors /\ Current /\ OnlyPeopleCorrect
  BY DEF MirrorInv
<1>3. \A f \in Exps, q \in Pages : Owns(f, q)' => Owns(f, q)
  BY <1>1, <1>2, NotionAssumption DEF Owns, Typed
<1>4. \A f \in Exps : made'[f] # None => made[f] # None /\ f # e /\ link'[f] = link[f]
  BY <1>1, <1>2 DEF Typed
<1>5. link[e] = None /\ rows[e] = Extracted[e]
  BY <1>1, <1>2 DEF Mirrors
<1>6. \A f \in Exps : f # e => link'[f] = link[f]
  BY <1>1, <1>2 DEF Typed
<1>7. Mirrors'
  BY <1>1, <1>2, <1>3, <1>4, <1>5, <1>6 DEF Mirrors
<1>8. Current'
  BY <1>1, <1>2 DEF Current
<1>9. OnlyPeopleCorrect'
  BY <1>1, <1>2, <1>5, <1>6 DEF OnlyPeopleCorrect
<1> QED BY <1>7, <1>8, <1>9

LEMMA EditStamps ==
  ASSUME Typed, NEW p \in Pages, Edit(p)
  PROVE  pages'[p].edited = clock /\ \A q \in Pages \ {p} : pages'[q] = pages[q]
<1>1. \A q \in Pages \ {p} : pages'[q] = pages[q]
  BY DEF Edit, Typed
<1>2. pages[p] \in Versions /\ p \in DOMAIN pages
  BY DEF Typed
<1>3. pages'[p].edited = clock
  <2>1. PICK v \in Versions : v = pages[p]
    BY <1>2
  <2>2. "edited" \in DOMAIN v
    BY DEF Versions
  <2>3. CASE \E t \in Titles \union {LongTitle, None} :
               pages' = [pages EXCEPT ![p].title = t, ![p].edited = clock]
    <3>1. PICK t \in Titles \union {LongTitle, None} :
            pages' = [pages EXCEPT ![p].title = t, ![p].edited = clock]
      BY <2>3
    <3>2. pages'[p] = [v EXCEPT !.title = t, !.edited = clock]
      BY <1>2, <2>1, <3>1 DEF Versions
    <3> QED BY <2>2, <3>2
  <2>4. CASE pages' = [pages EXCEPT ![p].marked = FALSE, ![p].edited = clock]
    <3>1. pages'[p] = [v EXCEPT !.marked = FALSE, !.edited = clock]
      BY <1>2, <2>1, <2>4 DEF Versions
    <3> QED BY <2>2, <3>1
  <2>5. CASE \E e \in Exps : pages' = [pages EXCEPT ![p].uuid = e, ![p].edited = clock]
    <3>1. PICK e \in Exps : pages' = [pages EXCEPT ![p].uuid = e, ![p].edited = clock]
      BY <2>5
    <3>2. pages'[p] = [v EXCEPT !.uuid = e, !.edited = clock]
      BY <1>2, <2>1, <3>1 DEF Versions
    <3> QED BY <2>2, <3>2
  <2> QED BY <2>3, <2>4, <2>5 DEF Edit
<1> QED BY <1>1, <1>3

LEMMA EditMirrors ==
  ASSUME MirrorInv, NEW p \in Pages, Edit(p)
  PROVE  Mirrors' /\ Current' /\ OnlyPeopleCorrect'
<1>1. /\ UNCHANGED <<rows, link, made, queue>> /\ touched' = touched \union {p}
      /\ \A q \in Pages \ {p} : pages'[q] = pages[q]
      /\ pages'[p].edited = clock
  BY EditStamps DEF Edit, passVars, MirrorInv
<1>2. Typed /\ Mirrors /\ Current /\ OnlyPeopleCorrect /\ clock > 0
  BY DEF MirrorInv, Typed
<1>3. Mirrors'
  BY <1>1, <1>2 DEF Mirrors, Owns
<1>4. Current'
  <2>1. \A s \in Passes : \A i \in 1 .. Len(queue[s]) : queue[s][i].id \in Pages
    BY <1>2, FetchedType
  <2> QED BY <1>1, <1>2, <2>1 DEF Current
<1>5. OnlyPeopleCorrect'
  BY <1>1, <1>2 DEF OnlyPeopleCorrect
<1> QED BY <1>3, <1>4, <1>5

\* What a pass does to the queues: nothing, a new last version, or a shorter one.
LEMMA QueueCurrent ==
  ASSUME MirrorInv, NEW s \in Passes, UNCHANGED <<pages, touched>>,
         NEW new \in Seq(Fetched), queue' = [queue EXCEPT ![s] = new],
         \A i \in 1 .. Len(new) :
           \/ \E k \in 1 .. Len(queue[s]) : new[i] = queue[s][k]
           \/ pages[new[i].id].edited > 0 /\ new[i].version = pages[new[i].id]
  PROVE  Current'
<1>1. \A t \in Passes : queue'[t] = IF t = s THEN new ELSE queue[t]
  BY DEF MirrorInv, Typed
<1> QED BY <1>1 DEF MirrorInv, Current

LEMMA PassMirrors ==
  ASSUME MirrorInv, NEW s \in Passes, Pass(s) \/ PassFails(s)
  PROVE  Mirrors' /\ Current' /\ OnlyPeopleCorrect'
<1>1. UNCHANGED <<pages, touched, link, made>>
  BY DEF Pass, Begin, Fetch, FetchDone, SkipPage, ApplyPage, PoisonPage, WriteCursor, PassFails,
         GiveUp
<1>2. Typed /\ Mirrors /\ Current /\ OnlyPeopleCorrect
  BY DEF MirrorInv
<1>3. ASSUME rows' = rows PROVE Mirrors' /\ OnlyPeopleCorrect'
  BY <1>1, <1>2, <1>3 DEF Mirrors, Owns, OnlyPeopleCorrect
<1>4. /\ queue[s] \in Seq(Fetched)
      /\ queue[s] # <<>> => /\ Tail(queue[s]) \in Seq(Fetched)
                            /\ Len(Tail(queue[s])) = Len(queue[s]) - 1
                            /\ \A i \in 1 .. Len(Tail(queue[s])) : Tail(queue[s])[i] = queue[s][i + 1]
                            /\ Len(queue[s]) \in Nat \ {0} /\ Head(queue[s]) = queue[s][1]
  <2>1. queue[s] \in Seq(Fetched)
    BY <1>2 DEF Typed
  <2> QED BY <2>1, HeadTailProperties, EmptySeq
<1>5. CASE Begin(s) \/ FetchDone(s)
  <2>1. rows' = rows /\ queue' = queue
    BY <1>5 DEF Begin, FetchDone
  <2> QED BY <1>1, <1>2, <1>3, <2>1 DEF Current
<1>6. CASE Fetch(s)
  <2>1. PICK p \in Matching(s) :
          queue' = [queue EXCEPT ![s] = Append(@, [id |-> p, version |-> pages[p]])]
    BY <1>6 DEF Fetch
  <2> DEFINE h == [id |-> p, version |-> pages[p]]
             new == Append(queue[s], h)
  <2>2. p \in Pages /\ pages[p].edited > 0 /\ h \in Fetched
    <3>1. p \in Pages /\ pages[p].edited > since[s]
      BY DEF Matching
    <3>2. since[s] \in 0 .. MaxClock /\ pages[p] \in Versions /\ pages[p].edited \in 0 .. MaxClock
      BY <1>2, <3>1 DEF Typed, Versions
    <3>3. pages[p].edited > 0
      BY <3>1, <3>2, NotionAssumption
    <3> QED BY <3>1, <3>2, <3>3 DEF Fetched
  <2>3. h.id = p /\ h.version = pages[p]
    OBVIOUS
  <2> HIDE DEF h
  <2>4. /\ new \in Seq(Fetched) /\ Len(new) = Len(queue[s]) + 1
        /\ \A i \in 1 .. Len(queue[s]) : new[i] = queue[s][i]
        /\ new[Len(new)] = h
    BY <1>4, <2>2, AppendProperties
  <2>5. queue' = [queue EXCEPT ![s] = new]
    BY <2>1 DEF h
  <2>6. Len(queue[s]) \in Nat
    BY <1>4, LenProperties
  <2> HIDE DEF new
  <2>7. \A i \in 1 .. Len(new) :
          \/ \E k \in 1 .. Len(queue[s]) : new[i] = queue[s][k]
          \/ pages[new[i].id].edited > 0 /\ new[i].version = pages[new[i].id]
    BY <2>2, <2>3, <2>4, <2>6
  <2>8. Current'
    BY <1>1, <2>4, <2>5, <2>7, QueueCurrent
  <2>9. rows' = rows
    BY <1>6 DEF Fetch
  <2> QED BY <1>3, <2>8, <2>9
<1>7. ASSUME queue[s] # <<>>, queue' = [queue EXCEPT ![s] = Tail(@)] PROVE Current'
  <2> DEFINE new == Tail(queue[s])
  <2>1. new \in Seq(Fetched) /\ queue' = [queue EXCEPT ![s] = new]
    BY <1>4, <1>7
  <2>2. \A i \in 1 .. Len(new) : \E k \in 1 .. Len(queue[s]) : new[i] = queue[s][k]
    BY <1>4, <1>7
  <2> HIDE DEF new
  <2> QED BY <1>1, <2>1, <2>2, QueueCurrent
<1>8. CASE SkipPage(s)
  <2>1. rows' = rows /\ queue[s] # <<>> /\ queue' = [queue EXCEPT ![s] = Tail(@)]
    BY <1>8 DEF SkipPage, Consume
  <2> QED BY <1>3, <1>7, <2>1
<1>9. CASE ApplyPage(s)
  <2> DEFINE h == Head(queue[s])
  <2>1. queue[s] # <<>> /\ queue' = [queue EXCEPT ![s] = Tail(@)]
    BY <1>9 DEF ApplyPage, Consume
  <2>2. PICK e \in Exps : link[e] = h.id /\ rows' = [rows EXCEPT ![e] = Updated(@, h.version)]
    BY <1>9 DEF ApplyPage, Owners
  <2>3. h.id \in Pages /\ (h.id \in touched \/ h.version = pages[h.id])
    <3>1. 1 \in 1 .. Len(queue[s]) /\ h = queue[s][1]
      BY <1>4, <2>1
    <3> QED BY <1>2, <3>1, FetchedType DEF Current
  <2> HIDE DEF h
  <2>4. \A f \in Exps \ {e} : rows'[f] = rows[f]
    BY <1>2, <2>2 DEF Typed
  <2>5. rows'[e] = Updated(rows[e], h.version)
    BY <1>2, <2>2 DEF Typed
  <2>6. link[e] # None
    BY <2>2, <2>3, NotionAssumption
  <2>7. Mirrors'
    BY <1>1, <1>2, <2>4, <2>6 DEF Mirrors, Owns
  <2>8. ASSUME h.id \notin touched, NEW f \in Syncable, rows'[e][f] # Extracted[e][f]
        PROVE  f = "title" /\ Extracted[e].title = None
    <3>1. Faithful(e, h.version)
      BY <1>2, <2>2, <2>3, <2>8 DEF Mirrors, Owns
    <3>2. rows[e] \in RowType /\ f \in DOMAIN rows[e]
      BY <1>2, <2>8 DEF Typed, RowType, Syncable
    <3>3. CASE f \in Diff(rows[e], h.version)
      <4>1. f \in DOMAIN ExtractUpdates(h.version)
            /\ rows'[e][f] = ExtractUpdates(h.version)[f]
        BY <2>5, <3>2, <3>3 DEF Updated, Diff
      <4> QED BY <2>8, <3>1, <4>1 DEF Faithful
    <3>4. CASE f \notin Diff(rows[e], h.version)
      <4>1. rows'[e][f] = rows[e][f]
        BY <2>5, <3>2, <3>4 DEF Updated
      <4> QED BY <1>2, <2>2, <2>8, <4>1 DEF OnlyPeopleCorrect
    <3> QED BY <3>3, <3>4
  <2>9. OnlyPeopleCorrect'
    BY <1>1, <1>2, <2>2, <2>4, <2>8 DEF OnlyPeopleCorrect
  <2> QED BY <1>7, <2>1, <2>7, <2>9
<1>10. ASSUME Leave(s) PROVE Current'
  <2>1. queue' = [queue EXCEPT ![s] = <<>>] /\ <<>> \in Seq(Fetched) /\ Len(<<>>) = 0
    BY <1>10, EmptySeq DEF Leave
  <2>2. 1 .. Len(<<>>) = {}
    BY <2>1
  <2> QED BY <1>1, <2>1, <2>2, QueueCurrent
<1>11. CASE WriteCursor(s) \/ PoisonPage(s) \/ PassFails(s)
  <2>1. rows' = rows /\ Leave(s)
    BY <1>11 DEF WriteCursor, PoisonPage, PassFails, GiveUp
  <2> QED BY <1>3, <1>10, <2>1
<1> QED BY <1>5, <1>6, <1>8, <1>9, <1>11 DEF Pass

LEMMA MirrorStep == MirrorInv /\ [Next]_vars => MirrorInv'
<1> SUFFICES ASSUME MirrorInv, [Next]_vars PROVE MirrorInv'
  OBVIOUS
<1>1. Typed'
  BY StepType DEF MirrorInv
<1>2. Mirrors' /\ Current' /\ OnlyPeopleCorrect'
  <2>1. CASE Tick \/ UNCHANGED vars
    <3>1. UNCHANGED <<rows, link, made, pages, touched, queue>>
      BY <2>1 DEF Tick, vars, passVars
    <3> QED BY <3>1 DEF MirrorInv, Mirrors, Owns, Current, OnlyPeopleCorrect
  <2> QED BY <2>1, CreateMirrors, LinkMirrors, EditMirrors, PassMirrors DEF Next, Recorder
<1> QED BY <1>1, <1>2 DEF MirrorInv

(* A row differs from what the model extracted only if a person edited its   *)
(* page or its title was empty: the round trip through Notion's properties   *)
(* and labels, with any overlap of recorder and pullers, changes nothing     *)
(* (notion.py's _build_properties, notion_puller.py's _extract_updates).     *)
THEOREM RoundTrip == Spec => []OnlyPeopleCorrect
<1>1. MirrorInv => OnlyPeopleCorrect
  BY DEF MirrorInv
<1> QED BY <1>1, InitMirror, MirrorStep, PTL DEF Spec
-----------------------------------------------------------------------------
(* The cursor.  CursorCovers is not inductive: a pass writes as the cursor   *)
(* what it has read, long after it read it.  Every pass can account for what *)
(* it will claim (FetchCovers, ApplyCovers): a page it has gone past is in   *)
(* its hands as it is now, or stored, or missed.                             *)

\* The row of the page has its fields.
Stored(p) == \E e \in Exps : link[e] = p /\ Diff(rows[e], pages[p]) = {}

InHand(s, p) ==
  \E i \in 1 .. Len(queue[s]) : queue[s][i].id = p /\ queue[s][i].version = pages[p]

Open(p) == pages[p].marked /\ pages[p].edited > 0 /\ p \notin missed

CursorStored == \A p \in Pages : Open(p) /\ pages[p].edited <= cursor => Stored(p)

FetchCovers ==
  \A s \in Passes : pc[s] = "fetch" =>
    \A p \in Pages : Open(p) /\ p \notin Matching(s) => InHand(s, p) \/ Stored(p)

GonePast(s, p) ==
  \/ pages[p].edited <= high[s]
  \/ \E i \in 1 .. Len(queue[s]) : pages[p].edited <= queue[s][i].version.edited

ApplyCovers ==
  \A s \in Passes : pc[s] = "apply" =>
    \A p \in Pages : Open(p) /\ GonePast(s, p) => InHand(s, p) \/ Stored(p)

\* Nothing is claimed beyond what a query has returned.
Bounded ==
  /\ cursor <= seen
  /\ \A s \in Passes :
       /\ since[s] <= seen /\ high[s] <= seen
       /\ \A i \in 1 .. Len(queue[s]) : queue[s][i].version.edited <= seen
       /\ pc[s] = "idle" => queue[s] = <<>>

Covers == CursorStored /\ FetchCovers /\ ApplyCovers /\ Bounded

CoverInv == MirrorInv /\ Covers

LEMMA InitCovers == Init => CoverInv
<1> SUFFICES ASSUME Init PROVE CoverInv
  OBVIOUS
<1>1. MirrorInv
  BY InitMirror
<1>2. CursorStored
  <2>1. \A p \in Pages : pages[p].edited \in Nat
    BY <1>1, NotionAssumption DEF MirrorInv, Typed, Versions
  <2>2. cursor = 0
    BY DEF Init
  <2> QED BY <2>1, <2>2 DEF CursorStored, Open
<1>3. FetchCovers /\ ApplyCovers
  BY DEF Init, FetchCovers, ApplyCovers
<1>4. Len(<<>>) = 0 /\ 1 .. 0 = {}
  OBVIOUS
<1>5. Bounded
  <2>1. cursor = 0 /\ seen = 0 /\ \A s \in Passes : since[s] = 0 /\ high[s] = 0 /\ queue[s] = <<>>
    BY DEF Init
  <2>2. \A s \in Passes : \A i \in 1 .. Len(queue[s]) : queue[s][i].version.edited <= seen
    BY <1>4, <2>1
  <2> QED BY <2>1, <2>2 DEF Bounded
<1> QED BY <1>1, <1>2, <1>3, <1>5 DEF CoverInv, Covers

\* A page that was just stamped is past every claim, or missed.
LEMMA StampCovers ==
  ASSUME CoverInv, NEW p \in Pages, pages'[p].edited = clock,
         \A q \in Pages \ {p} : pages'[q] = pages[q], missed' = Shadow(p),
         UNCHANGED <<rows, link, queue, cursor, pc, since, high, seen>>
  PROVE  Covers'
<1>1. Typed /\ CursorStored /\ FetchCovers /\ ApplyCovers /\ Bounded
  BY DEF CoverInv, MirrorInv, Covers
<1>2. /\ Open(p)' => clock > seen /\ pages'[p].marked
      /\ \A q \in Pages \ {p} : Open(q)' <=> Open(q)
  BY <1>1 DEF Shadow, Open, Typed
<1>3. \A q \in Pages \ {p} : Stored(q)' <=> Stored(q)
  BY DEF Stored
<1>4. \A s \in Passes, q \in Pages \ {p} : InHand(s, q)' <=> InHand(s, q)
  BY DEF InHand
<1>5. clock \in Nat /\ seen \in Nat /\ cursor \in Nat
      /\ \A s \in Passes : since[s] \in Nat /\ high[s] \in Nat
  BY <1>1, NotionAssumption DEF Typed
<1>6. \A s \in Passes : \A i \in 1 .. Len(queue[s]) : queue[s][i].version.edited \in Nat
  BY <1>1, FetchedType DEF Versions
<1>7. CursorStored'
  BY <1>1, <1>2, <1>3, <1>5 DEF CursorStored, Bounded
<1>8. FetchCovers'
  <2> SUFFICES ASSUME NEW s \in Passes, pc[s] = "fetch", NEW q \in Pages,
                      Open(q)', q \notin Matching(s)'
               PROVE  InHand(s, q)' \/ Stored(q)'
    BY DEF FetchCovers
  <2>1. CASE q = p
    <3>1. pages'[p].marked /\ pages'[p].edited > since[s]
      BY <1>1, <1>2, <1>5, <2>1 DEF Bounded
    <3>2. queue[s] # <<>> => queue[s][Len(queue[s])].version.edited < pages'[p].edited
      <4>1. queue[s] # <<>> => Len(queue[s]) \in 1 .. Len(queue[s])
        BY <1>1, EmptySeq, LenProperties DEF Typed
      <4> QED BY <1>1, <1>2, <1>5, <1>6, <2>1, <4>1 DEF Bounded
    <3> QED BY <2>1, <3>1, <3>2 DEF Matching
  <2>2. CASE q # p
    <3>1. q \notin Matching(s)
      BY <2>2 DEF Matching
    <3> QED BY <1>1, <1>2, <1>3, <1>4, <2>2, <3>1 DEF FetchCovers
  <2> QED BY <2>1, <2>2
<1>9. ApplyCovers'
  <2> SUFFICES ASSUME NEW s \in Passes, pc[s] = "apply", NEW q \in Pages,
                      Open(q)', GonePast(s, q)'
               PROVE  InHand(s, q)' \/ Stored(q)'
    BY DEF ApplyCovers
  <2>1. q # p
    BY <1>1, <1>2, <1>5, <1>6 DEF GonePast, Bounded
  <2>2. GonePast(s, q)
    BY <2>1 DEF GonePast
  <2> QED BY <1>1, <1>2, <1>3, <1>4, <2>1, <2>2 DEF ApplyCovers
<1>10. Bounded'
  BY <1>1 DEF Bounded
<1> QED BY <1>7, <1>8, <1>9, <1>10 DEF Covers

LEMMA LinkCovers ==
  ASSUME CoverInv, NEW e \in Exps, LinkPage(e) \/ LoseLink(e)
  PROVE  Covers'
<1>1. UNCHANGED <<rows, pages, queue, cursor, pc, since, high, seen, missed>>
  BY DEF LinkPage, LoseLink, passVars
<1>2. \A p \in Pages : Stored(p) => Stored(p)'
  <2>1. \A f \in Exps : link[f] # None => link'[f] = link[f]
    BY DEF LinkPage, LoseLink, CoverInv, MirrorInv, Mirrors, Typed
  <2> QED BY <1>1, <2>1, NotionAssumption DEF Stored
<1> QED BY <1>1, <1>2 DEF CoverInv, Covers, CursorStored, FetchCovers, ApplyCovers, Bounded, Open,
                          Matching, InHand, GonePast

\* Two passes do not disturb each other: what stays true of a pass whose queue
\* and claims do not change.
LEMMA OtherPass ==
  ASSUME CoverInv, NEW s \in Passes, NEW r \in Passes, r # s,
         UNCHANGED <<pages, seen>>,
         pc'[r] = pc[r], since'[r] = since[r], high'[r] = high[r], queue'[r] = queue[r],
         \A q \in Pages : Open(q)' => \/ Stored(q)'
                                      \/ Open(q) /\ (Stored(q) => Stored(q)')
                                      \/ pages[q].edited > seen
  PROVE  /\ pc'[r] = "fetch" =>
              \A q \in Pages : Open(q)' /\ q \notin Matching(r)' => InHand(r, q)' \/ Stored(q)'
         /\ pc'[r] = "apply" =>
              \A q \in Pages : Open(q)' /\ GonePast(r, q)' => InHand(r, q)' \/ Stored(q)'
<1>1. Typed /\ CursorStored /\ FetchCovers /\ ApplyCovers /\ Bounded
  BY DEF CoverInv, MirrorInv, Covers
<1>2. /\ seen \in Nat /\ since[r] \in Nat /\ high[r] \in Nat
      /\ \A q \in Pages : pages[q].edited \in Nat
      /\ \A i \in 1 .. Len(queue[r]) : queue[r][i].version.edited \in Nat
  <2>1. \A i \in 1 .. Len(queue[r]) : queue[r][i].version.edited \in Nat
    BY <1>1, FetchedType, NotionAssumption DEF Versions
  <2>2. \A q \in Pages : pages[q].edited \in Nat
    BY <1>1, NotionAssumption DEF Typed, Versions
  <2> QED BY <1>1, <2>1, <2>2, NotionAssumption DEF Typed
<1>3. /\ Matching(r)' = Matching(r)
      /\ \A q \in Pages : (InHand(r, q)' <=> InHand(r, q)) /\ (GonePast(r, q)' <=> GonePast(r, q))
  BY DEF Matching, InHand, GonePast
<1>4. ASSUME NEW q \in Pages, Open(q)', pages[q].edited > seen
      PROVE  q \in Matching(r) /\ ~GonePast(r, q)
  <2>1. pages[q].marked /\ pages[q].edited > since[r] /\ ~(pages[q].edited <= high[r])
    BY <1>1, <1>2, <1>4 DEF Open, Bounded
  <2>2. ASSUME NEW i \in 1 .. Len(queue[r])
        PROVE  queue[r][i].version.edited < pages[q].edited
    <3>1. queue[r][i].version.edited <= seen
      BY <1>1 DEF Bounded
    <3>2. queue[r][i].version.edited \in Nat /\ pages[q].edited \in Nat /\ seen \in Nat
      BY <1>2
    <3> QED BY <1>4, <3>1, <3>2
  <2>3. queue[r] # <<>> => Len(queue[r]) \in 1 .. Len(queue[r])
    BY <1>1, EmptySeq, LenProperties DEF Typed
  <2>4. \A i \in 1 .. Len(queue[r]) : ~(pages[q].edited <= queue[r][i].version.edited)
    BY <1>2, <2>2
  <2> QED BY <2>1, <2>2, <2>3, <2>4 DEF Matching, GonePast
<1> QED BY <1>1, <1>3, <1>4 DEF FetchCovers, ApplyCovers

\* A row that takes the fields of a page has them.
LEMMA UpdatedStored ==
  ASSUME NEW r \in RowType, NEW v \in Versions
  PROVE  Diff(Updated(r, v), v) = {}
<1>1. DOMAIN r = {"title", "vendor", "currency", "uuid"}
  BY DEF RowType
<1>2. DOMAIN ExtractUpdates(v) \subseteq {"title", "vendor", "currency", "uuid"}
  BY DEF ExtractUpdates, Syncable
<1>3. \A f \in DOMAIN ExtractUpdates(v) : Updated(r, v)[f] = ExtractUpdates(v)[f]
  <2> SUFFICES ASSUME NEW f \in DOMAIN ExtractUpdates(v)
               PROVE  Updated(r, v)[f] = ExtractUpdates(v)[f]
    OBVIOUS
  <2>1. f \in DOMAIN r
    BY <1>1, <1>2
  <2>2. Updated(r, v)[f] = IF f \in Diff(r, v) THEN ExtractUpdates(v)[f] ELSE r[f]
    BY <2>1 DEF Updated
  <2>3. f \notin Diff(r, v) => r[f] = ExtractUpdates(v)[f]
    BY DEF Diff
  <2> QED BY <2>2, <2>3
<1> QED BY <1>3 DEF Diff

\* The queue of a pass as a sequence.
LEMMA QueueParts ==
  ASSUME Typed, NEW s \in Passes
  PROVE  /\ queue[s] \in Seq(Fetched) /\ Len(queue[s]) \in Nat
         /\ queue[s] # <<>> =>
              /\ Head(queue[s]) = queue[s][1] /\ 1 \in 1 .. Len(queue[s])
              /\ Len(queue[s]) \in 1 .. Len(queue[s])
              /\ Len(Tail(queue[s])) = Len(queue[s]) - 1
              /\ \A i \in 1 .. Len(Tail(queue[s])) : Tail(queue[s])[i] = queue[s][i + 1]
<1>1. queue[s] \in Seq(Fetched)
  BY DEF Typed
<1> QED BY <1>1, HeadTailProperties, EmptySeq, LenProperties

LEMMA FetchKeeps ==
  ASSUME CoverInv, NEW s \in Passes, Fetch(s)
  PROVE  Covers'
<1>1. Typed /\ CursorStored /\ FetchCovers /\ ApplyCovers /\ Bounded
  BY DEF CoverInv, MirrorInv, Covers
<1>2. PICK p \in Matching(s) :
        /\ \A q \in Matching(s) \ {p} : Before(p, q)
        /\ queue' = [queue EXCEPT ![s] = Append(@, [id |-> p, version |-> pages[p]])]
        /\ seen' = IF pages[p].edited > seen THEN pages[p].edited ELSE seen
  BY DEF Fetch
<1>3. /\ pc[s] = "fetch"
      /\ UNCHANGED <<rows, link, pages, cursor, pc, since, high, missed>>
  BY DEF Fetch
<1> DEFINE h == [id |-> p, version |-> pages[p]]
           new == Append(queue[s], h)
<1>4. p \in Pages /\ h \in Fetched /\ h.id = p /\ h.version = pages[p]
  BY <1>1 DEF Matching, Fetched, Typed
<1> HIDE DEF h
<1>5. /\ new \in Seq(Fetched) /\ Len(new) = Len(queue[s]) + 1
      /\ \A i \in 1 .. Len(queue[s]) : new[i] = queue[s][i]
      /\ new[Len(new)] = h /\ Len(queue[s]) \in Nat /\ new # <<>>
  BY <1>1, <1>4, QueueParts, AppendProperties
<1>6. queue'[s] = new /\ \A r \in Passes \ {s} : queue'[r] = queue[r]
  BY <1>1, <1>2 DEF Typed, h
<1> HIDE DEF new
<1>7. /\ seen \in Nat /\ seen' \in Nat /\ seen <= seen' /\ pages[p].edited <= seen'
      /\ \A q \in Pages : pages[q].edited \in Nat /\ q \in Nat
      /\ cursor \in Nat /\ \A r \in Passes : since[r] \in Nat /\ high[r] \in Nat
  <2>1. seen \in Nat /\ cursor \in Nat /\ \A r \in Passes : since[r] \in Nat /\ high[r] \in Nat
    BY <1>1, NotionAssumption DEF Typed
  <2>2. \A q \in Pages : pages[q].edited \in Nat /\ q \in Nat
    BY <1>1, NotionAssumption DEF Typed, Versions
  <2>3. seen' = IF pages[p].edited > seen THEN pages[p].edited ELSE seen
    BY <1>2
  <2> HIDE DEF h
  <2> QED BY <1>4, <2>1, <2>2, <2>3
<1>8. \A q \in Pages : (Open(q)' <=> Open(q)) /\ (Stored(q)' <=> Stored(q))
  BY <1>3 DEF Open, Stored
<1>9. \A r \in Passes, q \in Pages : InHand(r, q) => InHand(r, q)'
  <2> SUFFICES ASSUME NEW q \in Pages, InHand(s, q) PROVE InHand(s, q)'
    BY <1>3, <1>6 DEF InHand
  <2>1. PICK i \in 1 .. Len(queue[s]) : queue[s][i].id = q /\ queue[s][i].version = pages[q]
    BY DEF InHand
  <2>2. i \in 1 .. Len(new) /\ new[i] = queue[s][i]
    BY <1>5, <2>1
  <2> QED BY <1>3, <1>6, <2>1, <2>2 DEF InHand
<1>10. CursorStored'
  BY <1>1, <1>3, <1>8 DEF CursorStored
<1>11. \A q \in Matching(s) \ {p} : q \in Matching(s)'
  <2> SUFFICES ASSUME NEW q \in Matching(s), q # p PROVE q \in Matching(s)'
    OBVIOUS
  <2>1. q \in Pages /\ pages[q].marked /\ pages[q].edited > since[s]
    BY DEF Matching
  <2>2. \/ h.version.edited < pages[q].edited
        \/ h.version.edited = pages[q].edited /\ h.id < q
    BY <1>2, <1>4 DEF Before
  <2>3. queue'[s][Len(queue'[s])] = h
    BY <1>5, <1>6
  <2> QED BY <1>3, <2>1, <2>2, <2>3 DEF Matching
<1>12. InHand(s, p)'
  <2>1. Len(new) \in 1 .. Len(new)
    BY <1>5
  <2> QED BY <1>3, <1>4, <1>5, <1>6, <2>1 DEF InHand
<1>13. FetchCovers'
  <2> SUFFICES ASSUME NEW r \in Passes, pc[r] = "fetch", NEW q \in Pages,
                      Open(q), q \notin Matching(r)'
               PROVE  InHand(r, q)' \/ Stored(q)'
    BY <1>3, <1>8 DEF FetchCovers
  <2>1. CASE r = s
    BY <1>1, <1>8, <1>9, <1>11, <1>12, <2>1 DEF FetchCovers
  <2>2. CASE r # s
    <3>1. Matching(r)' = Matching(r)
      BY <1>3, <1>6, <2>2 DEF Matching
    <3> QED BY <1>1, <1>8, <1>9, <3>1 DEF FetchCovers
  <2> QED BY <2>1, <2>2
<1>14. ApplyCovers'
  <2> SUFFICES ASSUME NEW r \in Passes, pc[r] = "apply", NEW q \in Pages,
                      Open(q), GonePast(r, q)'
               PROVE  InHand(r, q)' \/ Stored(q)'
    BY <1>3, <1>8 DEF ApplyCovers
  <2>1. r # s
    BY <1>3
  <2>2. GonePast(r, q)
    BY <1>3, <1>6, <2>1 DEF GonePast
  <2> QED BY <1>1, <1>8, <1>9, <2>2 DEF ApplyCovers
<1>15. Bounded'
  <2>1. \A r \in Passes : \A i \in 1 .. Len(queue[r]) : queue[r][i].version.edited \in Nat
    BY <1>1, FetchedType, NotionAssumption DEF Versions
  <2>2. \A r \in Passes : \A i \in 1 .. Len(queue[r]) : queue[r][i].version.edited <= seen'
    BY <1>1, <1>7, <2>1 DEF Bounded
  <2>3. ASSUME NEW i \in 1 .. Len(new) PROVE new[i].version.edited <= seen'
    <3>1. CASE i = Len(new)
      BY <1>4, <1>5, <1>7, <3>1
    <3>2. CASE i # Len(new)
      <4>1. i \in 1 .. Len(queue[s])
        BY <1>5, <3>2
      <4> QED BY <1>5, <2>2, <4>1
    <3> QED BY <3>1, <3>2
  <2>4. \A r \in Passes : \A i \in 1 .. Len(queue'[r]) : queue'[r][i].version.edited <= seen'
    BY <1>6, <2>2, <2>3
  <2>5. cursor <= seen' /\ \A r \in Passes : since[r] <= seen' /\ high[r] <= seen'
    BY <1>1, <1>7 DEF Bounded
  <2>6. \A r \in Passes : pc[r] = "idle" => queue'[r] = <<>>
    BY <1>1, <1>3, <1>6 DEF Bounded
  <2> QED BY <1>3, <2>4, <2>5, <2>6 DEF Bounded
<1> QED BY <1>10, <1>13, <1>14, <1>15 DEF Covers

LEMMA StartKeeps ==
  ASSUME CoverInv, NEW s \in Passes, Begin(s) \/ FetchDone(s)
  PROVE  Covers'
<1>1. Typed /\ CursorStored /\ FetchCovers /\ ApplyCovers /\ Bounded
  BY DEF CoverInv, MirrorInv, Covers
<1>2. /\ UNCHANGED <<rows, link, pages, cursor, queue, seen, missed>>
      /\ \A r \in Passes \ {s} : pc'[r] = pc[r] /\ since'[r] = since[r] /\ high'[r] = high[r]
  BY <1>1 DEF Begin, FetchDone, Typed
<1>3. \A q \in Pages : /\ (Open(q)' <=> Open(q)) /\ (Stored(q)' <=> Stored(q))
                       /\ \A r \in Passes : InHand(r, q)' <=> InHand(r, q)
  BY <1>2 DEF Open, Stored, InHand
<1>4. CursorStored'
  BY <1>1, <1>2, <1>3 DEF CursorStored
<1>5. \A r \in Passes \ {s} :
        /\ pc'[r] = "fetch" =>
             \A q \in Pages : Open(q)' /\ q \notin Matching(r)' => InHand(r, q)' \/ Stored(q)'
        /\ pc'[r] = "apply" =>
             \A q \in Pages : Open(q)' /\ GonePast(r, q)' => InHand(r, q)' \/ Stored(q)'
  BY <1>2, <1>3, OtherPass
<1>6. CASE Begin(s)
  <2>1. /\ pc[s] = "idle" /\ pc'[s] = "fetch" /\ since'[s] = cursor /\ high'[s] = cursor
        /\ queue[s] = <<>>
    BY <1>1, <1>6 DEF Begin, Typed, Bounded
  <2>2. cursor \in Nat /\ \A q \in Pages : pages[q].edited \in Nat
    <3>1. \A q \in Pages : pages[q].edited \in 0 .. MaxClock
      BY <1>1 DEF Typed, Versions
    <3> QED BY <1>1, <3>1, NotionAssumption DEF Typed
  <2>3. \A q \in Pages : Open(q) /\ q \notin Matching(s)' => Stored(q)
    BY <1>1, <1>2, <2>1, <2>2 DEF Matching, Open, CursorStored
  <2>4. FetchCovers' /\ ApplyCovers'
    BY <1>3, <1>5, <2>1, <2>3 DEF FetchCovers, ApplyCovers
  <2>5. Bounded'
    BY <1>1, <1>2, <2>1 DEF Bounded
  <2> QED BY <1>4, <2>4, <2>5 DEF Covers
<1>7. CASE FetchDone(s)
  <2>1. pc[s] = "fetch" /\ Matching(s) = {} /\ pc'[s] = "apply" /\ UNCHANGED <<since, high>>
    BY <1>1, <1>7 DEF FetchDone, Typed
  <2>2. \A q \in Pages : Open(q) => InHand(s, q) \/ Stored(q)
    BY <1>1, <2>1 DEF FetchCovers
  <2>3. FetchCovers' /\ ApplyCovers'
    BY <1>3, <1>5, <2>1, <2>2 DEF FetchCovers, ApplyCovers
  <2>4. Bounded'
    BY <1>1, <1>2, <2>1 DEF Bounded
  <2> QED BY <1>4, <2>3, <2>4 DEF Covers
<1> QED BY <1>6, <1>7

\* A pass that ends gives up every claim but the cursor's.
LEMMA LeaveKeeps ==
  ASSUME CoverInv, NEW s \in Passes, WriteCursor(s) \/ PoisonPage(s) \/ PassFails(s)
  PROVE  Covers'
<1>1. Typed /\ CursorStored /\ FetchCovers /\ ApplyCovers /\ Bounded
  BY DEF CoverInv, MirrorInv, Covers
<1>2. Leave(s) /\ UNCHANGED <<rows, link, pages, seen, missed>>
  BY DEF WriteCursor, PoisonPage, PassFails, GiveUp
<1>3. /\ \A r \in Passes \ {s} : /\ pc'[r] = pc[r] /\ since'[r] = since[r]
                                 /\ high'[r] = high[r] /\ queue'[r] = queue[r]
      /\ pc'[s] = "idle" /\ since'[s] = 0 /\ high'[s] = 0 /\ queue'[s] = <<>>
  BY <1>1, <1>2 DEF Leave, Typed
<1>4. \A q \in Pages : (Open(q)' <=> Open(q)) /\ (Stored(q)' <=> Stored(q))
  BY <1>2 DEF Open, Stored
<1>5. FetchCovers' /\ ApplyCovers'
  <2>1. \A r \in Passes \ {s} :
          /\ pc'[r] = "fetch" =>
               \A q \in Pages : Open(q)' /\ q \notin Matching(r)' => InHand(r, q)' \/ Stored(q)'
          /\ pc'[r] = "apply" =>
               \A q \in Pages : Open(q)' /\ GonePast(r, q)' => InHand(r, q)' \/ Stored(q)'
    BY <1>2, <1>3, <1>4, OtherPass
  <2> QED BY <1>3, <2>1 DEF FetchCovers, ApplyCovers
<1>6. CursorStored' /\ cursor' <= seen
  <2>1. CASE cursor' = cursor
    BY <1>1, <1>2, <1>4, <2>1 DEF CursorStored, Bounded
  <2>2. CASE cursor' # cursor
    <3>1. pc[s] = "apply" /\ queue[s] = <<>> /\ cursor' = high[s]
      BY <2>2 DEF WriteCursor, PoisonPage, PassFails, GiveUp
    <3>2. Len(queue[s]) = 0 /\ 1 .. 0 = {}
      BY <3>1
    <3>3. \A q \in Pages : ~InHand(s, q)
      BY <3>2 DEF InHand
    <3>4. \A q \in Pages : Open(q) /\ pages[q].edited <= high[s] => Stored(q)
      BY <1>1, <3>1, <3>3 DEF ApplyCovers, GonePast
    <3> QED BY <1>1, <1>2, <1>4, <3>1, <3>4 DEF CursorStored, Bounded
  <2> QED BY <2>1, <2>2
<1>7. Bounded'
  <2>1. 0 <= seen /\ Len(<<>>) = 0 /\ 1 .. 0 = {}
    BY <1>1 DEF Typed
  <2>2. \A i \in 1 .. Len(queue'[s]) : queue'[s][i].version.edited <= seen
    BY <1>3, <2>1
  <2> QED BY <1>1, <1>2, <1>3, <1>6, <2>1, <2>2 DEF Bounded
<1> QED BY <1>5, <1>6, <1>7 DEF Covers

\* The first page leaves the queue; its edit time counts.  The page itself is
\* missed, or stored, or was edited since.
LEMMA ConsumeKeeps ==
  ASSUME CoverInv, NEW s \in Passes, pc[s] = "apply", queue[s] # <<>>,
         NEW p \in Pages, p = Head(queue[s]).id, Consume(s, Head(queue[s]).version.edited),
         UNCHANGED <<link, pages, cursor, pc, since, seen>>,
         \A q \in Pages \ {p} : (Open(q)' <=> Open(q)) /\ (Stored(q) => Stored(q)'),
         Open(p)' => Stored(p)' \/ pages[p].edited > seen
  PROVE  Covers'
<1> DEFINE h == Head(queue[s])
<1>1. Typed /\ CursorStored /\ FetchCovers /\ ApplyCovers /\ Bounded
  BY DEF CoverInv, MirrorInv, Covers
<1>2. /\ queue[s] \in Seq(Fetched) /\ Len(queue[s]) \in Nat
      /\ h = queue[s][1] /\ 1 \in 1 .. Len(queue[s])
      /\ Len(Tail(queue[s])) = Len(queue[s]) - 1
      /\ \A i \in 1 .. Len(Tail(queue[s])) : Tail(queue[s])[i] = queue[s][i + 1]
  BY <1>1, QueueParts
<1>3. /\ queue'[s] = Tail(queue[s]) /\ high'[s] = Raised(high[s], h.version.edited)
      /\ \A r \in Passes \ {s} : queue'[r] = queue[r] /\ high'[r] = high[r]
  BY <1>1 DEF Consume, Typed
<1>4. p = h.id
  OBVIOUS
<1> HIDE DEF h
<1>5. \A i \in 1 .. Len(queue'[s]) : i + 1 \in 1 .. Len(queue[s]) /\ queue'[s][i] = queue[s][i + 1]
  BY <1>2, <1>3
<1>6. \A i \in 1 .. Len(queue[s]) : i = 1 \/ (i - 1 \in 1 .. Len(queue'[s]) /\ queue'[s][i - 1] = queue[s][i])
  BY <1>2, <1>3
<1>7. /\ seen \in Nat /\ cursor \in Nat /\ high[s] \in Nat
      /\ \A q \in Pages : pages[q].edited \in Nat
      /\ \A i \in 1 .. Len(queue[s]) : queue[s][i].version.edited \in Nat
  <2>1. \A i \in 1 .. Len(queue[s]) : queue[s][i].version.edited \in Nat
    BY <1>1, FetchedType, NotionAssumption DEF Versions
  <2>2. \A q \in Pages : pages[q].edited \in Nat
    BY <1>1, NotionAssumption DEF Typed, Versions
  <2> QED BY <1>1, <2>1, <2>2, NotionAssumption DEF Typed
<1>8. CursorStored'
  BY <1>1, <1>7 DEF CursorStored, Bounded
<1>9. \A r \in Passes \ {s} :
        /\ pc'[r] = "fetch" =>
             \A q \in Pages : Open(q)' /\ q \notin Matching(r)' => InHand(r, q)' \/ Stored(q)'
        /\ pc'[r] = "apply" =>
             \A q \in Pages : Open(q)' /\ GonePast(r, q)' => InHand(r, q)' \/ Stored(q)'
  BY <1>3, OtherPass
<1>10. \A i \in 1 .. Len(queue'[s]) : queue'[s][i].version.edited <= seen
  BY <1>1, <1>5 DEF Bounded
<1>11. high'[s] <= seen
  BY <1>1, <1>2, <1>3 DEF Bounded, Raised
<1>12. ASSUME NEW q \in Pages, Open(q)', GonePast(s, q)'
       PROVE  InHand(s, q)' \/ Stored(q)'
  <2>1. CASE q = p
    <3>1. \A i \in 1 .. Len(queue'[s]) : queue'[s][i].version.edited \in Nat
      BY <1>5, <1>7
    <3>2. high'[s] \in Nat
      BY <1>2, <1>3, <1>7 DEF Raised
    <3>3. ~(pages[p].edited > seen)
      BY <1>7, <1>10, <1>11, <1>12, <2>1, <3>1, <3>2 DEF GonePast
    <3> QED BY <1>12, <2>1, <3>3
  <2>2. CASE q # p
    <3>1. GonePast(s, q)
      <4>1. CASE pages[q].edited <= high'[s]
        BY <1>2, <1>3, <4>1 DEF GonePast, Raised
      <4>2. CASE \E i \in 1 .. Len(queue'[s]) : pages[q].edited <= queue'[s][i].version.edited
        BY <1>5, <4>2 DEF GonePast
      <4> QED BY <1>12, <4>1, <4>2 DEF GonePast
    <3>2. InHand(s, q) \/ Stored(q)
      BY <1>1, <1>12, <2>2, <3>1 DEF ApplyCovers
    <3>3. InHand(s, q) => InHand(s, q)'
      BY <1>2, <1>4, <1>6, <2>2 DEF InHand
    <3> QED BY <2>2, <3>2, <3>3
  <2> QED BY <2>1, <2>2
<1>13. FetchCovers' /\ ApplyCovers'
  BY <1>9, <1>12 DEF FetchCovers, ApplyCovers
<1>14. Bounded'
  <2>1. \A r \in Passes : high'[r] <= seen /\ \A i \in 1 .. Len(queue'[r]) : queue'[r][i].version.edited <= seen
    BY <1>1, <1>3, <1>10, <1>11 DEF Bounded
  <2>2. \A r \in Passes : pc[r] = "idle" => queue'[r] = <<>>
    BY <1>1, <1>3 DEF Bounded
  <2> QED BY <1>1, <2>1, <2>2 DEF Bounded
<1> QED BY <1>8, <1>13, <1>14 DEF Covers

LEMMA PassKeeps ==
  ASSUME CoverInv, NEW s \in Passes, Pass(s) \/ PassFails(s)
  PROVE  Covers'
<1>1. Typed /\ Mirrors
  BY DEF CoverInv, MirrorInv
<1>2. ASSUME queue[s] # <<>>
      PROVE  \E p \in Pages, v \in Versions : p = Head(queue[s]).id /\ v = Head(queue[s]).version
  <2>1. Head(queue[s]) = queue[s][1] /\ 1 \in 1 .. Len(queue[s])
    BY <1>1, <1>2, QueueParts
  <2> QED BY <1>1, <2>1, FetchedType
<1>3. CASE SkipPage(s)
  <2>1. PICK p \in Pages, v \in Versions : p = Head(queue[s]).id /\ v = Head(queue[s]).version
    BY <1>2, <1>3 DEF SkipPage
  <2>2. /\ pc[s] = "apply" /\ queue[s] # <<>> /\ Consume(s, v.edited)
        /\ missed' = missed \union {p}
        /\ UNCHANGED <<rows, link, pages, cursor, pc, since, seen>>
    BY <1>3, <2>1 DEF SkipPage
  <2>3. /\ \A q \in Pages \ {p} : (Open(q)' <=> Open(q)) /\ (Stored(q) => Stored(q)')
        /\ ~Open(p)'
    BY <2>2 DEF Open, Stored
  <2> QED BY <2>1, <2>2, <2>3, ConsumeKeeps
<1>4. CASE ApplyPage(s)
  <2>1. PICK p \in Pages, v \in Versions : p = Head(queue[s]).id /\ v = Head(queue[s]).version
    BY <1>2, <1>4 DEF ApplyPage
  <2>2. /\ pc[s] = "apply" /\ queue[s] # <<>> /\ Consume(s, v.edited)
        /\ missed' = IF v = pages[p] THEN missed \ {p}
                     ELSE IF pages[p].edited <= seen THEN missed \union {p} ELSE missed
        /\ UNCHANGED <<link, pages, cursor, pc, since, seen>>
    BY <1>4, <2>1 DEF ApplyPage
  <2>3. PICK e \in Exps : link[e] = p /\ rows' = [rows EXCEPT ![e] = Updated(@, v)]
    BY <1>4, <2>1 DEF ApplyPage, Owners
  <2>4. rows'[e] = Updated(rows[e], v) /\ \A f \in Exps \ {e} : rows'[f] = rows[f]
    BY <1>1, <2>3 DEF Typed
  <2>5. \A q \in Pages \ {p} : (Open(q)' <=> Open(q)) /\ (Stored(q) => Stored(q)')
    BY <2>2, <2>3, <2>4 DEF Open, Stored
  <2>6. Open(p)' => Stored(p)' \/ pages[p].edited > seen
    <3>1. CASE v = pages[p]
      <4>1. rows[e] \in RowType
        BY <1>1 DEF Typed
      <4>2. Diff(rows'[e], v) = {}
        BY <2>4, <4>1, UpdatedStored
      <4> QED BY <2>2, <2>3, <3>1, <4>2 DEF Stored
    <3>2. CASE v # pages[p]
      <4>1. pages[p].edited \in Nat /\ seen \in Nat
        BY <1>1, NotionAssumption DEF Typed, Versions
      <4>2. Open(p)' => ~(pages[p].edited <= seen)
        BY <2>2, <3>2 DEF Open
      <4> QED BY <4>1, <4>2
    <3> QED BY <3>1, <3>2
  <2> QED BY <2>1, <2>2, <2>5, <2>6, ConsumeKeeps
<1> QED BY <1>3, <1>4, StartKeeps, FetchKeeps, LeaveKeeps DEF Pass

LEMMA CoverStep == CoverInv /\ [Next]_vars => CoverInv'
<1> SUFFICES ASSUME CoverInv, [Next]_vars PROVE CoverInv'
  OBVIOUS
<1>1. MirrorInv'
  BY MirrorStep DEF CoverInv
<1>2. Typed
  BY DEF CoverInv, MirrorInv
<1>3. CASE Tick \/ UNCHANGED vars
  <2>1. UNCHANGED <<rows, link, pages, cursor, pc, since, high, queue, seen, missed>>
    BY <1>3 DEF Tick, vars, passVars
  <2>2. CursorStored' /\ Bounded'
    BY <2>1 DEF CoverInv, Covers, CursorStored, Bounded, Open, Stored
  <2>3. \A s \in Passes, p \in Pages :
          /\ Matching(s)' = Matching(s)
          /\ (InHand(s, p)' <=> InHand(s, p)) /\ (GonePast(s, p)' <=> GonePast(s, p))
          /\ (Open(p)' <=> Open(p)) /\ (Stored(p)' <=> Stored(p))
    BY <2>1 DEF Matching, InHand, GonePast, Open, Stored
  <2>4. FetchCovers' /\ ApplyCovers'
    BY <2>1, <2>3 DEF CoverInv, Covers, FetchCovers, ApplyCovers
  <2> QED BY <1>1, <2>2, <2>4 DEF CoverInv, Covers
<1>4. ASSUME NEW p \in Pages, Edit(p) PROVE Covers'
  <2>1. /\ UNCHANGED <<rows, link, queue, cursor, pc, since, high, seen>> /\ missed' = Shadow(p)
    BY <1>4 DEF Edit, passVars
  <2> QED BY <1>2, <1>4, <2>1, EditStamps, StampCovers
<1>5. ASSUME NEW e \in Exps, NEW p \in Pages, CreatePage(e, p) PROVE Covers'
  <2> DEFINE v == Written(BuildProperties(rows[e]), clock)
  <2>1. /\ UNCHANGED <<rows, link, queue, cursor, pc, since, high, seen>> /\ missed' = Shadow(p)
        /\ pages' = [pages EXCEPT ![p] = v]
    BY <1>5 DEF CreatePage, passVars
  <2>2. v.edited = clock
    BY DEF Written
  <2> HIDE DEF v
  <2>3. pages'[p].edited = clock /\ \A q \in Pages \ {p} : pages'[q] = pages[q]
    BY <1>2, <2>1, <2>2 DEF Typed
  <2> QED BY <2>1, <2>3, StampCovers
<1> QED BY <1>1, <1>3, <1>4, <1>5, LinkCovers, PassKeeps DEF CoverInv, Next, Recorder

(* No edit of a linked page is lost behind the cursor: with any number of    *)
(* pullers that overlap, fail at any point, meet a value they cannot store   *)
(* or stop, a page edited no later than last_synced_at is in the database,   *)
(* but for the pages in missed (sync_once: fetch, apply each, write cursor). *)
THEOREM NothingBehindCursor == Spec => []CursorCovers
<1>1. CoverInv => CursorCovers
  <2> SUFFICES ASSUME CoverInv, NEW e \in Exps, Mirrored(e), link[e] \notin missed,
                      pages[link[e]].edited <= cursor
               PROVE  Reflected(e)
    BY DEF CursorCovers
  <2>1. Typed /\ Mirrors /\ CursorStored
    BY DEF CoverInv, MirrorInv, Covers
  <2>2. link[e] \in Pages
    BY <2>1 DEF Mirrored, Typed
  <2>3. Open(link[e])
    BY <2>1, <2>2 DEF Mirrors, Owns, Mirrored, Open
  <2>4. PICK f \in Exps : link[f] = link[e] /\ Diff(rows[f], pages[link[e]]) = {}
    BY <2>1, <2>2, <2>3 DEF CursorStored, Stored
  <2>5. f = e
    BY <2>1, <2>2, <2>4 DEF Mirrors, Owns
  <2> QED BY <2>4, <2>5 DEF Reflected
<1> QED BY <1>1, InitCovers, CoverStep, PTL DEF Spec
-----------------------------------------------------------------------------
(* What a pass brings home.  When its listing is exhausted, every open page  *)
(* edited before it began is in its hands or stored, and some query has      *)
(* returned its edit time: so another pass that writes an older version over *)
(* it records it as missed.                                                  *)

Swept ==
  \A s \in Passes : pc[s] = "apply" =>
    \A p \in Pages : Open(p) /\ pages[p].edited < began[s] =>
      pages[p].edited <= seen /\ (InHand(s, p) \/ Stored(p))

BegunBefore == \A s \in Passes : began[s] <= clock

SweepInv == CoverInv /\ Swept /\ BegunBefore

LEMMA InitSweeps == Init => SweepInv
<1> SUFFICES ASSUME Init PROVE SweepInv
  OBVIOUS
<1>1. CoverInv
  BY InitCovers
<1>2. \A s \in Passes : pc[s] = "idle" /\ began[s] = 0
  BY DEF Init
<1>3. clock = 1
  BY DEF Init
<1> QED BY <1>1, <1>2, <1>3 DEF SweepInv, Swept, BegunBefore

LEMMA EditTimes ==
  ASSUME Typed
  PROVE  /\ clock \in Nat /\ seen \in Nat
         /\ \A s \in Passes : began[s] \in Nat /\ since[s] \in Nat
         /\ \A p \in Pages : pages[p].edited \in Nat
<1>1. ASSUME NEW p \in Pages PROVE pages[p].edited \in 0 .. MaxClock
  <2>1. PICK v \in Versions : v = pages[p]
    BY DEF Typed
  <2> QED BY <2>1 DEF Versions
<1>2. clock \in Nat /\ seen \in Nat
  BY NotionAssumption DEF Typed
<1>3. \A s \in Passes : began[s] \in 0 .. MaxClock /\ since[s] \in 0 .. MaxClock
  BY DEF Typed
<1>4. \A t \in 0 .. MaxClock : t \in Nat
  BY NotionAssumption
<1> QED BY <1>1, <1>2, <1>3, <1>4

\* A page that was just stamped was not edited before any pass began.
LEMMA StampSweeps ==
  ASSUME SweepInv, NEW p \in Pages, pages'[p].edited = clock,
         \A q \in Pages \ {p} : pages'[q] = pages[q], missed' = Shadow(p),
         UNCHANGED <<clock, rows, link, passVars, seen>>
  PROVE  Swept' /\ BegunBefore'
<1>1. Typed /\ Swept /\ BegunBefore
  BY DEF SweepInv, CoverInv, MirrorInv
<1>2. UNCHANGED <<pc, queue, began>>
  BY DEF passVars
<1>3. \A q \in Pages \ {p} : /\ (Open(q)' <=> Open(q)) /\ (Stored(q)' <=> Stored(q))
                             /\ \A s \in Passes : InHand(s, q)' <=> InHand(s, q)
  BY <1>2 DEF Shadow, Open, Stored, InHand
<1>4. \A s \in Passes : ~(pages'[p].edited < began'[s])
  BY <1>1, <1>2, EditTimes DEF BegunBefore
<1>5. Swept'
  <2> SUFFICES ASSUME NEW s \in Passes, pc'[s] = "apply", NEW q \in Pages,
                      Open(q)', pages'[q].edited < began'[s]
               PROVE  pages'[q].edited <= seen' /\ (InHand(s, q)' \/ Stored(q)')
    BY DEF Swept
  <2>1. q # p
    BY <1>4
  <2> QED BY <1>1, <1>2, <1>3, <2>1 DEF Swept
<1> QED BY <1>1, <1>2, <1>5 DEF BegunBefore

LEMMA LinkSweeps ==
  ASSUME SweepInv, NEW e \in Exps, LinkPage(e) \/ LoseLink(e)
  PROVE  Swept' /\ BegunBefore'
<1>1. UNCHANGED <<clock, rows, pages, queue, pc, began, seen, missed>>
  BY DEF LinkPage, LoseLink, passVars
<1>2. \A f \in Exps : link[f] # None => link'[f] = link[f]
  BY DEF LinkPage, LoseLink, SweepInv, CoverInv, MirrorInv, Mirrors, Typed
<1>3. \A p \in Pages : Stored(p) => Stored(p)'
  BY <1>1, <1>2, NotionAssumption DEF Stored
<1>4. \A p \in Pages : (Open(p)' <=> Open(p)) /\ \A s \in Passes : InHand(s, p)' <=> InHand(s, p)
  BY <1>1 DEF Open, InHand
<1>5. Swept'
  BY <1>1, <1>3, <1>4 DEF SweepInv, Swept
<1> QED BY <1>1, <1>5 DEF SweepInv, BegunBefore

\* A pass that begins, fetches or ends says nothing of what other passes swept.
LEMMA MoveSweeps ==
  ASSUME SweepInv, NEW r \in Passes,
         Begin(r) \/ Fetch(r) \/ WriteCursor(r) \/ PoisonPage(r) \/ PassFails(r)
  PROVE  Swept' /\ BegunBefore'
<1>1. Typed /\ Swept /\ BegunBefore
  BY DEF SweepInv, CoverInv, MirrorInv
<1>2. /\ UNCHANGED <<clock, rows, link, pages, missed>>
      /\ \A s \in Passes \ {r} : pc'[s] = pc[s] /\ queue'[s] = queue[s] /\ began'[s] = began[s]
      /\ pc'[r] # "apply" /\ (began'[r] = began[r] \/ began'[r] = 0 \/ began'[r] = clock)
  <2>1. CASE Begin(r)
    BY <1>1, <2>1 DEF Begin, Typed
  <2>2. CASE Fetch(r)
    <3>1. \A s \in Passes \ {r} : queue'[s] = queue[s]
      BY <1>1, <2>2 DEF Fetch, Typed
    <3> QED BY <2>2, <3>1 DEF Fetch
  <2>3. CASE WriteCursor(r) \/ PoisonPage(r) \/ PassFails(r)
    <3>1. Leave(r) /\ UNCHANGED <<clock, rows, link, pages, missed>>
      BY <2>3 DEF WriteCursor, PoisonPage, PassFails, GiveUp
    <3> QED BY <1>1, <3>1 DEF Leave, Typed
  <2> QED BY <2>1, <2>2, <2>3
<1>3. seen' \in Nat /\ seen <= seen'
  <2>1. seen \in Nat /\ \A p \in Pages : pages[p].edited \in Nat
    BY <1>1, EditTimes
  <2>2. CASE Fetch(r)
    <3>1. PICK p \in Pages : seen' = IF pages[p].edited > seen THEN pages[p].edited ELSE seen
      BY <2>2 DEF Fetch, Matching
    <3> QED BY <2>1, <3>1
  <2>3. CASE ~Fetch(r)
    BY <2>1, <2>3 DEF Begin, WriteCursor, PoisonPage, PassFails, GiveUp
  <2> QED BY <2>2, <2>3
<1>4. \A q \in Pages : /\ (Open(q)' <=> Open(q)) /\ (Stored(q)' <=> Stored(q))
                       /\ \A s \in Passes \ {r} : InHand(s, q)' <=> InHand(s, q)
  BY <1>2 DEF Open, Stored, InHand
<1>5. Swept'
  <2> SUFFICES ASSUME NEW s \in Passes, pc'[s] = "apply", NEW q \in Pages,
                      Open(q)', pages'[q].edited < began'[s]
               PROVE  pages'[q].edited <= seen' /\ (InHand(s, q)' \/ Stored(q)')
    BY DEF Swept
  <2>1. s # r
    BY <1>2
  <2>2. pages[q].edited <= seen /\ (InHand(s, q) \/ Stored(q))
    BY <1>1, <1>2, <1>4, <2>1 DEF Swept
  <2>3. pages[q].edited \in Nat /\ seen \in Nat
    BY <1>1, EditTimes
  <2> QED BY <1>2, <1>3, <1>4, <2>1, <2>2, <2>3
<1>6. BegunBefore'
  BY <1>1, <1>2, EditTimes DEF BegunBefore
<1> QED BY <1>5, <1>6

\* The listing is exhausted: a page later than all that was seen would be in it.
LEMMA DoneSweeps ==
  ASSUME SweepInv, NEW r \in Passes, FetchDone(r)
  PROVE  Swept' /\ BegunBefore'
<1>1. Typed /\ FetchCovers /\ Bounded /\ Swept /\ BegunBefore
  BY DEF SweepInv, CoverInv, MirrorInv, Covers
<1>2. /\ pc[r] = "fetch" /\ Matching(r) = {}
      /\ UNCHANGED <<clock, rows, link, pages, queue, began, seen, missed>>
      /\ \A s \in Passes \ {r} : pc'[s] = pc[s]
  BY <1>1 DEF FetchDone, Typed
<1>3. ASSUME NEW q \in Pages, Open(q) PROVE pages[q].edited <= seen
  <2> SUFFICES ASSUME ~(pages[q].edited <= seen) PROVE q \in Matching(r)
    BY <1>2
  <2>1. pages[q].edited \in Nat /\ seen \in Nat /\ since[r] \in Nat
    BY <1>1, EditTimes
  <2>2. pages[q].marked /\ pages[q].edited > since[r]
    BY <1>1, <1>3, <2>1 DEF Open, Bounded
  <2>3. ASSUME queue[r] # <<>> PROVE queue[r][Len(queue[r])].version.edited < pages[q].edited
    <3>1. Len(queue[r]) \in 1 .. Len(queue[r])
      BY <1>1, <2>3, QueueParts
    <3>2. queue[r][Len(queue[r])].version \in Versions
      BY <1>1, <3>1, FetchedType
    <3>3. queue[r][Len(queue[r])].version.edited \in Nat
      BY <3>2, NotionAssumption DEF Versions
    <3>4. queue[r][Len(queue[r])].version.edited <= seen
      BY <1>1, <3>1 DEF Bounded
    <3> QED BY <2>1, <3>3, <3>4
  <2> QED BY <2>2, <2>3 DEF Matching
<1>4. \A q \in Pages : Open(q) => InHand(r, q) \/ Stored(q)
  BY <1>1, <1>2 DEF FetchCovers
<1>5. \A q \in Pages : /\ (Open(q)' <=> Open(q)) /\ (Stored(q)' <=> Stored(q))
                       /\ \A s \in Passes : InHand(s, q)' <=> InHand(s, q)
  BY <1>2 DEF Open, Stored, InHand
<1>6. Swept'
  BY <1>1, <1>2, <1>3, <1>4, <1>5 DEF Swept
<1> QED BY <1>1, <1>2, <1>6 DEF BegunBefore

\* A page leaves a queue: it is missed, or stored, or later than all that was
\* seen, and then not edited before a pass that has listed everything began.
LEMMA ConsumeSweeps ==
  ASSUME SweepInv, NEW r \in Passes, queue[r] # <<>>,
         NEW p \in Pages, p = Head(queue[r]).id, NEW t, Consume(r, t),
         UNCHANGED <<clock, pages, pc, began, seen>>,
         \A q \in Pages \ {p} : (Open(q)' <=> Open(q)) /\ (Stored(q) => Stored(q)'),
         Open(p)' => \/ Stored(p)' /\ pages[p].edited <= seen
                     \/ Open(p) /\ ~(pages[p].edited <= seen)
  PROVE  Swept' /\ BegunBefore'
<1>1. Typed /\ Swept /\ BegunBefore
  BY DEF SweepInv, CoverInv, MirrorInv
<1>2. /\ Len(queue[r]) \in Nat /\ Len(Tail(queue[r])) = Len(queue[r]) - 1
      /\ Head(queue[r]) = queue[r][1]
      /\ \A i \in 1 .. Len(Tail(queue[r])) : Tail(queue[r])[i] = queue[r][i + 1]
  BY <1>1, QueueParts
<1>3. queue'[r] = Tail(queue[r]) /\ \A s \in Passes \ {r} : queue'[s] = queue[s]
  BY <1>1 DEF Consume, Typed
<1>4. \A i \in 1 .. Len(queue[r]) :
        i = 1 \/ (i - 1 \in 1 .. Len(queue'[r]) /\ queue'[r][i - 1] = queue[r][i])
  BY <1>2, <1>3
<1>5. ASSUME NEW s \in Passes, NEW q \in Pages \ {p}, InHand(s, q) PROVE InHand(s, q)'
  <2>1. CASE s = r
    BY <1>2, <1>4, <1>5, <2>1 DEF InHand
  <2>2. CASE s # r
    BY <1>3, <1>5, <2>2 DEF InHand
  <2> QED BY <2>1, <2>2
<1>6. Swept'
  <2> SUFFICES ASSUME NEW s \in Passes, pc[s] = "apply", NEW q \in Pages,
                      Open(q)', pages[q].edited < began[s]
               PROVE  pages[q].edited <= seen /\ (InHand(s, q)' \/ Stored(q)')
    BY DEF Swept
  <2>1. CASE q = p
    BY <1>1, <2>1 DEF Swept
  <2>2. CASE q # p
    BY <1>1, <1>5, <2>2 DEF Swept
  <2> QED BY <2>1, <2>2
<1> QED BY <1>1, <1>6 DEF BegunBefore

LEMMA ApplySweeps ==
  ASSUME SweepInv, NEW r \in Passes, SkipPage(r) \/ ApplyPage(r)
  PROVE  Swept' /\ BegunBefore'
<1>1. Typed /\ Bounded
  BY DEF SweepInv, CoverInv, MirrorInv, Covers
<1>2. queue[r] # <<>>
  BY DEF SkipPage, ApplyPage
<1>3. PICK i \in 1 .. Len(queue[r]) : Head(queue[r]) = queue[r][i]
  BY <1>1, <1>2, QueueParts
<1>4. PICK p \in Pages, v \in Versions : p = Head(queue[r]).id /\ v = Head(queue[r]).version
  BY <1>1, <1>3, FetchedType
<1>5. CASE SkipPage(r)
  <2>1. /\ Consume(r, v.edited) /\ missed' = missed \union {p}
        /\ UNCHANGED <<clock, rows, link, pages, pc, began, seen>>
    BY <1>4, <1>5 DEF SkipPage
  <2>2. /\ \A q \in Pages \ {p} : (Open(q)' <=> Open(q)) /\ (Stored(q) => Stored(q)')
        /\ ~Open(p)'
    BY <2>1 DEF Open, Stored
  <2> QED BY <1>2, <1>4, <2>1, <2>2, ConsumeSweeps
<1>6. CASE ApplyPage(r)
  <2>1. /\ Consume(r, v.edited)
        /\ missed' = IF v = pages[p] THEN missed \ {p}
                     ELSE IF pages[p].edited <= seen THEN missed \union {p} ELSE missed
        /\ UNCHANGED <<clock, link, pages, pc, began, seen>>
    BY <1>4, <1>6 DEF ApplyPage
  <2>2. PICK e \in Exps : link[e] = p /\ rows' = [rows EXCEPT ![e] = Updated(@, v)]
    BY <1>4, <1>6 DEF ApplyPage, Owners
  <2>3. rows[e] \in RowType
    BY <1>1 DEF Typed
  <2>4. rows'[e] = Updated(rows[e], v) /\ \A f \in Exps \ {e} : rows'[f] = rows[f]
    BY <1>1, <2>2 DEF Typed
  <2>5. \A q \in Pages \ {p} : (Open(q)' <=> Open(q)) /\ (Stored(q) => Stored(q)')
    BY <2>1, <2>2, <2>4 DEF Open, Stored
  <2>6. Open(p)' => \/ Stored(p)' /\ pages[p].edited <= seen
                    \/ Open(p) /\ ~(pages[p].edited <= seen)
    <3>1. CASE v = pages[p]
      <4>1. Stored(p)'
        BY <2>1, <2>2, <2>3, <2>4, <3>1, UpdatedStored DEF Stored
      <4>2. pages[p].edited <= seen
        BY <1>1, <1>3, <1>4, <3>1 DEF Bounded
      <4> QED BY <4>1, <4>2
    <3>2. CASE v # pages[p]
      BY <2>1, <3>2 DEF Open
    <3> QED BY <3>1, <3>2
  <2> QED BY <1>2, <1>4, <2>1, <2>5, <2>6, ConsumeSweeps
<1> QED BY <1>5, <1>6

LEMMA SweepStep == SweepInv /\ [Next]_vars => SweepInv'
<1> SUFFICES ASSUME SweepInv, [Next]_vars PROVE SweepInv'
  OBVIOUS
<1>1. CoverInv' /\ Typed
  BY CoverStep DEF SweepInv, CoverInv, MirrorInv
<1>2. CASE Tick \/ UNCHANGED vars
  <2>1. UNCHANGED <<rows, link, pages, pc, queue, began, seen, missed>>
        /\ (clock' = clock \/ clock' = clock + 1)
    BY <1>2 DEF Tick, vars, passVars
  <2>2. \A q \in Pages : /\ (Open(q)' <=> Open(q)) /\ (Stored(q)' <=> Stored(q))
                         /\ \A s \in Passes : InHand(s, q)' <=> InHand(s, q)
    BY <2>1 DEF Open, Stored, InHand
  <2>3. Swept'
    BY <2>1, <2>2 DEF SweepInv, Swept
  <2>4. BegunBefore'
    BY <1>1, <2>1, EditTimes DEF SweepInv, BegunBefore
  <2> QED BY <1>1, <2>3, <2>4 DEF SweepInv
<1>3. ASSUME NEW p \in Pages, Edit(p) PROVE Swept' /\ BegunBefore'
  <2>1. UNCHANGED <<clock, rows, link, passVars, seen>> /\ missed' = Shadow(p)
    BY <1>3 DEF Edit
  <2> QED BY <1>1, <1>3, <2>1, EditStamps, StampSweeps
<1>4. ASSUME NEW e \in Exps, NEW p \in Pages, CreatePage(e, p) PROVE Swept' /\ BegunBefore'
  <2> DEFINE v == Written(BuildProperties(rows[e]), clock)
  <2>1. /\ UNCHANGED <<clock, rows, link, passVars, seen>> /\ missed' = Shadow(p)
        /\ pages' = [pages EXCEPT ![p] = v]
    BY <1>4 DEF CreatePage
  <2>2. v.edited = clock
    BY DEF Written
  <2> HIDE DEF v
  <2>3. pages'[p].edited = clock /\ \A q \in Pages \ {p} : pages'[q] = pages[q]
    BY <1>1, <2>1, <2>2 DEF Typed
  <2> QED BY <2>1, <2>3, StampSweeps
<1> QED BY <1>1, <1>2, <1>3, <1>4, LinkSweeps, MoveSweeps, DoneSweeps, ApplySweeps
        DEF SweepInv, Next, Recorder, Pass

(* A pass that has applied all it listed has brought home every edit made    *)
(* before it began, whatever people edit while it reads and whatever other   *)
(* passes write, but for the pages in missed (_fetch_recent_pages follows    *)
(* has_more to the end of the listing).                                      *)
THEOREM PassBringsHome == Spec => []PassPullsAll
<1>1. SweepInv => PassPullsAll
  <2> SUFFICES ASSUME SweepInv, NEW s \in Passes, NEW e \in Exps,
                      pc[s] = "apply", queue[s] = <<>>, Mirrored(e), link[e] \notin missed,
                      pages[link[e]].edited < began[s]
               PROVE  Reflected(e)
    BY DEF PassPullsAll
  <2>1. Typed /\ Mirrors /\ Swept
    BY DEF SweepInv, CoverInv, MirrorInv
  <2>2. link[e] \in Pages
    BY <2>1 DEF Mirrored, Typed
  <2>3. Open(link[e])
    BY <2>1, <2>2 DEF Mirrors, Owns, Mirrored, Open
  <2>4. Len(queue[s]) = 0 /\ 1 .. 0 = {}
    OBVIOUS
  <2>5. Stored(link[e])
    BY <2>1, <2>2, <2>3, <2>4 DEF Swept, InHand
  <2>6. PICK f \in Exps : link[f] = link[e] /\ Diff(rows[f], pages[link[e]]) = {}
    BY <2>5 DEF Stored
  <2>7. f = e
    BY <2>1, <2>2, <2>6 DEF Mirrors, Owns
  <2> QED BY <2>6, <2>7 DEF Reflected
<1> QED BY <1>1, InitSweeps, SweepStep, PTL DEF Spec
=============================================================================
