----------------------------- MODULE MCCalendar -----------------------------
(* Instances of CalendarVertical for TLC: an invitation whose attachment may
   not download and is then read by the model, one with a floating time and no
   words, and an empty forward of a file that is no calendar. *)
EXTENDS CalendarVertical, TLC

CONSTANTS m1, m2, m3, u1, null

Zone == "UTC" :> 0 @@ "Asia/Taipei" :> 480 @@ "Asia/Tokyo" :> 540
FirstMinute == -10000
Talk == <<"talk">>
Again == <<"[Reminder]", "Fwd:", "talk">>

At(w, z) == [wall |-> w, tz |-> z]

Invitation == [summary |-> Talk, uid |-> u1, dtstart |-> At(63, "UTC"), dtend |-> At(123, "UTC")]
Floating == [summary |-> Talk, uid |-> None, dtstart |-> At(540, Naive), dtend |-> At(580, Naive)]

Answer(t, w, z, h) == [title |-> t, uid |-> null, hint |-> h,
                       start |-> At(w, z), end |-> At(w + 60, Naive)]

Attached(mime, v) == [mime |-> mime, named |-> FALSE, vevents |-> v]
Plain == [attachments |-> <<>>, inline |-> <<>>, empty |-> FALSE, signals |-> {}, answers |-> {}]

Inbox ==
    m1 :> [Plain EXCEPT !.attachments = <<Attached("application/pdf", <<>>),
                                          Attached("application/ics", <<Invitation>>)>>,
                        !.signals = {"time"},
                        !.answers = {Answer(Again, 540, "UTC", null), Answer(Talk, 600, Naive, "Asia/Tokyo"),
                                     [Answer(Talk, 540, Naive, null) EXCEPT !.end.wall = 480],
                                     Answer(Talk, 600, Naive, "/Asia/Tokyo"), Answer(Talk, -9900, Naive, null),
                                     Answer(Talk, -9000, Naive, null),
                                     Answer(null, 540, Naive, null), None, Failed}] @@
    m2 :> [Plain EXCEPT !.attachments = <<Attached("text/calendar", <<Floating>>)>>] @@
    m3 :> [Plain EXCEPT !.attachments = <<[Attached("text/plain", <<>>) EXCEPT !.named = TRUE]>>,
                        !.empty = TRUE]

Sent == {[summary |-> Talk, uid |-> u1, fp |-> <<>>, msg |-> NoMsg, conflicts |-> {},
          at |-> [from |-> 63, to |-> 123], checked |-> [from |-> 63, to |-> 123]]}

=============================================================================
