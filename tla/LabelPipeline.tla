--------------------------- MODULE LabelPipeline ---------------------------
(* The tools that turn stored classifications into training data for laya, *)
(* each a process over append-only JSONL files: backfill_training_pairs    *)
(* (resumable, may be killed), label_review in a terminal and              *)
(* label_review_web in a browser (v1 menu), both with --output the file of *)
(* verdicts that prepare_training_dataset reads before it splits.          *)
EXTENDS Integers, FiniteSets, SequencesExt, FiniteSetsExt, Taxonomy

CONSTANTS Order,         \* the analyzed messages, by analyzed_at
          Current,       \* their current classification: <<version, category>>
          Earlier,       \* lines an earlier version of the backfill left
          Old,           \* the messages analyzed before the v1.4.1 cutoff
          Menu,          \* the categories the reviewers pick
          Broken, NoVerdict, Nobody,
          FlushEvery,    \* the backfill flushes every 20th row
          MaxErrors,     \* MAX_CONSECUTIVE_ERRORS
          TrainCap,      \* --train-cap
          MaxRuns, MaxVerdicts, MaxFetchErrors   \* bounds

Msgs == ToSet(Order)
AnyCategory == CategoryV1 \cup CategoryV2
PairLines == [msg : Msgs, category : AnyCategory, deleted : BOOLEAN]
Lines == PairLines \cup {Broken}

(* No two lines that parse are of one message. *)
OneEach(lines) ==
  \A i, j \in 1 .. Len(lines) :
    lines[i] # Broken /\ lines[j] # Broken /\ lines[i].msg = lines[j].msg => i = j

ASSUME LabelAssumption ==
  /\ \A m \in Msgs : \E v \in Versions :
       \E c \in Categories(v) : Current[m] = <<v, c>>
  /\ Old \subseteq Msgs /\ Menu \subseteq CategoryV1 /\ Menu # {}
  /\ Order \in Seq(Msgs) /\ IsInjective(Order)
  /\ FlushEvery \in Nat \ {0} /\ MaxErrors \in Nat \ {0}
  /\ MaxRuns \in Nat /\ MaxFetchErrors \in Nat
  /\ Earlier \in Seq(Lines) /\ OneEach(Earlier)
  /\ Broken \notin PairLines /\ NoVerdict \notin AnyCategory
  /\ \A S \in SUBSET Msgs : S # Nobody

VARIABLES
  pairs,      \* training_pairs.jsonl
  torn,       \* its last line has no end yet
  todo,       \* the backfill's remaining rows; Nobody when it is not running
  buffer,     \* lines it has not flushed
  handled, streak,        \* its rows so far, its errors in a row
  verdicts,   \* verified_labels.jsonl
  terminal,   \* the rows label_review still has to show; Nobody when closed
  candidates, \* the rows the web tool was started with; Nobody before
  browser,    \* the queue of the page
  undo,       \* the page's history
  train, test,
  runs, fetchErrors
backfillVars == <<pairs, torn, todo, buffer, handled, streak, runs, fetchErrors>>
reviewVars == <<verdicts, terminal, candidates, browser, undo>>
splitVars == <<train, test>>
labelVars == <<backfillVars, reviewVars, splitVars>>

LabelInit ==
  /\ pairs = Earlier /\ torn = FALSE /\ todo = Nobody /\ buffer = <<>> /\ handled = 0
  /\ streak = 0 /\ verdicts = <<>> /\ terminal = Nobody /\ candidates = Nobody
  /\ browser = {} /\ undo = <<>> /\ train = {} /\ test = {}
  /\ runs = 0 /\ fetchErrors = 0
-----------------------------------------------------------------------------
(* backfill_training_pairs *)

(* email_category_current, the rows that are exact. *)
ExactRows == {m \in Msgs : IsExact(Current[m][1], Current[m][2])}

Line(m, deleted) ==
  [msg |-> m, category |-> MappedTo(Current[m][1], Current[m][2]),
   deleted |-> deleted]

(* MUTANT: a re-run forgets what is there. *)
LoadNothing(lines) == {}

(* Rows and tombstones count as done, a line that does not parse does not. *)
LoadDone(lines) == {l.msg : l \in ToSet(lines) \ {Broken}}

(* Appending to an unfinished line runs the first row into it. *)
Joined(lines) == IF torn /\ lines # <<>> THEN Tail(lines) ELSE lines
Appended(lines) ==
  pairs' = pairs \o Joined(lines) /\ torn' = (torn /\ lines = <<>>)
CutOff(lines) ==
  pairs' = pairs \o Joined(Append(lines, Broken)) /\ torn' = TRUE

BackfillStart ==
  /\ todo = Nobody /\ runs < MaxRuns /\ runs' = runs + 1
  /\ todo' = ExactRows \ LoadDone(pairs)
  /\ handled' = 0 /\ streak' = 0
  /\ UNCHANGED <<pairs, torn, buffer, fetchErrors, reviewVars, splitVars>>

(* One more row of the loop; out.flush() after every FlushEvery-th. *)
Step(lines) ==
  /\ handled' = handled + 1
  /\ IF handled' % FlushEvery = 0
     THEN Appended(lines) /\ buffer' = <<>>
     ELSE buffer' = lines /\ UNCHANGED <<pairs, torn>>

(* The rows come by analyzed_at. *)
IsNext(m) ==
  /\ m \in todo
  /\ \E i \in DOMAIN Order : Order[i] = m /\ \A j \in 1 .. i - 1 : Order[j] \notin todo

(* The message is fetched, or Gmail answers 404. *)
Fetch ==
  /\ todo # Nobody /\ streak' = 0
  /\ \E m \in todo, deleted \in BOOLEAN :
       IsNext(m) /\ todo' = todo \ {m} /\ Step(Append(buffer, Line(m, deleted)))
  /\ UNCHANGED <<runs, fetchErrors, reviewVars, splitVars>>

(* A transient error writes nothing; too many in a row end the run. *)
FetchError ==
  /\ todo # Nobody /\ todo # {} /\ fetchErrors < MaxFetchErrors
  /\ fetchErrors' = fetchErrors + 1 /\ streak' = streak + 1
  /\ IF streak + 1 >= MaxErrors
     THEN todo' = {} /\ UNCHANGED <<pairs, torn, buffer, handled>>
     ELSE (\E m \in todo : IsNext(m) /\ todo' = todo \ {m}) /\ Step(buffer)
  /\ UNCHANGED <<runs, reviewVars, splitVars>>

BackfillEnd ==
  /\ todo = {} /\ todo' = Nobody /\ Appended(buffer) /\ buffer' = <<>>
  /\ UNCHANGED <<handled, streak, runs, fetchErrors, reviewVars, splitVars>>

(* Killed: some of the buffer reached the file, perhaps up to mid-line. *)
Kill ==
  /\ todo # Nobody /\ todo' = Nobody /\ buffer' = <<>>
  /\ \E k \in 0 .. Len(buffer) :
       \/ Appended(SubSeq(buffer, 1, k))
       \/ k < Len(buffer) /\ CutOff(SubSeq(buffer, 1, k))
  /\ UNCHANGED <<handled, streak, runs, fetchErrors, reviewVars, splitVars>>
-----------------------------------------------------------------------------
(* The verdicts.  Every other tool parses each line of the pairs and ends  *)
(* with an error at one that is broken.                                    *)

Readable == \A i \in DOMAIN pairs : pairs[i] # Broken
Done == {v.msg : v \in ToSet(verdicts)}

(* The last record of a message counts. *)
Verdict(m) ==
  LET mine == {i \in DOMAIN verdicts : verdicts[i].msg = m}
  IN  IF mine = {} THEN NoVerdict ELSE verdicts[Max(mine)].verified

Record(m, c) ==
  /\ Len(verdicts) < MaxVerdicts
  /\ verdicts' = Append(verdicts, [msg |-> m, verified |-> c])

Pairs == {i \in DOMAIN pairs : pairs[i] # Broken /\ ~pairs[i].deleted}

(* Lectures of before the cutoff; only earlier lines name that category. *)
IsSuspect(line) == line.category = "event_info" /\ line.msg \in Old

(* label_review.py: the pool is read once, when the session starts. *)
OpenTerminal ==
  /\ terminal = Nobody /\ Readable
  /\ \E suspectOnly \in BOOLEAN :
       terminal' = {l \in {pairs[i] : i \in Pairs} :
                      l.msg \notin Done /\ (suspectOnly => IsSuspect(l))}
  /\ terminal' # {}
  /\ UNCHANGED <<verdicts, candidates, browser, undo, backfillVars, splitVars>>

(* A key of the menu; Enter confirms the label it already has. *)
Decide ==
  /\ terminal # Nobody
  /\ \E l \in terminal : \E c \in Menu \cup {l.category} :
       Record(l.msg, c) /\ terminal' = terminal \ {l}
  /\ UNCHANGED <<candidates, browser, undo, backfillVars, splitVars>>

SkipRow ==
  /\ terminal # Nobody /\ \E l \in terminal : terminal' = terminal \ {l}
  /\ UNCHANGED <<verdicts, candidates, browser, undo, backfillVars, splitVars>>

(* q, Ctrl-C, or no row left. *)
CloseTerminal ==
  /\ terminal # Nobody /\ terminal' = Nobody
  /\ UNCHANGED <<verdicts, candidates, browser, undo, backfillVars, splitVars>>

(* label_review_web.py: the server has the rows it was started with; a     *)
(* page that is loaded gets those without a verdict.                       *)
StartServer(S) ==
  /\ candidates = Nobody /\ S # {} /\ candidates' = S
  /\ UNCHANGED <<verdicts, terminal, browser, undo, backfillVars, splitVars>>

LoadPage ==
  /\ candidates # Nobody
  /\ browser' = candidates \ Done /\ undo' = <<>>
  /\ UNCHANGED <<verdicts, terminal, candidates, backfillVars, splitVars>>

Submit ==
  /\ \E m \in browser, c \in Menu :
       Record(m, c) /\ browser' = browser \ {m} /\ undo' = Append(undo, m)
  /\ UNCHANGED <<terminal, candidates, backfillVars, splitVars>>

(* The row comes back to the page; the file keeps both records. *)
Undo ==
  /\ undo # <<>> /\ undo' = Front(undo) /\ browser' = browser \cup {Last(undo)}
  /\ UNCHANGED <<verdicts, terminal, candidates, backfillVars, splitVars>>
-----------------------------------------------------------------------------
(* prepare_training_dataset: by class, a share of the clean rows for the   *)
(* test and, of the rest and the suspects, at most TrainCap for training.  *)
(* The shuffles are free choices.                                          *)

Row(i) ==
  LET l == pairs[i]   human == Verdict(l.msg)
  IN  [msg |-> l.msg,
       category |-> IF human = NoVerdict THEN l.category ELSE human,
       suspect |-> human = NoVerdict /\ IsSuspect(l)]

Classes == {Row(i).category : i \in Pairs}
Class(c) == {i \in Pairs : Row(i).category = c}
Clean(c) == {i \in Class(c) : ~Row(i).suspect}

(* max(1, round(0.15 n)), and Python rounds a half to the even neighbour. *)
TestSize(n) ==
  LET q == (15 * n) \div 100   r == (15 * n) % 100
      rounded == IF r > 50 \/ (r = 50 /\ q % 2 = 1) THEN q + 1 ELSE q
  IN  IF n = 0 THEN 0 ELSE IF rounded < 1 THEN 1 ELSE rounded

Smaller(m, n) == IF m < n THEN m ELSE n

Split(c, R, T) ==
  LET share == Cardinality(T \cap Class(c))
  IN  /\ share = TestSize(Cardinality(Clean(c)))
      /\ Cardinality(R \cap Class(c)) =
           Smaller(TrainCap, Cardinality(Class(c)) - share)

Prepare ==
  /\ Readable /\ Pairs # {}
  /\ \E T \in SUBSET {i \in Pairs : ~Row(i).suspect} : \E R \in SUBSET (Pairs \ T) :
       /\ \A c \in Classes : Split(c, R, T)
       /\ train' = {Row(i) : i \in R} /\ test' = {Row(i) : i \in T}
  /\ UNCHANGED <<backfillVars, reviewVars>>

LabelNext(rowsOfTheServer) ==
  \/ BackfillStart \/ Fetch \/ FetchError \/ BackfillEnd \/ Kill
  \/ OpenTerminal \/ Decide \/ SkipRow \/ CloseTerminal
  \/ StartServer(rowsOfTheServer) \/ LoadPage \/ Submit \/ Undo
  \/ Prepare
-----------------------------------------------------------------------------
Rows == [msg : Msgs, category : AnyCategory, suspect : BOOLEAN]

LabelTypeOK ==
  /\ pairs \in Seq(Lines) /\ torn \in BOOLEAN
  /\ todo \in (SUBSET Msgs) \cup {Nobody} /\ buffer \in Seq(Lines)
  /\ handled \in Nat /\ streak \in 0 .. MaxErrors
  /\ verdicts \in Seq([msg : Msgs, verified : AnyCategory])
  /\ terminal \in (SUBSET PairLines) \cup {Nobody}
  /\ candidates \in (SUBSET Msgs) \cup {Nobody}
  /\ browser \subseteq Msgs /\ undo \in Seq(Msgs)
  /\ train \subseteq Rows /\ test \subseteq Rows
  /\ runs \in 0 .. MaxRuns /\ fetchErrors \in 0 .. MaxFetchErrors

(* The test set judges honestly, whatever was killed, resumed, reviewed     *)
(* twice or undone before: no message of it is trained on, a message a      *)
(* human judged is there with the last judgement, and no other is a         *)
(* suspect (prepare_training_dataset.py, over what the resumed backfills    *)
(* left in the file).                                                       *)
HonestTest ==
  [][test' # test =>
       /\ {r.msg : r \in train'} \cap {r.msg : r \in test'} = {}
       /\ \A r \in test' :
            IF r.msg \in Done THEN r.category = Verdict(r.msg)
            ELSE ~r.suspect /\ ~IsSuspect(r)]_labelVars
=============================================================================
