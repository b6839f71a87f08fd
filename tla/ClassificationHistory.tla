------------------------ MODULE ClassificationHistory ------------------------
(***************************************************************************)
(* The writers of email_classifications: the agent's first judgement, the  *)
(* seeder, and transactions that call classification_store.record for the  *)
(* verdicts of a file.  Statements of concurrent transactions interleave   *)
(* under Postgres' READ COMMITTED: a SELECT ... FOR UPDATE waits for the   *)
(* row's holder and then drops the row if it was closed, an INSERT waits   *)
(* for an uncommitted row with its key, and of the transactions that wait  *)
(* for each other one is aborted.                                          *)
(***************************************************************************)
EXTENDS VersionRules, FiniteSets

CONSTANTS
    Msgs,        \* message ids
    Importers,   \* transactions that record the verdicts of a file
    Seeder,      \* the transaction that seeds missing history
    NoWriter,    \* a history is not locked
    NoVerdict,   \* a file says nothing about a message
    NoRow,       \* no current row was found
    NoMsg,       \* the transaction is at no message
    Answers,     \* what the agent may answer, with the time it does
    Files        \* the files that may be imported

VARIABLES
    hist,      \* email_classifications as committed, per message
    analyses,  \* email_analyses: category and analyzed_at of each row
    draft,     \* the history including its holder's uncommitted changes
    owner,     \* the writer that holds the message's current row or key
    pc, file, todo, cur, got, attempt,  \* per writer: its transaction
    kept       \* history, per writer: messages its transaction accepted

store == <<hist, analyses>>
local == <<file, todo, cur, got, attempt, kept>>
vars == <<store, draft, owner, pc, local>>

Writers == Importers \union {Seeder}
Verdicts == [category : Categories, at : Times]
FileType == [source : Sources, verdicts : [Msgs -> Verdicts \union {NoVerdict}]]
NoFile == [source |-> "llm", verdicts |-> [m \in Msgs |-> NoVerdict]]

ASSUME HistoryAssumption ==
    /\ IsFiniteSet(Importers) /\ Seeder \notin Importers
    /\ NoMsg \notin Msgs /\ NoWriter \notin Writers
    /\ NoVerdict \notin Verdicts /\ NoRow \notin Versions
    /\ Answers \subseteq Verdicts /\ Files \subseteq FileType

TypeOK ==
    /\ hist \in [Msgs -> SUBSET Versions] /\ draft \in [Msgs -> SUBSET Versions]
    /\ analyses \in [Msgs -> Verdicts \union {NoVerdict}]
    /\ owner \in [Msgs -> Writers \union {NoWriter}]
    /\ pc \in [Writers -> {"idle", "next", "look", "wait", "decide", "insert"}]
    /\ file \in [Writers -> FileType]
    /\ todo \in [Writers -> SUBSET Msgs]
    /\ cur \in [Writers -> Msgs \union {NoMsg}]
    /\ got \in [Writers -> Versions \union {NoRow}]
    /\ attempt \in [Writers -> {1, 2}]
    /\ kept \in [Writers -> SUBSET Msgs]

Init ==
    /\ hist = [m \in Msgs |-> {}] /\ draft = hist
    /\ analyses = [m \in Msgs |-> NoVerdict]
    /\ owner = [m \in Msgs |-> NoWriter]
    /\ pc = [w \in Writers |-> "idle"]
    /\ file = [w \in Writers |-> NoFile]
    /\ todo = [w \in Writers |-> {}]
    /\ cur = [w \in Writers |-> NoMsg]
    /\ got = [w \in Writers |-> NoRow]
    /\ attempt = [w \in Writers |-> 1]
    /\ kept = [w \in Writers |-> {}]

Analyzed(m) == analyses[m] # NoVerdict

\* What w is about to record of the message it is at.
Judgement(w) ==
    LET v == file[w].verdicts[cur[w]]
    IN  [category |-> v.category, source |-> file[w].source, from |-> v.at, to |-> Open]

-----------------------------------------------------------------------------
(* The agent *)

\* EmailAgent._persist: the analysis and its first version in one transaction.
Analyze(m, v) ==
    /\ ~Analyzed(m)
    /\ analyses' = [analyses EXCEPT ![m] = v]
    /\ hist' = [hist EXCEPT ![m] =
                   {[category |-> v.category, source |-> "llm", from |-> v.at, to |-> Open]}]
    /\ draft' = [draft EXCEPT ![m] = hist'[m]]
    /\ UNCHANGED <<owner, pc, local>>

\* A pod of the release before the history existed writes the analysis alone.
AnalyzeBefore(m, v) ==
    /\ ~Analyzed(m)
    /\ analyses' = [analyses EXCEPT ![m] = v]
    /\ UNCHANGED <<hist, draft, owner, pc, local>>

-----------------------------------------------------------------------------
(* A transaction begins, goes through its messages, and ends. *)

Begin(w, f) ==
    /\ pc[w] = "idle"
    /\ pc' = [pc EXCEPT ![w] = "next"]
    /\ file' = [file EXCEPT ![w] = f]
    /\ todo' = [todo EXCEPT ![w] = {m \in Msgs : f.verdicts[m] # NoVerdict}]
    /\ UNCHANGED <<store, draft, owner, cur, got, attempt, kept>>

BeginImport(w) == w \in Importers /\ \E f \in Files : Begin(w, f)

\* The snapshot of the INSERT ... SELECT: analyses without history.
Unseeded == [m \in Msgs |-> IF hist[m] = {} THEN analyses[m] ELSE NoVerdict]

BeginSeed == Begin(Seeder, [source |-> "llm", verdicts |-> Unseeded])

\* Verdicts are imported in chronological order; the INSERT ... SELECT has none.
Upcoming(w, m) ==
    /\ m \in todo[w]
    /\ w \in Importers =>
         \A n \in todo[w] : file[w].verdicts[m].at <= file[w].verdicts[n].at

Leave(w, step) ==
    /\ pc' = [pc EXCEPT ![w] = step]
    /\ todo' = [todo EXCEPT ![w] = @ \ {cur[w]}]
    /\ cur' = [cur EXCEPT ![w] = NoMsg]
    /\ got' = [got EXCEPT ![w] = NoRow]
    /\ attempt' = [attempt EXCEPT ![w] = 1]

\* The importer takes a message to record; the seeder inserts without a look,
\* and has no second attempt.
Pick(w, m) ==
    /\ pc[w] = "next" /\ Upcoming(w, m)
    /\ w \in Importers => Analyzed(m)
    /\ cur' = [cur EXCEPT ![w] = m]
    /\ pc' = [pc EXCEPT ![w] = IF w = Seeder THEN "insert" ELSE "look"]
    /\ attempt' = [attempt EXCEPT ![w] = IF w = Seeder THEN 2 ELSE 1]
    /\ UNCHANGED <<store, draft, owner, file, todo, got, kept>>

\* No email_analyses row: rejected.
RejectUnknown(w, m) ==
    /\ pc[w] = "next" /\ Upcoming(w, m)
    /\ w \in Importers /\ ~Analyzed(m)
    /\ todo' = [todo EXCEPT ![w] = @ \ {m}]
    /\ UNCHANGED <<store, draft, owner, pc, file, cur, got, attempt, kept>>

\* Mutant: what the transaction locked stays locked.
ReleaseNothing(w) == owner

Release(w) == [m \in Msgs |-> IF owner[m] = w THEN NoWriter ELSE owner[m]]

\* The transaction is over: its locks and locals are gone.
End(w) ==
    /\ owner' = Release(w)
    /\ pc' = [pc EXCEPT ![w] = "idle"]
    /\ file' = [file EXCEPT ![w] = NoFile]
    /\ todo' = [todo EXCEPT ![w] = {}]
    /\ cur' = [cur EXCEPT ![w] = NoMsg]
    /\ got' = [got EXCEPT ![w] = NoRow]
    /\ attempt' = [attempt EXCEPT ![w] = 1]
    /\ kept' = [kept EXCEPT ![w] = {}]

Commit(w) ==
    /\ pc[w] = "next" /\ todo[w] = {}
    /\ hist' = [m \in Msgs |-> IF owner[m] = w THEN draft[m] ELSE hist[m]]
    /\ End(w)
    /\ UNCHANGED <<analyses, draft>>

Rollback(w) ==
    /\ draft' = [m \in Msgs |-> IF owner[m] = w THEN hist[m] ELSE draft[m]]
    /\ End(w)
    /\ UNCHANGED store

\* A dry run, a killed process, a dropped connection.
Abort(w) == pc[w] # "idle" /\ Rollback(w)

-----------------------------------------------------------------------------
(* classification_store.record *)

Goto(w, step) ==
    /\ pc' = [pc EXCEPT ![w] = step]
    /\ UNCHANGED <<store, draft, file, todo, cur, attempt, kept>>

Lock(w) == owner' = [owner EXCEPT ![cur[w]] = w]

\* _current: no committed current row is visible.  Another transaction's
\* uncommitted insert is not, and is not waited for.
LookNone(w) ==
    /\ pc[w] = "look" /\ Current(hist[cur[w]]) = {}
    /\ got' = [got EXCEPT ![w] = NoRow]
    /\ Goto(w, "insert")
    /\ UNCHANGED owner

\* Mutant: the row is read without FOR UPDATE.
LookOnly(w) ==
    /\ pc[w] = "look"
    /\ \E v \in Current(hist[cur[w]]) : got' = [got EXCEPT ![w] = v]
    /\ UNCHANGED owner
    /\ Goto(w, "decide")

LookLock(w) ==
    /\ pc[w] = "look" /\ owner[cur[w]] = NoWriter
    /\ \E v \in Current(hist[cur[w]]) : got' = [got EXCEPT ![w] = v]
    /\ Lock(w)
    /\ Goto(w, "decide")

LookWait(w) ==
    /\ pc[w] = "look" /\ owner[cur[w]] # NoWriter
    /\ \E v \in Current(hist[cur[w]]) : got' = [got EXCEPT ![w] = v]
    /\ Goto(w, "wait")
    /\ UNCHANGED owner

\* The holder ended.  The row is still current, or READ COMMITTED drops it
\* without looking for the version that replaced it.
WaitOver(w) ==
    /\ pc[w] = "wait" /\ owner[cur[w]] = NoWriter
    /\ IF got[w] \in hist[cur[w]]
         THEN Lock(w) /\ Goto(w, "decide") /\ UNCHANGED got
         ELSE got' = [got EXCEPT ![w] = NoRow] /\ Goto(w, "insert") /\ UNCHANGED owner

\* Mutant: every judgement opens a version.
NeverSame(w) == FALSE

SameJudgement(w) ==
    got[w].category = Judgement(w).category /\ got[w].source = Judgement(w).source

\* Mutant: a human row is like any other.
HumanNotKept(w) == FALSE

HumanKept(w) == got[w].source = "human" /\ file[w].source # "human"

\* "unchanged": the lock is kept to the end of the transaction.
Unchanged(w) ==
    /\ pc[w] = "decide" /\ SameJudgement(w)
    /\ kept' = [kept EXCEPT ![w] = @ \union {cur[w]}]
    /\ Leave(w, "next")
    /\ UNCHANGED <<store, draft, owner, file>>

\* "human_kept", or the ValueError of a judgement that is not later than the
\* current row, which the importer counts as rejected.
Refuse(w) ==
    /\ pc[w] = "decide" /\ ~SameJudgement(w)
    /\ HumanKept(w) \/ Judgement(w).from <= got[w].from
    /\ Leave(w, "next")
    /\ UNCHANGED <<store, draft, owner, file, kept>>

\* "versioned": no other transaction can touch the history of a locked row, so
\* the insert meets no conflict.
NewVersion(w) ==
    /\ pc[w] = "decide" /\ ~SameJudgement(w)
    /\ ~HumanKept(w) /\ Judgement(w).from > got[w].from
    /\ draft' = [draft EXCEPT ![cur[w]] = Supersede(@, got[w], Judgement(w))]
    /\ kept' = [kept EXCEPT ![w] = @ \union {cur[w]}]
    /\ Leave(w, "next")
    /\ UNCHANGED <<store, owner, file>>

\* Mutant: the table has no constraints.
Unconstrained(w) == FALSE

\* The partial unique index, and the exclusion of overlapping ranges.
Conflict(w) ==
    \E v \in hist[cur[w]] : v.to = Open \/ v.to > Judgement(w).from

\* Mutant: the version starts a tick later than the one it closes ends.
InsertLater(w) ==
    /\ pc[w] = "insert" /\ owner[cur[w]] = NoWriter /\ ~Conflict(w)
    /\ draft' = [draft EXCEPT ![cur[w]] = @ \union {[Judgement(w) EXCEPT !.from = @ + 1]}]
    /\ Lock(w)
    /\ kept' = [kept EXCEPT ![w] = @ \union {cur[w]}]
    /\ Leave(w, "next")
    /\ UNCHANGED <<store, file>>

\* "inserted", once nobody holds the key.
Insert(w) ==
    /\ pc[w] = "insert" /\ owner[cur[w]] = NoWriter /\ ~Conflict(w)
    /\ draft' = [draft EXCEPT ![cur[w]] = @ \union {Judgement(w)}]
    /\ Lock(w)
    /\ kept' = [kept EXCEPT ![w] = @ \union {cur[w]}]
    /\ Leave(w, "next")
    /\ UNCHANGED <<store, file>>

\* IntegrityError, raised at once unless the holder's changes are uncommitted.
Collides(w) ==
    /\ pc[w] = "insert" /\ Conflict(w)
    /\ owner[cur[w]] = NoWriter \/ draft[cur[w]] = hist[cur[w]]

Retry(w) ==
    /\ Collides(w) /\ attempt[w] = 1
    /\ attempt' = [attempt EXCEPT ![w] = 2]
    /\ pc' = [pc EXCEPT ![w] = "look"]
    /\ UNCHANGED <<store, draft, owner, file, todo, cur, got, kept>>

GiveUp(w) == Collides(w) /\ attempt[w] = 2 /\ Rollback(w)

Blocked(w) ==
    /\ pc[w] \in {"wait", "insert"} /\ owner[cur[w]] # NoWriter
    /\ ~Collides(w)

InRing(w) ==
    \E ring \in SUBSET Writers :
        /\ w \in ring
        /\ \A u \in ring : Blocked(u)
        /\ {owner[cur[u]] : u \in ring} = ring

\* Postgres aborts one of the transactions that wait for each other in a ring.
DeadlockVictim(w) == InRing(w) /\ Rollback(w)

-----------------------------------------------------------------------------
Step(w) ==
    \/ \E m \in Msgs : Pick(w, m) \/ RejectUnknown(w, m)
    \/ LookNone(w) \/ LookLock(w) \/ LookWait(w) \/ WaitOver(w)
    \/ Unchanged(w) \/ Refuse(w) \/ NewVersion(w)
    \/ Insert(w) \/ Retry(w) \/ GiveUp(w) \/ DeadlockVictim(w)
    \/ Commit(w)

Next ==
    \/ \E m \in Msgs, v \in Answers : Analyze(m, v) \/ AnalyzeBefore(m, v)
    \/ BeginSeed
    \/ \E w \in Writers : BeginImport(w) \/ Step(w) \/ Abort(w)

Spec == Init /\ [][Next]_vars

-----------------------------------------------------------------------------
(* Properties *)

\* A message that has been judged has exactly one current version, and its
\* versions cover the time since the first without gap or overlap (the schema
\* enforces the first and the last; nothing but record prevents a gap).
OneTimeline == \A m \in Msgs : Timeline(hist[m])

\* Once a human has judged a message, no machine judgement comes after
\* (the human_kept branch of record, under every interleaving of writers).
HumanStands == \A m \in Msgs : HumanLast(hist[m])

\* Whatever transactions interleave, collide, retry, deadlock or abort, what
\* is committed only grows as record's rules allow.
History == INSTANCE VersionHistory
ImplementsVersionHistory == History!Spec

\* What a transaction reported as inserted, versioned or unchanged is still the
\* current version when it commits: no concurrent writer overtakes it.
AcceptedStands ==
    \A w \in Writers : \A m \in kept[w] :
        /\ owner[m] = w
        /\ \E v \in Current(draft[m]) :
             /\ v.category = file[w].verdicts[m].category
             /\ v.source = file[w].source

\* The guards of Step(w): its transaction can execute its next statement, or
\* Postgres would abort it.
CanStep(w) ==
    \/ pc[w] = "next" /\ (todo[w] = {} \/ \E m \in Msgs : Upcoming(w, m))
    \/ pc[w] \in {"look", "decide"}
    \/ pc[w] = "wait" /\ owner[cur[w]] = NoWriter
    \/ pc[w] = "insert" /\ owner[cur[w]] = NoWriter
    \/ Collides(w)
    \/ InRing(w)

\* While transactions run one of them can go on: each that waits, waits for one
\* that runs, and rings are broken.
NeverStuck ==
    (\E w \in Writers : pc[w] # "idle") => \E w \in Writers : CanStep(w)

=============================================================================
