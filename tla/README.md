# Zashiki-warasi in TLA+

Zashiki-warasi polls a Gmail mailbox, has a language model analyse each new
message, books expenses, creates calendar events, mirrors expenses in Notion and
reports to Telegram; beside that it runs a second classifier in the shadow of
the first and prepares training data for it. This directory holds TLA+ modules
of it, the TLC configurations that check them on small instances, and proofs
that TLAPS checks for every instance. Paths below are relative to
`src/zashiki_warasi/` unless they start with a file of the repository root.

## Running it

    tlc -workers 2 -config poller_locked.cfg MCPoller.tla
    tlc -workers 2 -config agent_effects.cfg MCEmailAgent.tla
    tlc -workers 2 -config notion_sync.cfg MCNotionSync.tla
    tlapm PollerProofs.tla

`PROJECT.json` lists every run with what it is expected to show, the mutants that
show each property can fail, the source lines behind every definition, the
findings, the hazards and the theorems.

## Inventory

| Component | State it keeps | Operations | Talks to |
|---|---|---|---|
| Gmail poller (`gmail/poller.py`) | `gmail_sync_state.history_id` (the cursor), `processed_messages` | `tick_once`: baseline, list, process each message, advance, re-baseline | Gmail client, the agent as handler, Telegram on credential failure |
| Poll endpoint, advisory lock (`web/routers/poll.py`, `coordination/advisory_lock.py`) | one session-scoped Postgres lock | acquire or 409, release | poller, connection pool |
| Gmail client (`gmail/client.py`) | credentials, service object | get_profile, list_history, get_message, get_attachment, reload_credentials | Gmail |
| Email agent (`agents/email_agent.py`) | a LangGraph thread per message, `email_analyses` | handle_email; nodes analyze, notify; routing | LLM, verticals, Telegram, classification store, shadow classifier |
| Expense vertical (`agents/verticals/expense.py`) | `expenses` | extract, persist, dedup, Notion mirror | LLM, Notion writer |
| Calendar vertical (`agents/verticals/calendar.py`, `_ics_parser.py`, `calendar/client.py`) | Google events | extract, free/busy, dedup, insert | LLM, Google Calendar |
| Notion writer, Notion puller (`notifications/`) | Notion pages; `notion_sync_state` | record_expense; sync_once in a thread or by command | Notion, `expenses` |
| Classification history (`classifier/classification_store.py`, `src/scripts/`) | `email_classifications` (SCD type 2) | record, seed, import of human labels | agent |
| Shadow classifier (`classifier/`) | worker slots, `laya_shadow_predictions`, the questions file | load and validate questions, classify_async, worker | laya service |
| Labelling and training tools (`src/scripts/`) | JSONL files of pairs, verdicts, train and test sets | backfill, terminal and browser review, split | Gmail, database, people |
| OAuth web flow (`coordination/oauth_flow_store.py`, `web/routers/auth.py`, `reauth.py`, `gmail/auth.py`) | `oauth_flows`, the token file, credentials in memory | reauth, start, callback, reload, get_credentials | Google, Gmail client |
| Telegram notifier (`notifications/telegram.py`) | none | send_message | Telegram |
| Service container, CLI (`core/services.py`, `app.py`) | the pool, `stop_event` | build, close, `tick`, `run-legacy`, `auth`, `serve` | everything |
| Taxonomy and prompts (`core/taxonomy.py`, `prompts/`) | none | categories of two versions, mapping, routing | agent, classifiers |
| Health and metrics, observability, configuration, LLM factory, text extraction, migrations | none that a decision of the components above reads | | |

What is hard, and what makes each part correct:

* **Poller.** Ticks on several replicas, CLI ticks that take no lock, crashes
  between any two of its short transactions, mailbox events in between, history
  that expires under a paged listing. Correct when no message is passed over by
  the cursor, messages are settled oldest first, nothing is recorded as
  processed that was not handled, and every message is settled in the end.
* **Agent and expense vertical.** An effect on the world and the checkpoint that
  records it are two steps. Correct when effects repeat only where a crash or a
  lost reply explains it, no message is marked before its report went out, an
  expense reported as logged is in the table, and no order is booked twice.
* **Notion mirror.** A cursor over edit times that are not unique, written after
  every page was applied, by pullers that nothing keeps apart. Correct when no
  edit is behind the cursor without being in the database, and pulling back does
  not corrupt what was written.
* **Classification history.** Versions opened by concurrent transactions.
  Correct when a message's versions are contiguous, one is current, and a
  machine never closes a human's.
* **Calendar.** Two extraction paths with different ideas of time, best-effort
  dedup in front of an insert that is idempotent for some uids only. Correct
  when an event is placed where its conflicts were looked for, and a second
  event for one talk needs a failed lookup.
* **OAuth and the service.** A flow popped and put back between two requests, a
  token file written in place, several clients that hold what was once in it,
  and a pool a tick takes two connections from. Correct when a flow is redeemed
  at most once and with its page's verifier, success is only reported of a grant
  in use, and no request starves.
* **Shadow classifier and training data.** Slots taken by the caller and
  returned by the worker, which a submission may fail between; files appended to by
  processes that are killed. Correct when slots are never lost and the test set is
  honest.

`hazards` in `PROJECT.json` places each of these at its line.

## Modules

| Module | What it is |
|---|---|
| `Poller` | the poller, its callers and its mailbox |
| `MailQueue` | abstract specification: a queue of arrivals dealt with oldest first |
| `ExpenseDedup` | `find_duplicate` as operators |
| `MailHandler` | abstract specification: one message in hand, paid calls for it alone and none after its thread ended |
| `EmailAgent` | `handle_email` with its graph, the expense subgraph, checkpoints and failures; extends `ExpenseDedup`, implements `MailHandler` |
| `VersionRules` | versions of a judgement as data, and how a history of them grows |
| `VersionHistory` | abstract specification: histories that only grow by those rules |
| `ClassificationHistory` | the transactions that write `email_classifications`; extends `VersionRules`, implements `VersionHistory` |
| `NotionSync` | the recorder, the people who edit pages, and the pullers |
| `CalendarDraft` | pure part of the calendar vertical: drafts from `.ics` or answers, zones, fingerprint, payload |
| `CalendarVertical` | the subgraph over a calendar, with failures and replays; extends `CalendarDraft` |
| `WebService` | the processes of the service: OAuth flows, token file, pool, lock, credentials in memory |
| `Taxonomy`, `Questions` | the two vocabularies; the questions dictionary, its validation and agreement |
| `LayaShadow` | the shadow classifier; extends `Questions` |
| `LabelPipeline` | backfill, review and split of training data; extends `Taxonomy` |
| `LayaProgram` | `LayaShadow` and `LabelPipeline` composed: what was predicted is what the blind review shows |
| `PollerProofs`, `EmailAgentProofs`, `ClassificationProofs`, `NotionSyncProofs`, `CalendarProofs`, `WebServiceProofs`, `WebPoolProofs`, `LayaProofs` | theorems |
| `MCPoller`, `MCEmailAgent`, `MCClassification`, `MCNotionSync`, `MCCalendar`, `MCWebService`, `MCLaya` | instances for TLC |

Operators marked `Mutant` are plausible bugs, kept beside the definition they
would replace; no specification uses them.

### Poller

| State | Code |
|---|---|
| `hist`, `added`, `mhist`, `gone`, `retained` | the mailbox (external): current historyId, the record of each arrival, each message's own historyId, deletions, the start of retained history |
| `cursor` | `gmail_sync_state.history_id`, 0 for no row |
| `processed` | `processed_messages` |
| `lock` | the holder of `TICK_LOCK_KEY` |
| `stop` | processes whose `stop_event` is set |
| `pc`, `start`, `pos`, `todo`, `more`, `cur`, `curHist`, `maxh`, `prof` | where each caller's tick is, and its locals: `start`, the page token, the ids of the page not yet yielded, whether there are more pages, `msg_id`, `message.history_id`, `max_history_id`, the profile's historyId |
| `handled`, `writtenOff`, `reply` | history variables: messages the handler returned for, backlog a baseline skipped on purpose, the latest outcome |

A tick is cut at every call to Gmail and every transaction: `GetProfile`,
`BaselineCheck`, `BaselineInsert`/`BaselineCollision`, `ReadCursor`, `ListPage`/
`HistoryExpired`, `SkipProcessed`/`BeginMessage`/`StopRequested`/`LoopDone`,
`FetchMessage`/`FetchGone`, `Handle`, `MarkProcessed`/`MarkCollision`,
`AdvanceNone`/`AdvanceCheck`/`AdvanceSave`, `RebaseProfile`, `RebaseWrite`.
Between any two of them the mailbox may change and other callers may move.
`RefreshFails`, `Raises`, `Crash`, `LockLost` and `Unreachable` are the ways a
tick is cut short; the budget of each is a constant.

`AdvanceCheck` and `AdvanceSave` are two actions because they are two
statements (`SELECT`, then `UPDATE`) of a transaction that does not lock the row.
`ListPage` takes a stretch of history of any length, so every placement of page
boundaries is covered.

Handling a message is one action here; what happens inside it is `EmailAgent`.

### EmailAgent

| State | Code |
|---|---|
| `ckpt`, `unsaved` | LangGraph (external): the last checkpoint of each thread, and those handed over but not yet written |
| `live` | the state of the running thread |
| `cur`, `pc`, `target` | the message in `handle_email`, how far it is, the row `_persist_node` is mirroring |
| `rows`, `page` | `expenses`, and whether a row has a `notion_page_id` |
| `analyses`, `marked` | `email_analyses`, `processed_messages` |
| `effects` | history: how often each message caused an LLM call, a Notion page or a Telegram message |

`Begin` is the three-way choice at the head of `handle_email`. Each node is an
action that has its effect and hands its result to the checkpointer; LangGraph
writes checkpoints in the background (the default durability is asynchronous),
so the next node may already run: `Lag` bounds by how many, and `SaveCheckpoint`
is the write. A crash loses the unwritten ones; an exception does not, because
`invoke` waits for them. `LostReply` is a call that took effect although its
caller saw a failure.

`Refused` is a failure no budget ends: the content of a message may be what a call
cannot take, and the checkpoint brings the same content back. The extraction has no
`except` around the model, and neither body nor PDF is cut to length; a vendor
longer than its column fails the insert; Telegram answers 400 to some texts. Which
messages and nodes are exposed to it is the constant `Doomed`.

A draft is reduced to what `find_duplicate` and the sparse check read: order
number, amount with currency, time, and whether there is a vendor. The
`AUTO-` number of a row without an order number is a hash of its message id,
equal to no other, and so is modelled as none. The calendar subgraph is one
action here; it is `CalendarVertical`.

### ClassificationHistory

| State | Code |
|---|---|
| `hist` | `email_classifications` as committed: the set of versions of each message |
| `analyses` | `email_analyses`: category and `analyzed_at` |
| `draft` | a message's history including the uncommitted changes of the transaction that holds it |
| `owner` | Postgres (external): who holds the current row's lock, or has an uncommitted row under the key |
| `pc`, `file`, `todo`, `cur`, `got`, `attempt` | per transaction: where it is, its verdicts, those left, the message `record` is called for, the row `_current` returned, the attempt |
| `kept` | history: messages whose `record` returned inserted, versioned or unchanged |

`record` is cut at its statements. `LookNone`, `LookLock`, `LookWait` and
`WaitOver` are `_current`: under READ COMMITTED a `SELECT ... FOR UPDATE` that
waited returns nothing if its row was closed meanwhile, although a newer one
exists. `Unchanged`, `Refuse` (human_kept and the `ValueError`) and `NewVersion`
follow when a row was found, `Insert`, `Retry` and `GiveUp` when none was. The
importer takes its verdicts in chronological order in one transaction; the
seeding statement is a transaction whose messages are fixed by its snapshot and
which inserts without looking. `Abort` is a dry run or a death at any point,
`DeadlockVictim` is Postgres breaking a ring of waits (`InRing`). The agent's write is one
step: no other writer sees a message before its analysis is committed. A file
may also carry a machine's verdicts: no caller in the repository passes those
for a message with history, but `record` is written and tested for them.

### NotionSync

| State | Code |
|---|---|
| `clock`, `pages` | Notion (external): the clock behind `last_edited_time`, and the database of pages with the fields the puller reads, the marker and the UUID |
| `rows`, `link` | `expenses`: the synced fields with the order number, and `notion_page_id` |
| `made` | a page that exists while its id is not committed yet |
| `cursor` | `notion_sync_state.last_synced_at`, 0 for no row |
| `pc`, `since`, `high`, `queue` | per pass of `sync_once`: its stage, `since`, `max_edited`, the fetched pages not yet applied |
| `began`, `touched`, `seen`, `missed` | history: when each pass began, pages people edited, the latest edit time any query returned, pages whose last edit a pass may have gone past |

`CreatePage`, `LinkPage` and `LoseLink` are the recorder and the commit of its
answer; `Edit` is a person. `Begin`, `Fetch` (one page of the result at a time, so
that a boundary of Notion's pagination may fall anywhere), `FetchDone`,
`SkipPage` (an n8n duplicate or a page no row knows), `ApplyPage` (one
transaction), `PoisonPage` (a value the column cannot hold raises), `WriteCursor`
and `PassFails` are a pass. Title, vendor and currency stand for the synced
fields: one with a fallback, one plain, one translated through a label.
`missed` is the honest part of the cursor's promise. It records the three ways an
edit may be passed over: its time is one a query has returned before (the filter
is strictly after), its page was linked to no row when a pass met it, or an
overlapping pass wrote an older version over it.

### CalendarDraft and CalendarVertical

| State | Code |
|---|---|
| `events` | Google (external): the operator's calendar, with each event's uid, fingerprint and place; `checked` and `conflicts` are what the program had looked up for it |
| `scope` | whether the credential has the calendar scope |
| `cur`, `pc`, `draft`, `conflicts` | the message in the subgraph, its stage, `state["extracted"]`, the events found in its window |
| `outcome`, `ckpt` | the side effect in memory and the checkpoint written |
| `done`, `unread`, `unheard` | settled messages; history: fingerprints whose lookup failed, messages whose insertion was lost with the process |

`CalendarDraft` computes: which attachment is read, `ParseIcs` with its
defaulting of floating times, the language model's answer stripped of
zones and cleaned, the zone a draft is checked in and the zone its payload names, the
window, the fingerprint, the payload and where Google places it. Times are
minutes, a zone is an offset, a title is a sequence of words. `CalendarVertical`
has `ExtractIcs`, `ExtractText`, `Skip`, `CheckFreeBusy`, `LayerOne`, `LayerTwo`,
`Insert` and `Finish`, each with the failures its `except` clauses tell apart
(403 is read as a missing scope whatever it means), `Unanswered` for a call that
took effect without an answer, and `Crash` before or after the checkpoint.

`Raises` is an exception of the node itself, which no `except` of it takes. A
zone named `/Asia/Tokyo` (`Malformed`) is a `ValueError` to `ZoneInfo` where only
`ZoneInfoNotFoundError` is caught, and a time at either end of the calendar
(`MinTime`, `MaxTime`) overflows in the fingerprint, the window of the scan or the
payload. The draft is in the checkpoint, so every replay raises at the same place
(`Unfit`).

### WebService

| State | Code |
|---|---|
| `up`, `gmail`, `calendar` | replicas that serve, and the grant the clients of each use |
| `file`, `granted` | `token.json` (`Torn` while it is being written), how many grants Google issued |
| `flows`, `minted`, `pages`, `verifiers` | `oauth_flows`; links sent to the operator; consent pages at Google; PKCE verifiers |
| `held`, `waiting`, `lock`, `orphan` | connections in use, each pool's queue, the slot whose session holds `TICK_LOCK_KEY`, the replica with an idle session that kept it |
| `pc`, `job` | per slot: the request, start or command it runs, and where |
| `spent`, `clash` | history: states a callback took, callbacks whose file was written over before the reload |

A slot runs one job at a time; its labels are the points at which another may
run: `Mint`; `StartPop`, `Consent`, `PutBack`; `CallbackPop`, `Exchange`,
`Truncate`, `Write`, `Reload`, `Notify`; `TryLock`, `Checkpoint`, `Saved`,
`Unlock`; `Probe`; `Load`, `Refresh`, `InstalledFlow`, `Serve`, `TickOnce`. Each
statement on the database takes a connection from the replica's pool and gives
it back to the head of the queue; a tick keeps one for its lock. `PoolTimeout`,
`ExchangeFails`, `RefreshFails`, `Expire`, `Stop` and `Crash` are the rest.

`UnlockFails` is the exception `advisory_lock` swallows: the connection goes back
to the pool, and if its session lives the lock stays with it (`orphan`). A poll is
then refused, unless its replica hands it that very session, in which the lock is
re-entrant; `SessionCloses`, a stop or a crash frees it.

### LayaShadow, LabelPipeline, LayaProgram

`LayaShadow`: `next` is the agent's next call, `slots` the semaphore, `stage` and
`outcome` each sample, `rows` the table. `Classify` takes a slot or drops the
sample and never waits. A submission may fail before it queues its item
(`SubmitRefused`) or after, when no thread can be started (`SubmitFails`): the
handler gives the slot back, a live worker runs the item and gives it back again,
and `unslotted` counts such items. `Begin`, the post with its outcomes, the commit and
`Release` are the worker; a restart forgets what was in flight.

`LabelPipeline`: `pairs`, `torn`, `buffer`, `todo`, `handled`, `streak` are the
backfill's file and loop with its flush after every `FlushEvery` rows, `todo` the
rows its query returned, taken in the order of `analyzed_at` (`IsNext`); `Kill`
may leave a line cut off. `verdicts` is the one file of both review tools,
`terminal`, `browser`, `candidates` and `undo` their sessions. `Prepare` is the
split, its shuffles free choices, its rounding Python's. The questions file is
in `Questions`: `Accepted` is what start-up validates.

## Runs

| Run | Question | Bounds |
|---|---|---|
| `poller_locked` | With every caller behind the lock, do collision freedom and a monotone cursor hold; does an `ok` tick drain what it promised? | 2 replicas, 2 messages, history ids up to 4, one each of label change, deletion, expiry, crash, stop request |
| `poller_overlap` | With a CLI tick and a lost lock, is mail still never passed over, and is the abstract queue implemented? | 2 callers, 2 messages, history up to 3, one expiry, crash, lost lock |
| `poller_live` | Is every message settled? | 2 callers, history up to 3, one expiry, failure, crash |
| `poller_touch_loss` | finding, below | 1 replica, 2 messages, one label change |
| `agent_effects` | Do effects repeat only for a reason, is everything reported, is every message marked? | 2 messages, one order number, lag 1, Notion on, one crash, exception, lost reply; any call of one message may be refused each time |
| `agent_ledger` | Is the ledger right under replay and dedup? | 3 messages, one order number, one amount, three times with a window of one, one crash, no lag, calendar on |
| `classification` | Do concurrent writers keep histories well-formed, human judgements last and accepted judgements current, and can something always go on? | 2 messages, 2 importers and the seeder, 2 categories, 3 times, 3 files: human verdicts, later ones that agree on one message and may take them in either order, a machine's rescan |
| `notion_sync` | Is an edit ever behind the cursor without being in the database; does pulling back corrupt a row; does a pass bring home all it should? | 2 rows (a full extraction and one with no title, vendor or order number), 2 pages, two passes that may overlap, clock up to 3, one edit, one failed pass, one lost link |
| `calendar` | Where and how often do events appear; is what is reported there; is every message settled that does not raise in itself? | 3 messages about one talk (an invitation with a pdf beside it whose download may fail, one with a floating time, an empty forward), three failures; among the model's answers a malformed zone and times at the start of the calendar |
| `calendar_zone` | finding, below | the same mail, `CALENDAR_TIMEZONE` = Asia/Tokyo, one failure |
| `web_service` | Is a flow redeemed once, does the newest consent page work, is a reported success true, does any request starve? | 1 replica and the host, 2 jobs at a time, a pool of two, 1 state, 5 jobs, 1 fault (a failed unlock among them) |
| `laya` | Is no slot lost; is the test set honest? | 2 messages, 3 calls (one message twice), 2 workers, 1 restart; 2 runs of the backfill with one row to fetch in each, 2 verdicts, fetch errors |

Why these bounds are enough to be interesting: two messages make an order and a
gap between them, with a page boundary between them too; three make, for dedup,
the ambiguous case of two candidates for a third draft. Two callers are enough for
every pairwise race, and one fault of each kind lets faults of different kinds
combine. A history of 3 holds two arrivals after the baseline, one of 4
leaves room for a label change or a deletion. Message ids are interchangeable
in every action of the poller and the agent, so they are declared symmetric in
runs that check safety only. `poller_overlap` leaves label changes out on
purpose: with them `NoMessageLost` is false, which is `poller_touch_loss`. Two
pages and two passes make, for Notion, a page fetched and not applied beside one
that is edited, equal edit times and a pass that writes an old version over a new
one. Three failures let the calendar miss a download, lose an insertion and fail
a lookup in one history. Two jobs on one replica with two connections are the
least that a tick and a request can exhaust; more replicas share nothing but
the table, the lock and the file, which the theorems cover for any number. The
laboratory of `laya` opens when the calls are settled, because the export comes
after the observation. Only one of its messages has an exact prediction, so each run
of its backfill has one row: the flush of a second row and the end of a run at the
second error are not reached there, and are covered by the theorem `TestIsHonest`,
which holds for any `FlushEvery` and `MaxErrors`. In `calendar` the overflow of the
payload's own conversion is not reached: no answer of the run overflows there that
did not overflow in the fingerprint or the window before.

Deadlock is checked for the poller and the classification history. The other
models stop once every message is settled, every job done or every bound spent,
and their configurations say so.

### What the properties say

Poller: `NoMessageLost` (whatever the cursor has passed was processed or
knowingly written off), `OldestFirst`, `ImplementsMailQueue` (both together with
the order of every step), `NoKeyCollision` (no insert meets a
row another tick wrote after this one looked), `ProcessedWasHandled`,
`CursorMonotone` (neither write of the cursor is guarded
by the row it replaces; single flight is what makes it hold), `OkTickDrained` (a
200 without error means everything that had arrived by the profile call is
processed), `EventuallySettled`.

Agent: `DuplicatesArePaidFor` (one extra effect per crash or lost reply at most,
none for an exception; calls whose content may be refused are excepted, since every
retry pays for them again), `NothingSwallowed` (a marked message ran to its end and
its report went out), `ImplementsMailHandler` (no paid call for a thread whose end
is checkpointed, no end unasked, marks only from the hand, ends and marks for
good), `LoggedIsRecorded`, `NoDoubleBooking`, `EventuallyMarked` (unless the content
of one message is refused at every retry: the poller comes back to that one, and what
is behind it waits).

Classification: `OneTimeline` (one current version, no gap, no overlap),
`HumanStands`, `AcceptedStands` (no lost update: what a transaction counted as
recorded is current, under its lock, until it commits), `NeverStuck` (while
transactions run, one can execute its next statement or is in a ring Postgres
breaks; `CanStep` spells out the guards of `Step`), `ImplementsVersionHistory`.

Notion: `CursorCovers` (a linked, marked page edited no later than the cursor is
in the database, unless missed), `OnlyPeopleCorrect` (the round trip through
properties and currency labels changes nothing a person did not change, but for
an empty title, which the recorder fills with the vendor), `PassPullsAll` (a pass that
has applied all it listed has brought home every edit made before it began, although
pages move in the listing while it is read, unless missed). That there is another
pass is nobody's promise, see below.

Calendar: `OneTentative` (two events of the program with one title in one five
minutes: the second one's fingerprint lookup failed), `SecondOnlyByReplay` (two
events of one message need a replay after a lost insertion, and an organizer's uid in
one of them: the made-up uid is met again), `AccountedFor` (what is reported as
created or duplicate is on the calendar), `PlacedAsChecked`, `EverySettled` (unless a
draft raises in the node itself at every replay).

Service: `SingleUse`, `NewestPageWorks` (`invalid_grant` is for older pages only),
`SuccessIsInstalled` (success is told only of a grant the replica's Gmail client
uses, unless another process wrote the file in between), `EveryRequestAnswered`
(a tick needs two connections, everything else one at a time).

Laya: `SlotsConserved` (no slot is lost, and the surplus is at most the submissions
that failed after they had queued), `HonestTest` (test and training share no message, a judged
message is tested with its last judgement, and no other test row is a suspect).

### Findings

* `poller_touch_loss` — the cursor is taken from `message.history_id`, which is
  the message's own last record and not the record it was listed under. A label
  change between listing and fetch lifts it past a message that arrived in
  between, which no later listing returns.
* `calendar_zone` — `_build_insert_payload` falls back on the literal
  `Asia/Taipei`, the free/busy window and the fingerprint on the configured zone.
  With `CALENDAR_TIMEZONE=Asia/Tokyo` an answer of 09:00 without a zone is checked
  at one instant and placed an hour later, against `docs/calendar-vertical.md:122`.

### Observations

What reading the code for these modules showed beside the findings; no run is
spent on them.

* Poller: `tick` and `run-legacy` take no lock, so single flight holds of
  `POST /poll` only. The `stop_event` break still advances the cursor, which a
  label change can have lifted past listed messages that were not reached.
  `reconnect_failed` sets `stop_event` for good while `serve` goes on answering:
  later ticks stop before their first message. The exit codes 71 and 78 of
  `README.md:619-632` are `run-legacy`'s; in `serve` neither ends the process,
  and `tick` does not map `CredentialRefreshError` to 78.
* Agent: a crash between an effect and its checkpoint repeats the effect (one LLM
  call or one Telegram message), contrary to "never loses or re-bills" (`README.md:41`)
  and "no Telegram re-send" (`agents/email_agent.py:13-14`). "The poller does not get
  stuck re-firing the doomed call" (`README.md:36-38`) holds of `analyze` only: the
  expense extraction catches nothing (`agents/verticals/expense.py:353-382`), so a body
  or PDF the model cannot take, or an answer that does not parse, raises and is paid
  for at every tick, and the messages behind it wait; so do a value too long for its
  column and a text Telegram answers with 400.
* Notion: the background thread of `README.md:33` and `:312` is started by `run()`
  only (`app.py:407`), which runs one tick (`app.py:455`) and exits, and the daemon
  thread ends with it; `serve` starts none. So a pass is one pass, of that thread or
  of the command, and no edit is sure to be pulled unless somebody runs the command.
* Calendar: `docs/calendar-vertical.md:127-128` promises that replays never
  duplicate, which `SecondOnlyByReplay` qualifies: a replay that extracts anew may
  use another uid. `calendar/client.py:26-30` lets a failed insert fail the tick;
  the vertical turns it into `extraction_failed` and the message is settled.
  `_sanitize_tz_hint` returns a string that "ALWAYS parses as a `ZoneInfo`"
  (`agents/verticals/calendar.py:876`), but for a name like `/Asia/Tokyo` `ZoneInfo`
  raises a `ValueError` it does not catch; a time in year 1 or 9999 overflows in the
  fingerprint or the window (`:644`, `:738`). Either raises at every replay of the
  checkpointed draft, and the message is never settled.
* OAuth: `pop` speaks of one transaction, but the pool is in autocommit: the
  expiry sweep and the delete are two. The token file is not replaced atomically.
  After `/reauth` only the Gmail client of the replica that served the callback
  is reloaded, and no Calendar client is; a refresh at the start of another
  replica may write an older grant over the newer one. A pool of one connection
  passes validation and starves every tick, hence `PoolSize >= 2` in
  `WebAssumption`. An unlock that fails on a live session leaves the lock with a pooled
  connection (`coordination/advisory_lock.py:63-70`): polls are answered 409 until the
  pool retires it, but for those that get that connection, to which the lock is
  re-entrant.
* Laya and the tools: a submission for which no thread can be started has queued its
  item before it raises, so its slot is released twice
  (`classifier/laya_shadow_client.py:109-111` and `:130`) and one more sample than
  workers is let in. The validation of the questions file does not check that
  the merged calendar label stands for the calendar categories, hence the
  hypothesis `MergesTheCalendar` of two theorems. A backfill killed in mid-line
  leaves a line its own re-run skips but neither `label_review` nor
  `prepare_training_dataset` can parse; killed inside a UTF-8 character, it leaves a file
  its own re-run cannot read either (`_load_done` decodes outside its `try`), which the
  model does not tell apart. The review menu is v1's, so its
  verdicts may name v1 categories for v2 pairs; the two review tools write to
  different files unless `--output` is given. Suspects exist only among lines of
  earlier backfills.

### Fairness

`Poller!Fairness` is weak fairness of each tick's next step (a running thread
is scheduled, and calls have timeouts, so each returns or raises) and of
starting a tick (the README prescribes a scheduler that keeps calling
`POST /poll`). Mailbox events and faults have none. `EmailAgent!FairSpec` has weak
fairness of the work as a whole: a handler that runs goes on, and a message that
is not marked is handed in again, which is the poller's `EventuallySettled`
together with its dedup check. `CalendarVertical!FairSpec` has the same for
beginning a message and for the steps of its subgraph. Neither is enough for a message
that raises for its content, and both properties say so; `Poller!EventuallySettled`
counts the handler's failures instead, and so holds of messages whose handler returns
in the end. `NotionSync` has no fairness: nothing in the code promises another pass.
`WebService!FairSpec` has weak fairness of the next step of each slot, which is a
running thread, and none for arrivals, faults, or the consent a person gives in
`InstalledFlow`.

## Proofs

Each theorem holds for any sets of actors, messages, pages and files and any
bounds, from the assumptions named in the modules.

| Module | Theorem | Property | Assumes beyond the constants' types |
|---|---|---|---|
| `PollerProofs` | `TypeCorrect` | `TypeOK` | |
| | `ProcessedHandled` | `ProcessedWasHandled` | |
| | `NothingLost` | `NoMessageLost` | no label changes |
| | `ChronologicalOrder` | `OldestFirst` | no label changes |
| | `Implementation` | `ImplementsMailQueue` | no label changes |
| | `SingleFlight` | at most one tick is in flight | no CLI callers, the lock's connection is not lost |
| | `NoCollision` | `NoKeyCollision` | the same |
| | `CursorForward` | `CursorMonotone` | the same |
| | `DrainedWhenOk` | `OkTickDrained` | |
| `EmailAgentProofs` | `TypeCorrect` | `TypeOK` | |
| | `OneRowPerOrder` | `NoDoubleBooking` | |
| | `LoggedStaysRecorded` | `LoggedIsRecorded` | |
| | `MarkedIsDone` | `NothingSwallowed` | |
| | `RepeatsArePaidFor` | `DuplicatesArePaidFor` | |
| | `Implementation` | `ImplementsMailHandler` | |
| `ClassificationProofs` | `TypeCorrect` | `TypeOK` | |
| | `TimelineKept` | `OneTimeline` | |
| | `HumansStand` | `HumanStands` | |
| | `NoLostUpdate` | `AcceptedStands` | |
| | `NobodyWaitsForEver` | `NeverStuck` | |
| | `Implementation` | `ImplementsVersionHistory` | |
| `NotionSyncProofs` | `TypeCorrect` | `TypeOK` | |
| | `RoundTrip` | `OnlyPeopleCorrect` | |
| | `NothingBehindCursor` | `CursorCovers` | |
| | `PassBringsHome` | `PassPullsAll` | |
| `CalendarProofs` | `PlacedWhereChecked` | of every draft's payload | the default zone is Taipei |
| | `PlacementKept` | `PlacedAsChecked` | the same |
| | `NoSecondUnlessUnread` | `OneTentative` | the same |
| | `ReportIsTrue` | `AccountedFor` | the same |
| | `TypeCorrect` | `TypeOK` | |
| | `SecondNeedsLostInsertion` | `SecondOnlyByReplay` | |
| `WebServiceProofs` | `RedeemedOnce` | `SingleUse` | |
| | `NewestPage` | `NewestPageWorks` | |
| | `ToldIsInstalled` | `SuccessIsInstalled` | |
| `WebPoolProofs` | `TypeCorrect` | `TypeOK` | |
| | `NoPoolDeadlock` | of those in line with and without a connection | two connections or more (`WebAssumption`) |
| | `LockAccountedFor` | of who can have the tick lock: a tick that goes on, with its connection, or a session whose unlock failed | the same |
| `LayaProofs` | `TypeCorrect` | `TypeOK` | |
| | `NoSlotLost` | `SlotsConserved` | |
| | `TestIsHonest` | `HonestTest` | a file of an earlier version has one line per message |
| | `MappingKeepsVertical` | of the two vocabularies | |
| | `EveryCategoryHasAChoice` | of an accepted questions file | it merges the calendar rightly |
| | `AgreementIsExact` | of an accepted questions file | the same |

The assumptions of the poller's and the calendar's theorems are the ones the
findings and observations show to be necessary.

The arguments, each an inductive invariant and one lemma per kind of step:

* *Poller, types.* `TypeInv` adds to `TypeOK` that a tick at work on a message
  still holds it on its list (`HoldsMessage`).
* *Poller, handled.* A tick at `mark` holds a message that was handled or is gone
  (`MarksHandled`); that survives other ticks because both sets only grow.
* *Poller, nothing lost, order, implementation.* `NoMessageLost` is not inductive: the
  cursor is written from locals read long before. `SafeInv` says, of the cursor
  and of every tick's `maxh`, that all that arrived up to it is settled
  (`CoveredTo`); that what a tick has listed is settled or still on its list
  (`NothingSkipped`); that it works on the oldest message of the list and
  reports that message's record (`OnOldest`); and that nothing is ahead of the
  mailbox (`Chronology`). Settled sets only grow and the mailbox only appends,
  so one tick's claims survive every step of another, which is why overlap does
  no harm. `Untouched` (a message's historyId is its arrival's) is what a label
  change breaks, and with it `OnOldest`. For `Implementation` each action is
  then shown to be an arrival, a deal, a write-off or a stutter.
* *Poller, single flight.* `LockInv`: a caller that runs a tick holds the lock
  (`Locked`), and what it found in the cursor row and the dedup table is still
  so (`StillTrue`). Collision freedom and the monotone cursor follow from the
  second half.
* *Poller, drained.* `Draining`: in the loop, what the pages reported is processed
  or still listed, and the last page reaches past the profile. A mailbox that
  goes on growing does no harm, because nothing a tick has read is later than
  the mailbox's present (`NoFuture`). No lock is assumed.
* *Agent.* What a thread did is known from its state in memory, from checkpoints
  still to be written and from the last one written, and these may differ by any
  lag. `Threads` orders them: they lead up to the state in memory and none
  follows an end, so while a thread runs on its end is nowhere (`NotEnded`).
  `GoodThreads` says of each of them alike what it
  claims of the world (`Good`: a logged expense is recorded, an ended thread has
  reported); rows are never dropped and sends never taken back, so a claim made
  once stands, whichever checkpoint a crash goes back to. `Stored` gives
  `NothingSwallowed`. For repeats, `Paid` strengthens the bound: an effect was had
  once if it is done (the thread is past its node, or the page has its id or
  is about to get it), and beyond that only as often as a crash or lost reply
  undid a `Done`. Steps are reduced to a few kinds first (`ThreadStep`).
  `NoDoubleBooking` is inductive: stage 1 of the dedup finds every row of the
  order.
* *Agent, implementation.* The end of a thread is abstractly the moment its last
  checkpoint is written, by the background write or by `invoke` as it raises, and
  may be much later than the call that led to it. `Asked` says of every state the
  thread may be taken up in that the model was asked for it once it is past its
  first node; `NotEnded` that a thread in hand that makes a call is not yet ended.
* *Classification.* `GrowsTimeline` and `GrowsHumanLast` show that one step of
  growth keeps a timeline a timeline and human judgements last. `IsolationInv`
  supplies that every commit is such a step: a history nobody holds has no
  uncommitted change (`Clean`), an uncommitted change is one step of growth
  (`Pending`), a transaction that decides holds the current row (`Held`), and
  there is neither history nor lock before the analysis (`Known`), which is why
  the agent's unguarded first version harms nobody. That an insert that meets no
  conflict is a first version follows from `OneTimeline` itself.
* *Classification, nobody waits for ever.* A lock belongs to a transaction that
  runs (`OwnersRun`). If none of those that run could go on, each would wait for
  another of them (`StuckWaits`), and a function of a finite set into itself
  permutes a part of it (`PermutedPart`, by the well-foundedness of inclusion
  among finite sets): that part is a ring, which Postgres breaks. That there are
  finitely many transactions is an assumption; there may be any number.
* *Notion, round trip.* `MirrorInv`: a page belongs to one row, what an unedited page
  would change in its row is an empty title at most (`Mirrors`), and a fetched
  version of an unedited page is still the page's (`Current`).
* *Notion, cursor.* `CursorCovers` is not inductive: a pass writes as the cursor what
  it has read, long after it read it. `CoverInv` says what every pass in
  between can account for: a page its query has gone past is in its hands as it
  is now, or stored, or missed (`FetchCovers`, `ApplyCovers`), and nothing is
  claimed beyond what some query returned (`Bounded`). A new edit is either later
  than that, and so past every claim, or missed. Passes do not disturb each
  other (`OtherPass`), which is why no lock between them is needed for it.
* *Notion, a pass.* `Swept` says of a pass whose listing is exhausted that every page
  edited before it began is in its hands or stored, and that some query has returned
  its edit time; the second half is what makes an overlapping pass that writes an older
  version over it record it as missed.
* *Calendar.* With the default zone the zone of the check and of the payload are
  one, so the wall clock readings of the payload are the instants checked. For
  dedup, an event's stamp must agree with the place Google gives it (`Stamped`),
  and a lookup that found nothing must still be true at the insertion
  (`LookedUp`). A report of a duplicate found by its stamp is true for the same
  reason (`FoundByStamp`). In any zone: a draft's uid comes out of the message
  (`Sane`), uids on the calendar are unique, and a message with an event is
  finished, about to be, or its insertion was never heard of (`Booked`); a
  replay of the latter kind is the only way to a second one.
* *Service.* A state is in one place at a time: in the table, with the start that
  popped it, or with the callback that took it (`Exclusive`); hence the verifier
  in the table is the newest page's (`Newest`). For success, a callback between
  its write and its reload finds its own grant in the file unless somebody wrote over
  it (`Placed`, `OwnGrant`).
* *Service, pool.* That a pool lends no more than it has is not inductive: a
  connection given back goes to the head of the queue, so who queues must be known
  to wait, once, and without the connection it waits for. `Discipline` says that
  places in line are distinct and that there is a line only where all of the pool is
  lent, `Demand` that what is lent or waited for is what the jobs' labels call for,
  and `Ticking` that a tick past its lock has it, with the connection. For
  `NoPoolDeadlock`: whoever waits with a connection in hand is the tick at its
  checkpoint, the lock lets only one tick have one, and a pool of two or more whose
  connections are all in use has another user. `LockAccountedFor` follows a lock beyond
  its tick: while a session keeps it, only a tick of the same replica runs, and the
  replica is up (`OrphanLive`).
* *Shadow classifier.* Free slots and busy samples together are never fewer than the
  workers, and more only by submissions that failed late (`SlotsConserved`); a call
  not made yet is in flight nowhere (`Untold`), so accepting it adds one.
* *Training data.* Whether the test set is honest is decided runs earlier, when
  the backfill resumes: the rows of the file, those read and not flushed, and the
  rows of the query still to come are of different messages (`Resumed`), also
  when a kill cut a line and the next run appended to it. So a pair drawn for the
  test set takes its message away from training with it. A judged message has a last verdict
  because a bounded set of line numbers has a greatest one (`MaxIn`).
* *Questions.* The validation makes the label map a bijection onto the vocabulary,
  so every category has a key, and a choice is counted as agreeing if and only if it
  names the agent's category, or is the merged label and the category is one of the
  calendar's two (`AgreementIsExact`, in both directions).

Left to TLC: all liveness (`EventuallySettled`, `EventuallyMarked`, `EverySettled`,
`EveryRequestAnswered`), which the installed
provers do not reach, and the two findings, which are counterexamples. Every
other property of a passing run is a theorem above. `NeverStuck` is stated with
the guards of the steps (`CanStep`) and not with `ENABLED`, which the provers do
not reason about.

## Not modelled, and why

Formatting of messages and prompts, parsing of MIME, PDF and iCalendar text,
metrics, tracing and logging: no decision in the modelled parts depends on more
of them than is kept. Of Notion's fields, tags, dates, amounts and payment
methods are treated like the three that are modelled. A reply of laya with a
malformed number stores its category with `bad_response`, and a 400 for an event
that ends before it starts is one case of `extraction_failed`. Recurring
invitations are a first occurrence, as in the code. A zone is a fixed offset, so the
hours that summer time skips or repeats are outside the model. Exit codes and signals of
the command line, rendering of the review tools, the metrics page, the LLM
factory, the tool registry and text extraction keep no state that others read.
Migrations are one-shot and sequential; their constraints are part of the
modules of the tables they concern.

The parts meet where they share state: the poller hands messages to the agent, whose
two results (returned, raised) are all the poller sees, so the two are checked
apart, with `MailHandler` between them: `SingleFlight` gives the agent its one
message at a time, and `Implementation` gives the poller a handler that may be
called again for any message without paying for it again once it has ended; the
shadow classifier and the training tools, which meet in a table, are composed in
`LayaProgram`; the ticks, requests, starts and commands that share the pool, the
lock and the token file are composed in `WebService`.
