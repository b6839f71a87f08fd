----------------------------- MODULE WebService -----------------------------
(* The processes of the service and what they share: the oauth_flows table *)
(* and the tick lock in Postgres, the connection pool of each replica, the *)
(* token file, and the credentials each replica holds in memory.           *)
(*                                                                         *)
(* A slot runs one job at a time: a request served by a replica (POST      *)
(* /reauth, GET /auth/start, GET /auth/callback, POST /poll, GET /healthz),*)
(* the start of a replica, or a command typed on the host.  Between two    *)
(* labels of pc another slot may run.  Every statement on the database     *)
(* needs a connection of the replica's pool; a tick holds one for its lock *)
(* and asks for more while it runs.                                        *)
EXTENDS Integers, Sequences, FiniteSets

CONSTANTS Replicas, Host, Slots, NoSlot,
          PoolSize,          \* DATABASE_CHECKPOINTER_POOL_MAX_SIZE
          Flows,             \* the states secrets.token_urlsafe mints
          MaxJobs,           \* bound: how many jobs arrive
          MaxFaults,         \* bound: crashes, timeouts, refused grants
          NoFlow, NoToken, Torn

Kinds == {"reauth", "start", "callback", "poll", "healthz", "boot", "run",
          "cli", "stop"}

(* With a single connection a tick can never get its second one. *)
ASSUME WebAssumption ==
  /\ PoolSize \in Nat /\ PoolSize >= 2
  /\ Flows \subseteq Nat \ {0} /\ MaxJobs \in Nat
  /\ MaxFaults \in Nat
  /\ Host \notin Replicas /\ NoSlot \notin Slots \cup Replicas
  /\ NoFlow \notin [verifier : Nat, fresh : BOOLEAN]

Machines == Replicas \cup {Host}

VARIABLES
  up,         \* the replicas whose lifespan has started
  gmail,      \* the grant each replica's Gmail client uses
  calendar,   \* the grant each replica's Calendar client was built with
  file,       \* token.json: a grant, NoToken, or Torn
  granted,    \* how many grants Google has issued
  flows,      \* oauth_flows
  minted,     \* the states an operator was given a link for
  pages,      \* Google's consent pages: a state and the verifier it expects
  verifiers,  \* how many PKCE verifiers were generated
  held,       \* connections in use: <<slot, use, replica>>
  waiting,    \* each pool's queue
  lock,       \* the tick whose session holds TICK_LOCK_KEY
  orphan,     \* the replica with a session that kept TICK_LOCK_KEY after its tick
  pc, job,
  left, faults,
  spent,      \* history: states a callback has taken from the table
  clash       \* history: callbacks whose file was written over before the reload

dbVars == <<flows, minted, pages, verifiers, spent>>
poolVars == <<held, waiting, lock, orphan>>
tokenVars == <<file, granted, clash>>
memory == <<up, gmail, calendar>>
budget == <<left, faults>>
vars == <<dbVars, poolVars, tokenVars, memory, budget, pc, job>>

NoJob == [kind |-> "none", at |-> Host, csrf |-> 0, flow |-> 0, code |-> 0,
          grant |-> 0]

Init ==
  /\ up = Replicas /\ gmail = [r \in Replicas |-> 1]
  /\ calendar = [r \in Replicas |-> 1]
  /\ file = 1 /\ granted = 1 /\ clash = {}
  /\ flows = [s \in Flows |-> NoFlow] /\ minted = {} /\ pages = {}
  /\ verifiers = 0 /\ spent = {}
  /\ held = {} /\ waiting = [r \in Replicas |-> <<>>] /\ lock = NoSlot
  /\ orphan = NoSlot
  /\ pc = [q \in Slots |-> "idle"] /\ job = [q \in Slots |-> NoJob]
  /\ left = MaxJobs /\ faults = 0
-----------------------------------------------------------------------------
(* The pool: a request takes a free connection or queues, first come first *)
(* served; a connection given back goes to the head of the queue.          *)

InUse(r) == {c \in held : c[3] = r}

(* MUTANT: an unbounded pool. *)
AsksUnbounded(c) == held' = held \cup {c} /\ UNCHANGED waiting

Asks(c) ==
  IF Cardinality(InUse(c[3])) < PoolSize
  THEN held' = held \cup {c} /\ UNCHANGED waiting
  ELSE waiting' = [waiting EXCEPT ![c[3]] = Append(@, c)] /\ UNCHANGED held

GivesBack(c) ==
  LET queue == waiting[c[3]]
  IN  IF queue = <<>>
      THEN held' = held \ {c} /\ UNCHANGED waiting
      ELSE /\ held' = (held \ {c}) \cup {Head(queue)}
           /\ waiting' = [waiting EXCEPT ![c[3]] = Tail(queue)]

Work(q, r) == <<q, "work", r>>
LockConn(q, r) == <<q, "lock", r>>
Holds(q) == Work(q, job[q].at) \in held

Become(q, label, j) ==
  pc' = [pc EXCEPT ![q] = label] /\ job' = [job EXCEPT ![q] = j]
Goto(q, label) == Become(q, label, job[q])
Answer(q) == Become(q, "idle", NoJob)

Spend == faults < MaxFaults /\ faults' = faults + 1 /\ UNCHANGED left

(* A job of kind k at a machine, which becomes label. *)
Arrives(q, k, r, label, csrf, code) ==
  /\ pc[q] = "idle" /\ left > 0 /\ left' = left - 1
  /\ Become(q, label, [NoJob EXCEPT !.kind = k, !.at = r, !.csrf = csrf,
                                    !.code = code])
  /\ UNCHANGED faults

(* 401 without the API key, 500 without a redirect URI: nothing else changes. *)
Refused(k) ==
  /\ k \in {"reauth", "poll", "start"} /\ left > 0 /\ left' = left - 1
  /\ UNCHANGED <<dbVars, poolVars, tokenVars, memory, faults, pc, job>>
-----------------------------------------------------------------------------
(* The flow store. *)

(* MUTANT: the verifier is not kept. *)
SerializeScopesOnly(verifier) == [verifier |-> 0, fresh |-> TRUE]

(* What is kept of a flow: scopes and redirect_uri are the same for all.   *)
Serialize(verifier) == [verifier |-> verifier, fresh |-> TRUE]

Put(s, verifier) == flows' = [flows EXCEPT ![s] = Serialize(verifier)]

Found(s) == flows[s] # NoFlow /\ flows[s].fresh

(* MUTANT: the row is read and not deleted. *)
PopKeeping(s) == UNCHANGED flows

(* Sweep the expired rows, then delete and return the row of s if it is    *)
(* fresh: the second statement alone decides who gets it.                  *)
Pop(s) ==
  flows' = [x \in Flows |->
              IF x = s \/ (flows[x] # NoFlow /\ ~flows[x].fresh)
              THEN NoFlow ELSE flows[x]]

Expire(s) ==
  /\ Found(s) /\ flows' = [flows EXCEPT ![s].fresh = FALSE]
  /\ UNCHANGED <<minted, pages, verifiers, spent, poolVars, tokenVars, memory,
                 budget, pc, job>>
-----------------------------------------------------------------------------
(* POST /reauth *)

Reauth(q, r) ==
  /\ r \in up
  /\ \E s \in Flows \ (minted \cup {job[p].csrf : p \in Slots}) :
       Arrives(q, "reauth", r, "mint", s, 0)
  /\ Asks(Work(q, r))
  /\ UNCHANGED <<dbVars, lock, orphan, tokenVars, memory>>

Mint(q) ==
  /\ pc[q] = "mint" /\ Holds(q)
  /\ Put(job[q].csrf, 0) /\ minted' = minted \cup {job[q].csrf}
  /\ GivesBack(Work(q, job[q].at)) /\ Answer(q)
  /\ UNCHANGED <<pages, verifiers, spent, lock, orphan, tokenVars, memory, budget>>

(* GET /auth/start *)

Start(q, r) ==
  /\ r \in up
  /\ \E s \in minted : Arrives(q, "start", r, "start", s, 0)
  /\ Asks(Work(q, r))
  /\ UNCHANGED <<dbVars, lock, orphan, tokenVars, memory>>

StartPop(q) ==
  /\ pc[q] = "start" /\ Holds(q)
  /\ Pop(job[q].csrf) /\ GivesBack(Work(q, job[q].at))
  /\ IF Found(job[q].csrf) THEN Goto(q, "consent") ELSE Answer(q)
  /\ UNCHANGED <<minted, pages, verifiers, spent, lock, orphan, tokenVars, memory, budget>>

(* authorization_url generates a verifier for the page it points to. *)
Consent(q) ==
  /\ pc[q] = "consent"
  /\ verifiers' = verifiers + 1
  /\ Become(q, "putback", [job[q] EXCEPT !.flow = verifiers + 1])
  /\ Asks(Work(q, job[q].at))
  /\ UNCHANGED <<flows, minted, pages, spent, lock, orphan, tokenVars, memory, budget>>

PutBack(q) ==
  /\ pc[q] = "putback" /\ Holds(q)
  /\ Put(job[q].csrf, job[q].flow)
  /\ pages' = pages \cup {[csrf |-> job[q].csrf, verifier |-> job[q].flow]}
  /\ GivesBack(Work(q, job[q].at)) /\ Answer(q)
  /\ UNCHANGED <<minted, verifiers, spent, lock, orphan, tokenVars, memory, budget>>
-----------------------------------------------------------------------------
(* GET /auth/callback, on any replica, from any consent page still open. *)

Callback(q, r) ==
  /\ r \in up
  /\ \E p \in pages : Arrives(q, "callback", r, "callback", p.csrf, p.verifier)
  /\ Asks(Work(q, r))
  /\ UNCHANGED <<dbVars, lock, orphan, tokenVars, memory>>

CallbackPop(q) ==
  /\ pc[q] = "callback" /\ Holds(q)
  /\ LET s == job[q].csrf
     IN  /\ Pop(s) /\ GivesBack(Work(q, job[q].at))
         /\ IF Found(s)
            THEN /\ spent' = spent \cup {s}
                 /\ Become(q, "exchange", [job[q] EXCEPT !.flow = flows[s].verifier])
            ELSE Answer(q) /\ UNCHANGED spent
  /\ UNCHANGED <<minted, pages, verifiers, lock, orphan, tokenVars, memory, budget>>

(* MUTANT: the new token is not written before the reload. *)
ExchangeUnsaved(q) ==
  /\ pc[q] = "exchange"
  /\ IF job[q].flow = job[q].code
     THEN /\ granted' = granted + 1
          /\ Become(q, "reload", [job[q] EXCEPT !.grant = granted + 1])
     ELSE Answer(q) /\ UNCHANGED granted
  /\ UNCHANGED <<dbVars, poolVars, file, clash, memory, budget>>

(* Google takes the code with the verifier its page was opened with. *)
Exchange(q) ==
  /\ pc[q] = "exchange"
  /\ IF job[q].flow = job[q].code
     THEN /\ granted' = granted + 1
          /\ Become(q, "persist", [job[q] EXCEPT !.grant = granted + 1])
     ELSE Answer(q) /\ UNCHANGED granted
  /\ UNCHANGED <<dbVars, poolVars, file, clash, memory, budget>>

ExchangeFails(q) ==
  /\ pc[q] = "exchange" /\ Spend /\ Answer(q)
  /\ UNCHANGED <<dbVars, poolVars, tokenVars, memory>>

(* _persist: write_text empties the file and then fills it. *)
Truncate(q) ==
  /\ pc[q] = "persist" /\ file' = Torn /\ Goto(q, "write")
  /\ UNCHANGED <<dbVars, poolVars, granted, clash, memory, budget>>

(* Over another writer's text a shorter one leaves a tail behind. *)
Write(q) ==
  /\ pc[q] = "write"
  /\ file' \in {job[q].grant} \cup (IF file = Torn THEN {} ELSE {Torn})
  /\ clash' = clash \cup {p \in Slots \ {q} : pc[p] = "reload"}
  /\ CASE job[q].kind = "callback" -> Goto(q, "reload")
       [] job[q].kind = "boot" -> Goto(q, "serve")
       [] job[q].kind = "run" -> Goto(q, "tick once")
       [] OTHER -> Answer(q)   \* the reauth of the command line
  /\ UNCHANGED <<dbVars, poolVars, granted, memory, budget>>

(* GmailClient.reload_credentials; the Calendar client is not rebuilt. *)
Reload(q) ==
  /\ pc[q] = "reload"
  /\ IF file \in {NoToken, Torn}
     THEN Answer(q) /\ UNCHANGED gmail
     ELSE /\ gmail' = [gmail EXCEPT ![job[q].at] = file]
          /\ Goto(q, "told")
  /\ clash' = clash \ {q}
  /\ UNCHANGED <<dbVars, poolVars, file, granted, up, calendar, budget>>

(* A failed Telegram message changes nothing. *)
Notify(q) ==
  /\ pc[q] = "told" /\ Answer(q)
  /\ UNCHANGED <<dbVars, poolVars, tokenVars, memory, budget>>
-----------------------------------------------------------------------------
(* POST /poll: what the tick does to the mailbox is Poller's; here it is a *)
(* holder of one connection that needs others.                             *)

Poll(q, r) ==
  /\ r \in up /\ Arrives(q, "poll", r, "lock", 0, 0)
  /\ Asks(LockConn(q, r))
  /\ UNCHANGED <<dbVars, lock, orphan, tokenVars, memory>>

(* MUTANT: pg_advisory_lock, which waits, instead of pg_try_advisory_lock. *)
TryLockBlocking(q) ==
  /\ pc[q] = "lock" /\ LockConn(q, job[q].at) \in held /\ lock = NoSlot
  /\ lock' = q /\ Goto(q, "tick")
  /\ UNCHANGED <<held, waiting, orphan, dbVars, tokenVars, memory, budget>>

(* A session that has the lock already gets it again: the pool may lend    *)
(* this tick the one in which an earlier tick of the replica left it.      *)
TryLock(q) ==
  /\ pc[q] = "lock" /\ LockConn(q, job[q].at) \in held
  /\ \/ /\ lock = NoSlot /\ orphan \in {NoSlot, job[q].at}
        /\ lock' = q /\ Goto(q, "tick") /\ UNCHANGED <<held, waiting>>
     \/ /\ lock # NoSlot \/ orphan # NoSlot
        /\ GivesBack(LockConn(q, job[q].at)) /\ Answer(q) /\ UNCHANGED lock
  /\ UNCHANGED <<orphan, dbVars, tokenVars, memory, budget>>

Checkpoint(q) ==
  /\ pc[q] = "tick" /\ Goto(q, "checkpoint") /\ Asks(Work(q, job[q].at))
  /\ UNCHANGED <<dbVars, lock, orphan, tokenVars, memory, budget>>

Saved(q) ==
  /\ pc[q] = "checkpoint" /\ Holds(q)
  /\ Goto(q, "unlock") /\ GivesBack(Work(q, job[q].at))
  /\ UNCHANGED <<dbVars, lock, orphan, tokenVars, memory, budget>>

Unlock(q) ==
  /\ pc[q] = "unlock" /\ lock' = NoSlot
  /\ GivesBack(LockConn(q, job[q].at)) /\ Answer(q)
  /\ UNCHANGED <<orphan, dbVars, tokenVars, memory, budget>>

(* An unlock that raises is logged only: a session that lives goes back to *)
(* the pool with the lock, and every other one gets 409 until it closes.   *)
UnlockFails(q) ==
  /\ pc[q] = "unlock" /\ Spend
  /\ lock' = NoSlot /\ orphan' = job[q].at
  /\ GivesBack(LockConn(q, job[q].at)) /\ Answer(q)
  /\ UNCHANGED <<dbVars, tokenVars, memory>>

(* The pool retires its idle sessions (max_idle, max_lifetime). *)
SessionCloses ==
  /\ orphan # NoSlot /\ lock = NoSlot /\ orphan' = NoSlot
  /\ UNCHANGED <<held, waiting, lock, dbVars, tokenVars, memory, budget, pc, job>>

(* GET /healthz *)

Healthz(q, r) ==
  /\ r \in up /\ Arrives(q, "healthz", r, "probe", 0, 0)
  /\ Asks(Work(q, r))
  /\ UNCHANGED <<dbVars, lock, orphan, tokenVars, memory>>

Probe(q) ==
  /\ pc[q] = "probe" /\ Holds(q)
  /\ GivesBack(Work(q, job[q].at)) /\ Answer(q)
  /\ UNCHANGED <<dbVars, lock, orphan, tokenVars, memory, budget>>

(* Thirty seconds in the queue: the request fails, and a tick unwinds. *)
PoolTimeout(q) ==
  /\ Spend
  /\ \E r \in Replicas : \E i \in 1 .. Len(waiting[r]) :
       /\ waiting[r][i][1] = q
       /\ waiting' = [waiting EXCEPT ![r] = SubSeq(@, 1, i - 1)
                                            \o SubSeq(@, i + 1, Len(@))]
  /\ IF pc[q] = "checkpoint" THEN Goto(q, "unlock") ELSE Answer(q)
  /\ UNCHANGED <<dbVars, held, lock, orphan, tokenVars, memory>>
-----------------------------------------------------------------------------
(* Processes: the start of a replica (build_services), the one-shot run of *)
(* the command line, and its reauth.                                       *)

Boot(q, r) ==
  /\ r \notin up /\ \A p \in Slots : job[p].at # r
  /\ Arrives(q, "boot", r, "load", 0, 0)
  /\ UNCHANGED <<dbVars, poolVars, tokenVars, memory>>

Run(q) ==
  /\ Arrives(q, "run", Host, "load", 0, 0)
  /\ UNCHANGED <<dbVars, poolVars, tokenVars, memory>>

Cli(q) ==
  /\ Arrives(q, "cli", Host, "installed flow", 0, 0)
  /\ file' = NoToken
  /\ UNCHANGED <<dbVars, poolVars, granted, clash, memory>>

(* get_credentials: a valid token is used, an expired one refreshed, a     *)
(* missing one asked for in a browser, and a torn one stops the process.   *)
Load(q) ==
  /\ pc[q] = "load"
  /\ LET with(g) == [job[q] EXCEPT !.grant = g]
     IN  CASE file = Torn -> Answer(q)
           [] file = NoToken -> Goto(q, "installed flow")
           [] OTHER -> \/ Become(q, "refresh", with(file))
                       \/ Become(q, IF job[q].kind = "boot"
                                    THEN "serve" ELSE "tick once", with(file))
  /\ UNCHANGED <<dbVars, poolVars, tokenVars, memory, budget>>

(* A refresh renews the access token of the same grant. *)
Refresh(q) ==
  /\ pc[q] = "refresh" /\ Goto(q, "persist")
  /\ UNCHANGED <<dbVars, poolVars, tokenVars, memory, budget>>

(* CredentialRefreshError: the process ends, with 78 and a Telegram message *)
(* when it is the one-shot run.                                             *)
RefreshFails(q) ==
  /\ pc[q] = "refresh" /\ Spend /\ Answer(q)
  /\ UNCHANGED <<dbVars, poolVars, tokenVars, memory>>

InstalledFlow(q) ==
  /\ pc[q] = "installed flow" /\ granted' = granted + 1
  /\ Become(q, "persist", [job[q] EXCEPT !.grant = granted + 1])
  /\ UNCHANGED <<dbVars, poolVars, file, clash, memory, budget>>

(* The rest of build_services: pool, checkpointer, table, clients, agent. *)
Serve(q) ==
  /\ pc[q] = "serve" /\ Answer(q)
  /\ up' = up \cup {job[q].at}
  /\ gmail' = [gmail EXCEPT ![job[q].at] = job[q].grant]
  /\ calendar' = [calendar EXCEPT ![job[q].at] = job[q].grant]
  /\ UNCHANGED <<dbVars, poolVars, tokenVars, budget>>

(* One tick on a pool of its own and without the lock, then the exit. *)
TickOnce(q) ==
  /\ pc[q] = "tick once" /\ Answer(q)
  /\ UNCHANGED <<dbVars, poolVars, tokenVars, memory, budget>>

(* close_services, once no request of the replica is in flight; with the   *)
(* pool its sessions close.                                                *)
Stop(r) ==
  /\ r \in up /\ left > 0 /\ \A p \in Slots : job[p].at # r
  /\ left' = left - 1 /\ up' = up \ {r}
  /\ orphan' = IF orphan = r THEN NoSlot ELSE orphan
  /\ UNCHANGED <<dbVars, held, waiting, lock, tokenVars, gmail, calendar, faults,
                 pc, job>>

(* A machine's processes die: their sessions close, which frees the lock. *)
Crash(a) ==
  LET dead == {q \in Slots : pc[q] # "idle" /\ job[q].at = a}
  IN  /\ a \in up \/ dead # {}
      /\ Spend
      /\ pc' = [q \in Slots |-> IF q \in dead THEN "idle" ELSE pc[q]]
      /\ job' = [q \in Slots |-> IF q \in dead THEN NoJob ELSE job[q]]
      /\ held' = held \ InUse(a)
      /\ waiting' = [r \in Replicas |-> IF r = a THEN <<>> ELSE waiting[r]]
      /\ lock' = IF lock \in dead THEN NoSlot ELSE lock
      /\ orphan' = IF orphan = a THEN NoSlot ELSE orphan
      /\ up' = up \ {a} /\ clash' = clash \ dead
      /\ UNCHANGED <<dbVars, file, granted, gmail, calendar>>
-----------------------------------------------------------------------------
Step(q) ==
  \/ Mint(q) \/ StartPop(q) \/ Consent(q) \/ PutBack(q)
  \/ CallbackPop(q) \/ Exchange(q) \/ Truncate(q) \/ Write(q) \/ Reload(q)
  \/ Notify(q) \/ TryLock(q) \/ Checkpoint(q) \/ Saved(q) \/ Unlock(q)
  \/ Probe(q) \/ Load(q) \/ Refresh(q) \/ Serve(q) \/ TickOnce(q)

Next ==
  \/ \E q \in Slots : Step(q)
  \/ \E q \in Slots, r \in Replicas :
       \/ Reauth(q, r) \/ Start(q, r) \/ Callback(q, r) \/ Poll(q, r)
       \/ Healthz(q, r) \/ Boot(q, r)
  \/ \E q \in Slots :
       \/ Run(q) \/ Cli(q) \/ InstalledFlow(q)
       \/ ExchangeFails(q) \/ RefreshFails(q) \/ PoolTimeout(q)
       \/ UnlockFails(q)
  \/ \E k \in Kinds : Refused(k)
  \/ \E s \in Flows : Expire(s)
  \/ SessionCloses
  \/ \E r \in Replicas : Stop(r)
  \/ \E a \in Machines : Crash(a)

Spec == Init /\ [][Next]_vars

(* The threads of a process run on; a consent given in a browser of the    *)
(* host (InstalledFlow) may never come.                                    *)
FairSpec == Spec /\ \A q \in Slots : WF_vars(Step(q))
-----------------------------------------------------------------------------
Requests == {"reauth", "start", "callback", "poll", "healthz"}
Labels == {"idle", "mint", "start", "consent", "putback", "callback", "exchange",
           "persist", "write", "reload", "told", "lock", "tick", "checkpoint",
           "unlock", "probe", "load", "refresh", "installed flow", "serve",
           "tick once"}
Jobs == [kind : Kinds \cup {"none"}, at : Machines, csrf : Nat, flow : Nat,
         code : Nat, grant : Nat]
Conns == Slots \X {"work", "lock"} \X Replicas

(* Every variable keeps its type, and no pool lends more connections than   *)
(* it has.                                                                  *)
TypeOK ==
  /\ up \subseteq Replicas /\ gmail \in [Replicas -> Nat]
  /\ calendar \in [Replicas -> Nat]
  /\ file \in Nat \cup {NoToken, Torn} /\ granted \in Nat /\ clash \subseteq Slots
  /\ flows \in [Flows -> {NoFlow} \cup [verifier : Nat, fresh : BOOLEAN]]
  /\ minted \subseteq Nat /\ spent \subseteq Nat /\ verifiers \in Nat
  /\ pages \subseteq [csrf : Nat, verifier : Nat]
  /\ held \subseteq Conns /\ \A r \in Replicas : Cardinality(InUse(r)) <= PoolSize
  /\ waiting \in [Replicas -> Seq(Conns)] /\ lock \in Slots \cup {NoSlot}
  /\ orphan \in Replicas \cup {NoSlot}
  /\ pc \in [Slots -> Labels] /\ job \in [Slots -> Jobs]
  /\ left \in 0 .. MaxJobs /\ faults \in 0 .. MaxFaults

(* A state is redeemed once: after a callback has taken its flow, no row,   *)
(* no /auth/start between its pop and its put, and no other callback has it *)
(* (oauth_flow_store.py: the pop deletes what it returns).                  *)
SingleUse ==
  \A s \in spent :
    /\ flows[s] = NoFlow
    /\ \A q \in Slots : pc[q] \in {"consent", "putback"} => job[q].csrf # s
    /\ \A p, q \in Slots :
         /\ pc[p] = "exchange" /\ job[p].csrf = s
         /\ pc[q] = "exchange" /\ job[q].csrf = s
         => p = q

(* A callback that comes from the last consent page opened for its state    *)
(* exchanges its code with that page's verifier, whatever other starts and  *)
(* callbacks did in between: "invalid_grant" is only for an older page.     *)
NewestPageWorks ==
  \A q \in Slots :
    /\ pc[q] = "exchange"
    /\ \A p \in pages : p.csrf = job[q].csrf => p.verifier <= job[q].code
    => job[q].flow = job[q].code

(* Telling the operator that the grant is in use is true: unless another    *)
(* process wrote the token file in between, the replica's Gmail client has  *)
(* the grant of this very callback.                                         *)
SuccessIsInstalled ==
  [][\A q \in Slots :
       pc[q] = "reload" /\ pc'[q] = "told" /\ q \notin clash
       => gmail'[job[q].at] = job[q].grant]_vars

(* No request waits for ever for a connection, although a tick waits for    *)
(* its second one while it holds its first: nobody else does.               *)
EveryRequestAnswered ==
  \A q \in Slots : job[q].kind \in Requests ~> pc[q] = "idle"
=============================================================================
