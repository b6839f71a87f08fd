-------------------------- MODULE WebServiceProofs --------------------------
(***************************************************************************)
(* Proofs about WebService for any replicas, requests, faults and states:  *)
(* a state is redeemed once, the newest consent page works, and an operator*)
(* who is told that the grant is in use is told the truth.                 *)
(*                                                                         *)
(* A state is in one place at a time (Exclusive): in the table, with one   *)
(* /auth/start that popped it and will put it back, or with the one        *)
(* callback that took it.  That is why the verifier in the table is the one*)
(* of the newest page (Newest): nobody else can open a page in between.    *)
(***************************************************************************)
EXTENDS WebService, TLAPS

Rows == [verifier : Nat, fresh : BOOLEAN]

Typed ==
  /\ pc \in [Slots -> Labels] /\ job \in [Slots -> Jobs]
  /\ flows \in [Flows -> {NoFlow} \cup Rows]
  /\ minted \subseteq Flows /\ spent \subseteq minted
  /\ pages \subseteq [csrf : minted, verifier : 0 .. verifiers] /\ verifiers \in Nat
  /\ file \in Nat \cup {NoToken, Torn} /\ granted \in Nat
  /\ gmail \in [Replicas -> Nat]

\* Labels at which a job has to do with a state.
Flowing == {"mint", "start", "consent", "putback", "callback", "exchange"}

\* A state that is being minted is known to nobody else.
Minting ==
  \A q \in Slots : pc[q] = "mint" =>
    /\ job[q].csrf \in Flows \ minted
    /\ \A p \in Slots \ {q} : job[p].csrf # job[q].csrf

\* A request comes with a state from a link, a callback from a page.
Known ==
  \A q \in Slots :
    /\ pc[q] \in Flowing \ {"mint"} => job[q].csrf \in minted
    /\ pc[q] \in {"callback", "exchange"} =>
         [csrf |-> job[q].csrf, verifier |-> job[q].code] \in pages

Starting(q) == pc[q] \in {"consent", "putback"}

Exclusive ==
  /\ \A s \in spent : flows[s] = NoFlow
  /\ \A q \in Slots : Starting(q) => flows[job[q].csrf] = NoFlow /\ job[q].csrf \notin spent
  /\ \A p, q \in Slots : Starting(p) /\ Starting(q) /\ job[p].csrf = job[q].csrf => p = q
  /\ \A q \in Slots : pc[q] = "exchange" => job[q].csrf \in spent
  /\ \A p, q \in Slots :
       pc[p] = "exchange" /\ pc[q] = "exchange" /\ job[p].csrf = job[q].csrf => p = q

\* v is the verifier of the newest page of s, or 0 and there is none yet.
IsNewest(s, v) ==
  /\ \A p \in pages : p.csrf = s => p.verifier <= v
  /\ v = 0 \/ [csrf |-> s, verifier |-> v] \in pages

Newest ==
  /\ \A s \in Flows : flows[s] # NoFlow => IsNewest(s, flows[s].verifier)
  /\ \A q \in Slots : pc[q] = "exchange" => IsNewest(job[q].csrf, job[q].flow)
  /\ \A q \in Slots : pc[q] = "putback" =>
       /\ job[q].flow \in 0 .. verifiers
       /\ \A p \in pages : p.csrf = job[q].csrf => p.verifier <= job[q].flow

FlowInv == Typed /\ Minting /\ Known /\ Exclusive /\ Newest

LEMMA InitFlow == Init => FlowInv
BY WebAssumption
DEF Init, NoJob, Machines, FlowInv, Typed, Minting, Known, Exclusive, Newest, Starting,
    Labels, Jobs, Kinds, Flowing

-----------------------------------------------------------------------------
(* Steps that have nothing to do with states. *)

Aloof(p) ==
  /\ job'[p].csrf \in {job[p].csrf, 0}
  /\ pc'[p] \in Flowing =>
       /\ pc'[p] = pc[p] /\ job'[p].csrf = job[p].csrf
       /\ job'[p].flow = job[p].flow /\ job'[p].code = job[p].code

LEMMA AloofStep ==
  ASSUME FlowInv, Typed', UNCHANGED dbVars, \A p \in Slots : Aloof(p)
  PROVE  FlowInv'
<1> USE DEF dbVars, Aloof
<1>1. Minting'
  BY WebAssumption DEF FlowInv, Minting, Flowing
<1>2. Known'
  BY DEF FlowInv, Known, Flowing
<1>3. Exclusive'
  BY DEF FlowInv, Exclusive, Starting, Flowing
<1>4. Newest'
  BY DEF FlowInv, Newest, IsNewest, Flowing
<1> QED BY <1>1, <1>2, <1>3, <1>4 DEF FlowInv

\* One slot goes on to a label that has nothing to do with states.
LEMMA AloofJob ==
  ASSUME FlowInv, UNCHANGED dbVars, NEW q \in Slots, NEW label \in Labels \ Flowing,
         NEW j \in Jobs, j.csrf \in {job[q].csrf, 0}, Become(q, label, j),
         file' \in Nat \cup {NoToken, Torn}, granted' \in Nat, gmail' \in [Replicas -> Nat]
  PROVE  FlowInv'
<1>1. Typed'
  BY DEF FlowInv, Typed, Become, dbVars
<1>2. \A p \in Slots : Aloof(p)
  BY DEF FlowInv, Typed, Become, Aloof
<1> QED BY <1>1, <1>2, AloofStep

LEMMA Ended ==
  ASSUME FlowInv, UNCHANGED dbVars, NEW q \in Slots, Answer(q),
         file' \in Nat \cup {NoToken, Torn}, granted' \in Nat, gmail' \in [Replicas -> Nat]
  PROVE  FlowInv'
<1>1. NoJob \in Jobs /\ NoJob.csrf = 0 /\ "idle" \in Labels \ Flowing
  BY DEF NoJob, Jobs, Kinds, Machines, Labels, Flowing
<1> QED BY <1>1, AloofJob DEF Answer

LEMMA WentOn ==
  ASSUME FlowInv, UNCHANGED dbVars, NEW q \in Slots, NEW label \in Labels \ Flowing,
         Goto(q, label),
         file' \in Nat \cup {NoToken, Torn}, granted' \in Nat, gmail' \in [Replicas -> Nat]
  PROVE  FlowInv'
<1>1. job[q] \in Jobs
  BY DEF FlowInv, Typed
<1> QED BY <1>1, AloofJob DEF Goto

LEMMA Arrived ==
  ASSUME FlowInv, UNCHANGED dbVars, NEW q \in Slots, NEW label \in Labels \ Flowing,
         NEW k \in Kinds, NEW r \in Machines, Arrives(q, k, r, label, 0, 0),
         file' \in Nat \cup {NoToken, Torn}, granted' \in Nat, gmail' \in [Replicas -> Nat]
  PROVE  FlowInv'
<1> DEFINE j == [NoJob EXCEPT !.kind = k, !.at = r, !.csrf = 0, !.code = 0]
<1>1. j \in Jobs /\ j.csrf = 0
  BY DEF NoJob, Jobs
<1>2. Become(q, label, j)
  BY DEF Arrives
<1> HIDE DEF j
<1> QED BY <1>1, <1>2, AloofJob

LEMMA TickKeeps ==
  ASSUME FlowInv, NEW q \in Slots,
         TryLock(q) \/ Checkpoint(q) \/ Saved(q) \/ Unlock(q) \/ Probe(q)
           \/ Notify(q) \/ TickOnce(q)
  PROVE  FlowInv'
<1>1. /\ UNCHANGED dbVars
      /\ file' \in Nat \cup {NoToken, Torn} /\ granted' \in Nat /\ gmail' \in [Replicas -> Nat]
  BY DEF FlowInv, Typed, tokenVars, memory, TryLock, Checkpoint, Saved, Unlock, Probe,
         Notify, TickOnce
<1>2. Answer(q) \/ Goto(q, "tick") \/ Goto(q, "checkpoint") \/ Goto(q, "unlock")
  BY DEF TryLock, Checkpoint, Saved, Unlock, Probe, Notify, TickOnce
<1>3. {"tick", "checkpoint", "unlock"} \subseteq Labels \ Flowing
  BY DEF Labels, Flowing
<1> QED BY <1>1, <1>2, <1>3, Ended, WentOn

LEMMA TokenKeeps ==
  ASSUME FlowInv, NEW q \in Slots,
         Exchange(q) \/ Truncate(q) \/ Write(q) \/ Reload(q) \/ Refresh(q)
           \/ Serve(q) \/ InstalledFlow(q) \/ Load(q)
  PROVE  FlowInv'
<1>0. job[q] \in Jobs /\ FlowInv
  BY DEF FlowInv, Typed
<1>1. /\ UNCHANGED dbVars
      /\ file' \in Nat \cup {NoToken, Torn} /\ granted' \in Nat /\ gmail' \in [Replicas -> Nat]
  <2>1. job[q].grant \in Nat
    BY <1>0 DEF Jobs
  <2>2. /\ file \in Nat \cup {NoToken, Torn} /\ granted \in Nat /\ granted + 1 \in Nat
        /\ gmail \in [Replicas -> Nat]
    BY DEF FlowInv, Typed
  <2>3. CASE Exchange(q) \/ InstalledFlow(q) \/ Refresh(q) \/ Load(q) \/ Truncate(q)
    BY <2>2, <2>3 DEF tokenVars, memory, Exchange, InstalledFlow, Refresh, Load, Truncate
  <2>4. CASE Write(q)
    BY <2>1, <2>2, <2>4 DEF memory, Write
  <2>5. CASE Reload(q)
    BY <2>2, <2>5 DEF Reload
  <2>6. CASE Serve(q)
    BY <2>1, <2>2, <2>6 DEF tokenVars, Serve
  <2> QED BY <2>3, <2>4, <2>5, <2>6
<1>2. \/ Answer(q)
      \/ \E label \in Labels \ Flowing : Goto(q, label)
      \/ \E label \in Labels \ Flowing, g \in Nat :
           Become(q, label, [job[q] EXCEPT !.grant = g])
  <2>1. CASE Truncate(q) \/ Write(q) \/ Reload(q) \/ Refresh(q) \/ Serve(q)
    <3>1. {"write", "reload", "serve", "tick once", "told", "persist"} \subseteq Labels \ Flowing
      BY DEF Labels, Flowing
    <3>2. Answer(q) \/ \E label \in {"write", "reload", "serve", "tick once", "told", "persist"} :
                         Goto(q, label)
      BY <2>1 DEF Truncate, Write, Reload, Refresh, Serve
    <3> QED BY <3>1, <3>2
  <2>2. CASE Exchange(q) \/ InstalledFlow(q)
    <3>1. "persist" \in Labels \ Flowing
      BY DEF Labels, Flowing
    <3>2. granted + 1 \in Nat
      BY DEF FlowInv, Typed
    <3> QED BY <2>2, <3>1, <3>2 DEF Exchange, InstalledFlow
  <2>3. CASE Load(q)
    <3>1. {"installed flow", "refresh", "serve", "tick once"} \subseteq Labels \ Flowing
      BY DEF Labels, Flowing
    <3>2. file \in {Torn, NoToken} \/ file \in Nat
      BY DEF FlowInv, Typed
    <3> QED BY <2>3, <3>1, <3>2 DEF Load
  <2> QED BY <2>1, <2>2, <2>3
<1>3. \A g \in Nat : [job[q] EXCEPT !.grant = g] \in Jobs
                     /\ [job[q] EXCEPT !.grant = g].csrf = job[q].csrf
  BY <1>0 DEF Jobs
<1> QED BY <1>0, <1>1, <1>2, <1>3, Ended, WentOn, AloofJob

LEMMA FaultKeeps ==
  ASSUME FlowInv,
         \/ \E q \in Slots : ExchangeFails(q) \/ RefreshFails(q) \/ PoolTimeout(q)
                               \/ UnlockFails(q)
         \/ \E a \in Machines : Crash(a)
         \/ \E r \in Replicas : Stop(r)
         \/ SessionCloses
         \/ \E k \in Kinds : Refused(k)
  PROVE  FlowInv'
<1>1. /\ UNCHANGED dbVars
      /\ file' \in Nat \cup {NoToken, Torn} /\ granted' \in Nat /\ gmail' \in [Replicas -> Nat]
  BY DEF FlowInv, Typed, tokenVars, memory, ExchangeFails, RefreshFails, PoolTimeout, UnlockFails,
         Crash, Stop, SessionCloses, Refused
<1>2. CASE \E q \in Slots : ExchangeFails(q) \/ RefreshFails(q) \/ PoolTimeout(q)
                              \/ UnlockFails(q)
  <2>1. PICK q \in Slots : Answer(q) \/ Goto(q, "unlock")
    BY <1>2 DEF ExchangeFails, RefreshFails, PoolTimeout, UnlockFails
  <2>2. "unlock" \in Labels \ Flowing
    BY DEF Labels, Flowing
  <2> QED BY <1>1, <2>1, <2>2, Ended, WentOn
<1>3. CASE \E a \in Machines : Crash(a)
  <2>1. NoJob \in Jobs /\ NoJob.csrf = 0 /\ "idle" \in Labels \ Flowing
    BY DEF NoJob, Jobs, Kinds, Machines, Labels, Flowing
  <2>2. Typed'
    BY <1>1, <1>3, <2>1 DEF FlowInv, Typed, Crash, dbVars
  <2>3. \A p \in Slots : Aloof(p)
    BY <1>3, <2>1 DEF Aloof, Crash
  <2> QED BY <1>1, <2>2, <2>3, AloofStep
<1>4. CASE (\E r \in Replicas : Stop(r)) \/ SessionCloses \/ (\E k \in Kinds : Refused(k))
  <2>1. pc' = pc /\ job' = job
    BY <1>4 DEF Stop, SessionCloses, Refused
  <2>2. Typed' /\ \A p \in Slots : Aloof(p)
    BY <1>1, <2>1 DEF FlowInv, Typed, Aloof, dbVars
  <2> QED BY <1>1, <2>2, AloofStep
<1> QED BY <1>2, <1>3, <1>4

LEMMA ArrivalKeeps ==
  ASSUME FlowInv,
         \/ \E q \in Slots, r \in Replicas : Poll(q, r) \/ Healthz(q, r) \/ Boot(q, r)
         \/ \E q \in Slots : Run(q) \/ Cli(q)
  PROVE  FlowInv'
<1>1. /\ UNCHANGED dbVars
      /\ file' \in Nat \cup {NoToken, Torn} /\ granted' \in Nat /\ gmail' \in [Replicas -> Nat]
  BY DEF FlowInv, Typed, tokenVars, memory, Poll, Healthz, Boot, Run, Cli
<1>2. PICK q \in Slots, k \in Kinds, r \in Machines,
           label \in {"lock", "probe", "load", "installed flow"} :
        Arrives(q, k, r, label, 0, 0)
  BY DEF Poll, Healthz, Boot, Run, Cli, Kinds, Machines
<1>3. label \in Labels \ Flowing
  BY DEF Labels, Flowing
<1> QED BY <1>1, <1>2, <1>3, Arrived
-----------------------------------------------------------------------------
(* A request that names a state arrives. *)

LEMMA RequestKeeps ==
  ASSUME FlowInv, UNCHANGED <<dbVars, tokenVars, memory>>, NEW q \in Slots,
         NEW label \in {"mint", "start", "callback"}, NEW j \in Jobs, Become(q, label, j),
         label = "mint" => j.csrf \in Flows \ minted /\ \A p \in Slots : job[p].csrf # j.csrf,
         label # "mint" => j.csrf \in minted,
         label = "callback" => [csrf |-> j.csrf, verifier |-> j.code] \in pages
  PROVE  FlowInv'
<1>1. /\ UNCHANGED <<flows, minted, pages, verifiers, spent>>
      /\ UNCHANGED <<file, granted, gmail>>
      /\ pc' = [pc EXCEPT ![q] = label] /\ job' = [job EXCEPT ![q] = j]
  BY DEF dbVars, tokenVars, memory, Become
<1>2. Typed /\ Minting /\ Known /\ Exclusive /\ Newest
  BY DEF FlowInv
<1>3. Typed'
  BY <1>1, <1>2 DEF Typed, Labels
<1>4. Minting'
  BY <1>1, <1>2 DEF Typed, Minting, Known, Flowing
<1>5. Known'
  BY <1>1, <1>2 DEF Typed, Known, Flowing
<1>6. Exclusive'
  BY <1>1, <1>2 DEF Typed, Exclusive, Starting
<1>7. Newest'
  BY <1>1, <1>2 DEF Typed, Newest, IsNewest
<1> QED BY <1>3, <1>4, <1>5, <1>6, <1>7 DEF FlowInv

LEMMA FlowRequests ==
  ASSUME FlowInv, NEW q \in Slots, NEW r \in Replicas,
         Reauth(q, r) \/ Start(q, r) \/ Callback(q, r)
  PROVE  FlowInv'
<1> DEFINE New(k, s, c) == [NoJob EXCEPT !.kind = k, !.at = r, !.csrf = s, !.code = c]
<1>1. \A k \in Kinds, s \in Nat, c \in Nat :
        New(k, s, c) \in Jobs /\ New(k, s, c).csrf = s /\ New(k, s, c).code = c
  BY DEF NoJob, Jobs, Machines
<1> HIDE DEF New
<1>2. UNCHANGED <<dbVars, tokenVars, memory>>
  BY DEF Reauth, Start, Callback
<1>3. /\ Flows \subseteq Nat /\ minted \subseteq Nat
      /\ \A p \in pages : p.csrf \in minted /\ p.verifier \in Nat
                          /\ p = [csrf |-> p.csrf, verifier |-> p.verifier]
  BY WebAssumption DEF FlowInv, Typed
<1>4. CASE Reauth(q, r)
  <2>1. PICK s \in Flows \ (minted \cup {job[p].csrf : p \in Slots}) :
          Become(q, "mint", New("reauth", s, 0))
    BY <1>4 DEF Reauth, Arrives, New
  <2>2. New("reauth", s, 0) \in Jobs /\ New("reauth", s, 0).csrf = s
    BY <1>1, <1>3, <2>1 DEF Kinds
  <2> QED BY <1>2, <2>1, <2>2, RequestKeeps
<1>5. CASE Start(q, r)
  <2>1. PICK s \in minted : Become(q, "start", New("start", s, 0))
    BY <1>5 DEF Start, Arrives, New
  <2>2. New("start", s, 0) \in Jobs /\ New("start", s, 0).csrf = s
    BY <1>1, <1>3 DEF Kinds
  <2> QED BY <1>2, <2>1, <2>2, RequestKeeps
<1>6. CASE Callback(q, r)
  <2>1. PICK p \in pages : Become(q, "callback", New("callback", p.csrf, p.verifier))
    BY <1>6 DEF Callback, Arrives, New
  <2> DEFINE j == New("callback", p.csrf, p.verifier)
  <2>2. j \in Jobs /\ j.csrf = p.csrf /\ j.code = p.verifier
    BY <1>1, <1>3 DEF Kinds
  <2>3. j.csrf \in minted /\ [csrf |-> j.csrf, verifier |-> j.code] \in pages
    BY <1>3, <2>2
  <2> HIDE DEF j
  <2>4. Become(q, "callback", j)
    BY <2>1 DEF j
  <2> QED BY <1>2, <2>2, <2>3, <2>4, RequestKeeps
<1> QED BY <1>4, <1>5, <1>6

-----------------------------------------------------------------------------
(* The statements on the table. *)

\* No flow appears or changes but for s.
Untouched(s) ==
  \A x \in Flows \ {s} : flows'[x] # NoFlow =>
    flows[x] # NoFlow /\ flows'[x].verifier = flows[x].verifier

LEMMA PopTakes ==
  ASSUME Typed, NEW s \in Flows, Pop(s)
  PROVE  /\ flows' \in [Flows -> {NoFlow} \cup Rows] /\ flows'[s] = NoFlow
         /\ Untouched(s)
         /\ \A x \in Flows : flows[x] = NoFlow => flows'[x] = NoFlow
BY DEF Typed, Pop, Untouched

LEMMA PutStores ==
  ASSUME Typed, NEW s \in Flows, NEW v \in Nat, Put(s, v)
  PROVE  /\ flows' \in [Flows -> {NoFlow} \cup Rows]
         /\ flows'[s] # NoFlow /\ flows'[s].verifier = v
         /\ \A x \in Flows \ {s} : flows'[x] = flows[x]
         /\ Untouched(s)
<1>1. Serialize(v) \in Rows /\ Serialize(v).verifier = v
  BY DEF Serialize, Rows
<1>2. Serialize(v) # NoFlow
  BY <1>1, WebAssumption DEF Rows
<1>3. flows' = [flows EXCEPT ![s] = Serialize(v)] /\ flows \in [Flows -> {NoFlow} \cup Rows]
  BY DEF Typed, Put
<1> QED BY <1>1, <1>2, <1>3 DEF Untouched

LEMMA ExpireKeeps ==
  ASSUME FlowInv, NEW s \in Flows, Expire(s)
  PROVE  FlowInv'
<1>1. /\ UNCHANGED <<minted, pages, verifiers, spent, pc, job, file, granted, gmail>>
      /\ flows' = [flows EXCEPT ![s].fresh = FALSE] /\ flows[s] # NoFlow
  BY DEF Expire, Found, tokenVars, memory
<1>2. Typed /\ Minting /\ Known /\ Exclusive /\ Newest
  BY DEF FlowInv
<1>3. /\ flows' \in [Flows -> {NoFlow} \cup Rows]
      /\ \A x \in Flows : /\ flows'[x] = NoFlow <=> flows[x] = NoFlow
                          /\ flows[x] # NoFlow => flows'[x].verifier = flows[x].verifier
  <2>1. flows[s] \in Rows
    BY <1>1, <1>2 DEF Typed
  <2>2. [flows[s] EXCEPT !.fresh = FALSE] \in Rows
        /\ [flows[s] EXCEPT !.fresh = FALSE].verifier = flows[s].verifier
    BY <2>1 DEF Rows
  <2>3. flows' = [flows EXCEPT ![s] = [flows[s] EXCEPT !.fresh = FALSE]]
    BY <1>1, <1>2 DEF Typed
  <2>4. NoFlow \notin Rows
    BY WebAssumption DEF Rows
  <2> QED BY <1>1, <1>2, <2>2, <2>3, <2>4 DEF Typed
<1>4. Typed'
  BY <1>1, <1>2, <1>3 DEF Typed
<1>5. Minting' /\ Known'
  BY <1>1, <1>2 DEF Minting, Known
<1>6. Exclusive'
  <2>1. minted \subseteq Flows /\ spent \subseteq Flows
    BY <1>2 DEF Typed
  <2>2. \A q \in Slots : Starting(q) => job[q].csrf \in Flows
    BY <1>2, <2>1 DEF Known, Starting, Flowing
  <2> QED BY <1>1, <1>2, <1>3, <2>1, <2>2 DEF Exclusive, Starting
<1>7. Newest'
  BY <1>1, <1>2, <1>3 DEF Newest, IsNewest
<1> QED BY <1>4, <1>5, <1>6, <1>7 DEF FlowInv

LEMMA MintKeeps ==
  ASSUME FlowInv, NEW q \in Slots, Mint(q)
  PROVE  FlowInv'
<1> DEFINE s == job[q].csrf
<1>1. /\ UNCHANGED <<pages, verifiers, spent, file, granted, gmail>>
      /\ pc[q] = "mint" /\ Put(s, 0) /\ minted' = minted \cup {s}
      /\ pc' = [pc EXCEPT ![q] = "idle"] /\ job' = [job EXCEPT ![q] = NoJob]
  BY DEF Mint, Answer, Become, tokenVars, memory
<1>2. Typed /\ Minting /\ Known /\ Exclusive /\ Newest
  BY DEF FlowInv
<1>3. NoJob \in Jobs /\ NoJob.csrf = 0
  BY DEF NoJob, Jobs, Kinds, Machines
<1>4. s \in Flows \ minted /\ \A p \in Slots \ {q} : job[p].csrf # s
  BY <1>1, <1>2 DEF Minting
<1>5. /\ flows' \in [Flows -> {NoFlow} \cup Rows]
      /\ flows'[s] # NoFlow /\ flows'[s].verifier = 0
      /\ \A x \in Flows \ {s} : flows'[x] = flows[x]
  BY <1>1, <1>2, <1>4, PutStores
<1> HIDE DEF s
<1>6. Typed'
  BY <1>1, <1>2, <1>3, <1>4, <1>5 DEF Typed, Labels
<1>7. Minting'
  BY <1>1, <1>2, <1>3, <1>4, WebAssumption DEF Typed, Minting
<1>8. Known'
  BY <1>1, <1>2 DEF Typed, Known, Flowing
<1>9. Exclusive'
  <2>1. \A p \in Slots : Starting(p)' => Starting(p) /\ job'[p] = job[p] /\ job[p].csrf \in Flows \ {s}
    BY <1>1, <1>2, <1>4 DEF Typed, Starting, Known, Flowing
  <2>2. \A p \in Slots : pc'[p] = "exchange" => pc[p] = "exchange" /\ job'[p] = job[p]
    BY <1>1, <1>2 DEF Typed
  <2>3. s \notin spent /\ spent \subseteq Flows
    BY <1>2, <1>4 DEF Typed
  <2> QED BY <1>1, <1>2, <1>5, <2>1, <2>2, <2>3 DEF Exclusive, Starting
<1>10. Newest'
  <2>1. \A p \in pages : p.csrf # s
    BY <1>2, <1>4 DEF Typed
  <2>2. \A x \in Flows : flows'[x] # NoFlow => IsNewest(x, flows'[x].verifier)
    BY <1>2, <1>5, <2>1 DEF Newest, IsNewest
  <2>3. \A p \in Slots : pc'[p] \in {"exchange", "putback"} =>
           pc'[p] = pc[p] /\ job'[p] = job[p]
    BY <1>1, <1>2 DEF Typed
  <2> QED BY <1>1, <1>2, <2>2, <2>3 DEF Newest, IsNewest
<1> QED BY <1>6, <1>7, <1>8, <1>9, <1>10 DEF FlowInv

LEMMA StartPopKeeps ==
  ASSUME FlowInv, NEW q \in Slots, StartPop(q)
  PROVE  FlowInv'
<1> DEFINE s == job[q].csrf
<1>1. /\ UNCHANGED <<minted, pages, verifiers, spent, file, granted, gmail>>
      /\ pc[q] = "start" /\ Pop(s)
      /\ IF Found(s) THEN Goto(q, "consent") ELSE Answer(q)
  BY DEF StartPop, tokenVars, memory
<1>2. Typed /\ Minting /\ Known /\ Exclusive /\ Newest
  BY DEF FlowInv
<1>3. NoJob \in Jobs /\ NoJob.csrf = 0 /\ "idle" \in Labels \ Flowing /\ "consent" \in Labels
  BY DEF NoJob, Jobs, Kinds, Machines, Labels, Flowing
<1>4. s \in minted /\ s \in Flows
  BY <1>1, <1>2 DEF Known, Flowing, Typed
<1> HIDE DEF s
<1>5. /\ flows' \in [Flows -> {NoFlow} \cup Rows] /\ flows'[s] = NoFlow /\ Untouched(s)
      /\ \A x \in Flows : flows[x] = NoFlow => flows'[x] = NoFlow
  BY <1>1, <1>2, <1>4, PopTakes
<1>6. /\ \A p \in Slots \ {q} : pc'[p] = pc[p] /\ job'[p] = job[p]
      /\ \/ flows[s] # NoFlow /\ pc'[q] = "consent" /\ job'[q] = job[q]
         \/ pc'[q] = "idle" /\ job'[q] = NoJob
      /\ pc' \in [Slots -> Labels] /\ job' \in [Slots -> Jobs]
  BY <1>1, <1>2, <1>3 DEF Typed, Found, Goto, Answer, Become
<1>7. Typed'
  BY <1>1, <1>2, <1>5, <1>6 DEF Typed
<1>8. Minting'
  BY <1>1, <1>2, <1>3, <1>6, WebAssumption DEF Minting
<1>9. Known'
  BY <1>1, <1>2, <1>3, <1>4, <1>6 DEF Known, Flowing, s
<1>10. Exclusive'
  <2>1. \A p \in Slots : Starting(p)' =>
          /\ job'[p] = job[p] /\ job[p].csrf \in Flows
          /\ Starting(p) \/ (p = q /\ flows[s] # NoFlow)
    <3>1. \A p \in Slots : Starting(p) => job[p].csrf \in Flows
      BY <1>2 DEF Known, Starting, Flowing, Typed
    <3> QED BY <1>4, <1>6, <3>1 DEF Starting, s
  <2>2. \A p \in Slots : pc'[p] = "exchange" => pc[p] = "exchange" /\ job'[p] = job[p]
    BY <1>6
  <2>3. \A x \in spent : x \in Flows /\ flows'[x] = NoFlow
    BY <1>2, <1>5 DEF Typed, Exclusive
  <2>4. flows[s] # NoFlow =>
          s \notin spent /\ \A p \in Slots : Starting(p) => job[p].csrf # s
    BY <1>2 DEF Exclusive
  <2>5. \A p \in Slots : Starting(p)' => flows'[job'[p].csrf] = NoFlow /\ job'[p].csrf \notin spent
    BY <1>2, <1>5, <2>1, <2>4 DEF Exclusive, s
  <2>6. \A p, t \in Slots : Starting(p)' /\ Starting(t)' /\ job'[p].csrf = job'[t].csrf => p = t
    BY <1>2, <2>1, <2>4 DEF Exclusive, s
  <2>7. /\ \A p \in Slots : pc'[p] = "exchange" => job'[p].csrf \in spent
        /\ \A p, t \in Slots :
             pc'[p] = "exchange" /\ pc'[t] = "exchange" /\ job'[p].csrf = job'[t].csrf => p = t
    BY <1>2, <2>2 DEF Exclusive
  <2> QED BY <1>1, <2>3, <2>5, <2>6, <2>7 DEF Exclusive, Starting
<1>11. Newest'
  <2>1. \A x \in Flows : flows'[x] # NoFlow => IsNewest(x, flows'[x].verifier)
    BY <1>2, <1>5 DEF Newest, Untouched
  <2>2. \A p \in Slots : pc'[p] \in {"exchange", "putback"} => pc'[p] = pc[p] /\ job'[p] = job[p]
    BY <1>6
  <2> QED BY <1>1, <1>2, <2>1, <2>2 DEF Newest, IsNewest
<1> QED BY <1>7, <1>8, <1>9, <1>10, <1>11 DEF FlowInv

LEMMA ConsentKeeps ==
  ASSUME FlowInv, NEW q \in Slots, Consent(q)
  PROVE  FlowInv'
<1> DEFINE j == [job[q] EXCEPT !.flow = verifiers + 1]
<1>1. /\ UNCHANGED <<flows, minted, pages, spent, file, granted, gmail>>
      /\ pc[q] = "consent" /\ verifiers' = verifiers + 1
      /\ pc' = [pc EXCEPT ![q] = "putback"] /\ job' = [job EXCEPT ![q] = j]
  BY DEF Consent, Become, tokenVars, memory
<1>2. Typed /\ Minting /\ Known /\ Exclusive /\ Newest
  BY DEF FlowInv
<1>3. j \in Jobs /\ j.csrf = job[q].csrf /\ j.flow = verifiers + 1
  BY <1>2 DEF Typed, Jobs
<1> HIDE DEF j
<1>4. /\ \A p \in Slots \ {q} : pc'[p] = pc[p] /\ job'[p] = job[p]
      /\ pc'[q] = "putback" /\ job'[q] = j
      /\ pc' \in [Slots -> Labels] /\ job' \in [Slots -> Jobs]
  BY <1>1, <1>2, <1>3 DEF Typed, Labels
<1>5. Typed'
  <2>1. 0 .. verifiers \subseteq 0 .. verifiers' /\ verifiers' \in Nat
    BY <1>1, <1>2 DEF Typed
  <2> QED BY <1>1, <1>2, <1>4, <2>1 DEF Typed
<1>6. Minting'
  BY <1>1, <1>2, <1>3, <1>4 DEF Minting
<1>7. Known'
  BY <1>1, <1>2, <1>3, <1>4 DEF Known, Flowing
<1>8. Exclusive'
  BY <1>1, <1>2, <1>3, <1>4 DEF Exclusive, Starting
<1>9. Newest'
  <2>1. \A p \in pages : p.verifier <= verifiers + 1
    BY <1>2 DEF Typed
  <2>2. verifiers + 1 \in 0 .. verifiers' /\ 0 .. verifiers \subseteq 0 .. verifiers'
    BY <1>1, <1>2 DEF Typed
  <2> QED BY <1>1, <1>2, <1>3, <1>4, <2>1, <2>2 DEF Newest, IsNewest
<1> QED BY <1>5, <1>6, <1>7, <1>8, <1>9 DEF FlowInv

LEMMA PutBackKeeps ==
  ASSUME FlowInv, NEW q \in Slots, PutBack(q)
  PROVE  FlowInv'
<1> DEFINE s == job[q].csrf
           v == job[q].flow
           page == [csrf |-> s, verifier |-> v]
<1>1. /\ UNCHANGED <<minted, verifiers, spent, file, granted, gmail>>
      /\ pc[q] = "putback" /\ Put(s, v) /\ pages' = pages \cup {page} /\ Answer(q)
  BY DEF PutBack, tokenVars, memory
<1>2. Typed /\ Minting /\ Known /\ Exclusive /\ Newest
  BY DEF FlowInv
<1>3. NoJob \in Jobs /\ NoJob.csrf = 0 /\ "idle" \in Labels \ Flowing
  BY DEF NoJob, Jobs, Kinds, Machines, Labels, Flowing
<1>4. s \in minted /\ s \in Flows /\ s \notin spent
  BY <1>1, <1>2 DEF Known, Flowing, Typed, Exclusive, Starting
<1>5. v \in 0 .. verifiers /\ v \in Nat /\ \A p \in pages : p.csrf = s => p.verifier <= v
  BY <1>1, <1>2 DEF Newest, Typed
<1>6. \A p \in Slots \ {q} : Starting(p) => job[p].csrf # s
  BY <1>1, <1>2 DEF Exclusive, Starting
<1>7. page.csrf = s /\ page.verifier = v /\ page \in [csrf : minted, verifier : 0 .. verifiers]
  BY <1>4, <1>5
<1>8. page = [csrf |-> s, verifier |-> v]
  OBVIOUS
<1> HIDE DEF s, v, page
<1>9. /\ flows' \in [Flows -> {NoFlow} \cup Rows] /\ flows'[s].verifier = v
      /\ \A x \in Flows \ {s} : flows'[x] = flows[x]
  BY <1>1, <1>2, <1>4, <1>5, PutStores
<1>10. /\ \A p \in Slots \ {q} : pc'[p] = pc[p] /\ job'[p] = job[p]
       /\ pc'[q] = "idle" /\ job'[q] = NoJob
       /\ pc' \in [Slots -> Labels] /\ job' \in [Slots -> Jobs]
  BY <1>1, <1>2, <1>3 DEF Typed, Answer, Become
<1>11. Typed'
  BY <1>1, <1>2, <1>7, <1>9, <1>10 DEF Typed
<1>12. Minting'
  BY <1>1, <1>2, <1>3, <1>10, WebAssumption DEF Minting
<1>13. Known'
  BY <1>1, <1>2, <1>3, <1>10 DEF Known, Flowing
<1>14. Exclusive'
  <2>1. \A p \in Slots : Starting(p)' =>
          p # q /\ Starting(p) /\ job'[p] = job[p] /\ job[p].csrf \in Flows \ {s}
    BY <1>2, <1>6, <1>10 DEF Known, Starting, Flowing, Typed
  <2>2. \A x \in spent : x \in Flows \ {s}
    BY <1>2, <1>4 DEF Typed
  <2> QED BY <1>1, <1>2, <1>9, <1>10, <2>1, <2>2 DEF Exclusive, Starting
<1>15. Newest'
  <2> DEFINE After(x, w) ==
        /\ \A p \in pages' : p.csrf = x => p.verifier <= w
        /\ w = 0 \/ [csrf |-> x, verifier |-> w] \in pages'
  <2>1. \A x \in Flows \ {s} : \A w : IsNewest(x, w) => After(x, w)
    BY <1>1, <1>7 DEF IsNewest
  <2>2. After(s, v)
    BY <1>1, <1>5, <1>7, <1>8
  <2> HIDE DEF After
  <2>3. \A p \in Slots : pc'[p] = "exchange" =>
          pc[p] = "exchange" /\ job'[p] = job[p] /\ job[p].csrf \in Flows \ {s}
    BY <1>2, <1>4, <1>10 DEF Exclusive, Typed
  <2>4. \A p \in Slots : pc'[p] = "putback" =>
          pc[p] = "putback" /\ job'[p] = job[p] /\ job[p].csrf # s
    BY <1>6, <1>10 DEF Starting
  <2>5. \A x \in Flows : flows'[x] # NoFlow => After(x, flows'[x].verifier)
    BY <1>2, <1>9, <2>1, <2>2 DEF Newest
  <2>6. \A p \in Slots : pc'[p] = "exchange" => After(job'[p].csrf, job'[p].flow)
    BY <1>2, <2>1, <2>3 DEF Newest
  <2>7. \A p \in Slots : pc'[p] = "putback" =>
          /\ job'[p].flow \in 0 .. verifiers
          /\ \A g \in pages' : g.csrf = job'[p].csrf => g.verifier <= job'[p].flow
    BY <1>1, <1>2, <1>7, <2>4 DEF Newest
  <2> QED BY <1>1, <2>5, <2>6, <2>7 DEF Newest, IsNewest, After
<1> QED BY <1>11, <1>12, <1>13, <1>14, <1>15 DEF FlowInv

LEMMA CallbackPopKeeps ==
  ASSUME FlowInv, NEW q \in Slots, CallbackPop(q)
  PROVE  FlowInv'
<1> DEFINE s == job[q].csrf
           j == [job[q] EXCEPT !.flow = flows[s].verifier]
<1>1. /\ UNCHANGED <<minted, pages, verifiers, file, granted, gmail>>
      /\ pc[q] = "callback" /\ Pop(s)
      /\ IF Found(s) THEN spent' = spent \cup {s} /\ Become(q, "exchange", j)
                     ELSE Answer(q) /\ UNCHANGED spent
  BY DEF CallbackPop, tokenVars, memory
<1>2. Typed /\ Minting /\ Known /\ Exclusive /\ Newest
  BY DEF FlowInv
<1>3. NoJob \in Jobs /\ NoJob.csrf = 0 /\ "idle" \in Labels \ Flowing /\ "exchange" \in Labels
  BY DEF NoJob, Jobs, Kinds, Machines, Labels, Flowing
<1>4. s \in minted /\ s \in Flows /\ [csrf |-> s, verifier |-> job[q].code] \in pages
  BY <1>1, <1>2 DEF Known, Flowing, Typed
<1>5. flows[s] # NoFlow =>
        /\ j \in Jobs /\ j.csrf = s /\ j.code = job[q].code /\ j.flow = flows[s].verifier
  <2>1. flows[s] # NoFlow => flows[s].verifier \in Nat
    BY <1>2, <1>4 DEF Typed, Rows
  <2> QED BY <1>2, <2>1 DEF Typed, Jobs
<1> HIDE DEF s, j
<1>6. /\ flows' \in [Flows -> {NoFlow} \cup Rows] /\ flows'[s] = NoFlow /\ Untouched(s)
      /\ \A x \in Flows : flows[x] = NoFlow => flows'[x] = NoFlow
  BY <1>1, <1>2, <1>4, PopTakes
<1>7. /\ \A p \in Slots \ {q} : pc'[p] = pc[p] /\ job'[p] = job[p]
      /\ \/ /\ flows[s] # NoFlow /\ pc'[q] = "exchange" /\ job'[q] = j
            /\ spent' = spent \cup {s}
         \/ pc'[q] = "idle" /\ job'[q] = NoJob /\ spent' = spent
      /\ pc' \in [Slots -> Labels] /\ job' \in [Slots -> Jobs]
  BY <1>1, <1>2, <1>3, <1>5 DEF Typed, Found, Answer, Become
<1>8. Typed'
  BY <1>1, <1>2, <1>4, <1>6, <1>7 DEF Typed
<1>9. Minting'
  BY <1>1, <1>2, <1>3, <1>4, <1>5, <1>7, WebAssumption DEF Minting
<1>10. Known'
  BY <1>1, <1>2, <1>3, <1>4, <1>5, <1>7 DEF Known, Flowing
<1>11. Exclusive'
  <2>1. \A p \in Slots : Starting(p)' =>
          p # q /\ Starting(p) /\ job'[p] = job[p] /\ job[p].csrf \in Flows
    BY <1>2, <1>7 DEF Known, Starting, Flowing, Typed
  <2>2. flows[s] # NoFlow => /\ s \notin spent
                             /\ \A p \in Slots : Starting(p) => job[p].csrf # s
                             /\ \A p \in Slots : pc[p] = "exchange" => job[p].csrf # s
    BY <1>2 DEF Exclusive
  <2>3. \A x \in spent' : x \in Flows /\ flows'[x] = NoFlow
    BY <1>2, <1>4, <1>6, <1>7 DEF Typed, Exclusive
  <2>4. \A p \in Slots : Starting(p)' => flows'[job'[p].csrf] = NoFlow /\ job'[p].csrf \notin spent'
    BY <1>2, <1>6, <1>7, <2>1, <2>2 DEF Exclusive
  <2>5. \A p, t \in Slots : Starting(p)' /\ Starting(t)' /\ job'[p].csrf = job'[t].csrf => p = t
    BY <1>2, <2>1 DEF Exclusive
  <2>6. \A p \in Slots : pc'[p] = "exchange" =>
          \/ p # q /\ pc[p] = "exchange" /\ job'[p] = job[p]
          \/ p = q /\ flows[s] # NoFlow /\ job'[p].csrf = s /\ s \in spent'
    BY <1>5, <1>7
  <2>7. \A p \in Slots : pc'[p] = "exchange" => job'[p].csrf \in spent'
    BY <1>2, <1>7, <2>6 DEF Exclusive
  <2>8. \A p, t \in Slots :
          pc'[p] = "exchange" /\ pc'[t] = "exchange" /\ job'[p].csrf = job'[t].csrf => p = t
    BY <1>2, <2>2, <2>6 DEF Exclusive
  <2> QED BY <2>3, <2>4, <2>5, <2>7, <2>8 DEF Exclusive, Starting
<1>12. Newest'
  <2>1. \A x \in Flows : flows'[x] # NoFlow => IsNewest(x, flows'[x].verifier)
    BY <1>2, <1>6 DEF Newest, Untouched
  <2>2. \A p \in Slots : pc'[p] = "putback" => pc'[p] = pc[p] /\ job'[p] = job[p]
    BY <1>7
  <2>3. \A p \in Slots : pc'[p] = "exchange" => IsNewest(job'[p].csrf, job'[p].flow)
    BY <1>2, <1>4, <1>5, <1>7 DEF Newest
  <2> QED BY <1>1, <1>2, <2>1, <2>2, <2>3 DEF Newest, IsNewest
<1> QED BY <1>8, <1>9, <1>10, <1>11, <1>12 DEF FlowInv

-----------------------------------------------------------------------------
LEMMA FlowStep == FlowInv /\ [Next]_vars => FlowInv'
<1> SUFFICES ASSUME FlowInv, [Next]_vars PROVE FlowInv'
  OBVIOUS
<1>1. CASE UNCHANGED vars
  BY <1>1 DEF vars, dbVars, tokenVars, memory, FlowInv, Typed, Minting, Known, Exclusive,
              Starting, Newest, IsNewest
<1>2. ASSUME NEW q \in Slots, Step(q) PROVE FlowInv'
  BY <1>2, MintKeeps, StartPopKeeps, ConsentKeeps, PutBackKeeps, CallbackPopKeeps, TickKeeps,
     TokenKeeps DEF Step
<1>3. ASSUME NEW q \in Slots, NEW r \in Replicas,
             Reauth(q, r) \/ Start(q, r) \/ Callback(q, r) \/ Poll(q, r) \/ Healthz(q, r)
               \/ Boot(q, r)
      PROVE  FlowInv'
  BY <1>3, FlowRequests, ArrivalKeeps
<1>4. ASSUME NEW q \in Slots,
             Run(q) \/ Cli(q) \/ InstalledFlow(q) \/ ExchangeFails(q) \/ RefreshFails(q)
               \/ PoolTimeout(q) \/ UnlockFails(q)
      PROVE  FlowInv'
  BY <1>4, ArrivalKeeps, TokenKeeps, FaultKeeps
<1>5. ASSUME \/ \E k \in Kinds : Refused(k)
             \/ \E r \in Replicas : Stop(r)
             \/ SessionCloses
             \/ \E a \in Machines : Crash(a)
      PROVE  FlowInv'
  BY <1>5, FaultKeeps
<1>6. ASSUME NEW s \in Flows, Expire(s) PROVE FlowInv'
  BY <1>6, ExpireKeeps
<1> QED BY <1>1, <1>2, <1>3, <1>4, <1>5, <1>6 DEF Next

LEMMA FlowAlways == Spec => []FlowInv
BY InitFlow, FlowStep, PTL DEF Spec

(* A state is redeemed once: after a callback has taken it, no row, no      *)
(* /auth/start and no other callback has it (oauth_flow_store.pop).         *)
THEOREM RedeemedOnce == Spec => []SingleUse
<1>1. FlowInv => SingleUse
  BY DEF FlowInv, Exclusive, Starting, SingleUse
<1> QED BY <1>1, FlowAlways, PTL

(* A callback from the newest page of its state exchanges its code with     *)
(* that page's verifier (auth_start's put back, auth_callback's pop).       *)
THEOREM NewestPage == Spec => []NewestPageWorks
<1>1. FlowInv => NewestPageWorks
  <2> SUFFICES ASSUME FlowInv, NEW q \in Slots, pc[q] = "exchange",
                      \A p \in pages : p.csrf = job[q].csrf => p.verifier <= job[q].code
               PROVE  job[q].flow = job[q].code
    BY DEF NewestPageWorks
  <2> DEFINE own == [csrf |-> job[q].csrf, verifier |-> job[q].code]
             newest == [csrf |-> job[q].csrf, verifier |-> job[q].flow]
  <2>1. own \in pages /\ own.csrf = job[q].csrf /\ own.verifier = job[q].code
    BY DEF FlowInv, Known
  <2>2. job[q].code \in Nat /\ job[q].flow \in Nat
    BY DEF FlowInv, Typed, Jobs
  <2>3. newest.csrf = job[q].csrf /\ newest.verifier = job[q].flow
    OBVIOUS
  <2>4. IsNewest(job[q].csrf, job[q].flow)
    BY DEF FlowInv, Newest
  <2> HIDE DEF own
  <2>5. job[q].code <= job[q].flow
    BY <2>1, <2>4 DEF IsNewest
  <2>6. job[q].flow = 0 \/ job[q].flow <= job[q].code
    BY <2>3, <2>4 DEF IsNewest
  <2> QED BY <2>2, <2>5, <2>6
<1> QED BY <1>1, FlowAlways, PTL
-----------------------------------------------------------------------------
(* What the operator is told.  A callback that is about to reload finds its *)
(* own grant in the token file, or no usable token, or its slot in clash.   *)

Placed == \A q \in Slots : job[q].kind = "callback" => job[q].at \in Replicas

OwnGrant ==
  \A q \in Slots : pc[q] = "reload" =>
    /\ job[q].kind = "callback"
    /\ q \notin clash => file \in {job[q].grant, NoToken, Torn}

\* What a step may do to the labels and to the jobs, ...
Moves ==
  \A p \in Slots :
    /\ pc'[p] = "told" => pc[p] = "told" \/ Reload(p)
    /\ pc'[p] = "reload" =>
         job'[p] = job[p] /\ (pc[p] = "reload" \/ (Write(p) /\ job[p].kind = "callback"))
    /\ job'[p].kind = "callback" =>
         job'[p].at \in Replicas \/ (job[p].kind = "callback" /\ job'[p].at = job[p].at)

\* ... and to the file: only a Write fills it, and it marks those it may mislead.
Fills ==
  /\ file' \in {file, NoToken, Torn} \/ \E q \in Slots : Write(q)
  /\ \A p \in clash : pc'[p] = "reload" => p \in clash'

LEMMA OneMoves ==
  ASSUME Typed, NEW q \in Slots, NEW label, NEW j, Become(q, label, j),
         label # "reload" \/ (Write(q) /\ job[q].kind = "callback" /\ j = job[q]),
         label # "told" \/ Reload(q),
         j.kind = "callback" =>
           j.at \in Replicas \/ (job[q].kind = "callback" /\ j.at = job[q].at)
  PROVE  Moves
BY DEF Typed, Become, Moves

LEMMA StepMoves ==
  ASSUME Typed, NEW q \in Slots, Step(q) \/ InstalledFlow(q)
  PROVE  Moves
<1> DEFINE Same(j) == j.kind = job[q].kind /\ j.at = job[q].at
           Flow(f) == [job[q] EXCEPT !.flow = f]
           Grant(g) == [job[q] EXCEPT !.grant = g]
<1>1. job[q] \in Jobs
  BY DEF Typed
<1>2. NoJob.kind # "callback"
  BY DEF NoJob
<1>3. ASSUME NEW g PROVE Same(Grant(g)) /\ Same(Flow(g))
  BY <1>1 DEF Jobs
<1> HIDE DEF Same, Flow, Grant
<1>4. ASSUME Answer(q) PROVE Moves
  BY <1>2, <1>4, OneMoves DEF Answer
<1>5. ASSUME NEW label, Goto(q, label), label \notin {"reload", "told"} PROVE Moves
  BY <1>5, OneMoves DEF Goto
<1>6. ASSUME NEW label, NEW j, Become(q, label, j), label \notin {"reload", "told"}, Same(j)
       PROVE  Moves
  BY <1>6, OneMoves DEF Same
<1>7. CASE Mint(q) \/ StartPop(q) \/ PutBack(q) \/ Notify(q) \/ TryLock(q) \/ Checkpoint(q)
             \/ Saved(q) \/ Unlock(q) \/ Probe(q) \/ Truncate(q) \/ Refresh(q) \/ Serve(q)
             \/ TickOnce(q)
  <2>1. Answer(q) \/ \E label \in {"consent", "tick", "checkpoint", "unlock", "write", "persist"} :
                       Goto(q, label)
    BY <1>7 DEF Mint, StartPop, PutBack, Notify, TryLock, Checkpoint, Saved, Unlock, Probe,
                Truncate, Refresh, Serve, TickOnce
  <2> QED BY <2>1, <1>4, <1>5
<1>8. CASE Consent(q)
  <2>1. Become(q, "putback", Flow(verifiers + 1))
    BY <1>8 DEF Consent, Flow
  <2> QED BY <1>3, <1>6, <2>1
<1>9. CASE CallbackPop(q)
  <2>1. Answer(q) \/ Become(q, "exchange", Flow(flows[job[q].csrf].verifier))
    BY <1>9 DEF CallbackPop, Flow
  <2> QED BY <1>3, <1>4, <1>6, <2>1
<1>10. CASE Exchange(q) \/ InstalledFlow(q)
  <2>1. Answer(q) \/ Become(q, "persist", Grant(granted + 1))
    BY <1>10 DEF Exchange, InstalledFlow, Grant
  <2> QED BY <1>3, <1>4, <1>6, <2>1
<1>11. CASE Load(q)
  <2>1. \/ Answer(q) \/ Goto(q, "installed flow")
        \/ \E label \in {"refresh", "serve", "tick once"} :
             Become(q, label, Grant(file))
    BY <1>11 DEF Load, Grant
  <2> QED BY <1>3, <1>4, <1>5, <1>6, <2>1
<1>12. CASE Write(q)
  <2>1. \/ Answer(q) \/ Goto(q, "serve") \/ Goto(q, "tick once")
        \/ job[q].kind = "callback" /\ Goto(q, "reload")
    BY <1>12 DEF Write
  <2>2. CASE job[q].kind = "callback" /\ Goto(q, "reload")
    BY <1>12, <2>2, OneMoves DEF Goto
  <2> QED BY <1>4, <1>5, <2>1, <2>2
<1>13. CASE Reload(q)
  <2>1. Answer(q) \/ Goto(q, "told")
    BY <1>13 DEF Reload
  <2>2. CASE Goto(q, "told")
    BY <1>13, <2>2, OneMoves DEF Goto
  <2> QED BY <1>4, <2>1, <2>2
<1> QED BY <1>7, <1>8, <1>9, <1>10, <1>11, <1>12, <1>13 DEF Step

LEMMA ArrivalMoves ==
  ASSUME Typed, NEW q \in Slots,
         \/ Run(q) \/ Cli(q)
         \/ \E r \in Replicas : \/ Reauth(q, r) \/ Start(q, r) \/ Callback(q, r)
                                \/ Poll(q, r) \/ Healthz(q, r) \/ Boot(q, r)
  PROVE  Moves
<1> DEFINE New(k, r, s, c) == [NoJob EXCEPT !.kind = k, !.at = r, !.csrf = s, !.code = c]
<1>1. \A k, r, s, c : New(k, r, s, c).kind = k /\ New(k, r, s, c).at = r
  BY DEF NoJob
<1> HIDE DEF New
<1>2. ASSUME NEW label, NEW k, NEW r, NEW s, NEW c, Become(q, label, New(k, r, s, c)),
             label \notin {"reload", "told"}, k = "callback" => r \in Replicas
      PROVE  Moves
  BY <1>1, <1>2, OneMoves
<1>3. CASE Run(q) \/ Cli(q)
  <2>1. \/ Become(q, "load", New("run", Host, 0, 0))
        \/ Become(q, "installed flow", New("cli", Host, 0, 0))
    BY <1>3 DEF Run, Cli, Arrives, New
  <2>2. CASE Become(q, "load", New("run", Host, 0, 0))
    BY <1>2, <2>2
  <2>3. CASE Become(q, "installed flow", New("cli", Host, 0, 0))
    <3>1. "installed flow" \notin {"reload", "told"} /\ "cli" # "callback"
      OBVIOUS
    <3> QED BY <1>2, <2>3, <3>1
  <2> QED BY <2>1, <2>2, <2>3
<1>4. ASSUME NEW r \in Replicas, Reauth(q, r) PROVE Moves
  <2>1. PICK s : Become(q, "mint", New("reauth", r, s, 0))
    BY <1>4 DEF Reauth, Arrives, New
  <2> QED BY <1>2, <2>1
<1>5. ASSUME NEW r \in Replicas, Start(q, r) PROVE Moves
  <2>1. PICK s : Become(q, "start", New("start", r, s, 0))
    BY <1>5 DEF Start, Arrives, New
  <2> QED BY <1>2, <2>1
<1>6. ASSUME NEW r \in Replicas, Callback(q, r) PROVE Moves
  <2>1. PICK p \in pages : Become(q, "callback", New("callback", r, p.csrf, p.verifier))
    BY <1>6 DEF Callback, Arrives, New
  <2> QED BY <1>2, <2>1
<1>7. ASSUME NEW r \in Replicas, Poll(q, r) \/ Healthz(q, r) \/ Boot(q, r) PROVE Moves
  <2>1. PICK k \in {"poll", "healthz", "boot"}, label \in {"lock", "probe", "load"} :
          Become(q, label, New(k, r, 0, 0))
    BY <1>7 DEF Poll, Healthz, Boot, Arrives, New
  <2> QED BY <1>2, <2>1
<1> QED BY <1>3, <1>4, <1>5, <1>6, <1>7

LEMMA OtherMoves ==
  ASSUME Typed,
         \/ \E q \in Slots : ExchangeFails(q) \/ RefreshFails(q) \/ PoolTimeout(q)
                               \/ UnlockFails(q)
         \/ \E a \in Machines : Crash(a)
         \/ \E r \in Replicas : Stop(r)
         \/ SessionCloses
         \/ \E k \in Kinds : Refused(k)
         \/ \E s \in Flows : Expire(s)
         \/ UNCHANGED vars
  PROVE  Moves
<1>1. NoJob.kind # "callback"
  BY DEF NoJob
<1>2. CASE \E q \in Slots : ExchangeFails(q) \/ RefreshFails(q) \/ PoolTimeout(q)
                              \/ UnlockFails(q)
  <2>1. PICK q \in Slots : Answer(q) \/ Goto(q, "unlock")
    BY <1>2 DEF ExchangeFails, RefreshFails, PoolTimeout, UnlockFails
  <2> QED BY <1>1, <2>1, OneMoves DEF Answer, Goto
<1>3. CASE \E a \in Machines : Crash(a)
  BY <1>1, <1>3 DEF Crash, Moves
<1>4. CASE \/ \E r \in Replicas : Stop(r)
           \/ SessionCloses
           \/ \E k \in Kinds : Refused(k)
           \/ \E s \in Flows : Expire(s)
           \/ UNCHANGED vars
  <2>1. pc' = pc /\ job' = job
    BY <1>4 DEF Stop, SessionCloses, Refused, Expire, vars
  <2> QED BY <2>1 DEF Moves
<1> QED BY <1>2, <1>3, <1>4

LEMMA AllMove == Typed /\ [Next]_vars => Moves
<1> SUFFICES ASSUME Typed, [Next]_vars PROVE Moves
  OBVIOUS
<1>1. ASSUME NEW q \in Slots,
             \/ Step(q) \/ Run(q) \/ Cli(q) \/ InstalledFlow(q)
             \/ \E r \in Replicas : \/ Reauth(q, r) \/ Start(q, r) \/ Callback(q, r)
                                    \/ Poll(q, r) \/ Healthz(q, r) \/ Boot(q, r)
      PROVE  Moves
  BY <1>1, StepMoves, ArrivalMoves
<1>2. ASSUME \/ \E q \in Slots : ExchangeFails(q) \/ RefreshFails(q) \/ PoolTimeout(q)
                                   \/ UnlockFails(q)
             \/ \E a \in Machines : Crash(a)
             \/ \E r \in Replicas : Stop(r)
             \/ SessionCloses
             \/ \E k \in Kinds : Refused(k)
             \/ \E s \in Flows : Expire(s)
             \/ UNCHANGED vars
      PROVE  Moves
  BY <1>2, OtherMoves
<1> QED BY <1>1, <1>2 DEF Next

LEMMA AllFill == Typed /\ [Next]_vars => Fills
<1> SUFFICES ASSUME Typed, [Next]_vars PROVE Fills
  OBVIOUS
<1>1. ASSUME UNCHANGED <<file, clash>> PROVE Fills
  BY <1>1 DEF Fills
<1>2. ASSUME NEW q \in Slots, Step(q) PROVE Fills
  <2>1. CASE Truncate(q)
    BY <2>1 DEF Truncate, Fills
  <2>2. CASE Write(q)
    BY <2>2 DEF Write, Fills
  <2>3. CASE Reload(q)
    <3>1. pc'[q] # "reload" /\ file' = file /\ clash' = clash \ {q}
      BY <2>3 DEF Typed, Reload, Answer, Goto, Become
    <3> QED BY <3>1 DEF Fills
  <2>4. CASE Exchange(q)
    BY <1>1, <2>4 DEF Exchange
  <2>5. CASE Mint(q) \/ StartPop(q) \/ Consent(q) \/ PutBack(q) \/ CallbackPop(q)
    BY <1>1, <2>5 DEF Mint, StartPop, Consent, PutBack, CallbackPop, tokenVars
  <2>6. CASE \/ Notify(q) \/ TryLock(q) \/ Checkpoint(q) \/ Saved(q) \/ Unlock(q) \/ Probe(q)
             \/ Load(q) \/ Refresh(q) \/ Serve(q) \/ TickOnce(q)
    BY <1>1, <2>6 DEF Notify, TryLock, Checkpoint, Saved, Unlock, Probe, Load, Refresh, Serve,
                      TickOnce, tokenVars
  <2> QED BY <1>2, <2>1, <2>2, <2>3, <2>4, <2>5, <2>6 DEF Step
<1>3. ASSUME NEW q \in Slots, NEW r \in Replicas,
             Reauth(q, r) \/ Start(q, r) \/ Callback(q, r) \/ Poll(q, r) \/ Healthz(q, r)
               \/ Boot(q, r)
      PROVE  Fills
  BY <1>1, <1>3 DEF Reauth, Start, Callback, Poll, Healthz, Boot, tokenVars
<1>4. ASSUME NEW q \in Slots,
             Run(q) \/ InstalledFlow(q) \/ ExchangeFails(q) \/ RefreshFails(q) \/ PoolTimeout(q)
               \/ UnlockFails(q)
      PROVE  Fills
  BY <1>1, <1>4 DEF Run, InstalledFlow, ExchangeFails, RefreshFails, PoolTimeout,
                    UnlockFails, tokenVars
<1>5. ASSUME NEW q \in Slots, Cli(q) PROVE Fills
  BY <1>5 DEF Cli, Fills
<1>6. ASSUME NEW a \in Machines, Crash(a) PROVE Fills
  <2>1. \A p \in Slots : pc'[p] = "reload" => (p \in clash => p \in clash')
    BY <1>6 DEF Crash
  <2>2. file' = file /\ clash' \subseteq clash
    BY <1>6 DEF Crash
  <2>3. \A p \in clash \ clash' : p \in Slots /\ pc'[p] = "idle"
    BY <1>6 DEF Crash
  <2> QED BY <2>2, <2>3 DEF Fills
<1>7. ASSUME \/ \E r \in Replicas : Stop(r)
             \/ SessionCloses
             \/ \E k \in Kinds : Refused(k)
             \/ \E s \in Flows : Expire(s)
             \/ UNCHANGED vars
      PROVE  Fills
  BY <1>1, <1>7 DEF Stop, SessionCloses, Refused, Expire, tokenVars, vars
<1> QED BY <1>2, <1>3, <1>4, <1>5, <1>6, <1>7 DEF Next

GrantInv == FlowInv /\ Placed /\ OwnGrant

LEMMA GrantStep == GrantInv /\ [Next]_vars => GrantInv'
<1> SUFFICES ASSUME GrantInv, [Next]_vars PROVE GrantInv'
  OBVIOUS
<1>1. FlowInv'
  BY FlowStep DEF GrantInv
<1>2. Moves /\ Fills
  BY AllMove, AllFill DEF GrantInv, FlowInv
<1>3. Placed'
  BY <1>2 DEF GrantInv, Placed, Moves
<1>4. OwnGrant'
  <2> SUFFICES ASSUME NEW q \in Slots, pc'[q] = "reload"
               PROVE  /\ job'[q].kind = "callback"
                      /\ q \notin clash' => file' \in {job'[q].grant, NoToken, Torn}
    BY DEF OwnGrant
  <2>1. job'[q] = job[q] /\ (pc[q] = "reload" \/ (Write(q) /\ job[q].kind = "callback"))
    BY <1>2 DEF Moves
  <2>2. CASE Write(q) /\ job[q].kind = "callback"
    <3>1. file' \in {job[q].grant, Torn}
      BY <2>2 DEF Write
    <3> QED BY <2>1, <2>2, <3>1
  <2>3. CASE pc[q] = "reload"
    <3>1. job[q].kind = "callback" /\ (q \notin clash => file \in {job[q].grant, NoToken, Torn})
      BY <2>3 DEF GrantInv, OwnGrant
    <3>2. CASE file' \in {file, NoToken, Torn}
      BY <1>2, <2>1, <3>1, <3>2 DEF Fills
    <3>3. ASSUME NEW p \in Slots, Write(p) PROVE q \in clash'
      BY <2>3, <3>3 DEF Write
    <3> QED BY <1>2, <2>1, <3>1, <3>2, <3>3 DEF Fills
  <2> QED BY <2>1, <2>2, <2>3
<1> QED BY <1>1, <1>3, <1>4 DEF GrantInv

(* An operator is told that the grant is in use only if the Gmail client of *)
(* the replica has the grant of this very callback, whatever other          *)
(* callbacks, starts and crashes do (auth_callback's persist, reload, send).*)
THEOREM ToldIsInstalled == Spec => SuccessIsInstalled
<1>1. Init => GrantInv
  <2>1. Init => Placed /\ OwnGrant
    BY DEF Init, NoJob, Placed, OwnGrant
  <2> QED BY <2>1, InitFlow DEF GrantInv
<1>2. GrantInv /\ [Next]_vars =>
        [\A q \in Slots :
           pc[q] = "reload" /\ pc'[q] = "told" /\ q \notin clash
           => gmail'[job[q].at] = job[q].grant]_vars
  <2> SUFFICES ASSUME GrantInv, [Next]_vars, NEW q \in Slots,
                      pc[q] = "reload", pc'[q] = "told", q \notin clash
               PROVE  gmail'[job[q].at] = job[q].grant
    OBVIOUS
  <2>1. Reload(q)
    BY AllMove DEF GrantInv, FlowInv, Moves
  <2>2. pc' # [pc EXCEPT ![q] = "idle"]
    BY DEF GrantInv, FlowInv, Typed
  <2>3. gmail' = [gmail EXCEPT ![job[q].at] = file] /\ file \notin {NoToken, Torn}
    BY <2>1, <2>2 DEF Reload, Answer, Become
  <2>4. file = job[q].grant /\ job[q].at \in Replicas
    BY <2>3 DEF GrantInv, OwnGrant, Placed
  <2> QED BY <2>3, <2>4 DEF GrantInv, FlowInv, Typed
<1> QED BY <1>1, <1>2, GrantStep, PTL DEF Spec, SuccessIsInstalled
=============================================================================
