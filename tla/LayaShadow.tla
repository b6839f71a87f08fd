----------------------------- MODULE LayaShadow -----------------------------
(* The fire-and-forget shadow classifier beside the email agent: a bounded *)
(* semaphore in front of a pool of two worker threads, a sample dropped    *)
(* when no slot is free, and one row per message and model version in      *)
(* laya_shadow_predictions.                                                *)
EXTENDS Integers, FiniteSets, Sequences, Questions

CONSTANTS Mails, NoRow,
          Dict,           \* the questions dictionary
          TaxonomyVersion,
          Answers,        \* what laya may choose, in the dictionary or not
          Outages,        \* timeout, connection_refused, http_5xx
          Calls,          \* the messages the agent hands over, in its order
          MaxWorkers,     \* _MAX_WORKERS
          ModelVersions,  \* laya_model_ver, which rotates with the dictionary
          MaxRestarts     \* bound: how often the process is restarted

ASSUME ShadowAssumption ==
  /\ Calls \in Seq(Mails) /\ MaxWorkers \in Nat \ {0}
  /\ ModelVersions \subseteq Nat /\ ModelVersions # {} /\ MaxRestarts \in Nat

(* A process with another dictionary does not start. *)
ASSUME BootAssumption == Accepted(Dict, TaxonomyVersion)

Samples == 1 .. Len(Calls)
Stages == {"none", "queued", "posting", "classified", "stored", "gone"}
InFlight == {"queued", "posting", "classified", "stored"}

VARIABLES
  next,       \* the next call the agent makes
  slots,      \* free slots of the BoundedSemaphore
  unslotted,  \* history: samples this process queued and gave the slot back of
  stage,      \* where each sample is
  outcome,    \* what laya said of it
  version,    \* model_ver of the running process
  rows,       \* laya_shadow_predictions
  restarts
shadowVars == <<next, slots, unslotted, stage, outcome, version, rows, restarts>>

ShadowInit ==
  /\ next = 1 /\ slots = MaxWorkers /\ unslotted = 0
  /\ stage = [i \in Samples |-> "none"] /\ outcome = [i \in Samples |-> "none"]
  /\ version \in ModelVersions /\ restarts = 0
  /\ rows = [k \in Mails \X ModelVersions |-> NoRow]

Busy == {i \in Samples : stage[i] \in InFlight}
Running == {i \in Samples : stage[i] \in InFlight \ {"queued"}}

Set(i, s) == stage' = [stage EXCEPT ![i] = s]
-----------------------------------------------------------------------------
(* classify_async: one step of the agent, whatever the workers do.         *)

Accept(i) == slots > 0 /\ slots' = slots - 1 /\ Set(i, "queued") /\ UNCHANGED unslotted

Drop(i) == slots = 0 /\ Set(i, "gone") /\ UNCHANGED <<slots, unslotted>>

(* The executor is shut down: the slot comes back and nothing is queued. *)
SubmitRefused(i) == slots > 0 /\ Set(i, "gone") /\ UNCHANGED <<slots, unslotted>>

(* No thread can be started while there are fewer than the pool may have.  *)
(* The item is on the queue already and a worker takes it all the same; the*)
(* handler gives its slot back, and so will the worker.                    *)
SubmitFails(i) ==
  /\ slots > 0 /\ Cardinality(Running) < MaxWorkers
  /\ Set(i, "queued") /\ unslotted' = unslotted + 1 /\ UNCHANGED slots

Classify ==
  /\ next <= Len(Calls) /\ next' = next + 1
  /\ Accept(next) \/ Drop(next) \/ SubmitRefused(next) \/ SubmitFails(next)
  /\ UNCHANGED <<outcome, version, rows, restarts>>

(* The worker thread. *)

Begin(i) ==
  /\ stage[i] = "queued" /\ Cardinality(Running) < MaxWorkers
  /\ Set(i, "posting")
  /\ UNCHANGED <<next, slots, unslotted, outcome, version, rows, restarts>>

(* The category of laya's choice, or one of the ways to have none. *)
Errors == Outages \cup {"bad_response"}
Labels == {ZhByEn(Dict)[en] : en \in Criteria(Dict)}
Result(choice) ==
  IF choice \in Criteria(Dict) THEN ZhByEn(Dict)[choice] ELSE "bad_response"

Answer(i) ==
  /\ stage[i] = "posting" /\ Set(i, "classified")
  /\ \E o \in Outages \cup {Result(a) : a \in Answers} :
       outcome' = [outcome EXCEPT ![i] = o]
  /\ UNCHANGED <<next, slots, unslotted, version, rows, restarts>>

(* The first row of a message and version stands: a later one is a         *)
(* duplicate that is rolled back.  Any other failure of the commit is      *)
(* swallowed by the worker.                                                *)
Persist(i) ==
  /\ stage[i] = "classified" /\ Set(i, "stored")
  /\ LET key == <<Calls[i], version>>
     IN  rows' \in {rows, [rows EXCEPT ![key] = IF @ = NoRow THEN outcome[i] ELSE @]}
  /\ UNCHANGED <<next, slots, unslotted, outcome, version, restarts>>

Freed == IF slots < MaxWorkers THEN slots + 1 ELSE slots

(* MUTANT: the slot is released only after a label, not in a finally. *)
ReleaseOnLabel(i) ==
  /\ stage[i] = "stored" /\ Set(i, "gone")
  /\ slots' = IF outcome[i] \in Labels THEN Freed ELSE slots
  /\ outcome' = [outcome EXCEPT ![i] = "none"]
  /\ UNCHANGED <<next, unslotted, version, rows, restarts>>

(* MUTANT: a plain Semaphore takes every release. *)
ReleaseUnbounded(i) ==
  /\ stage[i] = "stored" /\ Set(i, "gone") /\ slots' = slots + 1
  /\ outcome' = [outcome EXCEPT ![i] = "none"]
  /\ UNCHANGED <<next, unslotted, version, rows, restarts>>

(* In a finally; one release too many is a ValueError, left in the Future.  *)
Release(i) ==
  /\ stage[i] = "stored" /\ Set(i, "gone")
  /\ slots' = Freed
  /\ outcome' = [outcome EXCEPT ![i] = "none"]
  /\ UNCHANGED <<next, unslotted, version, rows, restarts>>

(* The process dies or is redeployed: the samples in flight are lost. *)
Restart ==
  /\ restarts < MaxRestarts /\ restarts' = restarts + 1
  /\ slots' = MaxWorkers /\ unslotted' = 0 /\ version' \in ModelVersions
  /\ stage' = [i \in Samples |-> IF i \in Busy THEN "gone" ELSE stage[i]]
  /\ outcome' = [i \in Samples |-> "none"]
  /\ UNCHANGED <<next, rows>>

Worker(i) == Begin(i) \/ Answer(i) \/ Persist(i) \/ Release(i)

ShadowNext == Classify \/ Restart \/ \E i \in Samples : Worker(i)

ShadowSpec == ShadowInit /\ [][ShadowNext]_shadowVars
-----------------------------------------------------------------------------
ShadowTypeOK ==
  /\ next \in 1 .. Len(Calls) + 1 /\ slots \in 0 .. MaxWorkers /\ unslotted \in Nat
  /\ stage \in [Samples -> Stages]
  /\ outcome \in [Samples -> Errors \cup Labels \cup {"none"}]
  /\ version \in ModelVersions /\ restarts \in 0 .. MaxRestarts
  /\ rows \in [Mails \X ModelVersions -> Errors \cup Labels \cup {NoRow}]

(* No slot is ever lost: those free and the samples in flight are together  *)
(* never fewer than the workers, though a submit may fail after it queued   *)
(* its item and a release may be refused; and they are more only by the     *)
(* items of such submits, whose slot is given back twice                    *)
(* (laya_shadow_client.py: the release in the worker's finally and the one  *)
(* after a failed submit).                                                  *)
SlotsConserved ==
  LET owed == slots + Cardinality(Busy)
  IN  MaxWorkers <= owed /\ owed <= MaxWorkers + unslotted
=============================================================================
