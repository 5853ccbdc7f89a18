----------------------------- MODULE SagaEngine -----------------------------
(***************************************************************************)
(* The durable Saga store (services/cross_product_saga_store.js, migration *)
(* 0528), the workers that dispatch and reconcile it                       *)
(* (services/cross_product_saga_worker.js and its runtime loop), and the   *)
(* Knowledge Ball as the idempotent authority the code expects of it       *)
(* (contracts NH-005, NH-009 and NH-061).                                  *)
(*                                                                         *)
(* A worker call spans three moments: a claim transaction, the call to the *)
(* Knowledge Ball outside any transaction, and a recording transaction.    *)
(* An outcome the authority has stored never changes, so reading it and    *)
(* recording it are one action here; the one answer that can go stale,     *)
(* NOT_FOUND, is a program counter value of its own.                       *)
(*                                                                         *)
(* Everything the environment does against the workers (a crash, a lease   *)
(* that runs out under a live owner, an ambiguous or no-effect reply, an   *)
(* inconclusive lookup) spends one unit of the budget MaxFaults.           *)
(***************************************************************************)
EXTENDS CrossProductSaga

CONSTANTS Workers,
          MaxAttempts,        \* maxAttempts of the worker
          MaxFaults           \* bound on adverse events

ASSUME EngineBounds == /\ MaxAttempts \in Nat \ {0}
                       /\ MaxFaults \in Nat

NoWorker == "no worker"
ASSUME NoWorkerIsNoWorker == NoWorker \notin Workers

VARIABLES saga,      \* social.cross_product_sagas: the snapshot of each attempt
          outbox,    \* social.cross_product_outbox: one row per operation key
          inbox,     \* social.cross_product_inbox: the recorded result per key
          kb,        \* outcome the Knowledge Ball stored per key
          inflight,  \* requests sent and not yet executed, per key
          pc, job,   \* what each worker is doing, and for which key
          faults     \* adverse events so far

store == <<saga, outbox, inbox>>
authority == <<kb, inflight>>
engine == <<store, authority, pc, job, faults>>

OutboxStates == {"PENDING", "LEASED", "DELIVERED", "RETRY_WAIT",
                 "RECONCILIATION_REQUIRED", "DEAD_LETTER"}

OutboxRows == [status : OutboxStates \cup {"ABSENT"}, attempts : Nat,
               owner : Workers \cup {NoWorker}]

NoJob == <<"no saga", "no step">>

NoRow == [status |-> "ABSENT", attempts |-> 0, owner |-> NoWorker]
NewRow == [NoRow EXCEPT !.status = "PENDING"]

EngineTypeOK ==
    /\ saga \in [Sagas -> Snapshots]
    /\ outbox \in [Ops -> OutboxRows]
    /\ inbox \in [Ops -> Results \cup {NoResult}]
    /\ kb \in [Ops -> {"NONE", "SUCCEEDED", "FAILED"}]
    /\ inflight \in [Ops -> Nat]
    /\ pc \in [Workers -> {"idle", "dispatching", "reconciling", "notFound"}]
    /\ job \in [Workers -> Ops \cup {NoJob}]
    /\ faults \in 0..MaxFaults

EngineInit ==
    /\ saga = [s \in Sagas |-> NoSaga]
    /\ outbox = [op \in Ops |-> NoRow]
    /\ inbox = [op \in Ops |-> NoResult]
    /\ kb = [op \in Ops |-> "NONE"]
    /\ inflight = [op \in Ops |-> 0]
    /\ pc = [w \in Workers |-> "idle"]
    /\ job = [w \in Workers |-> NoJob]
    /\ faults = 0

(* One adverse event.                                                      *)
Fault == faults < MaxFaults /\ faults' = faults + 1

(* An adverse event only if the condition holds.                           *)
FaultIf(condition) == IF condition THEN Fault ELSE UNCHANGED faults

Begin(w, phase, op) ==
    /\ pc' = [pc EXCEPT ![w] = phase]
    /\ job' = [job EXCEPT ![w] = op]

Finish(w) ==
    /\ pc' = [pc EXCEPT ![w] = "idle"]
    /\ job' = [job EXCEPT ![w] = NoJob]

(***************************************************************************)
(* The store.                                                              *)
(***************************************************************************)

(* Migration 0528: at most one unresolved Saga per contract version and    *)
(* kind; an INSERT or UPDATE that would make a second one aborts.          *)
ActiveStates == {"PENDING_REMOTE", "REMOTE_SUCCEEDED", "COMPENSATION_PENDING",
                 "RECONCILIATION_REQUIRED"}

SlotTaken(c, v, s) ==
    \E t \in Sagas \ {s} : /\ saga[t].contract = c
                           /\ saga[t].version = v
                           /\ PrimaryStep(t) = PrimaryStep(s)
                           /\ saga[t].state \in ActiveStates

PrepareSagaIntent(s, c, v, e) ==
    /\ saga[s].state = "ABSENT"
    /\ ~SlotTaken(c, v, s)
    /\ saga' = [saga EXCEPT ![s] = CreateSaga(c, v, e)]
    /\ outbox' = [outbox EXCEPT ![PrimaryKey(s)] = NewRow]

(* Mutant: an unknown outcome stays frozen whatever is learnt of it.       *)
Thaw_Never(g, op) == g

(* An unknown outcome that evidence now resolves goes back to the state    *)
(* that awaits it; a Saga that already holds this result stays frozen.     *)
Thaw(g, op) ==
    IF g.state = "RECONCILIATION_REQUIRED" /\ ObservedResult(g, op) = NoResult
    THEN [g EXCEPT !.state = AwaitingState(op)] ELSE g

RecordFirstResult(op, r) ==
    LET g == Thaw(saga[SagaOf(op)], op)
    IN  /\ inbox[op] = NoResult
        /\ g.state = AwaitingState(op)
        /\ inbox' = [inbox EXCEPT ![op] = r]
        /\ saga' = [saga EXCEPT ![SagaOf(op)] = ObserveFinancialResult(g, op, r)]
        /\ outbox' = [outbox EXCEPT ![op].status = "DELIVERED", ![op].owner = NoWorker]

RecordDuplicate(op, r) ==
    /\ inbox[op] = r
    /\ UNCHANGED store

(* Mutant: the last of two different results wins.                         *)
RecordConflict_LastWins(op, r) ==
    /\ inbox[op] \notin {NoResult, r}
    /\ inbox' = [inbox EXCEPT ![op] = r]
    /\ UNCHANGED <<saga, outbox>>

(* A different result for a recorded key freezes the Saga, unless the      *)
(* partial unique index refuses the update and the transaction aborts.     *)
RecordConflict(op, r) ==
    LET s == SagaOf(op)
    IN  /\ inbox[op] \notin {NoResult, r}
        /\ IF saga[s].state \notin ActiveStates /\ SlotTaken(saga[s].contract, saga[s].version, s)
           THEN UNCHANGED store
           ELSE /\ saga' = [saga EXCEPT ![s].state = "RECONCILIATION_REQUIRED"]
                /\ outbox' = [outbox EXCEPT ![op].status = "RECONCILIATION_REQUIRED",
                                            ![op].owner = NoWorker]
                /\ UNCHANGED inbox

RecordSagaFinancialResult(op, r) ==
    RecordFirstResult(op, r) \/ RecordDuplicate(op, r) \/ RecordConflict(op, r)

(* Mutant: a failure is recorded without looking at the lease.             *)
OwnsLease_NotChecked(w, op) == TRUE

OwnsLease(w, op) == outbox[op].status = "LEASED" /\ outbox[op].owner = w

(* SAGA_OUTBOX_LEASE_LOST: the transaction changes nothing.                *)
DispatchFailureRefused(w, op) == ~OwnsLease(w, op) /\ UNCHANGED store

RecordOutcomeUnknown(w, op) ==
    /\ OwnsLease(w, op)
    /\ outbox' = [outbox EXCEPT ![op].status = "RECONCILIATION_REQUIRED", ![op].owner = NoWorker]
    /\ saga' = [saga EXCEPT ![SagaOf(op)].state =
                    IF @ \in {"COMPLETED", "COMPENSATED", "FAILED"}
                    THEN @ ELSE "RECONCILIATION_REQUIRED"]
    /\ UNCHANGED inbox

(* Mutant: a status that the CHECK of cross_product_outbox refuses.         *)
RecordNoEffect_UnknownStatus(w, op) ==
    /\ OwnsLease(w, op)
    /\ outbox' = [outbox EXCEPT ![op].status = IF outbox[op].attempts < MaxAttempts
                                               THEN "RETRY" ELSE "DEAD_LETTER",
                                ![op].owner = NoWorker]
    /\ UNCHANGED <<saga, inbox>>

(* Mutant: a Saga whose attempts run out is closed as FAILED.              *)
RecordNoEffect_ExhaustedFails(w, op) ==
    /\ OwnsLease(w, op)
    /\ outbox' = [outbox EXCEPT ![op].status = IF outbox[op].attempts < MaxAttempts
                                               THEN "RETRY_WAIT" ELSE "DEAD_LETTER",
                                ![op].owner = NoWorker]
    /\ saga' = [saga EXCEPT ![SagaOf(op)].state = IF outbox[op].attempts < MaxAttempts
                                                  THEN @ ELSE "FAILED"]
    /\ UNCHANGED inbox

RecordNoEffect(w, op) ==
    /\ OwnsLease(w, op)
    /\ outbox' = [outbox EXCEPT ![op].status = IF outbox[op].attempts < MaxAttempts
                                               THEN "RETRY_WAIT" ELSE "DEAD_LETTER",
                                ![op].owner = NoWorker]
    /\ UNCHANGED <<saga, inbox>>

(***************************************************************************)
(* The Knowledge Ball (external).  It executes a key at most once and      *)
(* keeps the outcome; only an escrow that is still held can be released or *)
(* distributed (NH-061: balance and version are compared atomically).      *)
(***************************************************************************)
Funded(e) == kb[PrimaryKey(e)] = "SUCCEEDED"
Released(e) == kb[CompensationKey(e)] = "SUCCEEDED"
DistributedBy(s) == kb[PrimaryKey(s)] = "SUCCEEDED"
Held(e) == /\ e \in Activations
           /\ Funded(e)
           /\ ~Released(e)
           /\ \A s \in Settlements : saga[s].escrow = e => ~DistributedBy(s)

MayMoveMoney(op) ==
    \/ SagaOf(op) \in Activations /\ op = PrimaryKey(SagaOf(op))
    \/ Held(saga[SagaOf(op)].escrow)

KbExecute(op) ==
    /\ inflight[op] > 0
    /\ kb[op] = "NONE"
    /\ \E outcome \in {"SUCCEEDED", "FAILED"} :
          /\ outcome = "SUCCEEDED" => MayMoveMoney(op)
          /\ kb' = [kb EXCEPT ![op] = outcome]
    /\ inflight' = [inflight EXCEPT ![op] = @ - 1]
    /\ UNCHANGED <<store, pc, job, faults>>

(***************************************************************************)
(* dispatchSagaOutboxOnce.                                                 *)
(***************************************************************************)
Dispatching(w, op) == pc[w] = "dispatching" /\ job[w] = op

(* Mutant: the lease of a dead owner never runs out.                       *)
Claimable_LeasesStay(op) == outbox[op].status \in {"PENDING", "RETRY_WAIT"}

(* A row waits to be sent, or its lease has expired; the lease of a live   *)
(* owner expires only by a fault.                                          *)
Claimable(op) == outbox[op].status \in {"PENDING", "RETRY_WAIT", "LEASED"}

ClaimSagaOutbox(w, op) ==
    /\ pc[w] = "idle"
    /\ Claimable(op)
    /\ FaultIf(\E v \in Workers : OwnsLease(v, op) /\ Dispatching(v, op))
    /\ outbox' = [outbox EXCEPT ![op] = [status |-> "LEASED", attempts |-> @.attempts + 1,
                                         owner |-> w]]
    /\ inflight' = [inflight EXCEPT ![op] = @ + 1]
    /\ Begin(w, "dispatching", op)
    /\ UNCHANGED <<saga, inbox, kb>>

(* SUCCEEDED, DUPLICATE or a terminal error: the stored outcome.           *)
DispatchAnswered(w) ==
    LET op == job[w]
    IN  /\ pc[w] = "dispatching"
        /\ kb[op] # "NONE"
        /\ \E t \in Tags : RecordSagaFinancialResult(op, [status |-> kb[op], tag |-> t])
        /\ Finish(w)
        /\ UNCHANGED <<authority, faults>>

(* This request is refused at admission, whatever the authority stored for *)
(* the key or still has to execute: recorded as a FAILED result.           *)
DispatchRefused(w) ==
    LET op == job[w]
    IN  /\ pc[w] = "dispatching"
        /\ inflight[op] > 0
        /\ inflight' = [inflight EXCEPT ![op] = @ - 1]
        /\ \E t \in Refusals : RecordSagaFinancialResult(op, [status |-> "FAILED", tag |-> t])
        /\ Finish(w)
        /\ UNCHANGED <<kb, faults>>

(* UNAVAILABLE or an error with confirmedNoEffect: this request is gone    *)
(* without effect.  TIMEOUT, which is taken for the same: it may have been *)
(* executed or may still be.                                               *)
DispatchRetryScheduled(w) ==
    LET op == job[w]
    IN  /\ pc[w] = "dispatching"
        /\ Fault
        /\ \/ inflight[op] > 0 /\ inflight' = [inflight EXCEPT ![op] = @ - 1]
           \/ UNCHANGED inflight
        /\ RecordNoEffect(w, op) \/ DispatchFailureRefused(w, op)
        /\ Finish(w)
        /\ UNCHANGED kb

(* OUTCOME_UNKNOWN, any other thrown error, or a success without a         *)
(* reference: the request may still take effect.                           *)
DispatchOutcomeUnknown(w) ==
    LET op == job[w]
    IN  /\ pc[w] = "dispatching"
        /\ Fault
        /\ RecordOutcomeUnknown(w, op) \/ DispatchFailureRefused(w, op)
        /\ Finish(w)
        /\ UNCHANGED authority

(***************************************************************************)
(* reconcileSagaOnce.                                                      *)
(***************************************************************************)
Reconciling(w, op) == pc[w] \in {"reconciling", "notFound"} /\ job[w] = op

(* next_reconcile_at serves as the lease of the Saga row.                  *)
ReconcileClaim(w, op) ==
    /\ pc[w] = "idle"
    /\ saga[SagaOf(op)].state = "RECONCILIATION_REQUIRED"
    /\ outbox[op].status = "RECONCILIATION_REQUIRED"
    /\ FaultIf(\E v \in Workers, k \in Keys(SagaOf(op)) : Reconciling(v, k))
    /\ Begin(w, "reconciling", op)
    /\ UNCHANGED <<store, authority>>

LookupFound(w) ==
    LET op == job[w]
    IN  /\ pc[w] = "reconciling"
        /\ kb[op] # "NONE"
        /\ \E t \in Tags : RecordSagaFinancialResult(op, [status |-> kb[op], tag |-> t])
        /\ Finish(w)
        /\ UNCHANGED <<authority, faults>>

LookupNotFound(w) ==
    /\ pc[w] = "reconciling"
    /\ kb[job[w]] = "NONE"
    /\ Begin(w, "notFound", job[w])
    /\ UNCHANGED <<store, authority, faults>>

(* UNKNOWN, or the lookup threw: only next_reconcile_at moves.             *)
LookupInconclusive(w) ==
    /\ pc[w] = "reconciling"
    /\ Fault
    /\ Finish(w)
    /\ UNCHANGED <<store, authority>>

(* The transaction that acts on NOT_FOUND re-reads the Saga: it replays    *)
(* only while the Saga still awaits reconciliation and holds no result.    *)
ReplayAllowed(op) ==
    LET g == saga[SagaOf(op)]
    IN  /\ g.state = "RECONCILIATION_REQUIRED"
        /\ g.primaryResult = NoResult
        /\ g.compensationResult = NoResult

(* Mutant: the Saga awaits its answer again, its row is not queued again.  *)
ReplayAfterNotFound_NotQueued(w) ==
    /\ pc[w] = "notFound"
    /\ ReplayAllowed(job[w])
    /\ saga' = [saga EXCEPT ![SagaOf(job[w])].state = AwaitingState(job[w])]
    /\ Finish(w)
    /\ UNCHANGED <<outbox, inbox, authority, faults>>

ReplayAfterNotFound(w) ==
    LET op == job[w]
    IN  /\ pc[w] = "notFound"
        /\ ReplayAllowed(op)
        /\ saga' = [saga EXCEPT ![SagaOf(op)].state = AwaitingState(op)]
        /\ outbox' = [outbox EXCEPT ![op].status =
                          IF @ = "RECONCILIATION_REQUIRED" THEN "RETRY_WAIT" ELSE @]
        /\ Finish(w)
        /\ UNCHANGED <<inbox, authority, faults>>

(* STALE_RECONCILIATION, or a Saga that already holds a result.            *)
NoReplayAfterNotFound(w) ==
    /\ pc[w] = "notFound"
    /\ ~ReplayAllowed(job[w])
    /\ Finish(w)
    /\ UNCHANGED <<store, authority, faults>>

(* The process dies between its claim and its recording transaction; what  *)
(* it sent stays in flight, the row stays LEASED.                          *)
Crash(w) ==
    /\ pc[w] # "idle"
    /\ Fault
    /\ Finish(w)
    /\ UNCHANGED <<store, authority>>

WorkerReturns(w) ==
    \/ DispatchAnswered(w)
    \/ LookupFound(w)
    \/ LookupNotFound(w)
    \/ ReplayAfterNotFound(w)
    \/ NoReplayAfterNotFound(w)

WorkerStep(w) ==
    \/ \E op \in Ops : ClaimSagaOutbox(w, op) \/ ReconcileClaim(w, op)
    \/ WorkerReturns(w)
    \/ DispatchRefused(w)
    \/ DispatchRetryScheduled(w)
    \/ DispatchOutcomeUnknown(w)
    \/ LookupInconclusive(w)
    \/ Crash(w)

EngineStep == (\E w \in Workers : WorkerStep(w)) \/ (\E op \in Ops : KbExecute(op))
=============================================================================
