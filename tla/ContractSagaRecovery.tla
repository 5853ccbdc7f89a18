------------------------ MODULE ContractSagaRecovery ------------------------
(***************************************************************************)
(* What survives lost answers, late owners, crashes and reconciliation:    *)
(* no result is sent for again, the snapshot tells what the inbox tells,   *)
(* no money is without an owner, a finished Saga converged and a settled   *)
(* contract was paid.  Proved from an extension of SafetyInv in two parts. *)
(***************************************************************************)
EXTENDS ContractSagaSafety

-----------------------------------------------------------------------------
(* Stages: what the state of a Saga says of its results.                   *)

StageMatchesResults(s) ==
    LET g == saga[s]
    IN  /\ g.state = "PENDING_REMOTE" => g.primaryResult = NoResult
        /\ g.state \in {"REMOTE_SUCCEEDED", "COMPLETED"} => g.primaryResult.status = "SUCCEEDED"
        /\ g.state = "FAILED" => g.primaryResult.status = "FAILED"
        /\ g.state = "COMPENSATION_PENDING" =>
              g.compensationKey /\ g.compensationResult = NoResult
        /\ g.state = "COMPENSATED" =>
              g.compensationKey /\ g.compensationResult.status = "SUCCEEDED"
        /\ g.compensationKey => s \in Activations

(* Every request under way, and the one that was executed, was claimed     *)
(* once.                                                                   *)
SendsAreCounted(op) ==
    /\ inflight[op] <= outbox[op].attempts
    /\ kb[op] # "NONE" => inflight[op] < outbox[op].attempts

(* A recorded failure is the decision of the authority, or the refusal of  *)
(* the only request there was, or that of a re-send.                       *)
FailureIsOver(op) ==
    inbox[op].status = "FAILED" =>
        \/ kb[op] = "FAILED"
        \/ /\ inbox[op].tag \in Refusals
           /\ outbox[op].attempts > 1 \/ (kb[op] = "NONE" /\ inflight[op] = 0)

FailuresAreOver == \A op \in Ops : SendsAreCounted(op) /\ FailureIsOver(op)

Stages == /\ \A s \in Sagas : StageMatchesResults(s)
          /\ ResultEndsDispatch
          /\ FailuresAreOver

-----------------------------------------------------------------------------
(* Closure: what a contract says of its Sagas.                             *)

(* The decision a settlement rests on stands: no rework, no new version.   *)
Decided(k) == \/ k.status = "SUBMITTED" /\ k.delivery = "ACCEPTED"
              \/ k.status \in {"DISPUTED", "SETTLED"}

SagasHaveContracts ==
    \A s \in Sagas : saga[s].state # "ABSENT" => saga[s].contract \in Contracts

SettlementsAreDecided ==
    \A s \in Settlements : saga[s].state # "ABSENT" =>
        LET k == contract[saga[s].contract]
        IN  /\ Decided(k)
            /\ saga[s].version = k.version
            /\ saga[s].escrow = k.escrow

(* The partial unique index of migration 0528.                             *)
OneUnresolved ==
    \A s \in Sagas : saga[s].state \in ActiveStates =>
        ~SlotTaken(saga[s].contract, saga[s].version, s)

CompletedIsClosed ==
    /\ \A a \in Activations : saga[a].state = "COMPLETED" => Binds(saga[a].contract, a)
    /\ \A s \in Settlements : saga[s].state = "COMPLETED" =>
           contract[saga[s].contract].status = "SETTLED"

(* Nothing of a settled contract is still under way.                       *)
SettledIsOver ==
    \A s \in Settlements :
        saga[s].state # "ABSENT" /\ contract[saga[s].contract].status = "SETTLED" =>
            /\ saga[s].primaryResult # NoResult
            /\ saga[s].state \notin {"PENDING_REMOTE", "REMOTE_SUCCEEDED"}

Closure == /\ SagasHaveContracts
           /\ SettlementsAreDecided
           /\ OneUnresolved
           /\ CompletedIsClosed
           /\ SettledIsOver
           /\ SettledOnlyIfDistributed

RecoveryInv == SafetyInv /\ Stages /\ Closure

-----------------------------------------------------------------------------
LEMMA InitialRecovery == Init => RecoveryInv
  <1> SUFFICES ASSUME Init PROVE Stages /\ Closure
    BY InitialSafety DEF RecoveryInv
  <1> USE DEF Init, EngineInit, ContractsInit
  <1>1. \A s \in Sagas : saga[s].state = "ABSENT" /\ ~saga[s].compensationKey
    BY DEF NoSaga
  <1>2. Stages
    BY <1>1 DEF Stages, StageMatchesResults, ResultEndsDispatch, FailuresAreOver,
       SendsAreCounted, FailureIsOver, NoResult, NoRow
  <1>3. \A c \in Contracts : contract[c].status = "ABSENT"
    BY DEF NoContract
  <1>4. Closure
    BY <1>1, <1>3, OperationKeys
    DEF Closure, SagasHaveContracts, SettlementsAreDecided, OneUnresolved, ActiveStates,
        CompletedIsClosed, SettledIsOver, SettledOnlyIfDistributed
  <1> QED BY <1>2, <1>4

-----------------------------------------------------------------------------
(* How the worker that records something moves one Saga.                   *)

SagaMoves(s) ==
    LET g == saga[s]
        h == saga'[s]
    IN  /\ g.state # "ABSENT"
        /\ h.contract = g.contract
        /\ h.version = g.version
        /\ h.escrow = g.escrow
        /\ h.compensationKey = g.compensationKey
        /\ \/ \* the primary operation is answered
              /\ g.state \in {"PENDING_REMOTE", "RECONCILIATION_REQUIRED"}
              /\ g.primaryResult = NoResult
              /\ h.primaryResult \in Results
              /\ h.compensationResult = g.compensationResult
              /\ h.state = IF h.primaryResult.status = "SUCCEEDED"
                           THEN "REMOTE_SUCCEEDED" ELSE "FAILED"
           \/ \* the refund is answered
              /\ g.state \in {"COMPENSATION_PENDING", "RECONCILIATION_REQUIRED"}
              /\ g.compensationKey
              /\ h.compensationResult \in Results
              /\ h.primaryResult = g.primaryResult
              /\ h.state = IF h.compensationResult.status = "SUCCEEDED"
                           THEN "COMPENSATED" ELSE "RECONCILIATION_REQUIRED"
           \/ \* it is frozen
              /\ g.state \in ActiveStates \/ ~SlotTaken(g.contract, g.version, s)
              /\ h.state = "RECONCILIATION_REQUIRED"
              /\ h.primaryResult = g.primaryResult
              /\ h.compensationResult = g.compensationResult
           \/ \* its request is sent again
              /\ g.state = "RECONCILIATION_REQUIRED"
              /\ g.primaryResult = NoResult
              /\ h.state = "PENDING_REMOTE"
              /\ h.primaryResult = g.primaryResult
              /\ h.compensationResult = g.compensationResult

EngineMoves ==
    \/ saga' = saga
    \/ \E s \in Sagas : /\ SagaMoves(s)
                        /\ \A t \in Sagas \ {s} : saga'[t] = saga[t]

LEMMA RecordingMoves ==
    ASSUME TypeInv, Evidence, Binding, ResultEndsDispatch,
           NEW op \in Ops, NEW r \in Results,
           outbox[op].status # "ABSENT",
           RecordSagaFinancialResult(op, r)
    PROVE  EngineMoves /\ ResultEndsDispatch'
  <1> DEFINE s == SagaOf(op)
  <1>0. /\ saga \in [Sagas -> Snapshots]
        /\ outbox \in [Ops -> OutboxRows]
        /\ inbox \in [Ops -> Results \cup {NoResult}]
        /\ s \in Sagas
        /\ saga[s] \in Snapshots
        /\ saga[s].state # "ABSENT"
        /\ \A k \in Ops : ObservedResult(saga[SagaOf(k)], k) = inbox[k]
    BY OperationKeys
    DEF TypeInv, TypeOK, EngineTypeOK, Evidence, SnapshotMirrorsInbox, UnpreparedIsBlank
  <1>1. CASE UNCHANGED store
    BY <1>1 DEF store, EngineMoves, ResultEndsDispatch
  <1>2. CASE RecordConflict(op, r) /\ ~UNCHANGED store
    <2>1. /\ saga' = [saga EXCEPT ![s].state = "RECONCILIATION_REQUIRED"]
          /\ outbox' = [outbox EXCEPT ![op].status = "RECONCILIATION_REQUIRED",
                                      ![op].owner = NoWorker]
          /\ UNCHANGED inbox
          /\ saga[s].state \in ActiveStates \/ ~SlotTaken(saga[s].contract, saga[s].version, s)
      BY <1>2 DEF RecordConflict
    <2>2. /\ saga'[s] = [saga[s] EXCEPT !.state = "RECONCILIATION_REQUIRED"]
          /\ \A t \in Sagas \ {s} : saga'[t] = saga[t]
      BY <1>0, <2>1
    <2>3. /\ saga'[s].state = "RECONCILIATION_REQUIRED"
          /\ saga'[s].contract = saga[s].contract
          /\ saga'[s].version = saga[s].version
          /\ saga'[s].escrow = saga[s].escrow
          /\ saga'[s].primaryResult = saga[s].primaryResult
          /\ saga'[s].compensationKey = saga[s].compensationKey
          /\ saga'[s].compensationResult = saga[s].compensationResult
      BY <1>0, <2>2, SnapshotFields
    <2> HIDE DEF s
    <2>4. SagaMoves(s)
      BY <1>0, <2>1, <2>3 DEF SagaMoves
    <2>5. EngineMoves
      BY <1>0, <2>2, <2>4 DEF EngineMoves
    <2>6. ResultEndsDispatch'
      BY <1>0, <2>1 DEF ResultEndsDispatch, OutboxRows
    <2> QED BY <2>5, <2>6
  <1>3. CASE RecordFirstResult(op, r)
    <2> DEFINE g == Thaw(saga[s], op)
    <2>1. /\ g \in Snapshots
          /\ g.contract = saga[s].contract
          /\ g.version = saga[s].version
          /\ g.escrow = saga[s].escrow
          /\ g.compensationKey = saga[s].compensationKey
          /\ g.primaryResult = saga[s].primaryResult
          /\ g.compensationResult = saga[s].compensationResult
          /\ g.state = saga[s].state \/ saga[s].state = "RECONCILIATION_REQUIRED"
      BY <1>0, SnapshotFields, ObservedSnapshots DEF Thaw
    <2>2. /\ inbox[op] = NoResult
          /\ g.state = AwaitingState(op)
          /\ inbox' = [inbox EXCEPT ![op] = r]
          /\ saga' = [saga EXCEPT ![s] = ObserveFinancialResult(g, op, r)]
          /\ outbox' = [outbox EXCEPT ![op].status = "DELIVERED", ![op].owner = NoWorker]
      BY <1>3 DEF RecordFirstResult
    <2>3. /\ saga'[s] = ObserveFinancialResult(g, op, r)
          /\ \A t \in Sagas \ {s} : saga'[t] = saga[t]
      BY <1>0, <2>2
    <2>4. /\ saga'[s].contract = g.contract
          /\ saga'[s].version = g.version
          /\ saga'[s].escrow = g.escrow
          /\ saga'[s].compensationKey = g.compensationKey
          /\ IF op = PrimaryKey(s)
             THEN /\ saga'[s].primaryResult = r
                  /\ saga'[s].compensationResult = g.compensationResult
                  /\ saga'[s].state = IF r.status = "SUCCEEDED"
                                      THEN "REMOTE_SUCCEEDED" ELSE "FAILED"
             ELSE /\ saga'[s].primaryResult = g.primaryResult
                  /\ saga'[s].compensationResult = r
                  /\ saga'[s].state = IF r.status = "SUCCEEDED"
                                      THEN "COMPENSATED" ELSE "RECONCILIATION_REQUIRED"
      BY <2>1, <2>3
      DEF ObserveFinancialResult, ObservePrimary, ObserveCompensation, Snapshots
    <2>5. op = PrimaryKey(s) => /\ saga[s].primaryResult = NoResult
                                /\ saga[s].state \in {"PENDING_REMOTE", "RECONCILIATION_REQUIRED"}
      BY <1>0, <2>1, <2>2 DEF ObservedResult, AwaitingState
    <2>6. op # PrimaryKey(s) =>
             /\ saga[s].compensationKey
             /\ saga[s].state \in {"COMPENSATION_PENDING", "RECONCILIATION_REQUIRED"}
      <3>1. op # PrimaryKey(s) => s \in Activations /\ op = CompensationKey(s)
        BY OperationKeys
      <3> QED
        BY <2>1, <2>2, <3>1 DEF AwaitingState, Evidence, RefundsAreRequested
    <2>7. ResultEndsDispatch'
      BY <1>0, <2>2 DEF ResultEndsDispatch, OutboxRows
    <2> HIDE DEF s, g
    <2>8. SagaMoves(s)
      BY <1>0, <2>1, <2>4, <2>5, <2>6 DEF SagaMoves
    <2> QED BY <1>0, <2>3, <2>7, <2>8 DEF EngineMoves
  <1> QED BY <1>1, <1>2, <1>3 DEF RecordSagaFinancialResult, RecordDuplicate

LEMMA FailureMoves ==
    ASSUME TypeInv, Evidence, Binding, ResultEndsDispatch,
           NEW w \in Workers, pc[w] # "idle",
           \/ RecordOutcomeUnknown(w, job[w])
           \/ RecordNoEffect(w, job[w])
           \/ DispatchFailureRefused(w, job[w])
    PROVE  EngineMoves /\ ResultEndsDispatch' /\ inbox' = inbox
  <1> DEFINE op == job[w]
             s == SagaOf(op)
  <1>0. /\ saga \in [Sagas -> Snapshots]
        /\ outbox \in [Ops -> OutboxRows]
        /\ op \in Ops
        /\ s \in Sagas
        /\ saga[s] \in Snapshots
        /\ saga[s].state # "ABSENT"
    BY JobsHaveRows DEF TypeInv, TypeOK, EngineTypeOK
  <1>1. OwnsLease(w, op) => inbox[op] = NoResult
    BY <1>0 DEF OwnsLease, ResultEndsDispatch
  <1>2. CASE RecordOutcomeUnknown(w, op)
    <2>1. ResultEndsDispatch' /\ inbox' = inbox
      BY <1>0, <1>1, <1>2 DEF RecordOutcomeUnknown, ResultEndsDispatch, OutboxRows
    <2>2. CASE saga[s].state \in {"COMPLETED", "COMPENSATED", "FAILED"}
      <3>1. saga' = [saga EXCEPT ![s].state = saga[s].state]
        BY <1>2, <2>2 DEF RecordOutcomeUnknown
      <3>2. [saga[s] EXCEPT !.state = saga[s].state] = saga[s]
        BY <1>0 DEF Snapshots
      <3>3. saga' = saga
        BY <1>0, <3>1, <3>2
      <3> QED BY <2>1, <3>3 DEF EngineMoves
    <2>3. CASE saga[s].state \notin {"COMPLETED", "COMPENSATED", "FAILED"}
      <3>1. saga' = [saga EXCEPT ![s].state = "RECONCILIATION_REQUIRED"]
        BY <1>2, <2>3 DEF RecordOutcomeUnknown
      <3>2. /\ saga'[s] = [saga[s] EXCEPT !.state = "RECONCILIATION_REQUIRED"]
            /\ \A t \in Sagas \ {s} : saga'[t] = saga[t]
        BY <1>0, <3>1
      <3>3. /\ saga'[s].state = "RECONCILIATION_REQUIRED"
            /\ saga'[s].contract = saga[s].contract
            /\ saga'[s].version = saga[s].version
            /\ saga'[s].escrow = saga[s].escrow
            /\ saga'[s].primaryResult = saga[s].primaryResult
            /\ saga'[s].compensationKey = saga[s].compensationKey
            /\ saga'[s].compensationResult = saga[s].compensationResult
        BY <1>0, <3>2, SnapshotFields
      <3>4. saga[s].state \in ActiveStates
        BY <1>0, <2>3 DEF Snapshots, SagaStates, ActiveStates
      <3> HIDE DEF s
      <3>5. SagaMoves(s)
        BY <1>0, <3>3, <3>4 DEF SagaMoves
      <3> QED BY <1>0, <2>1, <3>2, <3>5 DEF EngineMoves
    <2> QED BY <2>2, <2>3
  <1>3. CASE RecordNoEffect(w, op)
    BY <1>0, <1>1, <1>3 DEF RecordNoEffect, ResultEndsDispatch, OutboxRows, EngineMoves
  <1>4. CASE DispatchFailureRefused(w, op)
    BY <1>4 DEF DispatchFailureRefused, store, ResultEndsDispatch, EngineMoves
  <1> QED BY <1>2, <1>3, <1>4

(* Only the primary request is ever sent again after NOT_FOUND: the refund *)
(* of an activation exists only once the primary result is known.          *)
LEMMA ReplayMoves ==
    ASSUME TypeInv, Evidence, Binding, ResultEndsDispatch,
           NEW w \in Workers, ReplayAfterNotFound(w)
    PROVE  EngineMoves /\ ResultEndsDispatch'
  <1> DEFINE op == job[w]
             s == SagaOf(op)
  <1>0. /\ saga \in [Sagas -> Snapshots]
        /\ outbox \in [Ops -> OutboxRows]
        /\ op \in Ops /\ outbox[op].status # "ABSENT"
        /\ s \in Sagas
        /\ saga[s] \in Snapshots
        /\ saga[s].state # "ABSENT"
        /\ ObservedResult(saga[s], op) = inbox[op]
    BY JobsHaveRows
    DEF TypeInv, TypeOK, EngineTypeOK, ReplayAfterNotFound, Evidence, SnapshotMirrorsInbox
  <1>1. /\ saga[s].state = "RECONCILIATION_REQUIRED"
        /\ saga[s].primaryResult = NoResult
        /\ saga[s].compensationResult = NoResult
        /\ saga' = [saga EXCEPT ![s].state = AwaitingState(op)]
        /\ outbox' = [outbox EXCEPT ![op].status =
                          IF @ = "RECONCILIATION_REQUIRED" THEN "RETRY_WAIT" ELSE @]
        /\ inbox' = inbox
    BY DEF ReplayAfterNotFound, ReplayAllowed
  <1>2. op = PrimaryKey(s)
    <2>1. op # PrimaryKey(s) => s \in Activations /\ saga[s].compensationKey
      BY <1>0, OperationKeys DEF Evidence, RefundsAreRequested
    <2> QED BY <1>1, <2>1 DEF Binding, RefundsArePermanent, NoResult
  <1>3. inbox[op] = NoResult
    BY <1>0, <1>1, <1>2 DEF ObservedResult
  <1>4. ResultEndsDispatch'
    BY <1>0, <1>1, <1>3 DEF ResultEndsDispatch, OutboxRows
  <1>5. /\ saga'[s] = [saga[s] EXCEPT !.state = "PENDING_REMOTE"]
        /\ \A t \in Sagas \ {s} : saga'[t] = saga[t]
    BY <1>0, <1>1, <1>2 DEF AwaitingState
  <1>6. /\ saga'[s].state = "PENDING_REMOTE"
        /\ saga'[s].contract = saga[s].contract
        /\ saga'[s].version = saga[s].version
        /\ saga'[s].escrow = saga[s].escrow
        /\ saga'[s].primaryResult = saga[s].primaryResult
        /\ saga'[s].compensationKey = saga[s].compensationKey
        /\ saga'[s].compensationResult = saga[s].compensationResult
    BY <1>0, <1>5, SnapshotFields
  <1> HIDE DEF s
  <1>7. SagaMoves(s)
    BY <1>0, <1>1, <1>6 DEF SagaMoves
  <1> QED BY <1>0, <1>4, <1>5, <1>7 DEF EngineMoves

(* What the workers record leaves the count of sends alone.                *)
LEMMA AttemptsKept ==
    ASSUME outbox \in [Ops -> OutboxRows], NEW op \in Ops, NEW r, NEW w \in Workers,
           \/ RecordSagaFinancialResult(op, r)
           \/ RecordOutcomeUnknown(w, op)
           \/ RecordNoEffect(w, op)
           \/ DispatchFailureRefused(w, op)
    PROVE  \A k \in Ops : outbox'[k].attempts = outbox[k].attempts
  <1> SUFFICES ASSUME NEW k \in Ops PROVE outbox'[k].attempts = outbox[k].attempts
    OBVIOUS
  <1>1. outbox[k] \in OutboxRows
    OBVIOUS
  <1>2. ASSUME NEW o, NEW st, outbox' = [outbox EXCEPT ![op].status = st, ![op].owner = o]
        PROVE  outbox'[k].attempts = outbox[k].attempts
    BY <1>1, <1>2 DEF OutboxRows
  <1>3. CASE RecordSagaFinancialResult(op, r)
    <2>1. CASE RecordFirstResult(op, r)
      BY <1>2, <2>1 DEF RecordFirstResult
    <2>2. CASE RecordDuplicate(op, r)
      BY <2>2 DEF RecordDuplicate, store
    <2>3. CASE RecordConflict(op, r)
      BY <1>2, <2>3 DEF RecordConflict, store
    <2> QED BY <1>3, <2>1, <2>2, <2>3 DEF RecordSagaFinancialResult
  <1>4. CASE RecordOutcomeUnknown(w, op)
    BY <1>2, <1>4 DEF RecordOutcomeUnknown
  <1>5. CASE RecordNoEffect(w, op)
    BY <1>2, <1>5 DEF RecordNoEffect
  <1>6. CASE DispatchFailureRefused(w, op)
    BY <1>6 DEF DispatchFailureRefused, store
  <1> QED BY <1>3, <1>4, <1>5, <1>6

(* Requests that end without a trace leave recorded failures over.         *)
LEMMA FailuresStayOver ==
    ASSUME outbox \in [Ops -> OutboxRows], inflight \in [Ops -> Nat], FailuresAreOver,
           UNCHANGED <<kb, inbox>>,
           \A k \in Ops : /\ outbox'[k].attempts = outbox[k].attempts
                          /\ inflight'[k] \in Nat
                          /\ inflight'[k] <= inflight[k]
    PROVE  FailuresAreOver'
  <1> SUFFICES ASSUME NEW k \in Ops PROVE SendsAreCounted(k)' /\ FailureIsOver(k)'
    BY DEF FailuresAreOver
  <1>1. /\ SendsAreCounted(k) /\ FailureIsOver(k)
        /\ outbox[k].attempts \in Nat /\ inflight[k] \in Nat
    BY DEF FailuresAreOver, OutboxRows
  <1>2. SendsAreCounted(k)'
    BY <1>1 DEF SendsAreCounted
  <1>3. FailureIsOver(k)'
    BY <1>1 DEF FailureIsOver
  <1> QED BY <1>2, <1>3

(* A new row belongs to a key nobody has sent.                             *)
LEMMA NewRowsAreUnsent ==
    ASSUME Evidence, FailuresAreOver, NEW op \in Ops,
           outbox[op].status = "ABSENT", outbox'[op] = NewRow,
           \A k \in Ops \ {op} : outbox'[k] = outbox[k],
           UNCHANGED <<inbox, kb, inflight>>
    PROVE  FailuresAreOver'
  <1>1. inflight[op] = 0 /\ kb[op] = "NONE" /\ inbox[op] = NoResult
    BY DEF Evidence, RowsComeFirst
  <1>2. SendsAreCounted(op)' /\ FailureIsOver(op)'
    BY <1>1 DEF SendsAreCounted, FailureIsOver, NewRow, NoRow, NoResult
  <1>3. \A k \in Ops \ {op} : SendsAreCounted(k)' /\ FailureIsOver(k)'
    BY DEF FailuresAreOver, SendsAreCounted, FailureIsOver
  <1> QED BY <1>2, <1>3 DEF FailuresAreOver

LEMMA WorkerStepMoves ==
    ASSUME TypeInv, Evidence, Binding, Stages, NEW w \in Workers, WorkerStep(w)
    PROVE  EngineMoves /\ ResultEndsDispatch' /\ FailuresAreOver'
  <1>0. /\ kb \in [Ops -> {"NONE", "SUCCEEDED", "FAILED"}]
        /\ inflight \in [Ops -> Nat]
        /\ inbox \in [Ops -> Results \cup {NoResult}]
        /\ outbox \in [Ops -> OutboxRows]
        /\ ResultEndsDispatch
    BY DEF TypeInv, TypeOK, EngineTypeOK, Stages
  <1>1. ASSUME NEW op \in Ops, ClaimSagaOutbox(w, op)
        PROVE  EngineMoves /\ ResultEndsDispatch' /\ FailuresAreOver'
    <2>1. inbox[op] = NoResult
      BY <1>0, <1>1 DEF ClaimSagaOutbox, Claimable, ResultEndsDispatch
    <2>2. UNCHANGED <<saga, inbox, kb>>
      BY <1>1 DEF ClaimSagaOutbox
    <2>3. /\ \A k \in Ops : k # op => outbox'[k] = outbox[k] /\ inflight'[k] = inflight[k]
          /\ outbox'[op].attempts = outbox[op].attempts + 1
          /\ inflight'[op] = inflight[op] + 1
      BY <1>0, <1>1 DEF ClaimSagaOutbox
    <2>4. inbox[op].status # "FAILED"
      BY <2>1 DEF NoResult
    <2>5. ResultEndsDispatch'
      BY <1>0, <2>1, <2>2, <2>3 DEF ResultEndsDispatch
    <2>6. outbox[op].attempts \in Nat /\ inflight[op] \in Nat
      BY <1>0 DEF OutboxRows
    <2>7. FailuresAreOver'
      BY <2>2, <2>3, <2>4, <2>6 DEF Stages, FailuresAreOver, SendsAreCounted, FailureIsOver
    <2> QED BY <2>2, <2>5, <2>7 DEF EngineMoves
  <1>2. ASSUME UNCHANGED <<saga, outbox, inbox, kb, inflight>>
        PROVE  EngineMoves /\ ResultEndsDispatch' /\ FailuresAreOver'
    BY <1>2 DEF EngineMoves, ResultEndsDispatch, FailuresAreOver, SendsAreCounted,
       FailureIsOver, Stages
  <1>3. CASE DispatchAnswered(w) \/ LookupFound(w)
    <2>1. job[w] \in Ops /\ outbox[job[w]].status # "ABSENT"
      BY <1>3, JobsHaveRows DEF DispatchAnswered, LookupFound
    <2>2. PICK t \in Tags :
             RecordSagaFinancialResult(job[w], [status |-> kb[job[w]], tag |-> t])
      BY <1>3 DEF DispatchAnswered, LookupFound
    <2> DEFINE r == [status |-> kb[job[w]], tag |-> t]
    <2>3. r \in Results
      BY <1>0, <1>3, <2>1 DEF DispatchAnswered, LookupFound, Results
    <2>4. UNCHANGED <<kb, inflight>>
      BY <1>3 DEF DispatchAnswered, LookupFound, authority
    <2>5. \A k \in Ops : inbox'[k] = inbox[k] \/ (k = job[w] /\ inbox'[k].status = kb[k])
      BY <2>1, <2>2, <2>3, RecordingEvidence
    <2>6. \A k \in Ops : outbox'[k].attempts = outbox[k].attempts
      BY <1>0, <2>1, <2>2, AttemptsKept
    <2>7. FailuresAreOver'
      BY <2>4, <2>5, <2>6 DEF Stages, FailuresAreOver, SendsAreCounted, FailureIsOver
    <2> QED BY <1>0, <2>1, <2>2, <2>3, <2>7, RecordingMoves
  <1>4. CASE DispatchRefused(w)
    <2>1. job[w] \in Ops /\ outbox[job[w]].status # "ABSENT"
      BY <1>4, JobsHaveRows DEF DispatchRefused
    <2>2. PICK t \in Refusals : RecordSagaFinancialResult(job[w], [status |-> "FAILED", tag |-> t])
      BY <1>4 DEF DispatchRefused
    <2>3. [status |-> "FAILED", tag |-> t] \in Results
      BY DEF Results
    <2> DEFINE op == job[w]
               r == [status |-> "FAILED", tag |-> t]
    <2>4. /\ kb' = kb
          /\ inflight[op] > 0
          /\ inflight'[op] = inflight[op] - 1
          /\ \A k \in Ops : k # op => inflight'[k] = inflight[k]
      BY <1>0, <1>4, <2>1 DEF DispatchRefused
    <2>5. \A k \in Ops : inbox'[k] = inbox[k] \/ (k = op /\ inbox'[k] = r)
      BY <2>1, <2>2, <2>3, RecordingEvidence
    <2>6. \A k \in Ops : outbox'[k].attempts = outbox[k].attempts
      BY <1>0, <2>1, <2>2, AttemptsKept
    <2>7. ASSUME NEW k \in Ops
          PROVE  SendsAreCounted(k)' /\ FailureIsOver(k)'
      <3>1. /\ SendsAreCounted(k) /\ FailureIsOver(k)
            /\ outbox[k].attempts \in Nat /\ inflight[k] \in Nat
        BY <1>0 DEF Stages, FailuresAreOver, OutboxRows
      <3> HIDE DEF op, r
      <3>2. SendsAreCounted(k)'
        BY <2>4, <2>6, <3>1 DEF SendsAreCounted
      <3>3. /\ kb'[k] = kb[k] /\ outbox'[k].attempts = outbox[k].attempts
            /\ inflight[k] = 0 => inflight'[k] = 0
        BY <2>4, <2>6
      <3>4. CASE inbox'[k] = inbox[k]
        BY <3>1, <3>2, <3>3, <3>4 DEF FailureIsOver
      <3>5. CASE k = op /\ inbox'[k] = r
        <4>1. \/ outbox[k].attempts > 1
              \/ outbox[k].attempts = 1 /\ kb[k] = "NONE" /\ inflight[k] = 1
          BY <2>4, <3>1, <3>5 DEF SendsAreCounted
        <4>2. outbox'[k].attempts > 1 \/ (kb'[k] = "NONE" /\ inflight'[k] = 0)
          BY <2>4, <3>3, <3>5, <4>1
        <4>3. inbox'[k].tag \in Refusals
          BY <2>2, <3>5 DEF r
        <4> QED BY <3>2, <4>2, <4>3 DEF FailureIsOver
      <3> QED BY <2>5, <3>2, <3>4, <3>5
    <2>8. FailuresAreOver'
      BY <2>7 DEF FailuresAreOver
    <2> QED BY <1>0, <2>1, <2>2, <2>3, <2>8, RecordingMoves
  <1>5. CASE DispatchRetryScheduled(w)
    <2>1. /\ job[w] \in Ops /\ kb' = kb
          /\ \/ inflight[job[w]] > 0 /\ inflight' = [inflight EXCEPT ![job[w]] = @ - 1]
             \/ UNCHANGED inflight
          /\ RecordNoEffect(w, job[w]) \/ DispatchFailureRefused(w, job[w])
          /\ pc[w] # "idle"
      BY <1>5, JobsHaveRows DEF DispatchRetryScheduled
    <2>2. EngineMoves /\ ResultEndsDispatch' /\ inbox' = inbox
      BY <1>0, <2>1, FailureMoves
    <2>3. \A k \in Ops : inflight'[k] \in Nat /\ inflight'[k] <= inflight[k]
      BY <1>0, <2>1
    <2>4. \A k \in Ops : outbox'[k].attempts = outbox[k].attempts
      BY <1>0, <2>1, AttemptsKept
    <2>5. FailuresAreOver'
      BY <1>0, <2>1, <2>2, <2>3, <2>4, FailuresStayOver DEF Stages
    <2> QED BY <2>2, <2>5
  <1>6. CASE DispatchOutcomeUnknown(w)
    <2>1. /\ pc[w] # "idle" /\ UNCHANGED <<kb, inflight>> /\ job[w] \in Ops
          /\ RecordOutcomeUnknown(w, job[w]) \/ DispatchFailureRefused(w, job[w])
      BY <1>6, JobsHaveRows DEF DispatchOutcomeUnknown, authority
    <2>2. EngineMoves /\ ResultEndsDispatch' /\ inbox' = inbox
      BY <1>0, <2>1, FailureMoves
    <2>3. \A k \in Ops : outbox'[k].attempts = outbox[k].attempts
      BY <1>0, <2>1, AttemptsKept
    <2>4. FailuresAreOver'
      BY <1>0, <2>1, <2>2, <2>3, FailuresStayOver DEF Stages
    <2> QED BY <2>2, <2>4
  <1>7. CASE ReplayAfterNotFound(w)
    <2>1. UNCHANGED <<inbox, kb, inflight>>
      BY <1>7 DEF ReplayAfterNotFound, authority
    <2>2. \A k \in Ops : outbox'[k].attempts = outbox[k].attempts
      BY <1>0, <1>7 DEF ReplayAfterNotFound, OutboxRows
    <2>3. FailuresAreOver'
      BY <1>0, <2>1, <2>2, FailuresStayOver DEF Stages
    <2> QED BY <1>0, <1>7, <2>3, ReplayMoves
  <1>8. CASE \/ \E op \in Ops : ReconcileClaim(w, op)
             \/ LookupNotFound(w)
             \/ NoReplayAfterNotFound(w)
             \/ LookupInconclusive(w)
             \/ Crash(w)
    <2>1. UNCHANGED <<saga, outbox, inbox, kb, inflight>>
      BY <1>8 DEF ReconcileClaim, LookupNotFound, NoReplayAfterNotFound, LookupInconclusive,
         Crash, store, authority
    <2> QED BY <1>2, <2>1
  <1> QED
    BY <1>1, <1>3, <1>4, <1>5, <1>6, <1>7, <1>8 DEF WorkerStep, WorkerReturns

LEMMA EngineStepMoves ==
    ASSUME TypeInv, Evidence, Binding, Stages, EngineStep \/ UNCHANGED engine
    PROVE  /\ EngineMoves
           /\ ResultEndsDispatch'
           /\ FailuresAreOver'
           /\ \A op \in Ops : kb[op] # "NONE" => kb'[op] = kb[op]
  <1>1. \A op \in Ops : kb[op] # "NONE" => kb'[op] = kb[op]
    BY EngineStepsAllowed DEF EngineStepAllowed, RowStepAllowed
  <1>2. CASE UNCHANGED engine
    BY <1>1, <1>2 DEF engine, store, authority, EngineMoves, ResultEndsDispatch,
       FailuresAreOver, SendsAreCounted, FailureIsOver, Stages
  <1>3. ASSUME NEW op \in Ops, KbExecute(op)
        PROVE  EngineMoves /\ ResultEndsDispatch' /\ FailuresAreOver'
    <2>1. /\ inflight[op] > 0 /\ kb[op] = "NONE"
          /\ UNCHANGED <<saga, outbox, inbox>>
          /\ \A k \in Ops : k # op => kb'[k] = kb[k] /\ inflight'[k] = inflight[k]
      BY <1>3 DEF KbExecute, store, TypeInv, TypeOK, EngineTypeOK
    <2>2. /\ inflight'[op] = inflight[op] - 1 /\ kb'[op] \in {"SUCCEEDED", "FAILED"}
          /\ inflight[op] \in Nat /\ outbox[op].attempts \in Nat
      BY <1>3 DEF KbExecute, TypeInv, TypeOK, EngineTypeOK, OutboxRows
    <2>3. SendsAreCounted(op) /\ FailureIsOver(op)
      BY DEF Stages, FailuresAreOver
    <2>4. SendsAreCounted(op)' /\ FailureIsOver(op)'
      BY <2>1, <2>2, <2>3 DEF SendsAreCounted, FailureIsOver
    <2>5. \A k \in Ops : k # op => SendsAreCounted(k)' /\ FailureIsOver(k)'
      BY <2>1 DEF Stages, FailuresAreOver, SendsAreCounted, FailureIsOver
    <2>6. FailuresAreOver'
      BY <2>4, <2>5 DEF FailuresAreOver
    <2> QED BY <2>1, <2>6 DEF EngineMoves, Stages, ResultEndsDispatch
  <1> QED BY <1>1, <1>2, <1>3, WorkerStepMoves DEF EngineStep

-----------------------------------------------------------------------------
(* Each kind of step keeps the invariant.                                  *)

(* The slot of an unresolved Saga stays its own while workers move Sagas.  *)
LEMMA MovesKeepSlots ==
    ASSUME saga \in [Sagas -> Snapshots], OneUnresolved, EngineMoves
    PROVE  OneUnresolved'
  <1> SUFFICES ASSUME NEW s \in Sagas, NEW t \in Sagas \ {s},
                      saga'[s].state \in ActiveStates,
                      saga'[t].state \in ActiveStates,
                      saga'[t].contract = saga'[s].contract,
                      saga'[t].version = saga'[s].version,
                      PrimaryStep(t) = PrimaryStep(s)
               PROVE  FALSE
    BY DEF OneUnresolved, SlotTaken
  <1>1. \A x \in Sagas : saga'[x].contract = saga[x].contract /\ saga'[x].version = saga[x].version
    BY DEF EngineMoves, SagaMoves
  <1>2. CASE saga'[s] = saga[s] /\ saga'[t] = saga[t]
    BY <1>2 DEF OneUnresolved, SlotTaken
  <1>3. ASSUME NEW x \in Sagas, SagaMoves(x)
        PROVE  \/ saga[x].state \in ActiveStates
               \/ ~SlotTaken(saga[x].contract, saga[x].version, x)
    BY <1>3 DEF SagaMoves, ActiveStates
  <1>4. CASE SagaMoves(s) /\ saga'[t] = saga[t]
    <2>1. SlotTaken(saga[s].contract, saga[s].version, s)
      BY <1>1, <1>4 DEF SlotTaken
    <2> QED BY <1>3, <1>4, <2>1 DEF OneUnresolved
  <1>5. CASE SagaMoves(t) /\ saga'[s] = saga[s]
    <2>1. SlotTaken(saga[t].contract, saga[t].version, t)
      BY <1>1, <1>5 DEF SlotTaken
    <2> QED BY <1>3, <1>5, <2>1 DEF OneUnresolved
  <1> QED BY <1>2, <1>4, <1>5 DEF EngineMoves

LEMMA MovesKeepStages ==
    ASSUME TypeInv, Stages, Binding, EngineMoves
    PROVE  \A s \in Sagas : StageMatchesResults(s)'
  <1> SUFFICES ASSUME NEW s \in Sagas PROVE StageMatchesResults(s)'
    OBVIOUS
  <1>1. StageMatchesResults(s)
    BY DEF Stages
  <1>2. CASE saga'[s] = saga[s]
    BY <1>1, <1>2 DEF StageMatchesResults
  <1>3. CASE SagaMoves(s)
    <2>1. \A r \in Results : r.status \in {"SUCCEEDED", "FAILED"}
      BY DEF Results
    <2> QED BY <1>1, <1>3, <2>1 DEF SagaMoves, StageMatchesResults, NoResult
  <1> QED BY <1>2, <1>3 DEF EngineMoves

LEMMA MovesKeepClosure ==
    ASSUME TypeInv, Stages, Binding, Closure, EngineMoves, UNCHANGED contract,
           \A op \in Ops : kb[op] # "NONE" => kb'[op] = kb[op]
    PROVE  Closure'
  <1>0. saga \in [Sagas -> Snapshots]
    BY DEF TypeInv, TypeOK, EngineTypeOK
  <1>1. \A s \in Sagas : /\ saga'[s].contract = saga[s].contract
                         /\ saga'[s].version = saga[s].version
                         /\ saga'[s].escrow = saga[s].escrow
                         /\ saga[s].state = "ABSENT" => saga'[s].state = "ABSENT"
                         /\ saga'[s].state = "COMPLETED" => saga'[s] = saga[s]
    BY DEF EngineMoves, SagaMoves
  <1>2. \A s \in Sagas : \/ saga'[s] = saga[s]
                         \/ saga[s].state # "ABSENT"
    BY DEF EngineMoves, SagaMoves
  <1>3. SagasHaveContracts'
    BY <1>1, <1>2 DEF Closure, SagasHaveContracts
  <1>4. SettlementsAreDecided'
    BY <1>1, <1>2, OperationKeys DEF Closure, SettlementsAreDecided
  <1>5. CompletedIsClosed'
    BY <1>1, OperationKeys DEF Closure, CompletedIsClosed, Binds
  <1>6. SettledIsOver'
    <2> SUFFICES ASSUME NEW s \in Settlements, saga'[s].state # "ABSENT",
                        contract[saga[s].contract].status = "SETTLED"
                 PROVE  /\ saga'[s].primaryResult # NoResult
                        /\ saga'[s].state \notin {"PENDING_REMOTE", "REMOTE_SUCCEEDED"}
      BY <1>1, OperationKeys DEF SettledIsOver
    <2>1. /\ s \in Sagas /\ s \notin Activations
          /\ saga[s].state # "ABSENT"
          /\ saga[s].primaryResult # NoResult
          /\ saga[s].state \notin {"PENDING_REMOTE", "REMOTE_SUCCEEDED"}
          /\ ~saga[s].compensationKey
      BY <1>2, OperationKeys DEF Closure, SettledIsOver, Stages, StageMatchesResults
    <2> QED BY <2>1 DEF EngineMoves, SagaMoves
  <1>7. SettledOnlyIfDistributed'
    <2>1. \A s \in Settlements : DistributedBy(s) => DistributedBy(s)'
      BY OperationKeys DEF DistributedBy
    <2> QED BY <1>1, <2>1, OperationKeys DEF Closure, SettledOnlyIfDistributed
  <1>8. OneUnresolved'
    BY <1>0, MovesKeepSlots DEF Closure
  <1> QED BY <1>3, <1>4, <1>5, <1>6, <1>7, <1>8 DEF Closure

(* The parties leave a decided contract decided.                           *)
LEMMA LifecycleRecovery ==
    ASSUME TypeInv, Stages, Closure, Lifecycle
    PROVE  Stages' /\ Closure'
  <1>1. PICK d \in Contracts : ContractStep(d)
    BY DEF Lifecycle
  <1>2. UNCHANGED <<saga, outbox, inbox, kb, inflight, pc, job>>
    BY DEF Lifecycle, engine, store, authority
  <1>3. contract \in [Contracts -> ContractRows]
    BY DEF TypeInv, TypeOK, ContractsTypeOK
  <1>4. \A c \in Contracts :
           /\ contract'[c].escrow = contract[c].escrow
           /\ contract'[c].status = "SETTLED" <=> contract[c].status = "SETTLED"
           /\ Decided(contract[c]) => /\ Decided(contract'[c])
                                      /\ contract'[c].version = contract[c].version
    BY <1>1, <1>3 DEF ContractRows, ContractStep, ProposeContract, PublishContractVersion,
       AcceptContractVersion, SubmitDelivery, AcceptDelivery, RequestRework,
       RaiseContractDispute, AdjudicateContractDispute, Decided
  <1>5. Stages'
    BY <1>2 DEF Stages, StageMatchesResults, ResultEndsDispatch, FailuresAreOver,
       SendsAreCounted, FailureIsOver
  <1>6. \A s \in Sagas : saga[s].state # "ABSENT" => saga[s].contract \in Contracts
    BY DEF Closure, SagasHaveContracts
  <1>7. SagasHaveContracts' /\ OneUnresolved'
    BY <1>2 DEF Closure, SagasHaveContracts, OneUnresolved, SlotTaken
  <1>8. SettlementsAreDecided' /\ SettledIsOver'
    BY <1>2, <1>4, <1>6, OperationKeys DEF Closure, SettlementsAreDecided, SettledIsOver
  <1>9. CompletedIsClosed'
    BY <1>2, <1>4, <1>6, OperationKeys DEF Closure, CompletedIsClosed, Binds
  <1>10. SettledOnlyIfDistributed'
    BY <1>2, <1>4 DEF Closure, SettledOnlyIfDistributed, DistributedBy
  <1> QED BY <1>5, <1>7, <1>8, <1>9, <1>10 DEF Closure

LEMMA PrepareRecovery ==
    ASSUME TypeInv, Evidence, Binding, Stages, Closure,
           NEW s \in Sagas, NEW c \in Contracts, NEW v, NEW e,
           PrepareSagaIntent(s, c, v, e),
           s \in Settlements => /\ DecisionRecorded(contract[c])
                                /\ v = contract[c].version
                                /\ e = contract[c].escrow,
           UNCHANGED <<contract, inbox, authority, pc, job, faults>>
    PROVE  Stages' /\ Closure'
  <1>0. /\ saga \in [Sagas -> Snapshots]
        /\ outbox \in [Ops -> OutboxRows]
        /\ UNCHANGED <<contract, inbox, kb, inflight>>
    BY DEF TypeInv, TypeOK, EngineTypeOK, authority
  <1>1. /\ saga[s].state = "ABSENT"
        /\ outbox[PrimaryKey(s)].status = "ABSENT"
        /\ inbox[PrimaryKey(s)] = NoResult
        /\ kb[PrimaryKey(s)] = "NONE"
    BY OperationKeys DEF PrepareSagaIntent, Evidence, UnpreparedIsBlank, RowsComeFirst
  <1>2. /\ saga'[s] = CreateSaga(c, v, e)
        /\ \A t \in Sagas \ {s} : saga'[t] = saga[t]
    BY <1>0 DEF PrepareSagaIntent
  <1>3. /\ outbox'[PrimaryKey(s)] = NewRow
        /\ \A op \in Ops \ {PrimaryKey(s)} : outbox'[op] = outbox[op]
    BY <1>0, OperationKeys DEF PrepareSagaIntent
  <1>4. /\ saga'[s].state = "PENDING_REMOTE"
        /\ saga'[s].contract = c
        /\ saga'[s].version = v
        /\ saga'[s].escrow = e
        /\ saga'[s].primaryResult = NoResult
        /\ saga'[s].compensationKey = FALSE
    BY <1>2 DEF CreateSaga, NoSaga
  <1>5. Stages'
    <2>1. \A t \in Sagas : StageMatchesResults(t)'
      BY <1>2, <1>4 DEF Stages, StageMatchesResults
    <2>2. ResultEndsDispatch'
      BY <1>0, <1>1, <1>3 DEF Stages, ResultEndsDispatch
    <2>3. FailuresAreOver'
      BY <1>0, <1>1, <1>3, OperationKeys, NewRowsAreUnsent DEF Stages
    <2> QED BY <2>1, <2>2, <2>3 DEF Stages
  <1>6. SagasHaveContracts'
    BY <1>2, <1>4 DEF Closure, SagasHaveContracts
  <1>7. s \in Settlements => Decided(contract[c]) /\ contract[c].status # "SETTLED"
    BY DEF DecisionRecorded, Decided
  <1>8. SettlementsAreDecided' /\ SettledIsOver'
    BY <1>0, <1>2, <1>4, <1>7, OperationKeys DEF Closure, SettlementsAreDecided, SettledIsOver
  <1>9. CompletedIsClosed'
    BY <1>0, <1>2, <1>4, OperationKeys DEF Closure, CompletedIsClosed, Binds
  <1>10. SettledOnlyIfDistributed'
    <2>1. ~DistributedBy(s)
      BY <1>1 DEF DistributedBy
    <2>2. \A t \in Settlements : DistributedBy(t) => saga'[t] = saga[t] /\ DistributedBy(t)'
      BY <1>0, <1>2, <2>1, OperationKeys DEF DistributedBy
    <2> QED BY <1>0, <2>2 DEF Closure, SettledOnlyIfDistributed
  <1>11. OneUnresolved'
    <2> SUFFICES ASSUME NEW x \in Sagas, NEW t \in Sagas \ {x},
                        saga'[x].state \in ActiveStates,
                        saga'[t].state \in ActiveStates,
                        saga'[t].contract = saga'[x].contract,
                        saga'[t].version = saga'[x].version,
                        PrimaryStep(t) = PrimaryStep(x)
                 PROVE  FALSE
      BY DEF OneUnresolved, SlotTaken
    <2>1. ~SlotTaken(c, v, s)
      BY DEF PrepareSagaIntent
    <2>2. CASE x = s
      BY <1>2, <1>4, <2>1, <2>2 DEF SlotTaken
    <2>3. CASE t = s
      BY <1>2, <1>4, <2>1, <2>3 DEF SlotTaken
    <2>4. CASE x # s /\ t # s
      BY <1>2, <2>4 DEF Closure, OneUnresolved, SlotTaken
    <2> QED BY <2>2, <2>3, <2>4
  <1> QED BY <1>5, <1>6, <1>8, <1>9, <1>10, <1>11 DEF Closure

(* A commit frees the slot of its Saga and takes no other.                 *)
LEMMA CommitKeepsSlots ==
    ASSUME OneUnresolved, NEW s \in Sagas,
           \A t \in Sagas \ {s} : saga'[t] = saga[t],
           saga'[s].state \notin ActiveStates
           \/ /\ saga[s].state \in ActiveStates
              /\ saga'[s].contract = saga[s].contract
              /\ saga'[s].version = saga[s].version
    PROVE  OneUnresolved'
  BY DEF OneUnresolved, SlotTaken

LEMMA ActivationCommitRecovery ==
    ASSUME TypeInv, Evidence, Binding, Stages, Closure,
           NEW a \in Activations, CommitContractActivation(a)
    PROVE  Stages' /\ Closure'
  <1> DEFINE d == saga[a].contract
  <1>0. /\ saga \in [Sagas -> Snapshots]
        /\ contract \in [Contracts -> ContractRows]
        /\ a \in Sagas
        /\ UNCHANGED <<outbox, inbox, kb, inflight>>
    BY OperationKeys
    DEF TypeInv, TypeOK, EngineTypeOK, ContractsTypeOK, CommitContractActivation, authority
  <1>1. /\ saga[a].state = "REMOTE_SUCCEEDED"
        /\ saga[a].primaryResult.status = "SUCCEEDED"
        /\ d \in Contracts
        /\ contract[d].status = "PROPOSED"
        /\ contract[d].escrow = NoEscrow
    BY <1>0 DEF CommitContractActivation, LocalCommitAllowed, Eligible, Closure,
       SagasHaveContracts, Binding, InForceIsBound, InForce
  <1>2. /\ saga'[a] = [saga[a] EXCEPT !.state = "COMPLETED"]
        /\ \A t \in Sagas \ {a} : saga'[t] = saga[t]
    BY <1>0 DEF CommitContractActivation, MarkLocalTransitionCommitted
  <1>3. /\ saga'[a].state = "COMPLETED"
        /\ saga'[a].contract = d
        /\ saga'[a].primaryResult = saga[a].primaryResult
        /\ saga'[a].compensationKey = saga[a].compensationKey
    BY <1>0, <1>2, SnapshotFields
  <1>4. /\ \A c \in Contracts \ {d} : contract'[c] = contract[c]
        /\ contract'[d].status = "ACTIVE"
        /\ contract'[d].escrow = a
    BY <1>0, <1>1 DEF CommitContractActivation, ContractRows
  <1>5. Stages'
    <2>1. StageMatchesResults(a)'
      BY <1>0, <1>1, <1>3 DEF Stages, StageMatchesResults
    <2>2. \A t \in Sagas \ {a} : StageMatchesResults(t)'
      BY <1>2 DEF Stages, StageMatchesResults
    <2>3. ResultEndsDispatch' /\ FailuresAreOver'
      BY <1>0 DEF Stages, ResultEndsDispatch, FailuresAreOver, SendsAreCounted, FailureIsOver
    <2> QED BY <2>1, <2>2, <2>3 DEF Stages
  <1>6. SagasHaveContracts'
    BY <1>1, <1>2, <1>3 DEF Closure, SagasHaveContracts
  <1>7. \A s \in Settlements :
           /\ s \in Sagas /\ saga'[s] = saga[s]
           /\ saga[s].state # "ABSENT" =>
                 /\ saga[s].contract \in Contracts \ {d}
                 /\ contract'[saga[s].contract] = contract[saga[s].contract]
    <2>1. ~Decided(contract[d])
      BY <1>1 DEF Decided
    <2> QED
      BY <1>2, <1>4, <2>1, OperationKeys DEF Closure, SettlementsAreDecided, SagasHaveContracts
  <1>8. SettlementsAreDecided' /\ SettledIsOver'
    BY <1>7 DEF Closure, SettlementsAreDecided, SettledIsOver
  <1>9. CompletedIsClosed'
    <2>1. \A s \in Settlements : saga'[s].state = "COMPLETED" =>
             contract'[saga'[s].contract].status = "SETTLED"
      BY <1>7 DEF Closure, CompletedIsClosed
    <2>2. ASSUME NEW b \in Activations, saga'[b].state = "COMPLETED"
          PROVE  contract'[saga'[b].contract].escrow = b
      <3>1. CASE b = a
        BY <1>3, <1>4, <3>1
      <3>2. CASE b # a
        <4>1. b \in Sagas /\ saga'[b] = saga[b]
          BY <1>2, <3>2, OperationKeys
        <4>2. contract[saga[b].contract].escrow = b /\ saga[b].contract \in Contracts
          BY <2>2, <4>1 DEF Closure, CompletedIsClosed, Binds, SagasHaveContracts
        <4>3. saga[b].contract # d
          BY <1>1, <4>2, NoEscrowIsNoSaga
        <4> QED BY <1>4, <4>1, <4>2, <4>3
      <3> QED BY <3>1, <3>2
    <2> QED BY <2>1, <2>2 DEF CompletedIsClosed, Binds
  <1>10. SettledOnlyIfDistributed'
    <2> SUFFICES ASSUME NEW c \in Contracts, contract'[c].status = "SETTLED"
                 PROVE  \E s \in Settlements : /\ saga'[s].contract = c
                                               /\ saga'[s].escrow = contract'[c].escrow
                                               /\ DistributedBy(s)'
      BY DEF SettledOnlyIfDistributed
    <2>1. contract'[c] = contract[c]
      BY <1>4
    <2> QED BY <1>0, <1>7, <2>1 DEF Closure, SettledOnlyIfDistributed, DistributedBy
  <1>11. OneUnresolved'
    BY <1>0, <1>2, <1>3, CommitKeepsSlots DEF Closure, ActiveStates
  <1> QED BY <1>5, <1>6, <1>8, <1>9, <1>10, <1>11 DEF Closure

LEMMA CompensationRecovery ==
    ASSUME TypeInv, Evidence, Binding, Stages, Closure,
           NEW a \in Activations, QueueActivationCompensation(a)
    PROVE  Stages' /\ Closure'
  <1>0. /\ saga \in [Sagas -> Snapshots]
        /\ outbox \in [Ops -> OutboxRows]
        /\ a \in Sagas
        /\ CompensationKey(a) \in Ops
        /\ UNCHANGED <<contract, inbox, kb, inflight>>
    BY OperationKeys
    DEF TypeInv, TypeOK, EngineTypeOK, QueueActivationCompensation, authority
  <1>1. /\ saga[a].state = "REMOTE_SUCCEEDED"
        /\ saga[a].primaryResult.status = "SUCCEEDED"
    BY DEF QueueActivationCompensation, LocalCommitAllowed
  <1>2. /\ outbox[CompensationKey(a)].status = "ABSENT"
        /\ inbox[CompensationKey(a)] = NoResult
        /\ saga[a].compensationResult = NoResult
    <2>1. ~saga[a].compensationKey
      BY <1>1 DEF Binding, RefundsArePermanent
    <2>2. outbox[CompensationKey(a)].status = "ABSENT"
      BY <2>1 DEF Evidence, RefundsAreRequested
    <2>3. inbox[CompensationKey(a)] = NoResult
      BY <1>0, <2>2 DEF Evidence, RowsComeFirst
    <2>4. CompensationKey(a) # PrimaryKey(a) /\ SagaOf(CompensationKey(a)) = a
      BY <1>0, OperationKeys
    <2> QED
      BY <1>0, <2>2, <2>3, <2>4 DEF Evidence, SnapshotMirrorsInbox, ObservedResult
  <1>3. /\ \A t \in Sagas \ {a} : saga'[t] = saga[t]
        /\ saga'[a].state = "COMPENSATION_PENDING"
        /\ saga'[a].compensationKey = TRUE
        /\ saga'[a].contract = saga[a].contract
        /\ saga'[a].version = saga[a].version
        /\ saga'[a].primaryResult = saga[a].primaryResult
        /\ saga'[a].compensationResult = saga[a].compensationResult
    <2>1. /\ saga'[a] = RequestActivationCompensation(saga[a])
          /\ \A t \in Sagas \ {a} : saga'[t] = saga[t]
      BY <1>0 DEF QueueActivationCompensation
    <2>2. saga[a] \in Snapshots
      BY <1>0
    <2> QED BY <2>1, <2>2 DEF RequestActivationCompensation, Snapshots
  <1>4. /\ outbox'[CompensationKey(a)] = NewRow
        /\ \A op \in Ops \ {CompensationKey(a)} : outbox'[op] = outbox[op]
    BY <1>0, <1>2 DEF QueueActivationCompensation
  <1>5. Stages'
    <2>1. \A t \in Sagas : StageMatchesResults(t)'
      BY <1>0, <1>1, <1>2, <1>3 DEF Stages, StageMatchesResults
    <2>2. ResultEndsDispatch'
      BY <1>0, <1>2, <1>4 DEF Stages, ResultEndsDispatch
    <2>3. FailuresAreOver'
      BY <1>0, <1>2, <1>4, NewRowsAreUnsent DEF Stages
    <2> QED BY <2>1, <2>2, <2>3 DEF Stages
  <1>6. \A s \in Settlements : saga'[s] = saga[s]
    BY <1>3, OperationKeys
  <1>7. SagasHaveContracts'
    BY <1>1, <1>3 DEF Closure, SagasHaveContracts
  <1>8. SettlementsAreDecided' /\ SettledIsOver' /\ SettledOnlyIfDistributed'
    BY <1>0, <1>6 DEF Closure, SettlementsAreDecided, SettledIsOver, SettledOnlyIfDistributed,
       DistributedBy
  <1>9. CompletedIsClosed'
    BY <1>0, <1>3, <1>6, OperationKeys DEF Closure, CompletedIsClosed, Binds
  <1>10. OneUnresolved'
    BY <1>0, <1>1, <1>3, CommitKeepsSlots DEF Closure, ActiveStates
  <1> QED BY <1>5, <1>7, <1>8, <1>9, <1>10 DEF Closure

LEMMA SettlementCommitRecovery ==
    ASSUME TypeInv, Evidence, Binding, Stages, Closure,
           NEW s \in Settlements, CommitContractSettlement(s)
    PROVE  Stages' /\ Closure'
  <1> DEFINE d == saga[s].contract
  <1>0. /\ saga \in [Sagas -> Snapshots]
        /\ contract \in [Contracts -> ContractRows]
        /\ s \in Sagas /\ s \notin Activations
        /\ UNCHANGED <<outbox, inbox, kb, inflight>>
    BY OperationKeys
    DEF TypeInv, TypeOK, EngineTypeOK, ContractsTypeOK, CommitContractSettlement, authority
  <1>1. /\ saga[s].state = "REMOTE_SUCCEEDED"
        /\ saga[s].primaryResult.status = "SUCCEEDED"
        /\ d \in Contracts
        /\ contract[d].status \in {"SUBMITTED", "DISPUTED"}
    BY <1>0 DEF CommitContractSettlement, LocalCommitAllowed, Settleable, Closure,
       SagasHaveContracts
  <1>2. /\ saga'[s] = [saga[s] EXCEPT !.state = "COMPLETED"]
        /\ \A t \in Sagas \ {s} : saga'[t] = saga[t]
    BY <1>0 DEF CommitContractSettlement, MarkLocalTransitionCommitted
  <1>3. /\ saga'[s].state = "COMPLETED"
        /\ saga'[s].contract = d
        /\ saga'[s].version = saga[s].version
        /\ saga'[s].escrow = saga[s].escrow
        /\ saga'[s].primaryResult = saga[s].primaryResult
        /\ saga'[s].compensationKey = saga[s].compensationKey
    BY <1>0, <1>2, SnapshotFields
  <1>4. /\ \A c \in Contracts \ {d} : contract'[c] = contract[c]
        /\ contract'[d].status = "SETTLED"
        /\ contract'[d].version = contract[d].version
        /\ contract'[d].escrow = contract[d].escrow
    BY <1>0, <1>1 DEF CommitContractSettlement, ContractRows
  <1>5. Stages'
    <2>1. StageMatchesResults(s)'
      BY <1>0, <1>1, <1>3 DEF Stages, StageMatchesResults
    <2>2. \A t \in Sagas \ {s} : StageMatchesResults(t)'
      BY <1>2 DEF Stages, StageMatchesResults
    <2>3. ResultEndsDispatch' /\ FailuresAreOver'
      BY <1>0 DEF Stages, ResultEndsDispatch, FailuresAreOver, SendsAreCounted, FailureIsOver
    <2> QED BY <2>1, <2>2, <2>3 DEF Stages
  <1>6. SagasHaveContracts'
    BY <1>1, <1>2, <1>3 DEF Closure, SagasHaveContracts
  <1>7. \A t \in Sagas : /\ saga'[t].contract = saga[t].contract
                         /\ saga'[t].version = saga[t].version
                         /\ saga'[t].escrow = saga[t].escrow
                         /\ saga'[t].primaryResult = saga[t].primaryResult
                         /\ saga'[t].state = "ABSENT" <=> saga[t].state = "ABSENT"
    BY <1>1, <1>2, <1>3
  <1>8. \A c \in Contracts : /\ contract'[c].escrow = contract[c].escrow
                             /\ contract'[c].version = contract[c].version
                             /\ Decided(contract[c]) => Decided(contract'[c])
    BY <1>4 DEF Decided
  <1>9. SettlementsAreDecided'
    BY <1>7, <1>8, OperationKeys DEF Closure, SettlementsAreDecided, SagasHaveContracts
  <1>10. CompletedIsClosed'
    <2>1. ASSUME NEW a \in Activations, saga'[a].state = "COMPLETED"
          PROVE  contract'[saga'[a].contract].escrow = a
      <3>1. a \in Sagas /\ saga'[a] = saga[a] /\ saga[a].contract \in Contracts
        BY <1>0, <1>2, <2>1, OperationKeys DEF Closure, SagasHaveContracts
      <3> QED BY <1>8, <2>1, <3>1 DEF Closure, CompletedIsClosed, Binds
    <2>2. ASSUME NEW t \in Settlements, saga'[t].state = "COMPLETED"
          PROVE  contract'[saga'[t].contract].status = "SETTLED"
      <3>1. CASE t = s
        BY <1>3, <1>4, <3>1
      <3>2. CASE t # s
        BY <1>2, <1>4, <2>2, <3>2, OperationKeys
        DEF Closure, CompletedIsClosed, SagasHaveContracts
      <3> QED BY <3>1, <3>2
    <2> QED BY <2>1, <2>2 DEF CompletedIsClosed, Binds
  <1>11. SettledIsOver'
    <2> SUFFICES ASSUME NEW t \in Settlements, saga'[t].state # "ABSENT",
                        contract'[saga'[t].contract].status = "SETTLED"
                 PROVE  /\ saga'[t].primaryResult # NoResult
                        /\ saga'[t].state \notin {"PENDING_REMOTE", "REMOTE_SUCCEEDED"}
      BY DEF SettledIsOver
    <2>1. t \in Sagas /\ t \notin Activations
      BY OperationKeys
    <2>2. CASE t = s
      BY <1>1, <1>3, <2>2 DEF NoResult
    <2>3. CASE t # s /\ saga[t].contract # d
      <3>1. saga'[t] = saga[t] /\ contract'[saga[t].contract] = contract[saga[t].contract]
        BY <1>2, <1>4, <2>1, <2>3 DEF Closure, SagasHaveContracts
      <3> QED BY <3>1 DEF Closure, SettledIsOver
    <2>4. CASE t # s /\ saga[t].contract = d
      <3>1. saga'[t] = saga[t] /\ saga[t].state # "ABSENT"
        BY <1>2, <2>1, <2>4
      <3>2. saga[t].version = contract[d].version /\ saga[s].version = contract[d].version
        BY <1>1, <2>4, <3>1 DEF Closure, SettlementsAreDecided
      <3>3. PrimaryStep(t) = PrimaryStep(s)
        BY <1>0, <2>1 DEF PrimaryStep
      <3>4. saga[t].state \notin ActiveStates
        BY <1>0, <1>1, <2>1, <2>4, <3>2, <3>3
        DEF Closure, OneUnresolved, SlotTaken, ActiveStates
      <3>5. saga[t].state \in {"FAILED", "COMPLETED", "COMPENSATED"}
        BY <1>0, <2>1, <3>1, <3>4 DEF Snapshots, SagaStates, ActiveStates
      <3>6. saga[t].primaryResult # NoResult
        BY <2>1, <3>5 DEF Stages, StageMatchesResults, NoResult
      <3> QED BY <3>1, <3>5, <3>6
    <2> QED BY <2>2, <2>3, <2>4
  <1>12. SettledOnlyIfDistributed'
    <2> SUFFICES ASSUME NEW c \in Contracts, contract'[c].status = "SETTLED"
                 PROVE  \E t \in Settlements : /\ saga'[t].contract = c
                                               /\ saga'[t].escrow = contract'[c].escrow
                                               /\ DistributedBy(t)'
      BY DEF SettledOnlyIfDistributed
    <2>1. CASE c = d
      <3>1. saga[s].escrow = contract[d].escrow
        BY <1>1 DEF Closure, SettlementsAreDecided
      <3>2. inbox[PrimaryKey(s)] = saga[s].primaryResult
        BY <1>0, OperationKeys DEF Evidence, SnapshotMirrorsInbox, ObservedResult
      <3>3. DistributedBy(s)'
        BY <1>0, <1>1, <3>2, OperationKeys DEF Evidence, SuccessesHappened, DistributedBy
      <3> QED BY <1>3, <1>4, <2>1, <3>1, <3>3
    <2>2. CASE c # d
      BY <1>0, <1>4, <1>7, <2>2, OperationKeys
      DEF Closure, SettledOnlyIfDistributed, DistributedBy
    <2> QED BY <2>1, <2>2
  <1>13. OneUnresolved'
    BY <1>0, <1>2, <1>3, CommitKeepsSlots DEF Closure, ActiveStates
  <1> QED BY <1>5, <1>6, <1>9, <1>10, <1>11, <1>12, <1>13 DEF Closure

LEMMA CoordinationRecovery ==
    ASSUME TypeInv, Evidence, Binding, Stages, Closure, Prepare \/ Commit
    PROVE  Stages' /\ Closure'
  <1>1. ASSUME NEW c \in Contracts, NEW a \in Activations, PrepareContractActivation(c, a)
        PROVE  Stages' /\ Closure'
    BY <1>1, PrepareRecovery, OperationKeys DEF PrepareContractActivation
  <1>2. ASSUME NEW c \in Contracts, NEW s \in Settlements, PrepareContractSettlement(c, s)
        PROVE  Stages' /\ Closure'
    BY <1>2, PrepareRecovery, OperationKeys DEF PrepareContractSettlement
  <1> QED
    BY <1>1, <1>2, ActivationCommitRecovery, CompensationRecovery, SettlementCommitRecovery
    DEF Prepare, Commit

LEMMA RecoveryInvInductive == RecoveryInv /\ [Next]_vars => RecoveryInv'
  <1> SUFFICES ASSUME TypeInv, Evidence, Binding, Stages, Closure, [Next]_vars
               PROVE  Stages' /\ Closure'
    BY SafetyInvInductive DEF RecoveryInv, SafetyInv
  <1>1. CASE Lifecycle
    BY <1>1, LifecycleRecovery
  <1>2. CASE Prepare \/ Commit
    BY <1>2, CoordinationRecovery
  <1>3. CASE (EngineStep \/ UNCHANGED engine) /\ UNCHANGED contract
    BY <1>3, EngineStepMoves, MovesKeepStages, MovesKeepClosure DEF Stages
  <1> QED BY <1>1, <1>2, <1>3 DEF Next, vars

LEMMA RecoveryInvHolds == Spec => []RecoveryInv
  BY InitialRecovery, RecoveryInvInductive, PTL DEF Spec

-----------------------------------------------------------------------------
(* An operation whose result is recorded is never leased or queued again:  *)
(* neither a late owner nor a stale NOT_FOUND reopens it.                  *)
THEOREM AnsweredIsNotSent == Spec => []ResultEndsDispatch
  <1>1. RecoveryInv => ResultEndsDispatch
    BY DEF RecoveryInv, Stages
  <1> QED BY <1>1, RecoveryInvHolds, PTL

(* Snapshot and inbox agree, and a Saga whose operation has no result is   *)
(* in the state that can take one: a first answer is never rejected.       *)
THEOREM SnapshotsAgree == Spec => []SnapshotAgreesWithInbox
  <1>1. RecoveryInv => SnapshotAgreesWithInbox
    <2> SUFFICES ASSUME RecoveryInv PROVE SnapshotAgreesWithInbox
      OBVIOUS
    <2>0. \A op \in Ops : ObservedResult(saga[SagaOf(op)], op) = inbox[op]
      BY DEF RecoveryInv, SafetyInv, Evidence, SnapshotMirrorsInbox
    <2>1. \A s \in Sagas : saga[s].primaryResult = inbox[PrimaryKey(s)]
      BY <2>0, OperationKeys DEF ObservedResult
    <2>2. \A a \in Activations : saga[a].compensationResult = inbox[CompensationKey(a)]
      BY <2>0, OperationKeys DEF ObservedResult
    <2>3. ASSUME NEW op \in Ops, outbox[op].status # "ABSENT", inbox[op] = NoResult
          PROVE  Thaw(saga[SagaOf(op)], op).state = AwaitingState(op)
      <3> DEFINE s == SagaOf(op)
      <3>1. /\ s \in Sagas
            /\ saga[s] \in Snapshots
            /\ saga[s].state # "ABSENT"
            /\ StageMatchesResults(s)
        BY <2>3, OperationKeys
        DEF RecoveryInv, SafetyInv, TypeInv, TypeOK, EngineTypeOK, Evidence, UnpreparedIsBlank,
            Stages
      <3>2. saga[s].state \in {AwaitingState(op), "RECONCILIATION_REQUIRED"}
        <4>1. CASE op = PrimaryKey(s)
          <5>1. saga[s].primaryResult = NoResult
            BY <2>0, <2>3, <4>1 DEF ObservedResult
          <5>2. ~saga[s].compensationKey
            BY <3>1, <5>1
            DEF RecoveryInv, SafetyInv, Binding, RefundsArePermanent, StageMatchesResults,
                NoResult
          <5>3. saga[s].state \in SagaStates
            BY <3>1 DEF Snapshots
          <5>4. saga[s].state \in {"PENDING_REMOTE", "RECONCILIATION_REQUIRED"}
            BY <3>1, <5>1, <5>2, <5>3 DEF StageMatchesResults, SagaStates, NoResult
          <5>5. AwaitingState(op) = "PENDING_REMOTE"
            BY <4>1 DEF AwaitingState
          <5> QED BY <5>4, <5>5
        <4>2. CASE op # PrimaryKey(s)
          <5>1. s \in Activations /\ op = CompensationKey(s)
            BY <4>2, OperationKeys
          <5>2. saga[s].compensationKey /\ saga[s].compensationResult = NoResult
            BY <2>2, <2>3, <5>1 DEF RecoveryInv, SafetyInv, Evidence, RefundsAreRequested
          <5>3. saga[s].state \in {"COMPENSATION_PENDING", "COMPENSATED",
                                   "RECONCILIATION_REQUIRED"}
            BY <5>1, <5>2 DEF RecoveryInv, SafetyInv, Binding, RefundsArePermanent
          <5> QED BY <3>1, <4>2, <5>2, <5>3 DEF StageMatchesResults, AwaitingState, NoResult
        <4> QED BY <4>1, <4>2
      <3>3. saga[s].state = "RECONCILIATION_REQUIRED" =>
               Thaw(saga[s], op) = [saga[s] EXCEPT !.state = AwaitingState(op)]
        BY <2>0, <2>3 DEF Thaw
      <3>4. saga[s].state # "RECONCILIATION_REQUIRED" => Thaw(saga[s], op) = saga[s]
        BY DEF Thaw
      <3>5. [saga[s] EXCEPT !.state = AwaitingState(op)].state = AwaitingState(op)
        BY <3>1, SnapshotFields
      <3> QED BY <3>2, <3>3, <3>4, <3>5
    <2> QED BY <2>1, <2>2, <2>3 DEF SnapshotAgreesWithInbox
  <1> QED BY <1>1, RecoveryInvHolds, PTL

(* What assertSagaInvariant would reject is never stored, except frozen.   *)
THEOREM PersistedSagas == Spec => []PersistedSagaInvariant
  <1>1. RecoveryInv => PersistedSagaInvariant
    <2> SUFFICES ASSUME RecoveryInv, NEW s \in Sagas,
                        saga[s].state \notin {"ABSENT", "RECONCILIATION_REQUIRED"}
                 PROVE  SagaInvariant(s, saga[s])
      BY DEF PersistedSagaInvariant
    <2>1. StageMatchesResults(s)
      BY DEF RecoveryInv, Stages
    <2>2. saga[s].compensationKey =>
             s \in Activations /\ saga[s].primaryResult.status = "SUCCEEDED"
      BY <2>1 DEF StageMatchesResults, RecoveryInv, SafetyInv, Binding, RefundsArePermanent
    <2> QED BY <2>1, <2>2, OperationKeys DEF StageMatchesResults, SagaInvariant
  <1> QED BY <1>1, RecoveryInvHolds, PTL

(* A FAILED Saga moved no money and never will, unless what it recorded is *)
(* the refusal of a re-send (dispatchSagaOutboxOnce).                      *)
LEMMA FailedHadNoEffect == RecoveryInv => FailureIsDefinite
  <1> SUFFICES ASSUME RecoveryInv, NEW s \in Sagas, saga[s].state = "FAILED",
                      kb[PrimaryKey(s)] = "SUCCEEDED"
               PROVE  ResendRefused(s)
    BY DEF FailureIsDefinite
  <1>1. saga[s].primaryResult.status = "FAILED"
    BY DEF RecoveryInv, Stages, StageMatchesResults
  <1>2. inbox[PrimaryKey(s)].status = "FAILED"
    BY <1>1, OperationKeys
    DEF RecoveryInv, SafetyInv, Evidence, SnapshotMirrorsInbox, ObservedResult
  <1> QED BY <1>2, OperationKeys
      DEF RecoveryInv, Stages, FailuresAreOver, FailureIsOver, ResendRefused

(* For every authority: a failure is definite unless it is the refusal of  *)
(* a re-send (dispatchSagaOutboxOnce, recordSagaFinancialResult).          *)
THEOREM FailuresAreHarmless == Spec => []FailureIsDefinite
  BY FailedHadNoEffect, RecoveryInvHolds, PTL

(* A successful result really happened, whichever Saga holds it.           *)
LEMMA HeldResultsHappened ==
    ASSUME RecoveryInv, NEW op \in Ops, ObservedResult(saga[SagaOf(op)], op).status = "SUCCEEDED"
    PROVE  kb[op] = "SUCCEEDED"
  BY DEF RecoveryInv, SafetyInv, Evidence, SnapshotMirrorsInbox, SuccessesHappened

(* Money the authority took backs a contract, was refunded, or belongs to  *)
(* a Saga that is not finished; only a refused re-send can hide it.        *)
THEOREM MoneyIsRemembered == Spec => []NoMoneyIsForgotten
  <1>1. RecoveryInv => NoMoneyIsForgotten
    <2> SUFFICES ASSUME RecoveryInv, NEW a \in Activations, Funded(a),
                        saga[a].state \notin ActiveStates,
                        ~(saga[a].state = "FAILED" /\ ResendRefused(a))
                 PROVE  Bound(a) \/ Released(a)
      BY DEF NoMoneyIsForgotten
    <2>1. a \in Sagas /\ saga[a] \in Snapshots /\ StageMatchesResults(a)
      BY OperationKeys DEF RecoveryInv, SafetyInv, TypeInv, TypeOK, EngineTypeOK, Stages
    <2>2. saga[a].state # "ABSENT"
      BY <2>1, OperationKeys
      DEF RecoveryInv, SafetyInv, Evidence, UnpreparedIsBlank, RowsComeFirst, Funded
    <2>3. saga[a].state # "FAILED"
      BY <2>1, FailedHadNoEffect DEF FailureIsDefinite, Funded
    <2>4. CASE saga[a].state = "COMPLETED"
      <3>1. saga[a].contract \in Contracts /\ Binds(saga[a].contract, a)
        BY <2>1, <2>4 DEF RecoveryInv, Closure, SagasHaveContracts, CompletedIsClosed
      <3> QED BY <3>1 DEF Bound
    <2>5. CASE saga[a].state = "COMPENSATED"
      <3>1. saga[a].compensationResult.status = "SUCCEEDED"
        BY <2>1, <2>5 DEF StageMatchesResults
      <3>2. ObservedResult(saga[SagaOf(CompensationKey(a))], CompensationKey(a)).status
               = "SUCCEEDED"
        BY <2>1, <3>1, OperationKeys DEF ObservedResult
      <3> QED BY <3>2, HeldResultsHappened, OperationKeys DEF Released
    <2> QED
      BY <2>1, <2>2, <2>3, <2>4, <2>5 DEF Snapshots, SagaStates, ActiveStates
  <1> QED BY <1>1, RecoveryInvHolds, PTL

(* A COMPLETED Saga converged in both authorities, a COMPENSATED one was   *)
(* refunded.                                                               *)
THEOREM FinishedSagasConverged == Spec => []TerminalStatesConverged
  <1>1. RecoveryInv => TerminalStatesConverged
    <2> SUFFICES ASSUME RecoveryInv PROVE TerminalStatesConverged
      OBVIOUS
    <2>1. \A s \in Sagas : saga[s].state = "COMPLETED" => kb[PrimaryKey(s)] = "SUCCEEDED"
      <3> SUFFICES ASSUME NEW s \in Sagas, saga[s].state = "COMPLETED"
                   PROVE  kb[PrimaryKey(s)] = "SUCCEEDED"
        OBVIOUS
      <3>1. ObservedResult(saga[SagaOf(PrimaryKey(s))], PrimaryKey(s)).status = "SUCCEEDED"
        BY OperationKeys DEF RecoveryInv, Stages, StageMatchesResults, ObservedResult
      <3> QED BY <3>1, HeldResultsHappened, OperationKeys
    <2>2. \A a \in Activations : saga[a].state = "COMPENSATED" => Released(a)
      <3> SUFFICES ASSUME NEW a \in Activations, saga[a].state = "COMPENSATED"
                   PROVE  Released(a)
        OBVIOUS
      <3>1. a \in Sagas /\ saga[a].compensationResult.status = "SUCCEEDED"
        BY OperationKeys DEF RecoveryInv, Stages, StageMatchesResults
      <3>2. ObservedResult(saga[SagaOf(CompensationKey(a))], CompensationKey(a)).status
               = "SUCCEEDED"
        BY <3>1, OperationKeys DEF ObservedResult
      <3> QED BY <3>2, HeldResultsHappened, OperationKeys DEF Released
    <2> QED
      BY <2>1, <2>2, OperationKeys
      DEF TerminalStatesConverged, Funded, DistributedBy, RecoveryInv, Closure, CompletedIsClosed
  <1> QED BY <1>1, RecoveryInvHolds, PTL

(* A contract settles only after its own escrow was distributed.           *)
THEOREM SettledIsPaid == Spec => []SettledOnlyIfDistributed
  <1>1. RecoveryInv => SettledOnlyIfDistributed
    BY DEF RecoveryInv, Closure
  <1> QED BY <1>1, RecoveryInvHolds, PTL

(* The local commit of a distribution that is under way stays legal.       *)
THEOREM SettlementsCanCommit == Spec => []ForwardRecoveryNeverNeeded
  <1>1. RecoveryInv => ForwardRecoveryNeverNeeded
    <2> SUFFICES ASSUME RecoveryInv, NEW s \in Settlements,
                        saga[s].state \in {"PENDING_REMOTE", "REMOTE_SUCCEEDED"}
                 PROVE  Settleable(saga[s])
      BY DEF ForwardRecoveryNeverNeeded
    <2>1. contract[saga[s].contract].status # "SETTLED"
      BY DEF RecoveryInv, Closure, SettledIsOver
    <2> QED
      BY <2>1 DEF RecoveryInv, Closure, SettlementsAreDecided, Decided, Settleable
  <1> QED BY <1>1, RecoveryInvHolds, PTL

-----------------------------------------------------------------------------
(* The rule of the contracts table.                                        *)

Published == \A c \in Contracts : contract[c].status # "ABSENT" => contract[c].version > 0

LEMMA PublishedInductive == RecoveryInv /\ Published /\ [Next]_vars => Published'
  <1> SUFFICES ASSUME RecoveryInv, Published, [Next]_vars PROVE Published'
    OBVIOUS
  <1>0. contract \in [Contracts -> ContractRows]
    BY DEF RecoveryInv, SafetyInv, TypeInv, TypeOK, ContractsTypeOK
  <1>1. ASSUME NEW d \in Contracts, ContractStep(d)
        PROVE  Published'
    BY <1>0, <1>1 DEF Published, ContractRows, ContractStep, ProposeContract,
       PublishContractVersion, AcceptContractVersion, SubmitDelivery, AcceptDelivery,
       RequestRework, RaiseContractDispute, AdjudicateContractDispute
  <1>2. ASSUME NEW a \in Activations, CommitContractActivation(a)
        PROVE  Published'
    BY <1>0, <1>2 DEF Published, ContractRows, CommitContractActivation, Eligible
  <1>3. ASSUME NEW s \in Settlements, CommitContractSettlement(s)
        PROVE  Published'
    BY <1>0, <1>3 DEF Published, ContractRows, CommitContractSettlement, Settleable
  <1>4. CASE UNCHANGED contract
    BY <1>4 DEF Published
  <1> QED
    BY <1>1, <1>2, <1>3, <1>4 DEF Next, Lifecycle, Prepare, Commit, PrepareContractActivation,
       PrepareContractSettlement, QueueActivationCompensation, vars

(* No service issues an update of a contract that the trigger              *)
(* validate_contract_state_change would abort.                             *)
THEOREM UpdatesAreLegal == Spec => TriggerNeverAborts
  <1> DEFINE Legal == \A c \in Contracts :
                         contract[c].status # "ABSENT" /\ contract'[c] # contract[c] =>
                            TriggerAccepts(contract[c], contract'[c])
  <1>1. RecoveryInv /\ Published /\ [Next]_vars => [Legal]_vars
    <2> SUFFICES ASSUME RecoveryInv, Published, [Next]_vars, NEW c \in Contracts,
                        contract[c].status # "ABSENT", contract'[c] # contract[c]
                 PROVE  TriggerAccepts(contract[c], contract'[c])
      OBVIOUS
    <2>0. /\ contract \in [Contracts -> ContractRows]
          /\ contract[c].version \in Nat
          /\ contract[c].version > 0
      BY DEF RecoveryInv, SafetyInv, TypeInv, TypeOK, ContractsTypeOK, Published, ContractRows
    <2>1. contract[c].status = "SUBMITTED" =>
             /\ contract[c].accepted = Parties
             /\ contract[c].escrow # NoEscrow
      BY NoEscrowIsNoSaga DEF RecoveryInv, SafetyInv, Binding, InForceIsBound, InForce
    <2>2. ASSUME NEW d \in Contracts, ContractStep(d)
          PROVE  TriggerAccepts(contract[c], contract'[c])
      <3>1. c = d
        BY <2>0, <2>2 DEF ContractStep, ProposeContract,
           PublishContractVersion, AcceptContractVersion, SubmitDelivery, AcceptDelivery,
           RequestRework, RaiseContractDispute, AdjudicateContractDispute
      <3>2. /\ contract'[c].version >= contract[c].version
            /\ contract'[c].escrow = contract[c].escrow
        BY <2>0, <2>2, <3>1 DEF ContractRows, ContractStep, ProposeContract,
           PublishContractVersion, AcceptContractVersion, SubmitDelivery, AcceptDelivery,
           RequestRework, RaiseContractDispute, AdjudicateContractDispute
      <3>3. \/ contract'[c].status = contract[c].status
            \/ contract[c].status = "ACTIVE" /\ contract'[c].status = "SUBMITTED"
            \/ contract[c].status = "SUBMITTED" /\ contract'[c].status = "DISPUTED"
            \/ /\ contract[c].status = "SUBMITTED" /\ contract'[c].status = "ACTIVE"
               /\ contract'[c].version = contract[c].version
               /\ contract'[c].accepted = contract[c].accepted
        BY <2>0, <2>2, <3>1 DEF ContractRows, ContractStep, ProposeContract,
           PublishContractVersion, AcceptContractVersion, SubmitDelivery, AcceptDelivery,
           RequestRework, RaiseContractDispute, AdjudicateContractDispute
      <3> QED BY <2>0, <2>1, <3>2, <3>3 DEF TriggerAccepts, LegalTransitions
    <2>3. ASSUME NEW a \in Activations, CommitContractActivation(a)
          PROVE  TriggerAccepts(contract[c], contract'[c])
      <3>1. /\ contract[c].status = "PROPOSED"
            /\ contract[c].accepted = Parties
            /\ contract'[c].status = "ACTIVE"
            /\ contract'[c].escrow = a
            /\ contract'[c].version = contract[c].version
            /\ contract'[c].accepted = contract[c].accepted
        BY <2>0, <2>3 DEF CommitContractActivation, Eligible, ContractRows
      <3> QED BY <2>0, <3>1, NoEscrowIsNoSaga DEF TriggerAccepts, LegalTransitions
    <2>4. ASSUME NEW s \in Settlements, CommitContractSettlement(s)
          PROVE  TriggerAccepts(contract[c], contract'[c])
      <3>1. /\ contract[c].status \in {"SUBMITTED", "DISPUTED"}
            /\ contract'[c].status = "SETTLED"
            /\ contract'[c].escrow = contract[c].escrow
            /\ contract'[c].version = contract[c].version
        BY <2>0, <2>4 DEF CommitContractSettlement, Settleable, ContractRows
      <3> QED BY <2>0, <3>1 DEF TriggerAccepts, LegalTransitions
    <2> QED
      BY <2>2, <2>3, <2>4 DEF Next, Lifecycle, Prepare, Commit, PrepareContractActivation,
         PrepareContractSettlement, QueueActivationCompensation, vars
  <1>2. Init => Published
    BY DEF Init, ContractsInit, NoContract, Published
  <1> QED
    BY <1>1, <1>2, PublishedInductive, RecoveryInvHolds, PTL DEF Spec, TriggerNeverAborts
=============================================================================
