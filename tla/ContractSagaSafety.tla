------------------------- MODULE ContractSagaSafety -------------------------
(***************************************************************************)
(* Type correctness; no contract in force without its money, and no refund *)
(* of the money of a contract: proved for every number of contracts,       *)
(* attempts, workers, tags and adverse events.  Types come first, then an  *)
(* inductive invariant in two parts, Evidence and Money.                   *)
(***************************************************************************)
EXTENDS ContractSagaProps, TLAPS

-----------------------------------------------------------------------------
(* Operation keys.                                                         *)

(* Every operation key belongs to one Saga, and is either its primary key  *)
(* or the refund key of an activation; sagaOperationKey never confuses two *)
(* of them.                                                                *)
LEMMA OperationKeys ==
    /\ \A s \in Sagas : PrimaryKey(s) \in Ops /\ SagaOf(PrimaryKey(s)) = s
    /\ \A a \in Activations : /\ CompensationKey(a) \in Ops
                              /\ SagaOf(CompensationKey(a)) = a
                              /\ a \in Sagas
    /\ \A s \in Settlements : s \in Sagas /\ s \notin Activations
    /\ \A op \in Ops : SagaOf(op) \in Sagas
    /\ \A op \in Ops : \/ op = PrimaryKey(SagaOf(op))
                       \/ /\ SagaOf(op) \in Activations
                          /\ op = CompensationKey(SagaOf(op))
    /\ \A s \in Sagas, t \in Sagas : PrimaryKey(s) # CompensationKey(t)
  <1>1. \A s \in Sagas : PrimaryKey(s) \in Ops /\ SagaOf(PrimaryKey(s)) = s
    BY DEF Ops, PrimaryKey, SagaOf
  <1>2. \A a \in Activations : /\ CompensationKey(a) \in Ops
                               /\ SagaOf(CompensationKey(a)) = a
                               /\ a \in Sagas
    BY DEF Ops, CompensationKey, SagaOf, Sagas
  <1>3. \A s \in Settlements : s \in Sagas /\ s \notin Activations
    BY KindsAreDisjoint DEF Sagas
  <1>4. \A op \in Ops : \/ op = PrimaryKey(SagaOf(op)) /\ SagaOf(op) \in Sagas
                        \/ /\ SagaOf(op) \in Activations
                           /\ op = CompensationKey(SagaOf(op))
    BY <1>1, <1>2 DEF Ops
  <1>5. \A s \in Sagas, t \in Sagas : PrimaryKey(s) # CompensationKey(t)
    BY DEF PrimaryKey, PrimaryStep, CompensationKey
  <1> QED BY <1>1, <1>2, <1>3, <1>4, <1>5

(* What a state change, a local commit, a request for compensation or an   *)
(* observed result makes of a snapshot is a snapshot.                      *)
LEMMA SnapshotUpdates ==
    ASSUME NEW g \in Snapshots
    PROVE  /\ MarkLocalTransitionCommitted(g) \in Snapshots
           /\ RequestActivationCompensation(g) \in Snapshots
           /\ \A x \in SagaStates : [g EXCEPT !.state = x] \in Snapshots
  <1>1. \A x \in SagaStates : [g EXCEPT !.state = x] \in Snapshots
    BY DEF Snapshots
  <1>2. MarkLocalTransitionCommitted(g) \in Snapshots
    BY DEF MarkLocalTransitionCommitted, Snapshots, SagaStates
  <1>3. RequestActivationCompensation(g) \in Snapshots
    BY DEF RequestActivationCompensation, Snapshots, SagaStates
  <1> QED BY <1>1, <1>2, <1>3

LEMMA ObservedSnapshots ==
    ASSUME NEW g \in Snapshots, NEW op \in Ops, NEW r \in Results
    PROVE  /\ Thaw(g, op) \in Snapshots
           /\ ObserveFinancialResult(g, op, r) \in Snapshots
  <1>1. Thaw(g, op) \in Snapshots
    BY DEF Thaw, AwaitingState, Snapshots, SagaStates
  <1>2. ObserveFinancialResult(g, op, r) \in Snapshots
    BY DEF ObserveFinancialResult, ObservePrimary, ObserveCompensation, Snapshots, SagaStates
  <1> QED BY <1>1, <1>2

-----------------------------------------------------------------------------
(* Type correctness.                                                       *)

LEMMA InitialTypes == Init => TypeOK
  <1> SUFFICES ASSUME Init PROVE TypeOK
    OBVIOUS
  <1>1. ContractsTypeOK
    BY DEF Init, ContractsInit, ContractsTypeOK, ContractRows, ContractStates, NoContract
  <1>2. NoSaga \in Snapshots
    BY DEF NoSaga, Snapshots
  <1>3. NoRow \in OutboxRows
    BY DEF NoRow, OutboxRows
  <1> QED
    BY <1>1, <1>2, <1>3, EngineBounds DEF Init, EngineInit, TypeOK, EngineTypeOK

LEMMA LifecycleTypes ==
    ASSUME ContractsTypeOK, NEW c \in Contracts, ContractStep(c)
    PROVE  ContractsTypeOK'
  <1> USE DEF ContractsTypeOK
  <1> DEFINE k == contract[c]
  <1>0. /\ k \in ContractRows
        /\ \A row \in ContractRows : [contract EXCEPT ![c] = row] \in [Contracts -> ContractRows]
    OBVIOUS
  <1>1. CASE ProposeContract(c)
    <2>1. [k EXCEPT !.status = "PROPOSED", !.version = 1] \in ContractRows
      BY <1>0 DEF ContractRows, ContractStates
    <2> QED BY <1>0, <1>1, <2>1 DEF ProposeContract
  <1>2. CASE PublishContractVersion(c)
    <2>1. k.version + 1 \in Nat
      BY <1>0 DEF ContractRows
    <2>2. \A n \in Nat : [k EXCEPT !.version = n, !.accepted = {}] \in ContractRows
      BY <1>0 DEF ContractRows
    <2> QED BY <1>0, <1>2, <2>1, <2>2 DEF PublishContractVersion
  <1>3. ASSUME NEW p \in Parties, AcceptContractVersion(c, p)
        PROVE  ContractsTypeOK'
    BY <1>3 DEF AcceptContractVersion, ContractRows
  <1>4. CASE SubmitDelivery(c)
    <2>1. [k EXCEPT !.status = "SUBMITTED", !.delivery = "SUBMITTED"] \in ContractRows
      BY <1>0 DEF ContractRows, ContractStates
    <2> QED BY <1>0, <1>4, <2>1 DEF SubmitDelivery
  <1>5. CASE AcceptDelivery(c)
    BY <1>5 DEF AcceptDelivery, ContractRows
  <1>6. CASE RequestRework(c)
    <2>1. k.reworks + 1 \in Nat
      BY <1>0 DEF ContractRows
    <2>2. \A n \in Nat : [k EXCEPT !.status = "ACTIVE", !.delivery = "REJECTED", !.reworks = n]
                            \in ContractRows
      BY <1>0 DEF ContractRows, ContractStates
    <2> QED BY <1>0, <1>6, <2>1, <2>2 DEF RequestRework
  <1>7. ASSUME NEW citesLatest \in BOOLEAN, RaiseContractDispute(c, citesLatest)
        PROVE  ContractsTypeOK'
    <2>1. [k EXCEPT !.status = "DISPUTED", !.dispute = "OPEN",
                    !.delivery = IF citesLatest THEN "DISPUTED" ELSE @] \in ContractRows
      BY <1>0 DEF ContractRows, ContractStates
    <2> QED BY <1>0, <1>7, <2>1 DEF RaiseContractDispute
  <1>8. CASE AdjudicateContractDispute(c)
    BY <1>8 DEF AdjudicateContractDispute, ContractRows
  <1> QED
    BY <1>1, <1>2, <1>3, <1>4, <1>5, <1>6, <1>7, <1>8 DEF ContractStep

(* Recording a result keeps the three tables well-formed.                  *)
LEMMA RecordingTypes ==
    ASSUME EngineTypeOK, NEW op \in Ops, NEW r \in Results,
           RecordSagaFinancialResult(op, r)
    PROVE  /\ saga' \in [Sagas -> Snapshots]
           /\ outbox' \in [Ops -> OutboxRows]
           /\ inbox' \in [Ops -> Results \cup {NoResult}]
  <1>0. SagaOf(op) \in Sagas /\ saga[SagaOf(op)] \in Snapshots
    BY OperationKeys DEF EngineTypeOK
  <1>1. CASE RecordFirstResult(op, r)
    <2>1. Thaw(saga[SagaOf(op)], op) \in Snapshots
      BY <1>0, ObservedSnapshots
    <2>2. ObserveFinancialResult(Thaw(saga[SagaOf(op)], op), op, r) \in Snapshots
      BY <2>1, ObservedSnapshots
    <2> QED
      BY <1>0, <1>1, <2>2 DEF RecordFirstResult, EngineTypeOK, OutboxRows, OutboxStates
  <1>2. CASE RecordDuplicate(op, r)
    BY <1>2 DEF RecordDuplicate, EngineTypeOK, store
  <1>3. CASE RecordConflict(op, r)
    <2>1. [saga[SagaOf(op)] EXCEPT !.state = "RECONCILIATION_REQUIRED"] \in Snapshots
      BY <1>0, SnapshotUpdates DEF SagaStates
    <2>2. [outbox[op] EXCEPT !.status = "RECONCILIATION_REQUIRED", !.owner = NoWorker]
             \in OutboxRows
      BY DEF EngineTypeOK, OutboxRows, OutboxStates
    <2> QED
      BY <1>0, <1>3, <2>1, <2>2 DEF RecordConflict, EngineTypeOK, store
  <1> QED
    BY <1>1, <1>2, <1>3 DEF RecordSagaFinancialResult

LEMMA FaultTypes ==
    ASSUME faults \in 0..MaxFaults, NEW condition \in BOOLEAN,
           Fault \/ FaultIf(condition)
    PROVE  faults' \in 0..MaxFaults
  BY EngineBounds DEF Fault, FaultIf

(* A worker that is not idle works for an operation.                       *)
WorkersHaveJobs == \A w \in Workers : pc[w] # "idle" => job[w] \in Ops

TypeInv == TypeOK /\ WorkersHaveJobs

LEMMA WorkerTypes ==
    ASSUME EngineTypeOK, WorkersHaveJobs, NEW w \in Workers, NEW op \in Ops,
           NEW phase \in {"dispatching", "reconciling", "notFound"},
           Begin(w, phase, op) \/ Finish(w)
    PROVE  /\ pc' \in [Workers -> {"idle", "dispatching", "reconciling", "notFound"}]
           /\ job' \in [Workers -> Ops \cup {NoJob}]
           /\ WorkersHaveJobs'
  BY DEF EngineTypeOK, WorkersHaveJobs, Begin, Finish

(* Every row update the dispatcher and the reconciler make is well-formed. *)
LEMMA RowTypes ==
    ASSUME EngineTypeOK, NEW op \in Ops
    PROVE  /\ \A x \in OutboxStates :
                 /\ [outbox[op] EXCEPT !.status = x] \in OutboxRows
                 /\ [outbox[op] EXCEPT !.status = x, !.owner = NoWorker] \in OutboxRows
           /\ \A w \in Workers :
                 [status |-> "LEASED", attempts |-> outbox[op].attempts + 1, owner |-> w]
                     \in OutboxRows
           /\ NewRow \in OutboxRows
           /\ \A row \in OutboxRows : [outbox EXCEPT ![op] = row] \in [Ops -> OutboxRows]
  <1>1. outbox[op] \in OutboxRows /\ outbox[op].attempts + 1 \in Nat
    BY DEF EngineTypeOK, OutboxRows
  <1>2. \A x \in OutboxStates :
           /\ [outbox[op] EXCEPT !.status = x] \in OutboxRows
           /\ [outbox[op] EXCEPT !.status = x, !.owner = NoWorker] \in OutboxRows
    BY <1>1 DEF OutboxRows
  <1>3. \A w \in Workers, n \in Nat :
           [status |-> "LEASED", attempts |-> n, owner |-> w] \in OutboxRows
    BY DEF OutboxRows, OutboxStates
  <1>4. NewRow \in OutboxRows
    BY DEF NewRow, NoRow, OutboxRows, OutboxStates
  <1>5. \A row \in OutboxRows : [outbox EXCEPT ![op] = row] \in [Ops -> OutboxRows]
    BY DEF EngineTypeOK
  <1> QED BY <1>1, <1>2, <1>3, <1>4, <1>5

LEMMA FailureTypes ==
    ASSUME EngineTypeOK, NEW w \in Workers, NEW op \in Ops,
           \/ RecordOutcomeUnknown(w, op)
           \/ RecordNoEffect(w, op)
           \/ DispatchFailureRefused(w, op)
    PROVE  /\ saga' \in [Sagas -> Snapshots]
           /\ outbox' \in [Ops -> OutboxRows]
           /\ inbox' = inbox
  <1>1. CASE RecordOutcomeUnknown(w, op)
    <2>1. SagaOf(op) \in Sagas /\ saga[SagaOf(op)] \in Snapshots
      BY OperationKeys DEF EngineTypeOK
    <2>2. \A x : x \in {saga[SagaOf(op)].state, "RECONCILIATION_REQUIRED"} =>
                    [saga[SagaOf(op)] EXCEPT !.state = x] \in Snapshots
      BY <2>1 DEF Snapshots, SagaStates
    <2> QED
      BY <1>1, <2>1, <2>2, RowTypes DEF RecordOutcomeUnknown, EngineTypeOK, OutboxStates
  <1>2. CASE RecordNoEffect(w, op)
    BY <1>2, RowTypes DEF RecordNoEffect, EngineTypeOK, OutboxStates
  <1>3. CASE DispatchFailureRefused(w, op)
    BY <1>3 DEF DispatchFailureRefused, EngineTypeOK, store
  <1> QED BY <1>1, <1>2, <1>3

LEMMA WorkerStepTypes ==
    ASSUME EngineTypeOK, WorkersHaveJobs, NEW w \in Workers, WorkerStep(w)
    PROVE  EngineTypeOK' /\ WorkersHaveJobs'
  <1> DEFINE op == job[w]
  <1>0. ASSUME NEW k \in Ops
        PROVE  /\ inflight[k] \in Nat
               /\ inflight[k] + 1 \in Nat
               /\ inflight[k] > 0 => inflight[k] - 1 \in Nat
    BY <1>0 DEF EngineTypeOK
  <1>1. ASSUME NEW k \in Ops, ClaimSagaOutbox(w, k)
        PROVE  EngineTypeOK' /\ WorkersHaveJobs'
    <2>1. outbox' \in [Ops -> OutboxRows]
      BY <1>1, RowTypes DEF ClaimSagaOutbox
    <2>2. inflight' \in [Ops -> Nat]
      BY <1>0, <1>1 DEF ClaimSagaOutbox, EngineTypeOK
    <2>3. faults' \in 0..MaxFaults
      BY <1>1, FaultTypes DEF ClaimSagaOutbox, EngineTypeOK
    <2>4. Begin(w, "dispatching", k)
      BY <1>1 DEF ClaimSagaOutbox
    <2> QED
      BY <1>1, <2>1, <2>2, <2>3, <2>4, WorkerTypes DEF ClaimSagaOutbox, EngineTypeOK
  <1>2. ASSUME NEW k \in Ops, ReconcileClaim(w, k)
        PROVE  EngineTypeOK' /\ WorkersHaveJobs'
    <2>1. faults' \in 0..MaxFaults
      BY <1>2, FaultTypes DEF ReconcileClaim, EngineTypeOK
    <2>2. Begin(w, "reconciling", k)
      BY <1>2 DEF ReconcileClaim
    <2> QED
      BY <1>2, <2>1, <2>2, WorkerTypes DEF ReconcileClaim, EngineTypeOK, store, authority
  <1>3. ASSUME op \in Ops, NEW r \in Results, RecordSagaFinancialResult(op, r), Finish(w),
               kb' = kb, inflight' \in [Ops -> Nat], faults' = faults
        PROVE  EngineTypeOK' /\ WorkersHaveJobs'
    BY <1>3, RecordingTypes, WorkerTypes DEF EngineTypeOK
  <1>4. CASE DispatchAnswered(w) \/ LookupFound(w)
    <2>1. op \in Ops /\ kb[op] \in {"SUCCEEDED", "FAILED"}
      BY <1>4 DEF DispatchAnswered, LookupFound, WorkersHaveJobs, EngineTypeOK
    <2>2. PICK t \in Tags : RecordSagaFinancialResult(op, [status |-> kb[op], tag |-> t])
      BY <1>4 DEF DispatchAnswered, LookupFound
    <2>3. [status |-> kb[op], tag |-> t] \in Results
      BY <2>1 DEF Results
    <2>4. Finish(w) /\ kb' = kb /\ inflight' \in [Ops -> Nat] /\ faults' = faults
      BY <1>4 DEF DispatchAnswered, LookupFound, authority, EngineTypeOK
    <2> QED BY <1>3, <2>1, <2>2, <2>3, <2>4
  <1>5. CASE DispatchRefused(w)
    <2>1. op \in Ops
      BY <1>5 DEF DispatchRefused, WorkersHaveJobs
    <2>2. PICK t \in Refusals : RecordSagaFinancialResult(op, [status |-> "FAILED", tag |-> t])
      BY <1>5 DEF DispatchRefused
    <2>3. [status |-> "FAILED", tag |-> t] \in Results
      BY DEF Results
    <2>4. Finish(w) /\ kb' = kb /\ inflight' \in [Ops -> Nat] /\ faults' = faults
      BY <1>0, <1>5, <2>1 DEF DispatchRefused, EngineTypeOK
    <2> QED BY <1>3, <2>1, <2>2, <2>3, <2>4
  <1>6. CASE DispatchRetryScheduled(w)
    <2>1. op \in Ops
      BY <1>6 DEF DispatchRetryScheduled, WorkersHaveJobs
    <2>2. RecordNoEffect(w, op) \/ DispatchFailureRefused(w, op)
      BY <1>6 DEF DispatchRetryScheduled
    <2>3. inflight' \in [Ops -> Nat] /\ faults' \in 0..MaxFaults
      BY <1>0, <1>6, <2>1, FaultTypes DEF DispatchRetryScheduled, EngineTypeOK
    <2>4. Finish(w) /\ kb' = kb
      BY <1>6 DEF DispatchRetryScheduled
    <2> QED BY <2>1, <2>2, <2>3, <2>4, FailureTypes, WorkerTypes DEF EngineTypeOK
  <1>7. CASE DispatchOutcomeUnknown(w)
    <2>1. op \in Ops
      BY <1>7 DEF DispatchOutcomeUnknown, WorkersHaveJobs
    <2>2. RecordOutcomeUnknown(w, op) \/ DispatchFailureRefused(w, op)
      BY <1>7 DEF DispatchOutcomeUnknown
    <2>3. Finish(w) /\ UNCHANGED authority /\ faults' \in 0..MaxFaults
      BY <1>7, FaultTypes DEF DispatchOutcomeUnknown, EngineTypeOK
    <2> QED BY <2>1, <2>2, <2>3, FailureTypes, WorkerTypes DEF EngineTypeOK, authority
  <1>8. CASE LookupNotFound(w)
    <2>1. op \in Ops
      BY <1>8 DEF LookupNotFound, WorkersHaveJobs
    <2> QED
      BY <1>8, <2>1, WorkerTypes DEF LookupNotFound, EngineTypeOK, store, authority
  <1>9. CASE ReplayAfterNotFound(w)
    <2>1. op \in Ops
      BY <1>9 DEF ReplayAfterNotFound, WorkersHaveJobs
    <2>2. SagaOf(op) \in Sagas /\ saga[SagaOf(op)] \in Snapshots
      BY <2>1, OperationKeys DEF EngineTypeOK
    <2>3. [saga[SagaOf(op)] EXCEPT !.state = AwaitingState(op)] \in Snapshots
      BY <2>1, <2>2 DEF AwaitingState, Snapshots, SagaStates
    <2>4. saga' \in [Sagas -> Snapshots]
      BY <1>9, <2>2, <2>3 DEF ReplayAfterNotFound, EngineTypeOK
    <2>5. \A x : x \in {outbox[op].status, "RETRY_WAIT"} =>
                    [outbox[op] EXCEPT !.status = x] \in OutboxRows
      BY <2>1 DEF EngineTypeOK, OutboxRows, OutboxStates
    <2>6. outbox' \in [Ops -> OutboxRows]
      BY <1>9, <2>1, <2>5, RowTypes DEF ReplayAfterNotFound
    <2> QED
      BY <1>9, <2>1, <2>4, <2>6, WorkerTypes DEF ReplayAfterNotFound, EngineTypeOK, authority
  <1>10. CASE NoReplayAfterNotFound(w) \/ LookupInconclusive(w) \/ Crash(w)
    <2>1. op \in Ops
      BY <1>10 DEF NoReplayAfterNotFound, LookupInconclusive, Crash, WorkersHaveJobs
    <2>2. faults' \in 0..MaxFaults
      BY <1>10, FaultTypes
      DEF NoReplayAfterNotFound, LookupInconclusive, Crash, EngineTypeOK
    <2>3. Finish(w) /\ UNCHANGED <<store, authority>>
      BY <1>10 DEF NoReplayAfterNotFound, LookupInconclusive, Crash, store, authority
    <2> QED BY <2>1, <2>2, <2>3, WorkerTypes DEF EngineTypeOK, store, authority
  <1> QED
    BY <1>1, <1>2, <1>4, <1>5, <1>6, <1>7, <1>8, <1>9, <1>10 DEF WorkerStep, WorkerReturns

LEMMA CoordinationTypes ==
    ASSUME EngineTypeOK, ContractsTypeOK, Prepare \/ Commit
    PROVE  TypeOK'
  <1>0. ASSUME NEW s \in Sagas
        PROVE  /\ saga[s] \in Snapshots
               /\ \A g \in Snapshots : [saga EXCEPT ![s] = g] \in [Sagas -> Snapshots]
    BY <1>0 DEF EngineTypeOK
  <1>1. ASSUME NEW s \in Sagas, NEW c \in Contracts, NEW e \in Activations,
               PrepareSagaIntent(s, c, contract[c].version, e),
               UNCHANGED <<contract, inbox, authority, pc, job, faults>>
        PROVE  TypeOK'
    <2>1. contract[c].version \in Nat
      BY DEF ContractsTypeOK, ContractRows
    <2>2. CreateSaga(c, contract[c].version, e) \in Snapshots
      BY <2>1 DEF CreateSaga, NoSaga, Snapshots, SagaStates
    <2>3. saga' \in [Sagas -> Snapshots]
      BY <1>0, <1>1, <2>2 DEF PrepareSagaIntent
    <2>4. outbox' \in [Ops -> OutboxRows]
      BY <1>1, OperationKeys, RowTypes DEF PrepareSagaIntent
    <2> QED BY <1>1, <2>3, <2>4 DEF TypeOK, EngineTypeOK, ContractsTypeOK, authority
  <1>2. ASSUME NEW c \in Contracts, NEW a \in Activations, PrepareContractActivation(c, a)
        PROVE  TypeOK'
    BY <1>1, <1>2, OperationKeys DEF PrepareContractActivation
  <1>3. ASSUME NEW c \in Contracts, NEW s \in Settlements, PrepareContractSettlement(c, s)
        PROVE  TypeOK'
    <2>1. contract[c].escrow \in Activations
      BY <1>3 DEF PrepareContractSettlement, ContractsTypeOK, ContractRows
    <2> QED BY <1>1, <1>3, <2>1, OperationKeys DEF PrepareContractSettlement
  <1>4. ASSUME NEW a \in Activations, CommitContractActivation(a)
        PROVE  TypeOK'
    <2> DEFINE c == saga[a].contract
    <2>1. contract' \in [Contracts -> ContractRows]
      <3>1. ASSUME c \in Contracts
            PROVE  [contract[c] EXCEPT !.status = "ACTIVE", !.escrow = a] \in ContractRows
        BY <3>1 DEF ContractsTypeOK, ContractRows, ContractStates
      <3> QED BY <1>4, <3>1 DEF CommitContractActivation, ContractsTypeOK
    <2>2. saga' \in [Sagas -> Snapshots]
      BY <1>0, <1>4, OperationKeys, SnapshotUpdates DEF CommitContractActivation
    <2> QED
      BY <1>4, <2>1, <2>2
      DEF CommitContractActivation, TypeOK, EngineTypeOK, ContractsTypeOK, authority
  <1>5. ASSUME NEW a \in Activations, QueueActivationCompensation(a)
        PROVE  TypeOK'
    <2>1. saga' \in [Sagas -> Snapshots]
      BY <1>0, <1>5, OperationKeys, SnapshotUpdates DEF QueueActivationCompensation
    <2>2. outbox[CompensationKey(a)] \in OutboxRows
      BY OperationKeys DEF EngineTypeOK
    <2>3. outbox' \in [Ops -> OutboxRows]
      BY <1>5, <2>2, OperationKeys, RowTypes DEF QueueActivationCompensation
    <2> QED
      BY <1>5, <2>1, <2>3
      DEF QueueActivationCompensation, TypeOK, EngineTypeOK, ContractsTypeOK, authority
  <1>6. ASSUME NEW s \in Settlements, CommitContractSettlement(s)
        PROVE  TypeOK'
    <2> DEFINE c == saga[s].contract
    <2>1. contract' \in [Contracts -> ContractRows]
      <3>1. ASSUME c \in Contracts
            PROVE  [contract[c] EXCEPT !.status = "SETTLED"] \in ContractRows
        BY <3>1 DEF ContractsTypeOK, ContractRows, ContractStates
      <3> QED BY <1>6, <3>1 DEF CommitContractSettlement, ContractsTypeOK
    <2>2. saga' \in [Sagas -> Snapshots]
      BY <1>0, <1>6, OperationKeys, SnapshotUpdates DEF CommitContractSettlement
    <2> QED
      BY <1>6, <2>1, <2>2
      DEF CommitContractSettlement, TypeOK, EngineTypeOK, ContractsTypeOK, authority
  <1> QED BY <1>2, <1>3, <1>4, <1>5, <1>6 DEF Prepare, Commit

LEMMA AuthorityTypes ==
    ASSUME EngineTypeOK, NEW op \in Ops, KbExecute(op)
    PROVE  EngineTypeOK'
  <1>1. inflight[op] - 1 \in Nat
    BY DEF KbExecute, EngineTypeOK
  <1> QED BY <1>1 DEF KbExecute, EngineTypeOK, store

(* The state every step of the composed system leaves unchanged or in type. *)
LEMMA TypeInvInductive == TypeInv /\ [Next]_vars => TypeInv'
  <1> SUFFICES ASSUME TypeOK, WorkersHaveJobs, [Next]_vars
               PROVE  TypeOK' /\ WorkersHaveJobs'
    BY DEF TypeInv
  <1> USE DEF TypeOK
  <1>1. CASE Lifecycle
    <2>1. ContractsTypeOK'
      BY <1>1, LifecycleTypes DEF Lifecycle
    <2>2. UNCHANGED <<saga, outbox, inbox, kb, inflight, pc, job, faults>>
      BY <1>1 DEF Lifecycle, engine, store, authority
    <2> QED BY <2>1, <2>2 DEF EngineTypeOK, WorkersHaveJobs
  <1>2. CASE Prepare \/ Commit
    <2>1. UNCHANGED <<pc, job>>
      BY <1>2 DEF Prepare, Commit, PrepareContractActivation, PrepareContractSettlement,
         CommitContractActivation, QueueActivationCompensation, CommitContractSettlement
    <2> QED BY <1>2, <2>1, CoordinationTypes DEF WorkersHaveJobs
  <1>3. CASE EngineStep /\ UNCHANGED contract
    <2>1. ASSUME NEW op \in Ops, KbExecute(op)
          PROVE  EngineTypeOK' /\ WorkersHaveJobs'
      BY <2>1, AuthorityTypes DEF KbExecute, WorkersHaveJobs
    <2>2. EngineTypeOK' /\ WorkersHaveJobs'
      BY <1>3, <2>1, WorkerStepTypes DEF EngineStep
    <2> QED BY <1>3, <2>2 DEF ContractsTypeOK
  <1>4. CASE UNCHANGED vars
    BY <1>4 DEF vars, engine, store, authority, ContractsTypeOK, EngineTypeOK, WorkersHaveJobs
  <1> QED BY <1>1, <1>2, <1>3, <1>4 DEF Next

LEMMA TypeInvHolds == Spec => []TypeInv
  <1>1. Init => TypeInv
    BY InitialTypes DEF TypeInv, WorkersHaveJobs, Init, EngineInit
  <1> QED BY <1>1, TypeInvInductive, PTL DEF Spec

(* Every table keeps its form: rows, snapshots, results and worker states. *)
THEOREM TypeCorrectness == Spec => []TypeOK
  <1>1. TypeInv => TypeOK
    BY DEF TypeInv
  <1> QED BY <1>1, TypeInvHolds, PTL

-----------------------------------------------------------------------------
(* Evidence: what the tables, the workers and the authority know of one    *)
(* another.                                                                *)

(* Nothing is sent, executed, recorded or worked on before its row exists. *)
RowsComeFirst ==
    \A op \in Ops : outbox[op].status = "ABSENT" =>
        /\ inflight[op] = 0
        /\ kb[op] = "NONE"
        /\ inbox[op] = NoResult
        /\ \A w \in Workers : pc[w] # "idle" => job[w] # op

(* An attempt nobody prepared is blank.                                    *)
UnpreparedIsBlank ==
    /\ \A s \in Sagas : saga[s].state = "ABSENT" => saga[s] = NoSaga
    /\ \A op \in Ops : saga[SagaOf(op)].state = "ABSENT" => outbox[op].status = "ABSENT"

(* A recorded success really happened.                                     *)
SuccessesHappened == \A op \in Ops : inbox[op].status = "SUCCEEDED" => kb[op] = "SUCCEEDED"

(* The snapshot holds the result the inbox holds.                          *)
SnapshotMirrorsInbox == \A op \in Ops : ObservedResult(saga[SagaOf(op)], op) = inbox[op]

(* A refund is queued only with its key.                                   *)
RefundsAreRequested ==
    \A a \in Activations : outbox[CompensationKey(a)].status # "ABSENT" => saga[a].compensationKey

Evidence == /\ RowsComeFirst
            /\ UnpreparedIsBlank
            /\ SuccessesHappened
            /\ SnapshotMirrorsInbox
            /\ RefundsAreRequested

-----------------------------------------------------------------------------
(* Binding: which escrow puts which contract in force.                     *)

(* A requested refund is never taken back, and its escrow binds nothing.   *)
RefundsArePermanent ==
    \A a \in Activations : saga[a].compensationKey =>
        /\ saga[a].state \in {"COMPENSATION_PENDING", "COMPENSATED", "RECONCILIATION_REQUIRED"}
        /\ saga[a].primaryResult.status = "SUCCEEDED"
        /\ ~Bound(a)

(* The Saga of an escrow that binds a contract has completed, for that     *)
(* contract and version; at most a conflicting report freezes it.          *)
BindingSagasCompleted ==
    \A c \in Contracts, a \in Activations : Binds(c, a) =>
        /\ saga[a].contract = c
        /\ saga[a].version = contract[c].version
        /\ saga[a].state \in {"COMPLETED", "RECONCILIATION_REQUIRED"}
        /\ saga[a].primaryResult.status = "SUCCEEDED"

(* A contract is bound exactly from its activation on.                     *)
InForceIsBound ==
    \A c \in Contracts :
        IF contract[c].status \in InForce \cup {"SETTLED"}
        THEN contract[c].escrow \in Activations /\ contract[c].accepted = Parties
        ELSE contract[c].escrow = NoEscrow

Binding == /\ RefundsArePermanent
           /\ BindingSagasCompleted
           /\ InForceIsBound

SafetyInv == TypeInv /\ Evidence /\ Binding

-----------------------------------------------------------------------------
LEMMA InitialSafety == Init => SafetyInv
  <1> SUFFICES ASSUME Init PROVE Evidence /\ Binding
    BY InitialTypes DEF SafetyInv, TypeInv, WorkersHaveJobs, Init, EngineInit
  <1> USE DEF Init, EngineInit, ContractsInit
  <1>1. RowsComeFirst
    BY DEF RowsComeFirst, NoRow
  <1>2. UnpreparedIsBlank
    BY OperationKeys DEF UnpreparedIsBlank, NoRow
  <1>3. SuccessesHappened
    BY DEF SuccessesHappened, NoResult
  <1>4. SnapshotMirrorsInbox
    BY OperationKeys DEF SnapshotMirrorsInbox, ObservedResult, NoSaga
  <1>5. RefundsAreRequested
    BY OperationKeys DEF RefundsAreRequested, NoRow
  <1>6. RefundsArePermanent
    BY OperationKeys DEF RefundsArePermanent, NoSaga
  <1>7. BindingSagasCompleted /\ InForceIsBound
    BY NoEscrowIsNoSaga DEF BindingSagasCompleted, Binds, InForceIsBound, NoContract, InForce
  <1> QED BY <1>1, <1>2, <1>3, <1>4, <1>5, <1>6, <1>7 DEF Evidence, Binding

-----------------------------------------------------------------------------
(* A state change leaves the rest of a snapshot alone.                     *)
LEMMA SnapshotFields ==
    ASSUME NEW g \in Snapshots, NEW x
    PROVE  LET h == [g EXCEPT !.state = x]
           IN  /\ h.state = x
               /\ h.contract = g.contract
               /\ h.version = g.version
               /\ h.escrow = g.escrow
               /\ h.primaryResult = g.primaryResult
               /\ h.compensationKey = g.compensationKey
               /\ h.compensationResult = g.compensationResult
  BY DEF Snapshots

(* The parties' steps touch neither Sagas nor escrow references.           *)
LEMMA LifecycleSafety ==
    ASSUME TypeInv, Evidence, Binding, Lifecycle
    PROVE  Evidence' /\ Binding'
  <1>1. PICK d \in Contracts : ContractStep(d)
    BY DEF Lifecycle
  <1>2. UNCHANGED <<saga, outbox, inbox, kb, inflight, pc, job>>
    BY DEF Lifecycle, engine, store, authority
  <1>3. Evidence'
    BY <1>2 DEF Evidence, RowsComeFirst, UnpreparedIsBlank, SuccessesHappened,
       SnapshotMirrorsInbox, RefundsAreRequested
  <1>4. contract \in [Contracts -> ContractRows]
    BY DEF TypeInv, TypeOK, ContractsTypeOK
  <1>5. \A c \in Contracts : contract'[c].escrow = contract[c].escrow
    BY <1>1, <1>4 DEF ContractRows, ContractStep, ProposeContract, PublishContractVersion,
       AcceptContractVersion, SubmitDelivery, AcceptDelivery, RequestRework,
       RaiseContractDispute, AdjudicateContractDispute
  <1>6. \A c \in Contracts :
           IF contract[c].status \in InForce
           THEN /\ contract'[c].status \in InForce
                /\ contract'[c].accepted = contract[c].accepted
                /\ contract'[c].version = contract[c].version
           ELSE \/ contract'[c] = contract[c]
                \/ /\ contract[c].status \in {"ABSENT", "PROPOSED"}
                   /\ contract'[c].status = "PROPOSED"
    BY <1>1, <1>4 DEF ContractRows, ContractStep, ProposeContract, PublishContractVersion,
       AcceptContractVersion, SubmitDelivery, AcceptDelivery, RequestRework,
       RaiseContractDispute, AdjudicateContractDispute, InForce
  <1>7. InForceIsBound'
    BY <1>5, <1>6 DEF Binding, InForceIsBound, InForce
  <1>8. BindingSagasCompleted'
    BY <1>2, <1>5, <1>6, NoEscrowIsNoSaga
    DEF Binding, BindingSagasCompleted, InForceIsBound, Binds, InForce
  <1>9. RefundsArePermanent'
    BY <1>2, <1>5 DEF Binding, RefundsArePermanent, Bound, Binds
  <1> QED BY <1>3, <1>7, <1>8, <1>9 DEF Binding

-----------------------------------------------------------------------------
(* Preparing and committing.                                               *)

LEMMA PrepareSafety ==
    ASSUME TypeInv, Evidence, Binding,
           NEW s \in Sagas, NEW c \in Contracts, NEW v, NEW e,
           PrepareSagaIntent(s, c, v, e),
           UNCHANGED <<contract, inbox, authority, pc, job, faults>>
    PROVE  Evidence' /\ Binding'
  <1>0. /\ saga \in [Sagas -> Snapshots]
        /\ outbox \in [Ops -> OutboxRows]
    BY DEF TypeInv, TypeOK, EngineTypeOK
  <1>1. /\ saga[s] = NoSaga /\ saga[s].state = "ABSENT"
        /\ \A op \in Ops : SagaOf(op) = s => outbox[op].status = "ABSENT"
    BY DEF PrepareSagaIntent, Evidence, UnpreparedIsBlank
  <1>2. /\ saga'[s] = CreateSaga(c, v, e)
        /\ \A t \in Sagas \ {s} : saga'[t] = saga[t]
    BY <1>0 DEF PrepareSagaIntent
  <1>3. /\ outbox'[PrimaryKey(s)] = NewRow
        /\ \A op \in Ops \ {PrimaryKey(s)} : outbox'[op] = outbox[op]
    BY <1>0, OperationKeys DEF PrepareSagaIntent
  <1>4. /\ saga'[s].state = "PENDING_REMOTE"
        /\ saga'[s].primaryResult = NoResult
        /\ saga'[s].compensationResult = NoResult
        /\ saga'[s].compensationKey = FALSE
    BY <1>2 DEF CreateSaga, NoSaga
  <1>5. UNCHANGED <<contract, inbox, kb, inflight, pc, job>>
    BY DEF authority
  <1>6. NewRow.status = "PENDING"
    BY DEF NewRow, NoRow
  <1>7. RowsComeFirst'
    BY <1>3, <1>5, <1>6 DEF Evidence, RowsComeFirst
  <1>8. UnpreparedIsBlank'
    BY <1>2, <1>3, <1>4, OperationKeys DEF Evidence, UnpreparedIsBlank
  <1>9. SuccessesHappened'
    BY <1>5 DEF Evidence, SuccessesHappened
  <1>10. SnapshotMirrorsInbox'
    <2>1. \A op \in Ops : SagaOf(op) = s => inbox[op] = NoResult
      BY <1>1 DEF Evidence, RowsComeFirst
    <2>2. \A op \in Ops : SagaOf(op) # s => saga'[SagaOf(op)] = saga[SagaOf(op)]
      BY <1>2, OperationKeys
    <2> QED
      BY <1>4, <1>5, <2>1, <2>2 DEF Evidence, SnapshotMirrorsInbox, ObservedResult
  <1>11. RefundsAreRequested'
    <2>1. \A a \in Activations : outbox'[CompensationKey(a)] = outbox[CompensationKey(a)]
      BY <1>3, OperationKeys
    <2>2. s \in Activations => outbox[CompensationKey(s)].status = "ABSENT"
      BY <1>1, OperationKeys
    <2> QED BY <1>2, <2>1, <2>2, OperationKeys DEF Evidence, RefundsAreRequested
  <1>12. InForceIsBound'
    BY <1>5 DEF Binding, InForceIsBound
  <1>13. BindingSagasCompleted'
    <2>1. \A d \in Contracts : s \in Activations => ~Binds(d, s)
      BY <1>1 DEF Binding, BindingSagasCompleted
    <2> QED
      BY <1>2, <1>5, <2>1, OperationKeys DEF Binding, BindingSagasCompleted, Binds
  <1>14. RefundsArePermanent'
    BY <1>2, <1>4, <1>5, OperationKeys DEF Binding, RefundsArePermanent, Bound, Binds
  <1> QED
    BY <1>7, <1>8, <1>9, <1>10, <1>11, <1>12, <1>13, <1>14 DEF Evidence, Binding

LEMMA ActivationCommitSafety ==
    ASSUME TypeInv, Evidence, Binding, NEW a \in Activations, CommitContractActivation(a)
    PROVE  Evidence' /\ Binding'
  <1> DEFINE d == saga[a].contract
  <1>0. /\ saga \in [Sagas -> Snapshots]
        /\ contract \in [Contracts -> ContractRows]
        /\ a \in Sagas
    BY OperationKeys DEF TypeInv, TypeOK, EngineTypeOK, ContractsTypeOK
  <1>1. /\ saga[a].state = "REMOTE_SUCCEEDED"
        /\ saga[a].primaryResult.status = "SUCCEEDED"
        /\ ~saga[a].compensationKey
    BY DEF CommitContractActivation, LocalCommitAllowed, Binding, RefundsArePermanent
  <1>2. /\ saga'[a] = [saga[a] EXCEPT !.state = "COMPLETED"]
        /\ \A t \in Sagas \ {a} : saga'[t] = saga[t]
    BY <1>0 DEF CommitContractActivation, MarkLocalTransitionCommitted
  <1>3. /\ saga'[a].state = "COMPLETED"
        /\ saga'[a].contract = d
        /\ saga'[a].version = saga[a].version
        /\ saga'[a].primaryResult = saga[a].primaryResult
        /\ saga'[a].compensationResult = saga[a].compensationResult
        /\ saga'[a].compensationKey = saga[a].compensationKey
    BY <1>0, <1>2, SnapshotFields
  <1>4. UNCHANGED <<outbox, inbox, kb, inflight, pc, job>>
    BY DEF CommitContractActivation, authority
  <1>5. /\ \A c \in Contracts \ {d} : contract'[c] = contract[c]
        /\ d \in Contracts => /\ contract'[d].status = "ACTIVE"
                              /\ contract'[d].escrow = a
                              /\ contract'[d].accepted = contract[d].accepted
                              /\ contract'[d].version = contract[d].version
    BY <1>0 DEF CommitContractActivation, ContractRows
  <1>6. d \in Contracts => /\ contract[d].status = "PROPOSED"
                          /\ contract[d].version = saga[a].version
                          /\ contract[d].accepted = Parties
    BY DEF CommitContractActivation, Eligible
  <1>7. Evidence'
    <2>1. RowsComeFirst' /\ SuccessesHappened'
      BY <1>4 DEF Evidence, RowsComeFirst, SuccessesHappened
    <2>2. UnpreparedIsBlank'
      <3>1. \A s \in Sagas : saga'[s].state = "ABSENT" => s # a /\ saga'[s] = saga[s]
        BY <1>2, <1>3
      <3> QED BY <1>4, <3>1, OperationKeys DEF Evidence, UnpreparedIsBlank
    <2>3. SnapshotMirrorsInbox'
      BY <1>2, <1>3, <1>4, OperationKeys DEF Evidence, SnapshotMirrorsInbox, ObservedResult
    <2>4. RefundsAreRequested'
      BY <1>2, <1>3, <1>4, OperationKeys DEF Evidence, RefundsAreRequested
    <2> QED BY <2>1, <2>2, <2>3, <2>4 DEF Evidence
  <1>8. InForceIsBound'
    BY <1>5, <1>6 DEF Binding, InForceIsBound, InForce
  <1>9. \A c \in Contracts, b \in Activations : Binds(c, b)' =>
           (c = d /\ b = a) \/ (c # d /\ b # a /\ Binds(c, b))
    <2>1. \A c \in Contracts : ~Binds(c, a)
      BY <1>1 DEF Binding, BindingSagasCompleted
    <2> QED BY <1>5, <2>1 DEF Binds
  <1>10. BindingSagasCompleted'
    <2> SUFFICES ASSUME NEW c \in Contracts, NEW b \in Activations, Binds(c, b)'
                 PROVE  /\ saga'[b].contract = c
                        /\ saga'[b].version = contract'[c].version
                        /\ saga'[b].state \in {"COMPLETED", "RECONCILIATION_REQUIRED"}
                        /\ saga'[b].primaryResult.status = "SUCCEEDED"
      BY DEF BindingSagasCompleted
    <2>1. CASE c = d /\ b = a
      BY <1>1, <1>3, <1>5, <1>6, <2>1
    <2>2. CASE c # d /\ b # a /\ Binds(c, b)
      BY <1>2, <1>5, <2>2, OperationKeys DEF Binding, BindingSagasCompleted
    <2> QED BY <1>9, <2>1, <2>2
  <1>11. RefundsArePermanent'
    <2> SUFFICES ASSUME NEW b \in Activations, saga'[b].compensationKey
                 PROVE  /\ saga'[b].state
                              \in {"COMPENSATION_PENDING", "COMPENSATED",
                                  "RECONCILIATION_REQUIRED"}
                        /\ saga'[b].primaryResult.status = "SUCCEEDED"
                        /\ ~Bound(b)'
      BY DEF RefundsArePermanent
    <2>1. b # a
      BY <1>1, <1>3
    <2>2. saga'[b] = saga[b]
      BY <1>2, <2>1, OperationKeys
    <2>3. /\ saga[b].state
               \in {"COMPENSATION_PENDING", "COMPENSATED", "RECONCILIATION_REQUIRED"}
          /\ saga[b].primaryResult.status = "SUCCEEDED"
          /\ ~Bound(b)
      BY <2>2 DEF Binding, RefundsArePermanent
    <2>4. ~Bound(b)'
      BY <1>9, <2>1, <2>3 DEF Bound
    <2> QED BY <2>2, <2>3, <2>4
  <1> QED BY <1>7, <1>8, <1>10, <1>11 DEF Binding

LEMMA CompensationSafety ==
    ASSUME TypeInv, Evidence, Binding, NEW a \in Activations, QueueActivationCompensation(a)
    PROVE  Evidence' /\ Binding'
  <1>0. /\ saga \in [Sagas -> Snapshots]
        /\ outbox \in [Ops -> OutboxRows]
        /\ a \in Sagas
    BY OperationKeys DEF TypeInv, TypeOK, EngineTypeOK
  <1>1. /\ saga[a].state = "REMOTE_SUCCEEDED"
        /\ saga[a].primaryResult.status = "SUCCEEDED"
    BY DEF QueueActivationCompensation, LocalCommitAllowed
  <1>2. /\ \A t \in Sagas \ {a} : saga'[t] = saga[t]
        /\ saga'[a].state = "COMPENSATION_PENDING"
        /\ saga'[a].compensationKey = TRUE
        /\ saga'[a].contract = saga[a].contract
        /\ saga'[a].version = saga[a].version
        /\ saga'[a].primaryResult = saga[a].primaryResult
        /\ saga'[a].compensationResult = saga[a].compensationResult
    <2>1. /\ saga'[a] = RequestActivationCompensation(saga[a])
          /\ \A t \in Sagas \ {a} : saga'[t] = saga[t]
      BY <1>0 DEF QueueActivationCompensation
    <2>2. saga[a] \in Snapshots
      BY <1>0
    <2> QED BY <2>1, <2>2 DEF RequestActivationCompensation, Snapshots
  <1>3. /\ outbox'[CompensationKey(a)].status # "ABSENT"
        /\ \A op \in Ops \ {CompensationKey(a)} : outbox'[op] = outbox[op]
    BY <1>0, OperationKeys DEF QueueActivationCompensation, NewRow, NoRow
  <1>4. UNCHANGED <<contract, inbox, kb, inflight, pc, job>>
    BY DEF QueueActivationCompensation, authority
  <1>5. Evidence'
    <2>1. RowsComeFirst' /\ SuccessesHappened'
      BY <1>3, <1>4 DEF Evidence, RowsComeFirst, SuccessesHappened
    <2>2. UnpreparedIsBlank'
      <3>1. \A s \in Sagas : saga'[s].state = "ABSENT" => s # a /\ saga'[s] = saga[s]
        BY <1>2
      <3> QED BY <1>3, <3>1, OperationKeys DEF Evidence, UnpreparedIsBlank
    <2>3. SnapshotMirrorsInbox'
      BY <1>2, <1>4, OperationKeys DEF Evidence, SnapshotMirrorsInbox, ObservedResult
    <2>4. RefundsAreRequested'
      BY <1>2, <1>3, OperationKeys DEF Evidence, RefundsAreRequested
    <2> QED BY <2>1, <2>2, <2>3, <2>4 DEF Evidence
  <1>6. InForceIsBound'
    BY <1>4 DEF Binding, InForceIsBound
  <1>7. \A c \in Contracts : ~Binds(c, a)
    BY <1>1 DEF Binding, BindingSagasCompleted
  <1>8. BindingSagasCompleted'
    BY <1>2, <1>4, <1>7, OperationKeys DEF Binding, BindingSagasCompleted, Binds
  <1>9. RefundsArePermanent'
    BY <1>1, <1>2, <1>4, <1>7, OperationKeys DEF Binding, RefundsArePermanent, Bound, Binds
  <1> QED BY <1>5, <1>6, <1>8, <1>9 DEF Binding

LEMMA SettlementCommitSafety ==
    ASSUME TypeInv, Evidence, Binding, NEW s \in Settlements, CommitContractSettlement(s)
    PROVE  Evidence' /\ Binding'
  <1> DEFINE d == saga[s].contract
  <1>0. /\ saga \in [Sagas -> Snapshots]
        /\ contract \in [Contracts -> ContractRows]
        /\ s \in Sagas /\ s \notin Activations
    BY OperationKeys DEF TypeInv, TypeOK, EngineTypeOK, ContractsTypeOK
  <1>1. /\ saga'[s] = [saga[s] EXCEPT !.state = "COMPLETED"]
        /\ \A t \in Sagas \ {s} : saga'[t] = saga[t]
    BY <1>0 DEF CommitContractSettlement, MarkLocalTransitionCommitted
  <1>2. /\ saga'[s].state = "COMPLETED"
        /\ saga'[s].primaryResult = saga[s].primaryResult
        /\ saga'[s].compensationResult = saga[s].compensationResult
    BY <1>0, <1>1, SnapshotFields
  <1>3. saga[s].state = "REMOTE_SUCCEEDED"
    BY DEF CommitContractSettlement, LocalCommitAllowed
  <1>4. UNCHANGED <<outbox, inbox, kb, inflight, pc, job>>
    BY DEF CommitContractSettlement, authority
  <1>5. /\ \A c \in Contracts \ {d} : contract'[c] = contract[c]
        /\ d \in Contracts => /\ contract'[d].status = "SETTLED"
                              /\ contract[d].status \in {"SUBMITTED", "DISPUTED"}
                              /\ contract'[d].escrow = contract[d].escrow
                              /\ contract'[d].accepted = contract[d].accepted
                              /\ contract'[d].version = contract[d].version
    BY <1>0 DEF CommitContractSettlement, ContractRows, Settleable
  <1>6. Evidence'
    <2>1. RowsComeFirst' /\ SuccessesHappened'
      BY <1>4 DEF Evidence, RowsComeFirst, SuccessesHappened
    <2>2. UnpreparedIsBlank'
      <3>1. \A t \in Sagas : saga'[t].state = "ABSENT" => t # s /\ saga'[t] = saga[t]
        BY <1>1, <1>2
      <3> QED BY <1>4, <3>1, OperationKeys DEF Evidence, UnpreparedIsBlank
    <2>3. SnapshotMirrorsInbox'
      BY <1>1, <1>2, <1>4, OperationKeys DEF Evidence, SnapshotMirrorsInbox, ObservedResult
    <2>4. RefundsAreRequested'
      BY <1>0, <1>1, <1>4, OperationKeys DEF Evidence, RefundsAreRequested
    <2> QED BY <2>1, <2>2, <2>3, <2>4 DEF Evidence
  <1>7. InForceIsBound'
    BY <1>5 DEF Binding, InForceIsBound, InForce
  <1>8. \A a \in Activations : saga'[a] = saga[a]
    BY <1>0, <1>1, OperationKeys
  <1>9. \A c \in Contracts : /\ contract'[c].escrow = contract[c].escrow
                             /\ contract'[c].version = contract[c].version
    BY <1>5
  <1>10. BindingSagasCompleted' /\ RefundsArePermanent'
    BY <1>8, <1>9 DEF Binding, BindingSagasCompleted, RefundsArePermanent, Bound, Binds
  <1> QED BY <1>6, <1>7, <1>10 DEF Binding

LEMMA CoordinationSafety ==
    ASSUME TypeInv, Evidence, Binding, Prepare \/ Commit
    PROVE  Evidence' /\ Binding'
  <1>1. ASSUME NEW c \in Contracts, NEW a \in Activations, PrepareContractActivation(c, a)
        PROVE  Evidence' /\ Binding'
    BY <1>1, PrepareSafety, OperationKeys DEF PrepareContractActivation
  <1>2. ASSUME NEW c \in Contracts, NEW s \in Settlements, PrepareContractSettlement(c, s)
        PROVE  Evidence' /\ Binding'
    BY <1>2, PrepareSafety, OperationKeys DEF PrepareContractSettlement
  <1> QED
    BY <1>1, <1>2, ActivationCommitSafety, CompensationSafety, SettlementCommitSafety
    DEF Prepare, Commit

-----------------------------------------------------------------------------
(* The workers and the authority.                                          *)

(* What recording a result may do to the three tables: at most the rows of *)
(* its own operation and Saga change, the inbox only once, and a result of *)
(* one operation never touches the result of the other.                    *)
LEMMA RecordingEvidence ==
    ASSUME TypeInv, Evidence, NEW op \in Ops, NEW r \in Results,
           outbox[op].status # "ABSENT",
           RecordSagaFinancialResult(op, r)
    PROVE  /\ \A k \in Ops : outbox'[k].status = "ABSENT" <=> outbox[k].status = "ABSENT"
           /\ \A k \in Ops : \/ inbox'[k] = inbox[k]
                             \/ k = op /\ inbox[op] = NoResult /\ inbox'[op] = r
           /\ \A k \in Ops : ObservedResult(saga'[SagaOf(k)], k) = inbox'[k]
           /\ \A s \in Sagas :
                 \/ saga'[s] = saga[s]
                 \/ /\ s = SagaOf(op)
                    /\ saga'[s].state # "ABSENT"
                    /\ saga'[s].contract = saga[s].contract
                    /\ saga'[s].version = saga[s].version
                    /\ saga'[s].compensationKey = saga[s].compensationKey
                    /\ \/ /\ saga'[s].state = "RECONCILIATION_REQUIRED"
                          /\ saga'[s].primaryResult = saga[s].primaryResult
                       \/ op = PrimaryKey(s) /\ saga[s].primaryResult = NoResult
                       \/ /\ op = CompensationKey(s)
                          /\ saga'[s].state \in {"COMPENSATED", "RECONCILIATION_REQUIRED"}
                          /\ saga'[s].primaryResult = saga[s].primaryResult
  <1> DEFINE s == SagaOf(op)
  <1>0. /\ saga \in [Sagas -> Snapshots]
        /\ outbox \in [Ops -> OutboxRows]
        /\ inbox \in [Ops -> Results \cup {NoResult}]
        /\ s \in Sagas
        /\ \A k \in Ops : ObservedResult(saga[SagaOf(k)], k) = inbox[k]
    BY OperationKeys DEF TypeInv, TypeOK, EngineTypeOK, Evidence, SnapshotMirrorsInbox
  <1>1. CASE RecordDuplicate(op, r)
    BY <1>0, <1>1 DEF RecordDuplicate, store
  <1>2. CASE RecordConflict(op, r)
    <2>1. CASE UNCHANGED store
      BY <1>0, <2>1 DEF store
    <2>2. CASE /\ saga' = [saga EXCEPT ![s].state = "RECONCILIATION_REQUIRED"]
               /\ outbox' = [outbox EXCEPT ![op].status = "RECONCILIATION_REQUIRED",
                                           ![op].owner = NoWorker]
               /\ UNCHANGED inbox
      <3>1. /\ saga'[s] = [saga[s] EXCEPT !.state = "RECONCILIATION_REQUIRED"]
            /\ \A t \in Sagas \ {s} : saga'[t] = saga[t]
        BY <1>0, <2>2
      <3>2. /\ saga'[s].state = "RECONCILIATION_REQUIRED"
            /\ saga'[s].contract = saga[s].contract
            /\ saga'[s].version = saga[s].version
            /\ saga'[s].compensationKey = saga[s].compensationKey
            /\ saga'[s].primaryResult = saga[s].primaryResult
            /\ saga'[s].compensationResult = saga[s].compensationResult
        BY <1>0, <3>1, SnapshotFields
      <3>3. \A k \in Ops : outbox'[k].status = "ABSENT" <=> outbox[k].status = "ABSENT"
        BY <1>0, <2>2 DEF OutboxRows
      <3>4. \A k \in Ops : ObservedResult(saga'[SagaOf(k)], k) = inbox'[k]
        BY <1>0, <2>2, <3>1, <3>2, OperationKeys DEF ObservedResult
      <3> QED BY <2>2, <3>1, <3>2, <3>3, <3>4
    <2> QED BY <1>2, <2>1, <2>2 DEF RecordConflict
  <1>3. CASE RecordFirstResult(op, r)
    <2> DEFINE g == Thaw(saga[s], op)
    <2>1. /\ g \in Snapshots
          /\ g.contract = saga[s].contract
          /\ g.version = saga[s].version
          /\ g.compensationKey = saga[s].compensationKey
          /\ g.primaryResult = saga[s].primaryResult
          /\ g.compensationResult = saga[s].compensationResult
      <3>1. saga[s] \in Snapshots
        BY <1>0
      <3> QED BY <3>1, SnapshotFields, ObservedSnapshots DEF Thaw
    <2>2. /\ inbox[op] = NoResult
          /\ inbox' = [inbox EXCEPT ![op] = r]
          /\ saga' = [saga EXCEPT ![s] = ObserveFinancialResult(g, op, r)]
          /\ outbox' = [outbox EXCEPT ![op].status = "DELIVERED", ![op].owner = NoWorker]
      BY <1>3 DEF RecordFirstResult
    <2>3. /\ saga'[s] = ObserveFinancialResult(g, op, r)
          /\ \A t \in Sagas \ {s} : saga'[t] = saga[t]
      BY <1>0, <2>2
    <2>4. /\ saga'[s].state # "ABSENT"
          /\ saga'[s].contract = g.contract
          /\ saga'[s].version = g.version
          /\ saga'[s].compensationKey = g.compensationKey
          /\ IF op = PrimaryKey(s)
             THEN /\ saga'[s].primaryResult = r
                  /\ saga'[s].compensationResult = g.compensationResult
             ELSE /\ saga'[s].primaryResult = g.primaryResult
                  /\ saga'[s].compensationResult = r
                  /\ saga'[s].state \in {"COMPENSATED", "RECONCILIATION_REQUIRED"}
      BY <2>1, <2>3
      DEF ObserveFinancialResult, ObservePrimary, ObserveCompensation, Snapshots
    <2>5. op = PrimaryKey(s) => saga[s].primaryResult = NoResult
      BY <1>0, <2>2 DEF ObservedResult
    <2>6. op # PrimaryKey(s) => op = CompensationKey(s)
      BY OperationKeys
    <2>7. \A k \in Ops : outbox'[k].status = "ABSENT" <=> outbox[k].status = "ABSENT"
      BY <1>0, <2>2 DEF OutboxRows
    <2>8. \A k \in Ops : IF k = op THEN inbox'[k] = r ELSE inbox'[k] = inbox[k]
      BY <1>0, <2>2
    <2>9. \A k \in Ops : ObservedResult(saga'[SagaOf(k)], k) = inbox'[k]
      BY <1>0, <2>1, <2>3, <2>4, <2>8, OperationKeys DEF ObservedResult
    <2>10. /\ saga'[s].contract = saga[s].contract
           /\ saga'[s].version = saga[s].version
           /\ saga'[s].compensationKey = saga[s].compensationKey
           /\ \/ op = PrimaryKey(s) /\ saga[s].primaryResult = NoResult
              \/ /\ op = CompensationKey(s)
                 /\ saga'[s].state \in {"COMPENSATED", "RECONCILIATION_REQUIRED"}
                 /\ saga'[s].primaryResult = saga[s].primaryResult
      BY <2>1, <2>4, <2>5, <2>6
    <2>11. \A k \in Ops : \/ inbox'[k] = inbox[k]
                          \/ k = op /\ inbox[op] = NoResult /\ inbox'[op] = r
      BY <2>2, <2>8
    <2> HIDE DEF s, g
    <2> QED BY <2>3, <2>4, <2>7, <2>9, <2>10, <2>11 DEF s
  <1> QED BY <1>1, <1>2, <1>3 DEF RecordSagaFinancialResult

(* What a step of a worker or of the authority may do to the tables: it    *)
(* works only on operations that have a row, records only successes that   *)
(* happened, and touches the Saga of a known success only to freeze it or  *)
(* to take the result of its refund.                                       *)
SagaStepAllowed(s) ==
    \/ saga'[s] = saga[s]
    \/ /\ saga[s].state # "ABSENT"
       /\ saga'[s].state # "ABSENT"
       /\ saga'[s].contract = saga[s].contract
       /\ saga'[s].version = saga[s].version
       /\ saga'[s].compensationKey = saga[s].compensationKey
       /\ \/ saga[s].primaryResult = NoResult
          \/ /\ saga'[s].state = "RECONCILIATION_REQUIRED"
             /\ saga'[s].primaryResult = saga[s].primaryResult
          \/ /\ s \in Activations => outbox[CompensationKey(s)].status # "ABSENT"
             /\ saga'[s].state \in {"COMPENSATED", "RECONCILIATION_REQUIRED"}
             /\ saga'[s].primaryResult = saga[s].primaryResult

RowStepAllowed(op) ==
    /\ outbox'[op].status = "ABSENT" <=> outbox[op].status = "ABSENT"
    /\ \/ outbox[op].status # "ABSENT"
       \/ /\ inflight'[op] = inflight[op]
          /\ kb'[op] = kb[op]
          /\ inbox'[op] = inbox[op]
    /\ kb'[op] = kb[op] \/ kb[op] = "NONE"
    /\ \/ inbox'[op] = inbox[op]
       \/ /\ inbox[op] = NoResult
          /\ inbox'[op].status = "SUCCEEDED" => kb[op] = "SUCCEEDED"
    /\ ObservedResult(saga'[SagaOf(op)], op) = inbox'[op]

JobStepAllowed(w) ==
    pc'[w] # "idle" => \/ pc[w] # "idle" /\ job'[w] = job[w]
                       \/ outbox[job'[w]].status # "ABSENT"

EngineStepAllowed == /\ \A s \in Sagas : SagaStepAllowed(s)
                     /\ \A op \in Ops : RowStepAllowed(op)
                     /\ \A w \in Workers : JobStepAllowed(w)

LEMMA AllowedStepsAreSafe ==
    ASSUME TypeInv, Evidence, Binding, EngineStepAllowed, UNCHANGED contract
    PROVE  Evidence' /\ Binding'
  <1> USE DEF EngineStepAllowed
  <1>1. RowsComeFirst'
    BY DEF Evidence, RowsComeFirst, RowStepAllowed, JobStepAllowed
  <1>2. UnpreparedIsBlank'
    <2>1. \A s \in Sagas : saga'[s].state = "ABSENT" => saga'[s] = saga[s]
      BY DEF SagaStepAllowed
    <2> QED
      BY <2>1, OperationKeys DEF Evidence, UnpreparedIsBlank, RowStepAllowed
  <1>3. SuccessesHappened'
    <2> SUFFICES ASSUME NEW op \in Ops, inbox'[op].status = "SUCCEEDED"
                 PROVE  kb'[op] = "SUCCEEDED"
      BY DEF SuccessesHappened
    <2>1. kb[op] = "SUCCEEDED"
      BY DEF RowStepAllowed, Evidence, SuccessesHappened
    <2> QED BY <2>1 DEF RowStepAllowed
  <1>4. SnapshotMirrorsInbox'
    BY DEF SnapshotMirrorsInbox, RowStepAllowed
  <1>5. RefundsAreRequested'
    <2>1. \A a \in Activations : saga'[a].compensationKey = saga[a].compensationKey
      BY OperationKeys DEF SagaStepAllowed
    <2> QED
      BY <2>1, OperationKeys DEF Evidence, RefundsAreRequested, RowStepAllowed
  <1>6. InForceIsBound'
    BY DEF Binding, InForceIsBound
  <1>7. ASSUME NEW a \in Activations, saga[a].primaryResult.status = "SUCCEEDED"
        PROVE  /\ saga'[a].contract = saga[a].contract
               /\ saga'[a].version = saga[a].version
               /\ saga'[a].compensationKey = saga[a].compensationKey
               /\ saga'[a].primaryResult = saga[a].primaryResult
               /\ \/ saga'[a].state \in {saga[a].state, "RECONCILIATION_REQUIRED"}
                  \/ saga[a].compensationKey /\ saga'[a].state = "COMPENSATED"
    <2>1. SagaStepAllowed(a) /\ saga[a].primaryResult # NoResult
      BY <1>7, OperationKeys DEF NoResult
    <2>2. outbox[CompensationKey(a)].status # "ABSENT" => saga[a].compensationKey
      BY DEF Evidence, RefundsAreRequested
    <2> QED BY <2>1, <2>2 DEF SagaStepAllowed
  <1>8. BindingSagasCompleted'
    <2> SUFFICES ASSUME NEW c \in Contracts, NEW a \in Activations, Binds(c, a)'
                 PROVE  /\ saga'[a].contract = c
                        /\ saga'[a].version = contract'[c].version
                        /\ saga'[a].state \in {"COMPLETED", "RECONCILIATION_REQUIRED"}
                        /\ saga'[a].primaryResult.status = "SUCCEEDED"
      BY DEF BindingSagasCompleted
    <2>1. Binds(c, a) /\ contract'[c] = contract[c]
      BY DEF Binds
    <2>2. /\ saga[a].contract = c
          /\ saga[a].version = contract[c].version
          /\ saga[a].state \in {"COMPLETED", "RECONCILIATION_REQUIRED"}
          /\ saga[a].primaryResult.status = "SUCCEEDED"
      BY <2>1 DEF Binding, BindingSagasCompleted
    <2>3. ~saga[a].compensationKey
      BY <2>1 DEF Binding, RefundsArePermanent, Bound
    <2> QED BY <1>7, <2>1, <2>2, <2>3
  <1>9. RefundsArePermanent'
    <2> SUFFICES ASSUME NEW a \in Activations, saga'[a].compensationKey
                 PROVE  /\ saga'[a].state \in {"COMPENSATION_PENDING", "COMPENSATED",
                                                "RECONCILIATION_REQUIRED"}
                        /\ saga'[a].primaryResult.status = "SUCCEEDED"
                        /\ ~Bound(a)'
      BY DEF RefundsArePermanent
    <2>1. saga[a].compensationKey
      BY OperationKeys DEF SagaStepAllowed
    <2>2. /\ saga[a].state \in {"COMPENSATION_PENDING", "COMPENSATED", "RECONCILIATION_REQUIRED"}
          /\ saga[a].primaryResult.status = "SUCCEEDED"
          /\ ~Bound(a)
      BY <2>1 DEF Binding, RefundsArePermanent
    <2>3. ~Bound(a)'
      BY <2>2 DEF Bound, Binds
    <2> QED BY <1>7, <2>2, <2>3
  <1> QED
    BY <1>1, <1>2, <1>3, <1>4, <1>5, <1>6, <1>8, <1>9 DEF Evidence, Binding

(* A worker at work has a row, hence a prepared Saga.                      *)
LEMMA JobsHaveRows ==
    ASSUME TypeInv, Evidence, NEW w \in Workers, pc[w] # "idle"
    PROVE  /\ job[w] \in Ops
           /\ outbox[job[w]].status # "ABSENT"
           /\ SagaOf(job[w]) \in Sagas
           /\ saga[SagaOf(job[w])].state # "ABSENT"
  <1>1. job[w] \in Ops
    BY DEF TypeInv, WorkersHaveJobs
  <1>2. outbox[job[w]].status # "ABSENT"
    BY <1>1 DEF Evidence, RowsComeFirst
  <1> QED BY <1>1, <1>2, OperationKeys DEF Evidence, UnpreparedIsBlank

LEMMA FinishAllowed ==
    ASSUME TypeInv, NEW w \in Workers, Finish(w)
    PROVE  \A v \in Workers : JobStepAllowed(v)
  BY DEF TypeInv, TypeOK, EngineTypeOK, Finish, JobStepAllowed

LEMMA RecordingAllowed ==
    ASSUME TypeInv, Evidence, NEW w \in Workers, pc[w] # "idle", NEW r \in Results,
           RecordSagaFinancialResult(job[w], r),
           r.status = "SUCCEEDED" => kb[job[w]] = "SUCCEEDED",
           Finish(w), kb' = kb,
           \A k \in Ops : k # job[w] => inflight'[k] = inflight[k]
    PROVE  EngineStepAllowed
  <1>1. \A s \in Sagas : SagaStepAllowed(s)
    BY JobsHaveRows, RecordingEvidence, OperationKeys DEF SagaStepAllowed
  <1>2. \A op \in Ops : RowStepAllowed(op)
    BY JobsHaveRows, RecordingEvidence DEF RowStepAllowed
  <1> QED BY <1>1, <1>2, FinishAllowed DEF EngineStepAllowed

LEMMA FailureAllowed ==
    ASSUME TypeInv, Evidence, NEW w \in Workers, pc[w] # "idle",
           \/ RecordOutcomeUnknown(w, job[w])
           \/ RecordNoEffect(w, job[w])
           \/ DispatchFailureRefused(w, job[w]),
           Finish(w), kb' = kb,
           \A k \in Ops : k # job[w] => inflight'[k] = inflight[k]
    PROVE  EngineStepAllowed
  <1> DEFINE op == job[w]
             s == SagaOf(op)
  <1>0. /\ saga \in [Sagas -> Snapshots]
        /\ outbox \in [Ops -> OutboxRows]
        /\ \A k \in Ops : ObservedResult(saga[SagaOf(k)], k) = inbox[k]
        /\ op \in Ops /\ outbox[op].status # "ABSENT"
        /\ s \in Sagas /\ saga[s].state # "ABSENT"
    BY JobsHaveRows DEF TypeInv, TypeOK, EngineTypeOK, Evidence, SnapshotMirrorsInbox
  <1>1. /\ inbox' = inbox
        /\ \A k \in Ops : outbox'[k].status = "ABSENT" <=> outbox[k].status = "ABSENT"
    <2>1. ASSUME NEW x \in OutboxStates,
                 outbox' = [outbox EXCEPT ![op].status = x, ![op].owner = NoWorker]
          PROVE  \A k \in Ops : outbox'[k].status = "ABSENT" <=> outbox[k].status = "ABSENT"
      BY <1>0, <2>1 DEF OutboxRows, OutboxStates
    <2>2. CASE RecordOutcomeUnknown(w, op)
      BY <2>1, <2>2 DEF RecordOutcomeUnknown, OutboxStates
    <2>3. CASE RecordNoEffect(w, op)
      BY <2>1, <2>3 DEF RecordNoEffect, OutboxStates
    <2>4. CASE DispatchFailureRefused(w, op)
      BY <2>4 DEF DispatchFailureRefused, store
    <2> QED BY <2>2, <2>3, <2>4
  <1>2. \/ saga' = saga
        \/ saga' = [saga EXCEPT ![s].state = "RECONCILIATION_REQUIRED"]
    <2>1. CASE RecordOutcomeUnknown(w, op)
      <3>1. saga[s] \in Snapshots
        BY <1>0
      <3>2. [saga[s] EXCEPT !.state = saga[s].state] = saga[s]
        BY <3>1 DEF Snapshots
      <3>3. [saga EXCEPT ![s] = saga[s]] = saga
        BY <1>0
      <3> QED BY <2>1, <3>2, <3>3 DEF RecordOutcomeUnknown
    <2>2. CASE RecordNoEffect(w, op) \/ DispatchFailureRefused(w, op)
      BY <2>2 DEF RecordNoEffect, DispatchFailureRefused, store
    <2> QED BY <2>1, <2>2
  <1>3. \A t \in Sagas :
           \/ saga'[t] = saga[t]
           \/ t = s /\ saga'[t] = [saga[t] EXCEPT !.state = "RECONCILIATION_REQUIRED"]
    BY <1>0, <1>2
  <1>4. ASSUME NEW t \in Sagas
        PROVE  /\ SagaStepAllowed(t)
               /\ saga'[t].primaryResult = saga[t].primaryResult
               /\ saga'[t].compensationResult = saga[t].compensationResult
    <2>1. saga[t] \in Snapshots
      BY <1>0
    <2>2. CASE saga'[t] = saga[t]
      BY <2>2 DEF SagaStepAllowed
    <2>3. CASE t = s /\ saga'[t] = [saga[t] EXCEPT !.state = "RECONCILIATION_REQUIRED"]
      BY <1>0, <2>1, <2>3, SnapshotFields DEF SagaStepAllowed
    <2> QED BY <1>3, <2>2, <2>3
  <1>5. \A k \in Ops : RowStepAllowed(k)
    <2> SUFFICES ASSUME NEW k \in Ops PROVE RowStepAllowed(k)
      OBVIOUS
    <2>1. ObservedResult(saga'[SagaOf(k)], k) = inbox'[k]
      BY <1>0, <1>1, <1>4, OperationKeys DEF ObservedResult
    <2> QED BY <1>0, <1>1, <2>1 DEF RowStepAllowed
  <1> QED BY <1>4, <1>5, FinishAllowed DEF EngineStepAllowed

(* Steps that leave the tables alone.                                      *)
LEMMA QuietStepAllowed ==
    ASSUME TypeInv, Evidence, UNCHANGED <<saga, outbox, inbox, kb, inflight>>,
           \A w \in Workers : JobStepAllowed(w)
    PROVE  EngineStepAllowed
  BY DEF EngineStepAllowed, SagaStepAllowed, RowStepAllowed, Evidence, SnapshotMirrorsInbox

LEMMA BeginAllowed ==
    ASSUME TypeInv, NEW w \in Workers, NEW op \in Ops, NEW phase, Begin(w, phase, op),
           outbox[op].status # "ABSENT"
    PROVE  \A v \in Workers : JobStepAllowed(v)
  BY DEF TypeInv, TypeOK, EngineTypeOK, Begin, JobStepAllowed

LEMMA ReplayAllowedStep ==
    ASSUME TypeInv, Evidence, NEW w \in Workers, ReplayAfterNotFound(w)
    PROVE  EngineStepAllowed
  <1> DEFINE op == job[w]
             s == SagaOf(op)
  <1>0. /\ saga \in [Sagas -> Snapshots]
        /\ outbox \in [Ops -> OutboxRows]
        /\ \A k \in Ops : ObservedResult(saga[SagaOf(k)], k) = inbox[k]
        /\ op \in Ops /\ outbox[op].status # "ABSENT"
        /\ s \in Sagas /\ saga[s].state # "ABSENT"
    BY JobsHaveRows
    DEF TypeInv, TypeOK, EngineTypeOK, Evidence, SnapshotMirrorsInbox, ReplayAfterNotFound
  <1>1. /\ saga[s].primaryResult = NoResult
        /\ saga'[s] = [saga[s] EXCEPT !.state = AwaitingState(op)]
        /\ \A t \in Sagas \ {s} : saga'[t] = saga[t]
    BY <1>0 DEF ReplayAfterNotFound, ReplayAllowed
  <1>2. /\ saga'[s].state = AwaitingState(op)
        /\ saga'[s].contract = saga[s].contract
        /\ saga'[s].version = saga[s].version
        /\ saga'[s].compensationKey = saga[s].compensationKey
        /\ saga'[s].primaryResult = saga[s].primaryResult
        /\ saga'[s].compensationResult = saga[s].compensationResult
    BY <1>0, <1>1, SnapshotFields
  <1>3. \A t \in Sagas : SagaStepAllowed(t)
    BY <1>0, <1>1, <1>2 DEF SagaStepAllowed, AwaitingState
  <1>4. UNCHANGED <<inbox, kb, inflight>>
    BY DEF ReplayAfterNotFound, authority
  <1>5. \A k \in Ops : outbox'[k].status = "ABSENT" <=> outbox[k].status = "ABSENT"
    BY <1>0 DEF ReplayAfterNotFound, OutboxRows
  <1>6. \A k \in Ops : RowStepAllowed(k)
    <2> SUFFICES ASSUME NEW k \in Ops PROVE RowStepAllowed(k)
      OBVIOUS
    <2>1. /\ saga'[SagaOf(k)].primaryResult = saga[SagaOf(k)].primaryResult
          /\ saga'[SagaOf(k)].compensationResult = saga[SagaOf(k)].compensationResult
      BY <1>1, <1>2, OperationKeys
    <2>2. ObservedResult(saga'[SagaOf(k)], k) = inbox'[k]
      BY <1>0, <1>4, <2>1 DEF ObservedResult
    <2> QED BY <1>4, <1>5, <2>2 DEF RowStepAllowed
  <1>7. Finish(w)
    BY DEF ReplayAfterNotFound
  <1> QED BY <1>3, <1>6, <1>7, FinishAllowed DEF EngineStepAllowed

LEMMA WorkerStepAllowed ==
    ASSUME TypeInv, Evidence, NEW w \in Workers, WorkerStep(w)
    PROVE  EngineStepAllowed
  <1>0. kb \in [Ops -> {"NONE", "SUCCEEDED", "FAILED"}] /\ inflight \in [Ops -> Nat]
    BY DEF TypeInv, TypeOK, EngineTypeOK
  <1>1. ASSUME NEW op \in Ops, ClaimSagaOutbox(w, op)
        PROVE  EngineStepAllowed
    <2>1. outbox[op].status # "ABSENT"
      BY <1>1 DEF ClaimSagaOutbox, Claimable
    <2>2. \A k \in Ops : /\ outbox'[k].status = "ABSENT" <=> outbox[k].status = "ABSENT"
                         /\ k # op => inflight'[k] = inflight[k]
      BY <1>0, <1>1, <2>1 DEF ClaimSagaOutbox, TypeInv, TypeOK, EngineTypeOK
    <2>3. UNCHANGED <<saga, inbox, kb>> /\ Begin(w, "dispatching", op)
      BY <1>1 DEF ClaimSagaOutbox
    <2>4. \A k \in Ops : RowStepAllowed(k)
      BY <2>1, <2>2, <2>3 DEF RowStepAllowed, Evidence, SnapshotMirrorsInbox
    <2>5. \A s \in Sagas : SagaStepAllowed(s)
      BY <2>3 DEF SagaStepAllowed
    <2> QED BY <2>1, <2>3, <2>4, <2>5, BeginAllowed DEF EngineStepAllowed
  <1>2. ASSUME NEW op \in Ops, ReconcileClaim(w, op)
        PROVE  EngineStepAllowed
    <2>1. outbox[op].status # "ABSENT" /\ Begin(w, "reconciling", op)
      BY <1>2 DEF ReconcileClaim
    <2>2. UNCHANGED <<saga, outbox, inbox, kb, inflight>>
      BY <1>2 DEF ReconcileClaim, store, authority
    <2> QED BY <2>1, <2>2, BeginAllowed, QuietStepAllowed
  <1>3. CASE DispatchAnswered(w) \/ LookupFound(w)
    <2>1. pc[w] # "idle" /\ job[w] \in Ops
      BY <1>3 DEF DispatchAnswered, LookupFound, TypeInv, WorkersHaveJobs
    <2>2. PICK t \in Tags :
             RecordSagaFinancialResult(job[w], [status |-> kb[job[w]], tag |-> t])
      BY <1>3 DEF DispatchAnswered, LookupFound
    <2>3. [status |-> kb[job[w]], tag |-> t] \in Results
      BY <1>0, <1>3, <2>1 DEF DispatchAnswered, LookupFound, Results
    <2>4. Finish(w) /\ UNCHANGED <<kb, inflight>>
      BY <1>3 DEF DispatchAnswered, LookupFound, authority
    <2> QED BY <2>1, <2>2, <2>3, <2>4, RecordingAllowed
  <1>4. CASE DispatchRefused(w)
    <2>1. pc[w] # "idle" /\ job[w] \in Ops
      BY <1>4 DEF DispatchRefused, TypeInv, WorkersHaveJobs
    <2>2. PICK t \in Refusals : RecordSagaFinancialResult(job[w], [status |-> "FAILED", tag |-> t])
      BY <1>4 DEF DispatchRefused
    <2>3. [status |-> "FAILED", tag |-> t] \in Results
      BY DEF Results
    <2>4. /\ Finish(w) /\ kb' = kb
          /\ \A k \in Ops : k # job[w] => inflight'[k] = inflight[k]
      BY <1>0, <1>4 DEF DispatchRefused
    <2> QED BY <2>1, <2>2, <2>3, <2>4, RecordingAllowed
  <1>5. CASE DispatchRetryScheduled(w)
    <2>1. /\ pc[w] # "idle" /\ Finish(w) /\ kb' = kb
          /\ RecordNoEffect(w, job[w]) \/ DispatchFailureRefused(w, job[w])
          /\ \A k \in Ops : k # job[w] => inflight'[k] = inflight[k]
      BY <1>0, <1>5 DEF DispatchRetryScheduled
    <2> QED BY <2>1, FailureAllowed
  <1>6. CASE DispatchOutcomeUnknown(w)
    <2>1. /\ pc[w] # "idle" /\ Finish(w) /\ UNCHANGED <<kb, inflight>>
          /\ RecordOutcomeUnknown(w, job[w]) \/ DispatchFailureRefused(w, job[w])
      BY <1>6 DEF DispatchOutcomeUnknown, authority
    <2> QED BY <2>1, FailureAllowed
  <1>7. CASE LookupNotFound(w)
    <2>1. pc[w] # "idle" /\ Begin(w, "notFound", job[w])
      BY <1>7 DEF LookupNotFound
    <2>2. UNCHANGED <<saga, outbox, inbox, kb, inflight>>
      BY <1>7 DEF LookupNotFound, store, authority
    <2> QED BY <2>1, <2>2, JobsHaveRows, BeginAllowed, QuietStepAllowed
  <1>8. CASE ReplayAfterNotFound(w)
    BY <1>8, ReplayAllowedStep
  <1>9. CASE NoReplayAfterNotFound(w) \/ LookupInconclusive(w) \/ Crash(w)
    <2>1. Finish(w) /\ UNCHANGED <<saga, outbox, inbox, kb, inflight>>
      BY <1>9 DEF NoReplayAfterNotFound, LookupInconclusive, Crash, store, authority
    <2> QED BY <2>1, FinishAllowed, QuietStepAllowed
  <1> QED
    BY <1>1, <1>2, <1>3, <1>4, <1>5, <1>6, <1>7, <1>8, <1>9 DEF WorkerStep, WorkerReturns

LEMMA AuthorityStepAllowed ==
    ASSUME TypeInv, Evidence, NEW op \in Ops, KbExecute(op)
    PROVE  EngineStepAllowed
  <1>1. outbox[op].status # "ABSENT"
    BY DEF KbExecute, Evidence, RowsComeFirst
  <1>2. UNCHANGED <<saga, outbox, inbox, pc, job>>
    BY DEF KbExecute, store
  <1>3. /\ \A k \in Ops : k # op => kb'[k] = kb[k] /\ inflight'[k] = inflight[k]
        /\ kb[op] = "NONE"
    BY DEF KbExecute, TypeInv, TypeOK, EngineTypeOK
  <1>4. \A k \in Ops : RowStepAllowed(k)
    BY <1>1, <1>2, <1>3 DEF RowStepAllowed, Evidence, SnapshotMirrorsInbox
  <1>5. \A s \in Sagas : SagaStepAllowed(s)
    BY <1>2 DEF SagaStepAllowed
  <1>6. \A w \in Workers : JobStepAllowed(w)
    BY <1>2 DEF JobStepAllowed
  <1> QED BY <1>4, <1>5, <1>6 DEF EngineStepAllowed

-----------------------------------------------------------------------------
LEMMA EngineStepsAllowed ==
    ASSUME TypeInv, Evidence, EngineStep \/ UNCHANGED engine
    PROVE  EngineStepAllowed
  <1>1. CASE EngineStep
    BY <1>1, WorkerStepAllowed, AuthorityStepAllowed DEF EngineStep
  <1>2. CASE UNCHANGED engine
    BY <1>2, QuietStepAllowed DEF JobStepAllowed, engine, store, authority
  <1> QED BY <1>1, <1>2

LEMMA SafetyInvInductive == SafetyInv /\ [Next]_vars => SafetyInv'
  <1> SUFFICES ASSUME TypeInv, Evidence, Binding, [Next]_vars
               PROVE  Evidence' /\ Binding'
    BY TypeInvInductive DEF SafetyInv
  <1>1. CASE Lifecycle
    BY <1>1, LifecycleSafety
  <1>2. CASE Prepare \/ Commit
    BY <1>2, CoordinationSafety
  <1>3. CASE (EngineStep \/ UNCHANGED engine) /\ UNCHANGED contract
    BY <1>3, EngineStepsAllowed, AllowedStepsAreSafe
  <1> QED BY <1>1, <1>2, <1>3 DEF Next, vars

LEMMA SafetyInvHolds == Spec => []SafetyInv
  BY InitialSafety, SafetyInvInductive, PTL DEF Spec

(* A contract in force is backed by an escrow the Knowledge Ball funded    *)
(* and did not refund, whatever crashes, replays and races the activation  *)
(* went through.                                                           *)
THEOREM InForceIsFunded == Spec => []ActiveOnlyIfFunded
  <1>1. SafetyInv => ActiveOnlyIfFunded
    <2> SUFFICES ASSUME SafetyInv, NEW c \in Contracts, contract[c].status \in InForce
                 PROVE  /\ contract[c].escrow \in Activations
                        /\ Funded(contract[c].escrow)
                        /\ ~Released(contract[c].escrow)
      BY DEF ActiveOnlyIfFunded
    <2> DEFINE a == contract[c].escrow
    <2>1. a \in Activations
      BY DEF SafetyInv, Binding, InForceIsBound
    <2>2. saga[a].primaryResult.status = "SUCCEEDED"
      BY <2>1 DEF SafetyInv, Binding, BindingSagasCompleted, Binds
    <2>3. inbox[PrimaryKey(a)].status = "SUCCEEDED"
      BY <2>1, <2>2, OperationKeys
      DEF SafetyInv, Evidence, SnapshotMirrorsInbox, ObservedResult
    <2>4. Funded(a)
      BY <2>1, <2>3, OperationKeys DEF SafetyInv, Evidence, SuccessesHappened, Funded
    <2>5. ~saga[a].compensationKey
      BY <2>1 DEF SafetyInv, Binding, RefundsArePermanent, Bound, Binds
    <2>6. ~Released(a)
      BY <2>1, <2>5, OperationKeys
      DEF SafetyInv, Evidence, RefundsAreRequested, RowsComeFirst, Released
    <2> QED BY <2>1, <2>4, <2>6
  <1> QED BY <1>1, SafetyInvHolds, PTL

(* From the moment a refund is queued its escrow binds no contract.        *)
THEOREM RefundsAreForOrphans == Spec => []OnlyOrphansAreRefunded
  <1>1. SafetyInv => OnlyOrphansAreRefunded
    <2> SUFFICES ASSUME SafetyInv, NEW a \in Activations,
                        \/ outbox[CompensationKey(a)].status # "ABSENT"
                        \/ kb[CompensationKey(a)] # "NONE"
                 PROVE  /\ saga[a].compensationKey
                        /\ saga[a].primaryResult.status = "SUCCEEDED"
                        /\ ~Bound(a)
      BY DEF OnlyOrphansAreRefunded
    <2>1. saga[a].compensationKey
      BY OperationKeys DEF SafetyInv, Evidence, RefundsAreRequested, RowsComeFirst
    <2> QED BY <2>1 DEF SafetyInv, Binding, RefundsArePermanent
  <1> QED BY <1>1, SafetyInvHolds, PTL

(* The version in force is the accepted one and the one that was funded.   *)
THEOREM AcceptedVersionIsBound == Spec => []ActiveBindsAcceptedVersion
  <1>1. SafetyInv => ActiveBindsAcceptedVersion
    BY DEF SafetyInv, Binding, InForceIsBound, BindingSagasCompleted, Binds,
       ActiveBindsAcceptedVersion
  <1> QED BY <1>1, SafetyInvHolds, PTL

(* A recorded result is never replaced, however often the operation is     *)
(* sent again, looked up or reported differently.                          *)
THEOREM RecordedResultsAreFinal == Spec => ResultsAreFinal
  <1>1. ASSUME TypeInv, Evidence, [Next]_vars
        PROVE  \A op \in Ops : inbox[op] # NoResult => inbox'[op] = inbox[op]
    <2>1. CASE EngineStep \/ UNCHANGED engine
      BY <1>1, <2>1, EngineStepsAllowed DEF EngineStepAllowed, RowStepAllowed
    <2>2. CASE Prepare \/ Commit
      BY <2>2 DEF Prepare, Commit, PrepareContractActivation, PrepareContractSettlement,
         CommitContractActivation, QueueActivationCompensation, CommitContractSettlement
    <2> QED BY <1>1, <2>1, <2>2 DEF Next, Lifecycle, vars
  <1>2. SafetyInv /\ [Next]_vars =>
           [\A op \in Ops : inbox[op] # NoResult => inbox'[op] = inbox[op]]_vars
    BY <1>1 DEF SafetyInv
  <1> QED BY <1>2, SafetyInvHolds, PTL DEF Spec, ResultsAreFinal
=============================================================================
