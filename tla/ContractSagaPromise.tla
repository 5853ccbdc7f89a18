------------------------- MODULE ContractSagaPromise ------------------------
(***************************************************************************)
(* The contract Saga implements EscrowPromise: every transaction, answer   *)
(* and crash is one step of the promise or none, for every number of       *)
(* contracts, attempts, workers and adverse events.                        *)
(***************************************************************************)
EXTENDS ContractSagaRecovery

-----------------------------------------------------------------------------
(* An activation names the escrow it funds.                                *)
OwnEscrow == \A a \in Activations : saga[a].state # "ABSENT" => saga[a].escrow = a

LEMMA OwnEscrowInductive == RecoveryInv /\ OwnEscrow /\ [Next]_vars => OwnEscrow'
  <1> SUFFICES ASSUME RecoveryInv, OwnEscrow, [Next]_vars PROVE OwnEscrow'
    OBVIOUS
  <1>0. saga \in [Sagas -> Snapshots] /\ Activations \subseteq Sagas
    BY DEF RecoveryInv, SafetyInv, TypeInv, TypeOK, EngineTypeOK, Sagas
  <1>1. ASSUME NEW c \in Contracts, NEW a \in Activations, PrepareContractActivation(c, a)
        PROVE  OwnEscrow'
    BY <1>0, <1>1
    DEF OwnEscrow, PrepareContractActivation, PrepareSagaIntent, CreateSaga, NoSaga
  <1>2. ASSUME NEW c \in Contracts, NEW s \in Settlements, PrepareContractSettlement(c, s)
        PROVE  OwnEscrow'
    BY <1>0, <1>2, OperationKeys DEF OwnEscrow, PrepareContractSettlement, PrepareSagaIntent
  <1>3. ASSUME NEW s \in Sagas, saga[s].state # "ABSENT", saga'[s].escrow = saga[s].escrow,
               \A t \in Sagas \ {s} : saga'[t] = saga[t]
        PROVE  OwnEscrow'
    BY <1>0, <1>3 DEF OwnEscrow
  <1>4. ASSUME NEW a \in Activations,
               CommitContractActivation(a) \/ QueueActivationCompensation(a)
        PROVE  OwnEscrow'
    <2>1. saga[a].state # "ABSENT" /\ \A t \in Sagas \ {a} : saga'[t] = saga[t]
      BY <1>0, <1>4
      DEF CommitContractActivation, QueueActivationCompensation, LocalCommitAllowed
    <2>2. saga'[a].escrow = saga[a].escrow
      BY <1>0, <1>4
      DEF CommitContractActivation, QueueActivationCompensation, Snapshots,
          MarkLocalTransitionCommitted, RequestActivationCompensation
    <2> QED BY <1>0, <1>3, <2>1, <2>2
  <1>5. ASSUME NEW s \in Settlements, CommitContractSettlement(s)
        PROVE  OwnEscrow'
    BY <1>0, <1>5, OperationKeys DEF OwnEscrow, CommitContractSettlement
  <1>6. CASE saga' = saga
    BY <1>6 DEF OwnEscrow
  <1>7. CASE EngineMoves
    BY <1>3, <1>6, <1>7 DEF EngineMoves, SagaMoves
  <1>8. CASE EngineStep \/ UNCHANGED engine
    BY <1>7, <1>8, EngineStepMoves DEF RecoveryInv, SafetyInv
  <1> QED
    BY <1>1, <1>2, <1>4, <1>5, <1>8 DEF Next, Lifecycle, Prepare, Commit, vars

PromiseInv == RecoveryInv /\ OwnEscrow

LEMMA PromiseInvHolds == Spec => []PromiseInv
  <1>1. Init => OwnEscrow
    <2> SUFFICES ASSUME Init PROVE OwnEscrow
      OBVIOUS
    <2>1. \A s \in Sagas : saga[s].state = "ABSENT"
      BY DEF Init, EngineInit, NoSaga
    <2> QED BY <2>1, OperationKeys DEF OwnEscrow
  <1> QED
    BY <1>1, OwnEscrowInductive, RecoveryInvHolds, PTL DEF Spec, PromiseInv

-----------------------------------------------------------------------------
(* Where the money of an escrow is.                                        *)

(* What was never prepared never happened.                                 *)
LEMMA UnpreparedDidNothing ==
    ASSUME RecoveryInv, NEW op \in Ops, kb[op] # "NONE"
    PROVE  outbox[op].status # "ABSENT" /\ saga[SagaOf(op)].state # "ABSENT"
  BY DEF RecoveryInv, SafetyInv, Evidence, RowsComeFirst, UnpreparedIsBlank

(* A refund, or a distribution, is of an escrow that was funded.           *)
LEMMA OnlyFundedIsSpent ==
    ASSUME RecoveryInv
    PROVE  /\ \A a \in Activations : kb[CompensationKey(a)] # "NONE" => Funded(a) /\ ~Bound(a)
           /\ \A c \in Contracts, a \in Activations : Binds(c, a) => Funded(a) /\ ~Released(a)
           /\ \A s \in Settlements : saga[s].state # "ABSENT" =>
                 /\ saga[s].contract \in Contracts
                 /\ Binds(saga[s].contract, saga[s].escrow)
                 /\ saga[s].escrow \in Activations
  <1>1. \A a \in Activations : saga[a].primaryResult.status = "SUCCEEDED" => Funded(a)
    <2> SUFFICES ASSUME NEW a \in Activations, saga[a].primaryResult.status = "SUCCEEDED"
                 PROVE  Funded(a)
      OBVIOUS
    <2>1. ObservedResult(saga[SagaOf(PrimaryKey(a))], PrimaryKey(a)).status = "SUCCEEDED"
      BY OperationKeys DEF ObservedResult
    <2> QED BY <2>1, HeldResultsHappened, OperationKeys DEF Funded
  <1>2. ASSUME NEW a \in Activations, kb[CompensationKey(a)] # "NONE"
        PROVE  Funded(a) /\ ~Bound(a)
    <2>1. saga[a].compensationKey
      BY <1>2, UnpreparedDidNothing, OperationKeys
      DEF RecoveryInv, SafetyInv, Evidence, RefundsAreRequested
    <2> QED BY <1>1, <2>1 DEF RecoveryInv, SafetyInv, Binding, RefundsArePermanent
  <1>3. ASSUME NEW c \in Contracts, NEW a \in Activations, Binds(c, a)
        PROVE  Funded(a) /\ ~Released(a)
    BY <1>1, <1>2, <1>3
    DEF RecoveryInv, SafetyInv, Binding, BindingSagasCompleted, Bound, Released
  <1>4. ASSUME NEW s \in Settlements, saga[s].state # "ABSENT"
        PROVE  /\ saga[s].contract \in Contracts
               /\ Binds(saga[s].contract, saga[s].escrow)
               /\ saga[s].escrow \in Activations
    <2>1. saga[s].contract \in Contracts
      BY <1>4, OperationKeys DEF RecoveryInv, Closure, SagasHaveContracts
    <2>2. /\ Decided(contract[saga[s].contract])
          /\ saga[s].escrow = contract[saga[s].contract].escrow
      BY <1>4 DEF RecoveryInv, Closure, SettlementsAreDecided
    <2> QED
      BY <2>1, <2>2
      DEF Binds, Decided, RecoveryInv, SafetyInv, Binding, InForceIsBound, InForce
  <1> QED BY <1>2, <1>3, <1>4

(* The money is where it was as long as the authority's outcomes and the   *)
(* escrows that distributions name are.                                    *)
LEMMA FundsStay ==
    ASSUME kb' = kb, \A s \in Settlements : DistributedBy(s) => saga'[s].escrow = saga[s].escrow
    PROVE  \A e \in Activations : FundsOf(e)' = FundsOf(e)
  BY DEF FundsOf, Funded, Released, Held, DistributedBy

-----------------------------------------------------------------------------
(* Each kind of step is a step of the promise.                             *)
Promised == [Abstract!PromiseNext]_(Abstract!promise)

LEMMA Stutters ==
    ASSUME \A c \in Contracts : /\ PhaseOf(c)' = PhaseOf(c)
                                /\ contract'[c].escrow = contract[c].escrow,
           \A e \in Activations : FundsOf(e)' = FundsOf(e)
    PROVE  Promised
  <1>1. UNCHANGED Abstract!promise
    BY DEF Abstract!promise
  <1> QED BY <1>1 DEF Promised

(* The phase of a contract is read off its status.                         *)
LEMMA Phases ==
    ASSUME NEW c \in Contracts
    PROVE  /\ contract[c].status = "ABSENT" => PhaseOf(c) = "absent"
           /\ contract[c].status = "PROPOSED" => PhaseOf(c) = "proposed"
           /\ contract[c].status = "SETTLED" => PhaseOf(c) = "settled"
           /\ contract[c].status \in InForce => PhaseOf(c) = "in force"
  BY DEF PhaseOf, InForce

LEMMA NextPhases ==
    ASSUME NEW c \in Contracts
    PROVE  /\ contract'[c].status = "ABSENT" => PhaseOf(c)' = "absent"
           /\ contract'[c].status = "PROPOSED" => PhaseOf(c)' = "proposed"
           /\ contract'[c].status = "SETTLED" => PhaseOf(c)' = "settled"
           /\ contract'[c].status \in InForce => PhaseOf(c)' = "in force"
  BY DEF PhaseOf, InForce

LEMMA LifecyclePromise ==
    ASSUME PromiseInv, Lifecycle
    PROVE  Promised
  <1>0. contract \in [Contracts -> ContractRows]
    BY DEF PromiseInv, RecoveryInv, SafetyInv, TypeInv, TypeOK, ContractsTypeOK
  <1>1. PICK d \in Contracts : ContractStep(d)
    BY DEF Lifecycle
  <1>2. UNCHANGED <<kb, saga>>
    BY DEF Lifecycle, engine, store, authority
  <1>3. \A e \in Activations : FundsOf(e)' = FundsOf(e)
    BY <1>2, FundsStay
  <1>4. \A c \in Contracts : contract'[c].escrow = contract[c].escrow
    BY <1>0, <1>1 DEF ContractRows, ContractStep, ProposeContract, PublishContractVersion,
       AcceptContractVersion, SubmitDelivery, AcceptDelivery, RequestRework,
       RaiseContractDispute, AdjudicateContractDispute
  <1>5. CASE ProposeContract(d)
    <2>1. /\ PhaseOf(d) = "absent"
          /\ PhaseOf(d)' = "proposed"
          /\ \A c \in Contracts \ {d} : PhaseOf(c)' = PhaseOf(c)
      BY <1>0, <1>5 DEF ProposeContract, PhaseOf, ContractRows
    <2>2. Abstract!Propose(d)
      BY <1>3, <1>4, <2>1 DEF Abstract!Propose
    <2> QED BY <2>2 DEF Promised, Abstract!PromiseNext
  <1>6. CASE ~ProposeContract(d)
    <2>1. \A c \in Contracts :
             \/ contract'[c].status = contract[c].status
             \/ contract[c].status \in InForce /\ contract'[c].status \in InForce
      BY <1>0, <1>1, <1>6 DEF ContractRows, ContractStep, PublishContractVersion,
         AcceptContractVersion, SubmitDelivery, AcceptDelivery, RequestRework,
         RaiseContractDispute, AdjudicateContractDispute, InForce
    <2>3. \A c \in Contracts : PhaseOf(c)' = PhaseOf(c)
      <3> SUFFICES ASSUME NEW c \in Contracts PROVE PhaseOf(c)' = PhaseOf(c)
        OBVIOUS
      <3>1. CASE contract[c].status \in InForce /\ contract'[c].status \in InForce
        BY <3>1 DEF PhaseOf, InForce
      <3>2. CASE contract'[c].status = contract[c].status
        BY <3>2 DEF PhaseOf
      <3> QED BY <2>1, <3>1, <3>2
    <2> QED BY <1>3, <1>4, <2>3, Stutters
  <1> QED BY <1>5, <1>6

LEMMA QuietPromise ==
    ASSUME UNCHANGED <<contract, kb>>,
           \A s \in Settlements : DistributedBy(s) => saga'[s].escrow = saga[s].escrow
    PROVE  Promised
  <1>1. \A e \in Activations : FundsOf(e)' = FundsOf(e)
    BY FundsStay
  <1>2. \A c \in Contracts : PhaseOf(c)' = PhaseOf(c) /\ contract'[c].escrow = contract[c].escrow
    BY DEF PhaseOf
  <1> QED BY <1>1, <1>2, Stutters

LEMMA PreparePromise ==
    ASSUME PromiseInv, Prepare
    PROVE  Promised
  <1>0. saga \in [Sagas -> Snapshots]
    BY DEF PromiseInv, RecoveryInv, SafetyInv, TypeInv, TypeOK, EngineTypeOK
  <1>1. PICK x \in Sagas : saga[x].state = "ABSENT" /\ \A s \in Sagas \ {x} : saga'[s] = saga[s]
    BY <1>0, OperationKeys
    DEF Prepare, PrepareContractActivation, PrepareContractSettlement, PrepareSagaIntent
  <1>2. UNCHANGED <<contract, kb>>
    BY DEF Prepare, PrepareContractActivation, PrepareContractSettlement, authority
  <1>3. ~DistributedBy(x)
    BY <1>1, UnpreparedDidNothing, OperationKeys DEF PromiseInv, DistributedBy
  <1>4. \A s \in Settlements : DistributedBy(s) => saga'[s].escrow = saga[s].escrow
    BY <1>1, <1>3, OperationKeys
  <1> QED BY <1>2, <1>4, QuietPromise

(* An escrow whose activation waits for its commit holds its money.        *)
LEMMA WaitingMoneyIsHeld ==
    ASSUME PromiseInv, NEW a \in Activations, saga[a].state = "REMOTE_SUCCEEDED"
    PROVE  FundsOf(a) = "held"
  <1>1. Funded(a)
    <2>1. ObservedResult(saga[SagaOf(PrimaryKey(a))], PrimaryKey(a)).status = "SUCCEEDED"
      BY OperationKeys
      DEF PromiseInv, RecoveryInv, Stages, StageMatchesResults, ObservedResult
    <2> QED BY <2>1, HeldResultsHappened, OperationKeys DEF PromiseInv, Funded
  <1>2. ~Released(a)
    <2>1. ~saga[a].compensationKey
      BY DEF PromiseInv, RecoveryInv, SafetyInv, Binding, RefundsArePermanent
    <2>2. outbox[CompensationKey(a)].status = "ABSENT"
      BY <2>1 DEF PromiseInv, RecoveryInv, SafetyInv, Evidence, RefundsAreRequested
    <2> QED BY <2>2, UnpreparedDidNothing, OperationKeys DEF PromiseInv, Released
  <1>3. \A c \in Contracts : ~Binds(c, a)
    BY DEF PromiseInv, RecoveryInv, SafetyInv, Binding, BindingSagasCompleted
  <1>4. ASSUME NEW s \in Settlements, DistributedBy(s)
        PROVE  saga[s].escrow # a
    <2>1. saga[s].state # "ABSENT"
      BY <1>4, UnpreparedDidNothing, OperationKeys DEF PromiseInv, DistributedBy
    <2> QED BY <1>3, <2>1, OnlyFundedIsSpent DEF PromiseInv
  <1> QED BY <1>1, <1>2, <1>4 DEF FundsOf, Held

LEMMA ActivationCommitPromise ==
    ASSUME PromiseInv, NEW a \in Activations, CommitContractActivation(a)
    PROVE  Promised
  <1>d. PICK d : d = saga[a].contract
    OBVIOUS
  <1>0. /\ saga \in [Sagas -> Snapshots]
        /\ contract \in [Contracts -> ContractRows]
        /\ a \in Sagas
    BY OperationKeys
    DEF PromiseInv, RecoveryInv, SafetyInv, TypeInv, TypeOK, EngineTypeOK, ContractsTypeOK
  <1>1. /\ saga[a].state = "REMOTE_SUCCEEDED"
        /\ d \in Contracts
        /\ contract[d].status = "PROPOSED"
        /\ kb' = kb
    BY <1>d, <1>0 DEF CommitContractActivation, LocalCommitAllowed, Eligible, PromiseInv,
       RecoveryInv, Closure, SagasHaveContracts, authority
  <1>2. \A e \in Activations : FundsOf(e)' = FundsOf(e)
    <2>1. \A s \in Settlements : saga'[s] = saga[s]
      BY <1>0, OperationKeys DEF CommitContractActivation
    <2> QED BY <1>1, <2>1, FundsStay
  <1>3. FundsOf(a) = "held"
    BY <1>1, WaitingMoneyIsHeld
  <1>4. /\ \A c \in Contracts \ {d} : contract'[c] = contract[c]
        /\ contract'[d].status = "ACTIVE"
        /\ contract'[d].escrow = a
    BY <1>d, <1>0, <1>1 DEF CommitContractActivation, ContractRows
  <1>5. /\ PhaseOf(d) = "proposed"
        /\ PhaseOf(d)' = "in force"
        /\ \A c \in Contracts \ {d} : PhaseOf(c)' = PhaseOf(c)
    <2>1. PhaseOf(d) = "proposed"
      BY <1>1, Phases
    <2>2. PhaseOf(d)' = "in force"
      BY <1>1, <1>4, NextPhases DEF InForce
    <2>3. \A c \in Contracts \ {d} : PhaseOf(c)' = PhaseOf(c)
      BY <1>4 DEF PhaseOf
    <2> QED BY <2>1, <2>2, <2>3
  <1>6. \A c \in Contracts : contract[c].escrow # a
    BY <1>1 DEF PromiseInv, RecoveryInv, SafetyInv, Binding, BindingSagasCompleted, Binds
  <1>7. Abstract!PutInForce(d, a)
    BY <1>1, <1>2, <1>3, <1>4, <1>5, <1>6 DEF Abstract!PutInForce
  <1> QED BY <1>1, <1>7 DEF Promised, Abstract!PromiseNext

LEMMA SettlementCommitPromise ==
    ASSUME PromiseInv, NEW s \in Settlements, CommitContractSettlement(s)
    PROVE  Promised
  <1>d. PICK d : d = saga[s].contract
    OBVIOUS
  <1>0. /\ saga \in [Sagas -> Snapshots]
        /\ contract \in [Contracts -> ContractRows]
        /\ s \in Sagas
    BY OperationKeys
    DEF PromiseInv, RecoveryInv, SafetyInv, TypeInv, TypeOK, EngineTypeOK, ContractsTypeOK
  <1>1. /\ saga[s].state = "REMOTE_SUCCEEDED"
        /\ d \in Contracts
        /\ contract[d].status \in {"SUBMITTED", "DISPUTED"}
        /\ kb' = kb
    BY <1>d, <1>0 DEF CommitContractSettlement, LocalCommitAllowed, Settleable, PromiseInv,
       RecoveryInv, Closure, SagasHaveContracts, authority
  <1>2. \A e \in Activations : FundsOf(e)' = FundsOf(e)
    <2>0. /\ saga'[s] = [saga[s] EXCEPT !.state = "COMPLETED"]
          /\ \A t \in Sagas \ {s} : saga'[t] = saga[t]
      BY <1>d, <1>0 DEF CommitContractSettlement, MarkLocalTransitionCommitted
    <2>1. \A t \in Settlements : saga'[t].escrow = saga[t].escrow
      <3>1. saga'[s].escrow = saga[s].escrow
        BY <1>0, <2>0, SnapshotFields
      <3> QED BY <2>0, <3>1, OperationKeys
    <2> QED BY <1>1, <2>1, FundsStay
  <1>3. /\ saga[s].escrow = contract[d].escrow
        /\ saga[s].escrow \in Activations
        /\ Funded(saga[s].escrow) /\ ~Released(saga[s].escrow)
    BY <1>d, <1>1, OnlyFundedIsSpent DEF PromiseInv, Binds
  <1>4. DistributedBy(s)
    <2>1. ObservedResult(saga[SagaOf(PrimaryKey(s))], PrimaryKey(s)).status = "SUCCEEDED"
      BY <1>0, <1>1, OperationKeys
      DEF PromiseInv, RecoveryInv, Stages, StageMatchesResults, ObservedResult
    <2> QED BY <1>0, <2>1, HeldResultsHappened, OperationKeys DEF PromiseInv, DistributedBy
  <1>5. FundsOf(contract[d].escrow) = "distributed"
    BY <1>3, <1>4 DEF FundsOf, Held
  <1>6. /\ \A c \in Contracts \ {d} : contract'[c] = contract[c]
        /\ contract'[d].status = "SETTLED"
        /\ contract'[d].escrow = contract[d].escrow
    BY <1>d, <1>0, <1>1 DEF CommitContractSettlement, ContractRows
  <1>7. /\ PhaseOf(d) = "in force"
        /\ PhaseOf(d)' = "settled"
        /\ \A c \in Contracts \ {d} : PhaseOf(c)' = PhaseOf(c)
    <2>1. PhaseOf(d) = "in force"
      BY <1>1, Phases DEF InForce
    <2>2. PhaseOf(d)' = "settled"
      BY <1>1, <1>6, NextPhases
    <2>3. \A c \in Contracts \ {d} : PhaseOf(c)' = PhaseOf(c)
      BY <1>6 DEF PhaseOf
    <2> QED BY <2>1, <2>2, <2>3
  <1>8. Abstract!Settle(d)
    BY <1>1, <1>2, <1>3, <1>5, <1>6, <1>7 DEF Abstract!Settle
  <1> QED BY <1>1, <1>8 DEF Promised, Abstract!PromiseNext

-----------------------------------------------------------------------------
(* The authority moves money only as the promise says.                     *)
LEMMA AuthorityPromise ==
    ASSUME PromiseInv, NEW op \in Ops, KbExecute(op), UNCHANGED contract
    PROVE  Promised
  <1>0. /\ RecoveryInv
        /\ kb \in [Ops -> {"NONE", "SUCCEEDED", "FAILED"}]
        /\ kb[op] = "NONE"
        /\ UNCHANGED saga
        /\ \A k \in Ops \ {op} : kb'[k] = kb[k]
        /\ kb'[op] = "FAILED" \/ (kb'[op] = "SUCCEEDED" /\ MayMoveMoney(op))
    BY DEF KbExecute, store, PromiseInv, RecoveryInv, SafetyInv, TypeInv, TypeOK, EngineTypeOK
  <1>1. /\ outbox[op].status # "ABSENT"
        /\ saga[SagaOf(op)].state # "ABSENT"
    BY <1>0 DEF KbExecute, RecoveryInv, SafetyInv, Evidence, RowsComeFirst, UnpreparedIsBlank
  <1>2. \A c \in Contracts : PhaseOf(c)' = PhaseOf(c) /\ contract'[c].escrow = contract[c].escrow
    BY DEF PhaseOf
  <1>3. ASSUME NEW e \in Activations,
               op # PrimaryKey(e), op # CompensationKey(e),
               \A s \in Settlements : op = PrimaryKey(s) => saga[s].escrow # e
        PROVE  FundsOf(e)' = FundsOf(e)
    <2>1. /\ Funded(e)' = Funded(e)
          /\ Released(e)' = Released(e)
          /\ \A s \in Settlements : saga[s].escrow = e => DistributedBy(s)' = DistributedBy(s)
      BY <1>0, <1>3, OperationKeys DEF Funded, Released, DistributedBy
    <2>2. Held(e)' = Held(e)
      BY <1>0, <2>1 DEF Held
    <2> QED BY <2>1, <2>2 DEF FundsOf
  <1>4. CASE kb'[op] = "FAILED"
    <2>1. \A k \in Ops : kb'[k] = "SUCCEEDED" <=> kb[k] = "SUCCEEDED"
      BY <1>0, <1>4
    <2>2. \A e \in Activations : FundsOf(e)' = FundsOf(e)
      <3> SUFFICES ASSUME NEW e \in Activations PROVE FundsOf(e)' = FundsOf(e)
        OBVIOUS
      <3>1. Funded(e)' <=> Funded(e)
        BY <2>1, OperationKeys DEF Funded
      <3>2. Released(e)' <=> Released(e)
        BY <2>1, OperationKeys DEF Released
      <3>3. \A s \in Settlements : DistributedBy(s)' <=> DistributedBy(s)
        BY <2>1, OperationKeys DEF DistributedBy
      <3>4. Held(e)' <=> Held(e)
        BY <1>0, <3>1, <3>2, <3>3 DEF Held
      <3> QED BY <3>1, <3>2, <3>4 DEF FundsOf
    <2> QED BY <1>2, <2>2, Stutters
  <1>5. ASSUME NEW a \in Activations, op = PrimaryKey(a), kb'[op] = "SUCCEEDED"
        PROVE  Promised
    <2>1. ~Funded(a) /\ Funded(a)'
      BY <1>0, <1>5 DEF Funded
    <2>2. kb[CompensationKey(a)] = "NONE"
      BY <1>0, <2>1, OnlyFundedIsSpent
    <2>3. ~Released(a)'
      BY <1>0, <1>5, <2>2, OperationKeys DEF Released
    <2>4. ASSUME NEW s \in Settlements, DistributedBy(s)'
          PROVE  saga'[s].escrow # a
      <3>1. DistributedBy(s)
        BY <1>0, <1>5, <2>4, OperationKeys DEF DistributedBy
      <3>2. saga[s].state # "ABSENT"
        BY <1>0, <3>1, UnpreparedDidNothing, OperationKeys DEF DistributedBy
      <3>3. Funded(saga[s].escrow)
        BY <1>0, <3>2, OnlyFundedIsSpent
      <3> QED BY <1>0, <2>1, <3>3
    <2>5. FundsOf(a) = "none" /\ FundsOf(a)' = "held"
      BY <2>1, <2>3, <2>4 DEF FundsOf, Held
    <2>6. \A e \in Activations \ {a} : FundsOf(e)' = FundsOf(e)
      BY <1>3, <1>5, OperationKeys
    <2>7. Abstract!Fund(a)
      BY <1>2, <2>5, <2>6 DEF Abstract!Fund
    <2> QED BY <2>7 DEF Promised, Abstract!PromiseNext
  <1>6. ASSUME NEW a \in Activations, op = CompensationKey(a), kb'[op] = "SUCCEEDED"
        PROVE  Promised
    <2>1. Held(a)
      BY <1>0, <1>1, <1>6, OperationKeys DEF MayMoveMoney, PromiseInv, OwnEscrow
    <2>2. ~Bound(a)
      BY <1>1, <1>6
      DEF PromiseInv, RecoveryInv, SafetyInv, Evidence, RefundsAreRequested, Binding,
          RefundsArePermanent
    <2>3. Funded(a)' /\ Released(a)'
      BY <1>0, <1>6, <2>1, OperationKeys DEF Held, Funded, Released
    <2>4. FundsOf(a) = "held" /\ FundsOf(a)' = "refunded"
      BY <2>1, <2>3 DEF FundsOf, Held
    <2>5. \A e \in Activations \ {a} : FundsOf(e)' = FundsOf(e)
      BY <1>3, <1>6, OperationKeys
    <2>6. Abstract!Refund(a)
      BY <1>2, <2>2, <2>4, <2>5 DEF Abstract!Refund, Bound, Binds
    <2> QED BY <2>6 DEF Promised, Abstract!PromiseNext
  <1>7. ASSUME NEW s \in Settlements, op = PrimaryKey(s), kb'[op] = "SUCCEEDED"
        PROVE  Promised
    <2>1. PICK d \in Contracts, e \in Activations :
             /\ saga[s].contract = d
             /\ saga[s].escrow = e
             /\ contract[d].escrow = e
      BY <1>0, <1>1, <1>7, OnlyFundedIsSpent, OperationKeys DEF Binds
    <2>2. Held(e)
      BY <1>0, <1>7, <2>1, OperationKeys DEF MayMoveMoney
    <2>3. PhaseOf(d) = "in force"
      <3>1. Decided(contract[d])
        BY <1>1, <1>7, <2>1, OperationKeys DEF RecoveryInv, PromiseInv, Closure,
           SettlementsAreDecided
      <3>2. contract[d].status # "SETTLED"
        BY <1>0, <2>1, <2>2 DEF RecoveryInv, Closure, SettledOnlyIfDistributed, Held
      <3> QED BY <3>1, <3>2, Phases DEF Decided, InForce
    <2>4. Funded(e)' /\ ~Released(e)' /\ DistributedBy(s)'
      BY <1>0, <1>7, <2>2, OperationKeys DEF Held, Funded, Released, DistributedBy
    <2>5. FundsOf(e) = "held" /\ FundsOf(e)' = "distributed"
      BY <1>0, <2>1, <2>2, <2>4 DEF FundsOf, Held
    <2>6. \A x \in Activations \ {e} : FundsOf(x)' = FundsOf(x)
      BY <1>3, <1>7, <2>1, OperationKeys
    <2>7. Abstract!Distribute(d)
      BY <1>2, <2>1, <2>3, <2>5, <2>6 DEF Abstract!Distribute
    <2> QED BY <2>7 DEF Promised, Abstract!PromiseNext
  <1>8. \/ \E s \in Settlements : op = PrimaryKey(s)
        \/ \E a \in Activations : op = PrimaryKey(a) \/ op = CompensationKey(a)
    BY DEF Ops, Sagas
  <1> QED BY <1>0, <1>4, <1>5, <1>6, <1>7, <1>8

(* Workers move no money.                                                  *)
LEMMA WorkerPromise ==
    ASSUME PromiseInv, EngineStep \/ UNCHANGED engine, UNCHANGED <<contract, kb>>
    PROVE  Promised
  <1>1. EngineMoves
    BY EngineStepMoves DEF PromiseInv, RecoveryInv, SafetyInv
  <1>2. \A s \in Settlements : saga'[s].escrow = saga[s].escrow
    BY <1>1, OperationKeys DEF EngineMoves, SagaMoves
  <1> QED BY <1>2, QuietPromise

LEMMA EveryStepIsPromised == PromiseInv /\ [Next]_vars => Promised
  <1> SUFFICES ASSUME PromiseInv, [Next]_vars PROVE Promised
    OBVIOUS
  <1>1. CASE Lifecycle
    BY <1>1, LifecyclePromise
  <1>2. CASE Prepare
    BY <1>2, PreparePromise
  <1>3. ASSUME NEW a \in Activations, QueueActivationCompensation(a)
        PROVE  Promised
    <2>1. UNCHANGED <<contract, kb>>
      BY <1>3 DEF QueueActivationCompensation, authority
    <2>2. \A s \in Settlements : saga'[s] = saga[s]
      BY <1>3, OperationKeys
      DEF QueueActivationCompensation, PromiseInv, RecoveryInv, SafetyInv, TypeInv, TypeOK,
          EngineTypeOK
    <2> QED BY <2>1, <2>2, QuietPromise
  <1>4. CASE Commit
    BY <1>3, <1>4, ActivationCommitPromise, SettlementCommitPromise DEF Commit
  <1>5. CASE EngineStep /\ UNCHANGED contract
    <2>1. CASE UNCHANGED kb
      BY <1>5, <2>1, WorkerPromise
    <2>2. CASE \E op \in Ops : KbExecute(op)
      BY <1>5, <2>2, AuthorityPromise
    <2>3. ASSUME NEW w \in Workers, WorkerStep(w)
          PROVE  UNCHANGED kb
      BY <2>3 DEF WorkerStep, WorkerReturns, ClaimSagaOutbox, ReconcileClaim, DispatchAnswered,
         LookupFound, LookupNotFound, ReplayAfterNotFound, NoReplayAfterNotFound,
         DispatchRefused, DispatchRetryScheduled, DispatchOutcomeUnknown, LookupInconclusive,
         Crash, authority
    <2> QED BY <1>5, <2>1, <2>2, <2>3 DEF EngineStep
  <1>6. CASE UNCHANGED vars
    <2>1. UNCHANGED engine /\ UNCHANGED <<contract, kb>>
      BY <1>6 DEF vars, engine, authority
    <2> QED BY <2>1, WorkerPromise
  <1> QED BY <1>1, <1>2, <1>4, <1>5, <1>6 DEF Next

(* Contracts, Sagas, workers and authority together implement the promise. *)
THEOREM ImplementsThePromise == Spec => KeepsThePromise
  <1>1. Init => Abstract!PromiseInit
    <2> SUFFICES ASSUME Init PROVE Abstract!PromiseInit
      OBVIOUS
    <2>1. \A c \in Contracts : /\ contract[c].escrow = NoEscrow
                               /\ contract[c].status = "ABSENT"
      BY DEF Init, ContractsInit, NoContract
    <2>2. \A c \in Contracts : PhaseOf(c) = "absent"
      BY <2>1, Phases
    <2>3. \A e \in Activations : FundsOf(e) = "none"
      BY OperationKeys DEF Init, EngineInit, FundsOf, Funded
    <2> QED BY <2>1, <2>2, <2>3 DEF Abstract!PromiseInit
  <1>2. PromiseInv /\ [Next]_vars => [Abstract!PromiseNext]_(Abstract!promise)
    BY EveryStepIsPromised DEF Promised
  <1> QED
    BY <1>1, <1>2, PromiseInvHolds, PTL DEF Spec, KeepsThePromise, Abstract!Promise
=============================================================================
