-------------------------- MODULE ContractSagaProps -------------------------
(***************************************************************************)
(* What must be true of contracts, Sagas and money together.               *)
(***************************************************************************)
EXTENDS ContractSaga

InForce == {"ACTIVE", "SUBMITTED", "DISPUTED"}

Binds(c, e) == contract[c].escrow = e
Bound(e) == \E c \in Contracts : Binds(c, e)

-----------------------------------------------------------------------------
(* A contract in force is backed by an escrow the Knowledge Ball funded    *)
(* and has not refunded, however the activation was retried, reconciled    *)
(* or raced by a revision (commitContractActivation, worker replays).      *)
ActiveOnlyIfFunded ==
    \A c \in Contracts : contract[c].status \in InForce =>
        /\ contract[c].escrow \in Activations
        /\ Funded(contract[c].escrow)
        /\ ~Released(contract[c].escrow)

(* A settled contract had its own escrow distributed by one of its own     *)
(* settlement attempts (commitContractSettlement).                         *)
SettledOnlyIfDistributed ==
    \A c \in Contracts : contract[c].status = "SETTLED" =>
        \E s \in Settlements : /\ saga[s].contract = c
                               /\ saga[s].escrow = contract[c].escrow
                               /\ DistributedBy(s)

(* The version in force is the one both parties accepted and the one its   *)
(* escrow was funded for, although a party may publish a revision while    *)
(* the funding is in flight.                                               *)
ActiveBindsAcceptedVersion ==
    \A c \in Contracts : contract[c].status \in InForce \cup {"SETTLED"} =>
        /\ contract[c].accepted = Parties
        /\ contract[c].escrow \in Activations
        /\ saga[contract[c].escrow].contract = c
        /\ saga[contract[c].escrow].version = contract[c].version

(* Only an escrow that put no contract in force is refunded: from the      *)
(* moment the refund is queued no contract may bind it.                    *)
OnlyOrphansAreRefunded ==
    \A a \in Activations :
        \/ outbox[CompensationKey(a)].status # "ABSENT"
        \/ kb[CompensationKey(a)] # "NONE"
        => /\ saga[a].compensationKey
           /\ saga[a].primaryResult.status = "SUCCEEDED"
           /\ ~Bound(a)

(* The recorded result is the refusal of a request that was not the first. *)
ResendRefused(s) == /\ inbox[PrimaryKey(s)].tag \in Refusals
                    /\ outbox[PrimaryKey(s)].attempts > 1

(* A FAILED Saga moved no money, and never will: not through a crash, a    *)
(* lost or late answer or a stale NOT_FOUND.  The one exception is the     *)
(* refusal of a re-send, which says nothing about the request before it    *)
(* (dispatchSagaOutboxOnce; finding refused_key).                          *)
FailureIsDefinite ==
    \A s \in Sagas : saga[s].state = "FAILED" /\ ~ResendRefused(s) =>
        kb[PrimaryKey(s)] # "SUCCEEDED"

(* Money the Knowledge Ball took is always owned by something: a contract  *)
(* it backs, a refund that happened, or a Saga that is not finished yet.   *)
(* Only the refusal of a re-send makes the engine forget it.               *)
NoMoneyIsForgotten ==
    \A a \in Activations : Funded(a) =>
        \/ Bound(a)
        \/ Released(a)
        \/ saga[a].state \in ActiveStates
        \/ saga[a].state = "FAILED" /\ ResendRefused(a)

(* A COMPLETED Saga converged in both authorities; a COMPENSATED one       *)
(* really was refunded.                                                    *)
TerminalStatesConverged ==
    /\ \A a \in Activations : saga[a].state = "COMPLETED" =>
           Funded(a) /\ Binds(saga[a].contract, a)
    /\ \A a \in Activations : saga[a].state = "COMPENSATED" => Released(a)
    /\ \A s \in Settlements : saga[s].state = "COMPLETED" =>
           DistributedBy(s) /\ contract[saga[s].contract].status = "SETTLED"

(* Once a result is recorded its row is never waiting or leased again, so  *)
(* no worker sends it again: neither a late owner, nor a stale NOT_FOUND,  *)
(* nor the expiry of a lease reopens it.                                   *)
ResultEndsDispatch ==
    \A op \in Ops : inbox[op] # NoResult =>
        outbox[op].status \in {"DELIVERED", "RECONCILIATION_REQUIRED"}

(* The snapshot and the inbox tell the same story, and a Saga that awaits  *)
(* an answer has none (recordSagaFinancialResult never rejects a first     *)
(* answer with INVALID_SAGA_TRANSITION).                                   *)
SnapshotAgreesWithInbox ==
    /\ \A s \in Sagas : saga[s].primaryResult = inbox[PrimaryKey(s)]
    /\ \A a \in Activations : saga[a].compensationResult = inbox[CompensationKey(a)]
    /\ \A op \in Ops : outbox[op].status # "ABSENT" /\ inbox[op] = NoResult =>
           Thaw(saga[SagaOf(op)], op).state = AwaitingState(op)

(* Outside RECONCILIATION_REQUIRED every persisted snapshot satisfies      *)
(* assertSagaInvariant, which the code evaluates before each transition.   *)
PersistedSagaInvariant ==
    \A s \in Sagas : saga[s].state \notin {"ABSENT", "RECONCILIATION_REQUIRED"} =>
        SagaInvariant(s, saga[s])

(* SETTLEMENT_FORWARD_RECOVERY_REQUIRED is unreachable: nothing a party    *)
(* does while a distribution is under way makes its local commit illegal.  *)
ForwardRecoveryNeverNeeded ==
    \A s \in Settlements : saga[s].state \in {"PENDING_REMOTE", "REMOTE_SUCCEEDED"} =>
        Settleable(saga[s])

-----------------------------------------------------------------------------
(* A recorded result is immutable, whatever is observed later.             *)
ResultsAreFinal ==
    [][\A op \in Ops : inbox[op] # NoResult => inbox'[op] = inbox[op]]_vars

(* The services never issue an update of a contract that the trigger       *)
(* validate_contract_state_change would abort.                             *)
TriggerNeverAborts ==
    [][\A c \in Contracts : contract[c].status # "ABSENT" /\ contract'[c] # contract[c] =>
           TriggerAccepts(contract[c], contract'[c])]_vars

-----------------------------------------------------------------------------
(* The refinement: the protocol as the parties see it.                     *)
PhaseOf(c) ==
    CASE contract[c].status = "ABSENT" -> "absent"
      [] contract[c].status = "PROPOSED" -> "proposed"
      [] contract[c].status = "SETTLED" -> "settled"
      [] OTHER -> "in force"

FundsOf(e) ==
    IF ~Funded(e) THEN "none"
    ELSE IF Released(e) THEN "refunded"
    ELSE IF Held(e) THEN "held" ELSE "distributed"

Abstract == INSTANCE EscrowPromise WITH
    Deals <- Contracts, Escrows <- Activations, NoFunds <- NoEscrow,
    phase <- [c \in Contracts |-> PhaseOf(c)],
    backing <- [c \in Contracts |-> contract[c].escrow],
    funds <- [e \in Activations |-> FundsOf(e)]

(* Contracts, Sagas, workers and authority together implement the promise. *)
KeepsThePromise == Abstract!Promise

-----------------------------------------------------------------------------
(* Liveness, under FairSpec.                                               *)

(* A lease is never held forever, whether its owner answered or died.      *)
LeasesEnd == \A op \in Ops : outbox[op].status = "LEASED" ~> outbox[op].status # "LEASED"

(* A funding or distribution that was queued ends with a recorded result   *)
(* or in DEAD_LETTER, through lost answers, crashes and reconciliation.    *)
PrimaryResolves ==
    \A s \in Sagas : saga[s].state = "PENDING_REMOTE" ~>
        \/ inbox[PrimaryKey(s)] # NoResult
        \/ outbox[PrimaryKey(s)].status = "DEAD_LETTER"

-----------------------------------------------------------------------------
(* What documents say of the program and the program does not do; each is  *)
(* the single property of a run that finds a counterexample.               *)

(* NH_011 section 8, "after compensation send/result loss":                *)
(* "query/retry same compensation identity under NH-009".                  *)
RefundResolves ==
    \A a \in Activations : outbox[CompensationKey(a)].status = "PENDING" ~>
        \/ inbox[CompensationKey(a)] # NoResult
        \/ outbox[CompensationKey(a)].status = "DEAD_LETTER"

(* NH_011 section 9.5: after conflicting results for one funds identity    *)
(* "automated money movement stops".                                       *)
Frozen(s) == /\ inbox[PrimaryKey(s)] # NoResult
             /\ outbox[PrimaryKey(s)].status = "RECONCILIATION_REQUIRED"

FrozenSagaSendsNothing ==
    [][\A s \in Sagas : Frozen(s) =>
           \A op \in Keys(s) : outbox'[op].attempts = outbox[op].attempts]_vars

(* NH_011 section 10: FAILED is a "definite primary no-effect failure".    *)
FailedMeansNoEffect ==
    \A s \in Sagas : saga[s].state = "FAILED" => kb[PrimaryKey(s)] # "SUCCEEDED"
=============================================================================
