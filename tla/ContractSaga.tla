---------------------------- MODULE ContractSaga ----------------------------
(***************************************************************************)
(* services/contract_saga.js: the four transactions in which the contract  *)
(* and its Saga change together, composed with the contract lifecycle      *)
(* (Contracts) and the Saga engine (SagaEngine).                           *)
(*                                                                         *)
(* Callers own these transactions; nothing in the repository calls the two *)
(* commits on a schedule, so no fairness is assumed for them.              *)
(***************************************************************************)
EXTENDS Contracts, SagaEngine

vars == <<contract, engine>>

TypeOK == ContractsTypeOK /\ EngineTypeOK

Init == ContractsInit /\ EngineInit

(***************************************************************************)
(* Preparing a transition: eligibility check, Saga and Outbox in one       *)
(* transaction.  A replay of a used attempt changes nothing.               *)
(***************************************************************************)
PrepareContractActivation(c, a) ==
    /\ contract[c].status = "PROPOSED"
    /\ contract[c].version >= 1
    /\ contract[c].accepted = Parties
    /\ PrepareSagaIntent(a, c, contract[c].version, a)
    /\ UNCHANGED <<contract, inbox, authority, pc, job, faults>>

(* Mutant: the status of the contract is taken for the decision.           *)
DecisionRecorded_StatusOnly(k) == k.status \in {"SUBMITTED", "DISPUTED"}

(* SUBMITTED needs an accepted delivery, DISPUTED a resolved dispute.      *)
DecisionRecorded(k) ==
    \/ k.status = "SUBMITTED" /\ k.delivery = "ACCEPTED"
    \/ k.status = "DISPUTED" /\ k.dispute = "RESOLVED"

(* The balance snapshot was read before the transaction, and nothing       *)
(* bounds its age: it proves that the escrow held money at some time.      *)
PrepareContractSettlement(c, s) ==
    /\ DecisionRecorded(contract[c])
    /\ contract[c].escrow # NoEscrow
    /\ Funded(contract[c].escrow)
    /\ PrepareSagaIntent(s, c, contract[c].version, contract[c].escrow)
    /\ UNCHANGED <<contract, inbox, authority, pc, job, faults>>

(***************************************************************************)
(* Committing it locally after the Knowledge Ball confirmed.               *)
(***************************************************************************)
(* Mutants: the commit trusts the version, or the acceptances, it saw when *)
(* the activation was prepared.                                            *)
Eligible_VersionUnchecked(g) ==
    contract[g.contract].status = "PROPOSED" /\ contract[g.contract].accepted = Parties

Eligible_StatusOnly(g) == contract[g.contract].status = "PROPOSED"

Eligible(g) ==
    LET k == contract[g.contract]
    IN  /\ k.status = "PROPOSED"
        /\ k.version = g.version
        /\ k.accepted = Parties

CommitContractActivation(a) ==
    /\ LocalCommitAllowed(saga[a])
    /\ Eligible(saga[a])
    /\ contract' = [contract EXCEPT ![saga[a].contract].status = "ACTIVE",
                                    ![saga[a].contract].escrow = a]
    /\ saga' = [saga EXCEPT ![a] = MarkLocalTransitionCommitted(@)]
    /\ UNCHANGED <<outbox, inbox, authority, pc, job, faults>>

QueueActivationCompensation(a) ==
    /\ LocalCommitAllowed(saga[a])
    /\ ~Eligible(saga[a])
    /\ saga' = [saga EXCEPT ![a] = RequestActivationCompensation(@)]
    /\ outbox' = [outbox EXCEPT ![CompensationKey(a)] =
                      IF @.status = "ABSENT" THEN NewRow ELSE @]
    /\ UNCHANGED <<contract, inbox, authority, pc, job, faults>>

(* Otherwise SETTLEMENT_FORWARD_RECOVERY_REQUIRED: nothing changes.        *)
Settleable(g) ==
    LET k == contract[g.contract]
    IN  k.status \in {"SUBMITTED", "DISPUTED"} /\ k.version = g.version

CommitContractSettlement(s) ==
    /\ LocalCommitAllowed(saga[s])
    /\ Settleable(saga[s])
    /\ contract' = [contract EXCEPT ![saga[s].contract].status = "SETTLED"]
    /\ saga' = [saga EXCEPT ![s] = MarkLocalTransitionCommitted(@)]
    /\ UNCHANGED <<outbox, inbox, authority, pc, job, faults>>

Prepare ==
    \E c \in Contracts : \/ \E a \in Activations : PrepareContractActivation(c, a)
                         \/ \E s \in Settlements : PrepareContractSettlement(c, s)

Commit ==
    \/ \E a \in Activations : CommitContractActivation(a) \/ QueueActivationCompensation(a)
    \/ \E s \in Settlements : CommitContractSettlement(s)

Lifecycle == (\E c \in Contracts : ContractStep(c)) /\ UNCHANGED engine

Next ==
    \/ Lifecycle
    \/ Prepare
    \/ Commit
    \/ EngineStep /\ UNCHANGED contract

Spec == Init /\ [][Next]_vars

(***************************************************************************)
(* Fairness: worker processes keep polling (runSagaWorkerLoop survives     *)
(* every failed tick), rows are claimed in the order of their due time, so *)
(* none is passed over forever, and a call that the environment no longer  *)
(* disturbs is answered.  Nothing is assumed of the callers.               *)
(***************************************************************************)
EngineFairness ==
    /\ \A op \in Ops :
         /\ SF_vars((\E w \in Workers : ClaimSagaOutbox(w, op)) /\ UNCHANGED contract)
         /\ SF_vars((\E w \in Workers : ReconcileClaim(w, op)) /\ UNCHANGED contract)
         /\ WF_vars(/\ \E w \in Workers : Dispatching(w, op)
                    /\ KbExecute(op)
                    /\ UNCHANGED contract)
    /\ \A w \in Workers : WF_vars(WorkerReturns(w) /\ UNCHANGED contract)

FairSpec == Spec /\ EngineFairness
=============================================================================
