-------------------------- MODULE CrossProductSaga --------------------------
(***************************************************************************)
(* The pure Saga protocol of src/src/shared/cross_product_saga.js: what a  *)
(* Saga snapshot is, which operation keys it owns, and how an observed     *)
(* financial result, a local commit or a compensation request changes it.  *)
(* No variable lives here; SagaEngine applies these operators to the       *)
(* persisted snapshots.                                                    *)
(*                                                                         *)
(* A business attempt is identified with its Saga: "Activations" and       *)
(* "Settlements" are the attempt identities the callers may use.  "Tags"   *)
(* stands for the part of a result beyond its status (result_ref or        *)
(* error_code): with one tag every observation of an outcome is identical, *)
(* with two the adapter may report the same outcome in two different ways. *)
(* "Refusals" are the error codes of answers that refuse one request and   *)
(* decide nothing about its key (AUTH_FAILED, BINDING_MISSING).            *)
(***************************************************************************)
EXTENDS Naturals

CONSTANTS Contracts, Activations, Settlements, Tags, Refusals

ASSUME KindsAreDisjoint == Activations \cap Settlements = {}

NoEscrow == "no escrow"
ASSUME NoEscrowIsNoSaga == NoEscrow \notin Activations
ASSUME RefusalsAreNoDecisions == Refusals \cap Tags = {}

Sagas == Activations \cup Settlements

(* Operation keys: one FUND and possibly one RELEASE per activation, one   *)
(* DISTRIBUTE per settlement; a retry never makes a new key.               *)
PrimaryStep(s) == IF s \in Activations THEN "FUND_ESCROW" ELSE "DISTRIBUTE_ESCROW"
PrimaryKey(s) == <<s, PrimaryStep(s)>>
CompensationKey(s) == <<s, "RELEASE_ESCROW">>
Keys(s) == {PrimaryKey(s)} \cup (IF s \in Activations THEN {CompensationKey(s)} ELSE {})
Ops == {PrimaryKey(s) : s \in Sagas} \cup {CompensationKey(s) : s \in Activations}
SagaOf(op) == op[1]

NoResult == [status |-> "NONE", tag |-> "none"]
Results == [status : {"SUCCEEDED", "FAILED"}, tag : Tags \cup Refusals]

SagaStates == {"PENDING_REMOTE", "REMOTE_SUCCEEDED", "FAILED", "COMPLETED",
               "COMPENSATION_PENDING", "COMPENSATED", "RECONCILIATION_REQUIRED"}

(* "escrow" is what the frozen request names: the escrow a settlement      *)
(* distributes, or the one an activation itself funds.                     *)
Snapshots == [state : SagaStates \cup {"ABSENT"},
              contract : Contracts \cup {"no contract"},
              version : Nat,
              escrow : Activations \cup {NoEscrow},
              primaryResult : Results \cup {NoResult},
              compensationKey : BOOLEAN,
              compensationResult : Results \cup {NoResult}]

NoSaga == [state |-> "ABSENT", contract |-> "no contract", version |-> 0,
           escrow |-> NoEscrow, primaryResult |-> NoResult,
           compensationKey |-> FALSE, compensationResult |-> NoResult]

CreateSaga(c, v, e) == [NoSaga EXCEPT !.state = "PENDING_REMOTE", !.contract = c,
                                      !.version = v, !.escrow = e]

(* A result seen for the first time; the callers below check the state.    *)
ObservePrimary(g, r) ==
    [g EXCEPT !.state = IF r.status = "SUCCEEDED" THEN "REMOTE_SUCCEEDED" ELSE "FAILED",
              !.primaryResult = r]

(* Mutant: a refused refund closes the Saga as if it had happened.         *)
ObserveCompensation_RefusalCloses(g, r) ==
    [g EXCEPT !.state = "COMPENSATED", !.compensationResult = r]

ObserveCompensation(g, r) ==
    [g EXCEPT !.state = IF r.status = "SUCCEEDED" THEN "COMPENSATED"
                                                  ELSE "RECONCILIATION_REQUIRED",
              !.compensationResult = r]

ObserveFinancialResult(g, op, r) ==
    IF op = PrimaryKey(SagaOf(op)) THEN ObservePrimary(g, r) ELSE ObserveCompensation(g, r)

(* What the snapshot holds for op.                                         *)
ObservedResult(g, op) ==
    IF op = PrimaryKey(SagaOf(op)) THEN g.primaryResult ELSE g.compensationResult

(* The state from which the first result of op may be observed.            *)
AwaitingState(op) ==
    IF op = PrimaryKey(SagaOf(op)) THEN "PENDING_REMOTE" ELSE "COMPENSATION_PENDING"

(* Mutant: an outcome that is still unknown is taken for a success.        *)
LocalCommitAllowed_OnUnknown(g) == g.state \in {"REMOTE_SUCCEEDED", "RECONCILIATION_REQUIRED"}

LocalCommitAllowed(g) ==
    g.state = "REMOTE_SUCCEEDED" /\ g.primaryResult.status = "SUCCEEDED"

(* Mutant: the commit of the contract does not close its Saga.             *)
MarkLocalTransitionCommitted_NotSaved(g) == g

MarkLocalTransitionCommitted(g) == [g EXCEPT !.state = "COMPLETED"]

(* Mutants: an activation that lost its contract is closed, not refunded;  *)
(* the operation key of its refund is not kept in the snapshot.            *)
RequestActivationCompensation_GivesUp(g) == [g EXCEPT !.state = "FAILED"]

RequestActivationCompensation_NoKey(g) == [g EXCEPT !.state = "COMPENSATION_PENDING"]

RequestActivationCompensation(g) ==
    [g EXCEPT !.state = "COMPENSATION_PENDING", !.compensationKey = TRUE]

(* What assertSagaInvariant checks of the snapshot of Saga s.              *)
SagaInvariant(s, g) ==
    /\ g.state \in {"REMOTE_SUCCEEDED", "COMPLETED", "COMPENSATION_PENDING",
                    "COMPENSATED", "RECONCILIATION_REQUIRED"}
          => g.primaryResult.status = "SUCCEEDED"
    /\ g.state = "FAILED" => g.primaryResult.status = "FAILED"
    /\ g.state \in {"COMPENSATION_PENDING", "COMPENSATED", "RECONCILIATION_REQUIRED"}
          => s \in Activations /\ g.compensationKey
    /\ g.state = "COMPENSATED" => g.compensationResult.status = "SUCCEEDED"
    /\ g.state = "COMPLETED" /\ s \in Settlements => ~g.compensationKey
=============================================================================
