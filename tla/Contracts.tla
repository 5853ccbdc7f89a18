----------------------------- MODULE Contracts ------------------------------
(***************************************************************************)
(* The NewHumans side of a contract (M04): services/m04_contracts.js,      *)
(* services/m04_contract_delivery.js and the triggers of migration 0526.   *)
(* Each action is one database transaction that holds the row lock of the  *)
(* contract.  Deliveries: a new one is accepted only once the previous one *)
(* was rejected, so the latest status and the number of rejected ones are  *)
(* all that any later step reads.  Likewise a contract is disputed at most *)
(* once: no transition leads from DISPUTED back to SUBMITTED.              *)
(* ACTIVE and SETTLED are written by ContractSaga, never here.             *)
(***************************************************************************)
EXTENDS CrossProductSaga

CONSTANTS MaxVersion,   \* bound on published versions
          ReworkLimit   \* contract_versions.rework_limit

ASSUME ContractBounds == MaxVersion \in Nat /\ ReworkLimit \in Nat

VARIABLE contract

Parties == {"employer", "contractor"}

ContractStates == {"ABSENT", "PROPOSED", "ACTIVE", "SUBMITTED", "DISPUTED", "SETTLED"}

ContractRows == [status : ContractStates,
                 version : Nat,
                 accepted : SUBSET Parties,
                 escrow : Activations \cup {NoEscrow},
                 delivery : {"NONE", "SUBMITTED", "ACCEPTED", "REJECTED", "DISPUTED"},
                 reworks : Nat,
                 dispute : {"NONE", "OPEN", "RESOLVED"}]

NoContract == [status |-> "ABSENT", version |-> 0, accepted |-> {}, escrow |-> NoEscrow,
               delivery |-> "NONE", reworks |-> 0, dispute |-> "NONE"]

ContractsTypeOK == contract \in [Contracts -> ContractRows]

ContractsInit == contract = [c \in Contracts |-> NoContract]

ProposeContract(c) ==
    /\ contract[c].status = "ABSENT"
    /\ contract' = [contract EXCEPT ![c].status = "PROPOSED", ![c].version = 1]

(* A new version makes every recorded acceptance historical.               *)
PublishContractVersion(c) ==
    /\ contract[c].status = "PROPOSED"
    /\ contract[c].version < MaxVersion
    /\ contract' = [contract EXCEPT ![c].version = @ + 1, ![c].accepted = {}]

AcceptContractVersion(c, p) ==
    /\ contract[c].status = "PROPOSED"
    /\ p \notin contract[c].accepted
    /\ contract' = [contract EXCEPT ![c].accepted = @ \cup {p}]

SubmitDelivery(c) ==
    /\ contract[c].status = "ACTIVE"
    /\ contract' = [contract EXCEPT ![c].status = "SUBMITTED", ![c].delivery = "SUBMITTED"]

AcceptDelivery(c) ==
    /\ contract[c].status = "SUBMITTED"
    /\ contract[c].delivery = "SUBMITTED"
    /\ contract' = [contract EXCEPT ![c].delivery = "ACCEPTED"]

RequestRework(c) ==
    /\ contract[c].status = "SUBMITTED"
    /\ contract[c].delivery = "SUBMITTED"
    /\ contract[c].reworks < ReworkLimit
    /\ contract' = [contract EXCEPT ![c].status = "ACTIVE", ![c].delivery = "REJECTED",
                                    ![c].reworks = @ + 1]

(* The dispute cites the latest delivery, an earlier one, or none.         *)
RaiseContractDispute(c, citesLatest) ==
    /\ contract[c].status = "SUBMITTED"
    /\ contract' = [contract EXCEPT ![c].status = "DISPUTED", ![c].dispute = "OPEN",
                                    ![c].delivery = IF citesLatest THEN "DISPUTED" ELSE @]

AdjudicateContractDispute(c) ==
    /\ contract[c].status = "DISPUTED"
    /\ contract[c].dispute = "OPEN"
    /\ contract' = [contract EXCEPT ![c].dispute = "RESOLVED"]

ContractStep(c) ==
    \/ ProposeContract(c)
    \/ PublishContractVersion(c)
    \/ \E p \in Parties : AcceptContractVersion(c, p)
    \/ SubmitDelivery(c)
    \/ AcceptDelivery(c)
    \/ RequestRework(c)
    \/ \E citesLatest \in BOOLEAN : RaiseContractDispute(c, citesLatest)
    \/ AdjudicateContractDispute(c)

(***************************************************************************)
(* The database's own rule, trigger validate_contract_state_change.  An    *)
(* update it refuses aborts the transaction that made it.                  *)
(***************************************************************************)
LegalTransitions ==
    {<<"PROPOSED", "ACTIVE">>, <<"ACTIVE", "SUBMITTED">>, <<"SUBMITTED", "ACTIVE">>,
     <<"SUBMITTED", "DISPUTED">>, <<"SUBMITTED", "SETTLED">>, <<"DISPUTED", "SETTLED">>}

TriggerAccepts(old, new) ==
    /\ new.version >= old.version
    /\ old.status # "PROPOSED" => new.escrow = old.escrow
    /\ new.status # old.status => <<old.status, new.status>> \in LegalTransitions
    /\ new.status = "ACTIVE" /\ old.status # "ACTIVE"
          => new.version > 0 /\ new.accepted = Parties /\ new.escrow # NoEscrow
=============================================================================
