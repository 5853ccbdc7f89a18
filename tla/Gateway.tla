------------------------------ MODULE Gateway ------------------------------
(***************************************************************************)
(* The model gateway (src/services/gateway.js, src/services/p1_4.js): one  *)
(* inference paid from a quote-backed reservation of the local ledger.     *)
(*                                                                         *)
(* An infer call is a process of several transactions: authorise against   *)
(* the quote, prepare the execution, mark an attempt DISPATCHED, then,     *)
(* outside any transaction, the provider request, and a last transaction   *)
(* that settles.  Cancellation, the owner's release of the reservation,    *)
(* other executions, midnight and the death of the process fall between    *)
(* any two of them.  Only PLATFORM_PREPAID connectors are modelled: a BYOK *)
(* execution has no reservation and charges nothing.                       *)
(***************************************************************************)
EXTENDS Economy

CONSTANTS
    Executions,   \* infer calls, each with an idempotency key of its own
    MaxAttempts   \* capability_descriptors.max_attempts; 1 without provider idempotency

ASSUME GatewayBounds == MaxAttempts \in 1 .. 4

VARIABLES
    plan,         \* the immutable columns of gateway.executions
    exec,         \* executions: status and final_charge_micro_e
    tries,        \* number of execution_attempts rows
    attempt,      \* status of the last attempt
    receipt,      \* charge_micro_e of the usage receipt
    recon,        \* executions with a reconciliation job
    pc,           \* the infer call in its process
    routable      \* descriptor ACTIVE and connector enabled

records == <<plan, exec, tries, attempt, receipt, recon>>
gatewayVars == <<records, pc, routable>>
vars == <<economyVars, gatewayVars>>

NoCharge == -1
NoPlan == [status |-> "NONE"]
Plans == {NoPlan} \cup [row : Reservations, quote : Quotes, day : Days, max : Nat]
ExecutionRows ==
    [status : {"NONE", "PROPOSED", "DISPATCHED", "SUCCEEDED", "FAILED", "OUTCOME_UNKNOWN",
               "CANCELLED"},
     charge : Nat \cup {NoCharge}]
Terminal == {"SUCCEEDED", "FAILED", "OUTCOME_UNKNOWN", "CANCELLED"}
AtWork == {"AUTHORISED", "PREPARED", "ELIGIBLE", "SENT", "BLOCKED"}

Payer(e) == plan[e].row[1]
Row(e) == plan[e].row

Init ==
    /\ EconomyInit
    /\ plan = [e \in Executions |-> NoPlan]
    /\ exec = [e \in Executions |-> [status |-> "NONE", charge |-> NoCharge]]
    /\ tries = [e \in Executions |-> 0]
    /\ attempt = [e \in Executions |-> "NONE"]
    /\ receipt = [e \in Executions |-> NoCharge]
    /\ recon = {}
    /\ pc = [e \in Executions |-> "IDLE"]
    /\ routable = TRUE

Goto(e, step) == pc' = [pc EXCEPT ![e] = step]

---------------------------------------------------------------------------
(* inferQuoted: the first transaction checks quote and reservation and     *)
(* takes max_cost as the authorised maximum.  Nothing is written.          *)
ValidateQuoteForInference(e, r, d) ==
    LET q == rsv[r].quote
    IN  /\ pc[e] = "IDLE"
        /\ rsv[r].status = "ACTIVE"
        /\ q \in Quotes \ expired
        /\ quote[q].status = "RESERVED"
        /\ quote[q].payer = r[1]
        /\ rsv[r].amount >= quote[q].max
        /\ plan' = [plan EXCEPT ![e] = [row |-> r, quote |-> q, day |-> d, max |-> quote[q].max]]
        /\ Goto(e, "AUTHORISED")
        /\ UNCHANGED <<economyVars, exec, tries, attempt, receipt, recon, routable>>

Preparable(e) ==
    /\ routable
    /\ <<Payer(e), plan[e].day>> \in fees
    /\ rsv[Row(e)].status = "ACTIVE"
    /\ rsv[Row(e)].amount >= plan[e].max

(* A refused preparation rolls the action row back too: the key is free.   *)
PrepareExecution(e) ==
    /\ pc[e] = "AUTHORISED"
    /\ IF Preparable(e)
       THEN /\ exec' = [exec EXCEPT ![e].status = "PROPOSED"]
            /\ Goto(e, "PREPARED")
            /\ UNCHANGED plan
       ELSE /\ plan' = [plan EXCEPT ![e] = NoPlan]
            /\ Goto(e, "IDLE")
            /\ UNCHANGED exec
    /\ UNCHANGED <<economyVars, tries, attempt, receipt, recon, routable>>

---------------------------------------------------------------------------
(* markAttemptDispatched.  The transaction locks the execution row, reads  *)
(* the fee and the available balance, then locks the reservation.          *)
Dispatchable(e) == exec[e].status \in {"PROPOSED", "DISPATCHED"}

Eligible(e) ==
    /\ Dispatchable(e)
    /\ plan[e].day = day
    /\ <<Payer(e), plan[e].day>> \in fees
    /\ Available(Payer(e)) > 0
    /\ routable

CheckEligibility(e) ==
    /\ pc[e] = "PREPARED"
    /\ Goto(e, IF Eligible(e) THEN "ELIGIBLE" ELSE "BLOCKED")
    /\ UNCHANGED <<economyVars, records, routable>>

(* Trigger provider_requests_quote_guard.                                  *)
QuoteDispatchable(e) ==
    LET q == plan[e].quote
    IN  /\ quote[q].status = "RESERVED"
        /\ rsv[Row(e)].quote = q
        /\ q \notin expired

MarkAttemptDispatched(e) ==
    /\ pc[e] = "ELIGIBLE"
    /\ rsv[Row(e)].status = "ACTIVE"
    /\ QuoteDispatchable(e)
    /\ tries' = [tries EXCEPT ![e] = @ + 1]
    /\ attempt' = [attempt EXCEPT ![e] = "STARTED"]
    /\ exec' = [exec EXCEPT ![e].status = "DISPATCHED"]
    /\ Goto(e, "SENT")
    /\ UNCHANGED <<economyVars, plan, receipt, recon, routable>>

(* INVALID_RESERVATION is a dispatch block code; the trigger's 23514 is    *)
(* not, so infer throws and leaves the execution as it is.                 *)
DispatchRefused(e) ==
    /\ pc[e] = "ELIGIBLE"
    /\ \/ rsv[Row(e)].status # "ACTIVE" /\ Goto(e, "BLOCKED")
       \/ rsv[Row(e)].status = "ACTIVE" /\ ~QuoteDispatchable(e) /\ Goto(e, "ENDED")
    /\ UNCHANGED <<economyVars, records, routable>>

(* The credential variable is not set: finalizePreDispatchFailure.         *)
CredentialUnavailable(e) ==
    /\ pc[e] = "PREPARED"
    /\ Goto(e, "BLOCKED")
    /\ UNCHANGED <<economyVars, records, routable>>

FinalizeEligibilityFailure(e) ==
    /\ pc[e] = "BLOCKED"
    /\ IF rsv[Row(e)].status = "ACTIVE" THEN Release(Row(e)) ELSE UNCHANGED <<rsv, quote>>
    /\ exec' = [exec EXCEPT ![e].status = "FAILED"]
    /\ Goto(e, "ENDED")
    /\ UNCHANGED <<posted, expired, activated, fees, journals, day, call,
                   plan, tries, attempt, receipt, recon, routable>>

---------------------------------------------------------------------------
(* The provider's answer, and the transaction that records it.             *)

(* Mutant: the attempt loop has no end.                                    *)
Retries_NoLimit(e) == TRUE
Retries(e) == tries[e] < MaxAttempts

MarkRetryableFailure(e) ==
    /\ pc[e] = "SENT"
    /\ Retries(e)
    /\ attempt' = [attempt EXCEPT ![e] = "FAILED"]
    /\ Goto(e, "PREPARED")
    /\ UNCHANGED <<economyVars, plan, exec, tries, receipt, recon, routable>>

(* Trigger executions_authority_immutable: a charge is determined once.    *)
ChargeOpen(e) ==
    exec[e].charge = NoCharge /\ exec[e].status \notin {"SUCCEEDED", "FAILED", "CANCELLED"}

Resolve(e, status, c) ==
    /\ exec' = [exec EXCEPT ![e] = [status |-> status, charge |-> c]]
    /\ attempt' = [attempt EXCEPT ![e] = status]

(* finalizeSuccess, or finalizeFailure of an answer with known usage: the  *)
(* usage is settled and a receipt written, or the transaction throws and   *)
(* the execution stays DISPATCHED.                                         *)
FinalizeWithUsage(e, status, c) ==
    /\ pc[e] = "SENT"
    /\ c <= plan[e].max
    /\ IF Settleable(Row(e), c) /\ ChargeOpen(e)
       THEN /\ Settle(Row(e), c)
            /\ Resolve(e, status, c)
            /\ receipt' = [receipt EXCEPT ![e] = c]
       ELSE UNCHANGED <<posted, rsv, quote, exec, attempt, receipt>>
    /\ Goto(e, "ENDED")
    /\ UNCHANGED <<expired, activated, fees, journals, day, call, plan, tries, recon, routable>>

(* finalizeFailure of a confirmed failure without usage.                   *)
FinalizeFailure(e) ==
    /\ pc[e] = "SENT"
    /\ IF Releasable(Row(e)) /\ ChargeOpen(e)
       THEN Release(Row(e)) /\ Resolve(e, "FAILED", 0)
       ELSE UNCHANGED <<rsv, quote, exec, attempt>>
    /\ Goto(e, "ENDED")
    /\ UNCHANGED <<posted, expired, activated, fees, journals, day, call,
                   plan, tries, receipt, recon, routable>>

(* Mutant: an uncertain outcome is treated as a transport failure.         *)
FinalizeUnknown_Retries(e) ==
    /\ pc[e] = "SENT"
    /\ attempt' = [attempt EXCEPT ![e] = "OUTCOME_UNKNOWN"]
    /\ exec' = [exec EXCEPT ![e].status = "OUTCOME_UNKNOWN"]
    /\ recon' = recon \cup {e}
    /\ Goto(e, IF tries[e] < MaxAttempts THEN "PREPARED" ELSE "ENDED")
    /\ UNCHANGED <<economyVars, plan, tries, receipt, routable>>

(* Timeout, ambiguous network error, missing usage, or usage above the     *)
(* authorised maximum: the reservation is kept for a reconciliation job,   *)
(* which nothing in the source resolves.                                   *)
FinalizeUnknown(e) ==
    /\ pc[e] = "SENT"
    /\ attempt' = [attempt EXCEPT ![e] = "OUTCOME_UNKNOWN"]
    /\ exec' = [exec EXCEPT ![e].status = "OUTCOME_UNKNOWN"]
    /\ recon' = recon \cup {e}
    /\ Goto(e, "ENDED")
    /\ UNCHANGED <<economyVars, plan, tries, receipt, routable>>

---------------------------------------------------------------------------
(* Mutant: a request that was already sent can be cancelled.               *)
Cancellable_Dispatched(e) == exec[e].status \in {"PROPOSED", "DISPATCHED"}

Cancellable(e) == exec[e].status = "PROPOSED"

(* cancelExecution waits for the row lock that a dispatching transaction   *)
(* holds.                                                                  *)
RowUnlocked(e) == pc[e] # "ELIGIBLE"

CancelExecution(e) ==
    /\ Cancellable(e)
    /\ RowUnlocked(e)
    /\ Releasable(Row(e))
    /\ Release(Row(e))
    /\ exec' = [exec EXCEPT ![e].status = "CANCELLED"]
    /\ UNCHANGED <<posted, expired, activated, fees, journals, day, call,
                   plan, tries, attempt, receipt, recon, pc, routable>>

(* The process dies: what is committed stays.                              *)
Crash(e) ==
    /\ pc[e] \in AtWork
    /\ Goto(e, "ENDED")
    /\ UNCHANGED <<economyVars, records, routable>>

(* registerConnector for a replacement disables the connector in use.      *)
DisableConnector ==
    /\ routable
    /\ routable' = FALSE
    /\ UNCHANGED <<economyVars, records, pc>>

Ledger == EconomyNext /\ UNCHANGED gatewayVars

Next ==
    \/ Ledger
    \/ DisableConnector
    \/ \E e \in Executions :
          \/ \E r \in Reservations, d \in Days : ValidateQuoteForInference(e, r, d)
          \/ PrepareExecution(e)
          \/ CheckEligibility(e)
          \/ MarkAttemptDispatched(e)
          \/ DispatchRefused(e)
          \/ CredentialUnavailable(e)
          \/ FinalizeEligibilityFailure(e)
          \/ MarkRetryableFailure(e)
          \/ \E status \in {"SUCCEEDED", "FAILED"}, c \in {0} \cup Amounts : FinalizeWithUsage(e, status, c)
          \/ FinalizeFailure(e)
          \/ FinalizeUnknown(e)
          \/ CancelExecution(e)
          \/ Crash(e)

Spec == Init /\ [][Next]_vars
=============================================================================
