---------------------------- MODULE GatewayProps ----------------------------
(***************************************************************************)
(* What must be true of wallets, reservations, quotes and executions       *)
(* together.                                                               *)
(***************************************************************************)
EXTENDS Gateway

Calling == {"IDLE", "RESERVE", "TRANSFER", "ACTIVATE", "FEE"}

(* Types of all variables.                                                 *)
TypeOK ==
    /\ posted \in [Entities -> Nat]
    /\ rsv \in [Reservations -> ReservationRows]
    /\ quote \in [Quotes -> QuoteRows]
    /\ expired \subseteq Quotes
    /\ activated \subseteq Entities
    /\ fees \subseteq Entities \X Days
    /\ journals \subseteq ({"mint"} \X Bases) \cup ({"transfer"} \X TransferKeys)
    /\ day \in Days
    /\ DOMAIN call = Sessions
    /\ \A s \in Sessions : call[s].op \in Calling
    /\ plan \in [Executions -> Plans]
    /\ exec \in [Executions -> ExecutionRows]
    /\ tries \in [Executions -> 0 .. MaxAttempts]
    /\ attempt \in [Executions -> {"NONE", "STARTED", "SUCCEEDED", "FAILED", "OUTCOME_UNKNOWN"}]
    /\ receipt \in [Executions -> Nat \cup {NoCharge}]
    /\ recon \subseteq Executions
    /\ pc \in [Executions -> AtWork \cup {"IDLE", "ENDED"}]
    /\ routable \in BOOLEAN

Settled == {r \in Reservations : rsv[r].status = "SETTLED"}
SettledEnergy == SumFunctionOnSet([r \in Reservations |-> rsv[r].settled], Settled)
Balances == SumFunctionOnSet(posted, Entities)
Minted == MintAmount * Cardinality({j \in journals : j[1] = "mint"})

-----------------------------------------------------------------------------
(* Every microE minted is in a wallet, was paid as one of the recorded     *)
(* fees, or was settled from one of the reservations, whatever commands    *)
(* ran concurrently, replayed or failed (createBalancedJournal,            *)
(* settleReservation, chargeFee).                                          *)
MoneyIsConserved ==
    Minted = Balances + Fee * Cardinality(fees) + SettledEnergy

(* The charge an execution reports is the amount its reservation was       *)
(* settled for, or nothing when the reservation was released instead; its  *)
(* receipt says the same.  Crashes, releases by the owner, cancellations   *)
(* and another execution on the reservation fall in between                *)
(* (finalizeSuccess, finalizeFailure).                                     *)
ChargesAreSettlements ==
    \A e \in Executions :
       /\ exec[e].charge # NoCharge =>
             \/ rsv[Row(e)].status = "SETTLED" /\ rsv[Row(e)].settled = exec[e].charge
             \/ rsv[Row(e)].status = "RELEASED" /\ exec[e].charge = 0 /\ exec[e].status = "FAILED"
       /\ receipt[e] # NoCharge => receipt[e] = exec[e].charge
       /\ exec[e].status = "SUCCEEDED" => receipt[e] # NoCharge

(* A quote says what happened to the reservation bound to it: no used or   *)
(* released reservation leaves a quote another inference can be authorised *)
(* against (reserveQuoted, sync_quote_reservation_status).                 *)
QuoteFollowsReservation ==
    \A r \in Reservations : rsv[r].quote \in Quotes =>
        quote[rsv[r].quote].status =
            CASE rsv[r].status = "ACTIVE"   -> "RESERVED"
              [] rsv[r].status = "SETTLED"  -> "CONSUMED"
              [] rsv[r].status = "RELEASED" -> "CANCELLED"

(* An execution that succeeded, failed, or whose outcome is unknown is     *)
(* never sent to the provider again, and its status and charge never       *)
(* change, although four transactions write the status without reading it  *)
(* and a retry loop is running (infer).                                    *)
OutcomesAreFinal ==
    [][\A e \in Executions : exec[e].status \in {"SUCCEEDED", "FAILED", "OUTCOME_UNKNOWN"} =>
          UNCHANGED <<exec[e], tries[e], receipt[e]>>]_vars

(* A cancelled execution was not sent to the provider and never will be,   *)
(* although cancelExecution races the dispatch (P1_4_Final_Contract_Closure:*)
(* a DISPATCHED request is not falsely marked cancelled).                  *)
CancelledIsNeverSent ==
    [][\A e \in Executions : exec[e].status = "CANCELLED" =>
          tries[e] = 0 /\ tries'[e] = 0 /\ receipt'[e] = NoCharge]_vars

(* A command can overdraw the available balance only by overlooking        *)
(* reservations: the step that takes a balance below zero is the end of a  *)
(* command of its owner whose snapshot was taken before another command    *)
(* reserved.  Settlements, releases, and the fee of an activation, whose   *)
(* second statement sees every reservation, never do (lockWallet, reserve, *)
(* transfer, chargeFee, settleReservation).                                *)
Overlooks(s) == call[s].reserved < Reserved(call[s].who)
OnlyOverlookingOverdraws ==
    [][\A x \in Entities : Available(x)' < 0 /\ Available(x)' < Available(x) =>
          \E s \in Calls("RESERVE") \cup Calls("TRANSFER") \cup Calls("FEE") :
             call'[s] = Idle /\ call[s].who = x /\ Overlooks(s)]_vars

-----------------------------------------------------------------------------
(* docs/modules/05_Energy_and_Resources.md: the available balance of an    *)
(* ordinary wallet may not be negative.                                    *)
AvailableNonNegative == \A x \in Entities : Available(x) >= 0
=============================================================================
