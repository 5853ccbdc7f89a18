--------------------------- MODULE GatewaySafety ----------------------------
(***************************************************************************)
(* Safety of the gateway and of the reservations it is paid from, for any  *)
(* entities, keys, quotes, sessions, executions, amounts and attempts.     *)
(* The sums of the ledger only decide which branch is taken here;          *)
(* LedgerSafety reasons about them.                                        *)
(***************************************************************************)
EXTENDS GatewayProps, TLAPS

-----------------------------------------------------------------------------
(* The inductive invariant.                                                *)

(* A reserve command between its snapshot and its lock.                    *)
Reserving(s) == call[s].op = "RESERVE"
CallOK ==
    /\ DOMAIN call = Sessions
    /\ \A s \in Sessions : Reserving(s) =>
          /\ call[s].row \in Reservations
          /\ call[s].amount \in Nat
          /\ call[s].quote \in Quotes \cup {NoQuote}

LedgerTypes ==
    /\ rsv \in [Reservations -> ReservationRows]
    /\ quote \in [Quotes -> QuoteRows]
    /\ CallOK

Followed == [ACTIVE |-> "RESERVED", SETTLED |-> "CONSUMED", RELEASED |-> "CANCELLED"]

(* A quote is bound to one reservation and follows it, and a quote that a  *)
(* command is about to bind is bound to none and wanted by no other.       *)
QuoteInv ==
    /\ \A r \in Reservations : rsv[r].quote \in Quotes =>
          rsv[r].status \in DOMAIN Followed /\ quote[rsv[r].quote].status = Followed[rsv[r].status]
    /\ \A r, t \in Reservations : rsv[r].quote \in Quotes /\ rsv[r].quote = rsv[t].quote => r = t
    /\ \A s \in Sessions : Reserving(s) /\ call[s].quote \in Quotes =>
          quote[call[s].quote].status = "ACTIVE"
    /\ \A s, t \in Sessions :
          Reserving(s) /\ Reserving(t) /\ call[s].quote \in Quotes /\ call[s].quote = call[t].quote
             => s = t

LedgerInv == LedgerTypes /\ QuoteInv

(* A row that is settled or released never changes again.                  *)
RowsStayEnded ==
    \A r \in Reservations : rsv[r].status \in {"SETTLED", "RELEASED"} => rsv'[r] = rsv[r]

ExecutionTypes ==
    /\ DOMAIN plan = Executions
    /\ exec \in [Executions -> ExecutionRows]
    /\ tries \in [Executions -> Nat]
    /\ receipt \in [Executions -> Nat \cup {NoCharge}]
    /\ pc \in [Executions -> AtWork \cup {"IDLE", "ENDED"}]

(* An execution has a row only once its call was authorised, none of its   *)
(* records before it was prepared, and no outcome while the call runs.     *)
(* What is still cancellable was never sent.                               *)
ProgressInv(e) ==
    /\ pc[e] \in AtWork \/ exec[e].status # "NONE" => plan[e].row \in Reservations
    /\ pc[e] \in {"IDLE", "AUTHORISED"} => exec[e].status = "NONE"
    /\ exec[e].status = "NONE" => tries[e] = 0
    /\ pc[e] # "ENDED" =>
          /\ exec[e].charge = NoCharge /\ receipt[e] = NoCharge
          /\ exec[e].status \notin {"SUCCEEDED", "FAILED", "OUTCOME_UNKNOWN"}
    /\ exec[e].charge # NoCharge => exec[e].status \in {"SUCCEEDED", "FAILED"}
    /\ exec[e].status \in {"PROPOSED", "CANCELLED"} =>
          tries[e] = 0 /\ receipt[e] = NoCharge /\ pc[e] # "SENT"
    /\ exec[e].status = "CANCELLED" => pc[e] # "ELIGIBLE"

(* ChargesAreSettlements, of one execution.                                *)
ChargeInv(e) ==
    /\ exec[e].charge # NoCharge =>
          \/ rsv[Row(e)].status = "SETTLED" /\ rsv[Row(e)].settled = exec[e].charge
          \/ rsv[Row(e)].status = "RELEASED" /\ exec[e].charge = 0 /\ exec[e].status = "FAILED"
    /\ receipt[e] # NoCharge => receipt[e] = exec[e].charge
    /\ exec[e].status = "SUCCEEDED" => receipt[e] # NoCharge

ExecutionInv == ExecutionTypes /\ \A e \in Executions : ProgressInv(e) /\ ChargeInv(e)

-----------------------------------------------------------------------------
(* The ledger.                                                             *)

(* A quote that changes its status stays a quote.                          *)
LEMMA QuoteUpdate ==
    ASSUME quote \in [Quotes -> QuoteRows], NEW q \in Quotes, quote[q].status # "NONE",
           NEW status \in {"ACTIVE", "RESERVED", "CONSUMED", "CANCELLED"}
    PROVE  [quote EXCEPT ![q].status = status] \in [Quotes -> QuoteRows]
  <1>1. quote[q] \in [status : {"ACTIVE", "RESERVED", "CONSUMED", "CANCELLED"},
                      payer : Entities, max : Nat]
    BY DEF QuoteRows, NoQuoteRow
  <1>2. [quote[q] EXCEPT !.status = status] \in QuoteRows
    BY <1>1 DEF QuoteRows
  <1> QED BY <1>2

LEMMA SyncQuoteTypes ==
    ASSUME quote \in [Quotes -> QuoteRows], NEW q, NEW status \in {"CONSUMED", "CANCELLED"},
           SyncQuote(q, status)
    PROVE  quote' \in [Quotes -> QuoteRows]
  <1>1. CASE q \in Quotes /\ quote[q].status = "RESERVED"
    BY <1>1, QuoteUpdate DEF SyncQuote
  <1>2. CASE ~ (q \in Quotes /\ quote[q].status = "RESERVED")
    BY <1>2 DEF SyncQuote
  <1> QED BY <1>1, <1>2

LEMMA ReleaseStep ==
    ASSUME LedgerInv, NEW r \in Reservations, Release(r), UNCHANGED call
    PROVE  LedgerInv' /\ RowsStayEnded /\ (Releasable(r) => rsv'[r].status = "RELEASED")
  <1> USE DEF LedgerInv, LedgerTypes, QuoteRows, ReservationRows
  <1>1. CASE rsv[r].status = "ACTIVE"
    <2>1. /\ rsv' = [rsv EXCEPT ![r].status = "RELEASED"]
          /\ SyncQuote(rsv[r].quote, "CANCELLED")
      BY <1>1 DEF Release
    <2>2. rsv' \in [Reservations -> ReservationRows] /\ quote' \in [Quotes -> QuoteRows]
      BY <2>1, SyncQuoteTypes
    <2>3. CallOK'
      BY DEF CallOK, Reserving
    <2>4. QuoteInv'
      BY <1>1, <2>1 DEF QuoteInv, Followed, SyncQuote, Reserving, CallOK
    <2> QED BY <1>1, <2>1, <2>2, <2>3, <2>4 DEF RowsStayEnded
  <1>2. CASE rsv[r].status # "ACTIVE"
    BY <1>2 DEF Release, Releasable, RowsStayEnded, QuoteInv, CallOK, Reserving
  <1> QED BY <1>1, <1>2

LEMMA SettleStep ==
    ASSUME LedgerInv, NEW r \in Reservations, NEW c \in Nat, Settleable(r, c), Settle(r, c),
           UNCHANGED call
    PROVE  /\ LedgerInv' /\ RowsStayEnded
           /\ rsv'[r].status = "SETTLED" /\ rsv'[r].settled = c
  <1> USE DEF LedgerInv, LedgerTypes, QuoteRows, ReservationRows
  <1>1. CASE rsv[r].status = "ACTIVE"
    <2>1. /\ rsv' = [rsv EXCEPT ![r].status = "SETTLED", ![r].settled = c]
          /\ SyncQuote(rsv[r].quote, "CONSUMED")
      BY <1>1 DEF Settle
    <2>2. /\ rsv' \in [Reservations -> ReservationRows]
          /\ \A t \in Reservations : t # r => rsv'[t] = rsv[t]
          /\ rsv'[r].status = "SETTLED" /\ rsv'[r].settled = c /\ rsv'[r].quote = rsv[r].quote
      BY <2>1
    <2>3. quote' \in [Quotes -> QuoteRows]
      BY <2>1, SyncQuoteTypes
    <2>4. CallOK'
      BY DEF CallOK, Reserving
    <2>5. QuoteInv'
      BY <1>1, <2>1, <2>2 DEF QuoteInv, Followed, SyncQuote, Reserving, CallOK
    <2> QED BY <1>1, <2>2, <2>3, <2>4, <2>5 DEF RowsStayEnded
  <1>2. CASE rsv[r].status # "ACTIVE"
    BY <1>2 DEF Settle, Settleable, RowsStayEnded, QuoteInv, CallOK, Reserving
  <1> QED BY <1>1, <1>2

(* What a bound row may be: new, or ACTIVE and not bound to another quote. *)
LEMMA ReserveStep ==
    ASSUME LedgerInv, NEW s \in Sessions, FinishReserve(s)
    PROVE  LedgerInv' /\ RowsStayEnded
  <1> USE DEF LedgerInv, LedgerTypes
  <1> DEFINE r == call[s].row
             q == call[s].quote
  <1>1. Reserving(s) /\ r \in Reservations /\ call[s].amount \in Nat /\ q \in Quotes \cup {NoQuote}
    BY DEF FinishReserve, Reserving, CallOK
  <1>2. call' = [call EXCEPT ![s] = Idle]
    BY DEF FinishReserve, Done
  <1>3. CallOK'
    BY <1>2 DEF CallOK, Reserving, Idle
  <1>4. \A t \in Sessions : Reserving(t)' => t # s /\ Reserving(t) /\ call'[t] = call[t]
    BY <1>2 DEF CallOK, Reserving, Idle
  <1>5. CASE ReserveRefused(s)
    BY <1>3, <1>4, <1>5 DEF ReserveRefused, QuoteInv, RowsStayEnded
  <1>6. ASSUME NEW row \in ReservationRows, row.status = "ACTIVE", Bind(s, row),
               rsv[r].status \in {"NONE", "ACTIVE"},
               row.quote = NoQuote \/ row = rsv[r],
               rsv[r].quote \in Quotes => row = rsv[r],
               q \in Quotes => row.quote \in {NoQuote, q}
        PROVE  LedgerInv' /\ RowsStayEnded
    <2>1. CASE q \in Quotes
      <3>1. quote[q].status = "ACTIVE"
        BY <1>1, <2>1 DEF QuoteInv
      <3>2. row.quote = NoQuote /\ rsv[r].quote \notin Quotes
        BY <1>1, <1>6, <2>1, <3>1, NoQuoteIsNoQuote DEF QuoteInv, Followed
      <3>3. /\ rsv' = [rsv EXCEPT ![r] = [row EXCEPT !.quote = q]]
            /\ quote' = [quote EXCEPT ![q].status = "RESERVED"]
        BY <1>6, <2>1 DEF Bind
      <3>4. [row EXCEPT !.quote = q] \in ReservationRows
        BY <1>6, <2>1 DEF ReservationRows
      <3>5. rsv' \in [Reservations -> ReservationRows] /\ quote' \in [Quotes -> QuoteRows]
        BY <2>1, <3>1, <3>3, <3>4, QuoteUpdate
      <3>6. /\ \A t \in Reservations : t # r => rsv'[t] = rsv[t]
            /\ rsv'[r].status = "ACTIVE" /\ rsv'[r].quote = q
        BY <1>1, <1>6, <3>3 DEF ReservationRows
      <3>7. /\ \A p \in Quotes : p # q => quote'[p] = quote[p]
            /\ quote'[q].status = "RESERVED"
        BY <2>1, <3>1, <3>3 DEF QuoteRows, NoQuoteRow
      <3>8. \A t \in Reservations : rsv[t].quote # q
        BY <2>1, <3>1 DEF QuoteInv, Followed
      <3>9. QuoteInv'
        BY <1>1, <1>4, <2>1, <3>6, <3>7, <3>8 DEF QuoteInv, Followed
      <3> QED BY <1>3, <1>6, <3>5, <3>6, <3>9 DEF RowsStayEnded
    <2>2. CASE q \notin Quotes
      <3>1. rsv' = [rsv EXCEPT ![r] = row] /\ quote' = quote
        BY <1>6, <2>2 DEF Bind
      <3>2. QuoteInv'
        BY <1>1, <1>4, <1>6, <3>1, NoQuoteIsNoQuote DEF QuoteInv, Followed
      <3> QED BY <1>1, <1>3, <1>6, <3>1, <3>2 DEF RowsStayEnded
    <2> QED BY <2>1, <2>2
  <1>7. CASE ReserveNew(s)
    <2> DEFINE row == [NoReservation EXCEPT !.status = "ACTIVE", !.amount = call[s].amount]
    <2>1. row \in ReservationRows /\ row.status = "ACTIVE" /\ row.quote = NoQuote
      BY <1>1 DEF NoReservation, ReservationRows
    <2>2. rsv[r].status = "NONE" /\ Bind(s, row)
      BY <1>7 DEF ReserveNew
    <2>3. rsv[r].quote \notin Quotes
      BY <1>1, <2>2 DEF QuoteInv, Followed
    <2> HIDE DEF row
    <2> QED BY <1>6, <2>1, <2>2, <2>3
  <1>8. CASE ReserveReplay(s)
    <2>1. rsv[r].status = "ACTIVE" /\ rsv[r] \in ReservationRows /\ Bind(s, rsv[r])
      BY <1>1, <1>8 DEF ReserveReplay, ReserveReplays
    <2>2. q \in Quotes => rsv[r].quote \in {NoQuote, q}
      BY <1>8 DEF ReserveReplay, ReserveReplays
    <2> QED BY <1>6, <2>1, <2>2
  <1> QED BY <1>5, <1>7, <1>8 DEF FinishReserve

(* Everything else leaves rows alone; quotes are only created, and at most *)
(* one command is about to bind an ACTIVE one.                             *)
LEMMA LedgerStep ==
    ASSUME LedgerInv, EconomyNext
    PROVE  LedgerInv' /\ RowsStayEnded
  <1> USE DEF LedgerInv, LedgerTypes
  <1>1. ASSUME UNCHANGED <<rsv, quote>>, CallOK',
               \A t \in Sessions : Reserving(t)' => Reserving(t) /\ call'[t] = call[t]
        PROVE  LedgerInv' /\ RowsStayEnded
    BY <1>1 DEF QuoteInv, RowsStayEnded
  <1>2. ASSUME NEW s \in Sessions, UNCHANGED <<rsv, quote>>,
               call' = [call EXCEPT ![s] = Idle]
        PROVE  LedgerInv' /\ RowsStayEnded
    <2>1. CallOK' /\ \A t \in Sessions : Reserving(t)' => Reserving(t) /\ call'[t] = call[t]
      BY <1>2 DEF CallOK, Reserving, Idle
    <2> QED BY <1>1, <1>2, <2>1
  <1>3. ASSUME NEW s \in Sessions, NEW c, c.op # "RESERVE", Begin(s, c)
        PROVE  LedgerInv' /\ RowsStayEnded
    <2>1. CallOK' /\ \A t \in Sessions : Reserving(t)' => Reserving(t) /\ call'[t] = call[t]
      BY <1>3 DEF CallOK, Reserving, Begin
    <2> QED BY <1>1, <1>3, <2>1 DEF Begin, ledger
  <1>4. CASE NextDay \/ (\E q \in Quotes : Expire(q)) \/ \E x \in Entities, b \in Bases : Mint(x, b)
    BY <1>1, <1>4 DEF NextDay, Expire, Mint, ledger, CallOK, Reserving
  <1>5. ASSUME NEW x \in Entities, NEW q \in Quotes, NEW m \in Amounts, QuoteResource(x, q, m)
        PROVE  LedgerInv' /\ RowsStayEnded
    <2>1. /\ quote[q].status = "NONE"
          /\ quote' = [quote EXCEPT ![q] = [status |-> "ACTIVE", payer |-> x, max |-> m]]
          /\ UNCHANGED <<rsv, call>>
      BY <1>5 DEF QuoteResource
    <2>2. quote' \in [Quotes -> QuoteRows]
      BY <2>1, EconomyBounds DEF QuoteRows
    <2>3. QuoteInv'
      BY <2>1 DEF QuoteInv, Followed, Reserving
    <2> QED BY <2>1, <2>2, <2>3 DEF CallOK, Reserving, RowsStayEnded
  <1>6. ASSUME NEW r \in Reservations, ReleaseReservation(r)
        PROVE  LedgerInv' /\ RowsStayEnded
    BY <1>6, ReleaseStep DEF ReleaseReservation
  <1>7. ASSUME NEW s \in Sessions, NEW r \in Reservations, NEW a \in Amounts,
               NEW q \in Quotes \cup {NoQuote}, BeginReserve(s, r, a, q)
        PROVE  LedgerInv' /\ RowsStayEnded
    <2>1. UNCHANGED <<rsv, quote>>
      BY <1>7 DEF BeginReserve, Begin, ledger
    <2> DEFINE c == [op |-> "RESERVE", who |-> r[1], row |-> r, amount |-> a, quote |-> q,
                     reserved |-> Reserved(r[1])]
    <2>2. call' = [call EXCEPT ![s] = c] /\ c.row = r /\ c.amount = a /\ c.quote = q
      BY <1>7 DEF BeginReserve, Begin
    <2>3. q \in Quotes =>
             /\ quote[q].status = "ACTIVE"
             /\ \A t \in Sessions : Reserving(t) => call[t].quote # q
      BY <1>7 DEF BeginReserve, Calls, Reserving
    <2> HIDE DEF c
    <2>4. CallOK'
      BY <2>2, EconomyBounds DEF CallOK, Reserving
    <2>5. QuoteInv'
      BY <2>1, <2>2, <2>3 DEF CallOK, QuoteInv, Reserving
    <2> QED BY <2>1, <2>4, <2>5 DEF RowsStayEnded
  <1>8. ASSUME NEW s \in Sessions, FinishReserve(s)
        PROVE  LedgerInv' /\ RowsStayEnded
    BY <1>8, ReserveStep
  <1>9. ASSUME NEW s \in Sessions, FinishTransfer(s) \/ FinishDailyFee(s) \/ FinishActivation(s)
        PROVE  LedgerInv' /\ RowsStayEnded
    BY <1>2, <1>9 DEF FinishTransfer, FinishDailyFee, FinishActivation, Done
  <1>10. ASSUME NEW s \in Sessions, NEW x \in Entities, NEW y \in Entities, NEW a \in Amounts,
                NEW t \in TransferKeys, BeginTransfer(s, x, y, a, t)
         PROVE  LedgerInv' /\ RowsStayEnded
    BY <1>3, <1>10 DEF BeginTransfer
  <1>11. ASSUME NEW s \in Sessions, NEW x \in Entities, NEW d \in Days,
                BeginActivation(s, x, d) \/ BeginDailyFee(s, x, d)
         PROVE  LedgerInv' /\ RowsStayEnded
    BY <1>3, <1>11 DEF BeginActivation, BeginDailyFee
  <1> QED BY <1>4, <1>5, <1>6, <1>7, <1>8, <1>9, <1>10, <1>11 DEF EconomyNext

-----------------------------------------------------------------------------
(* Executions.                                                             *)

GatewayInv == LedgerInv /\ ExecutionInv

LEMMA LedgerKept ==
    ASSUME LedgerInv, UNCHANGED <<rsv, quote, call>>
    PROVE  LedgerInv' /\ RowsStayEnded
  BY DEF LedgerInv, LedgerTypes, CallOK, QuoteInv, Reserving, RowsStayEnded

Untouched(t) ==
    /\ plan'[t] = plan[t] /\ exec'[t] = exec[t] /\ tries'[t] = tries[t]
    /\ receipt'[t] = receipt[t] /\ pc'[t] = pc[t]

(* The charge of an execution is safe from all that happens elsewhere,     *)
(* because its reservation has ended.                                      *)
LEMMA UntouchedKept ==
    ASSUME ExecutionInv, RowsStayEnded, NEW t \in Executions, Untouched(t)
    PROVE  ProgressInv(t)' /\ ChargeInv(t)'
  <1>1. ProgressInv(t)'
    BY DEF ExecutionInv, ProgressInv, Untouched
  <1>2. exec[t].charge # NoCharge => Row(t) \in Reservations
    BY DEF ExecutionInv, ProgressInv, Row
  <1>3. ChargeInv(t)'
    BY <1>2 DEF ExecutionInv, ChargeInv, Untouched, Row, RowsStayEnded
  <1> QED BY <1>1, <1>3

(* An execution moves and the others stay.                                 *)
LEMMA OneMoves ==
    ASSUME ExecutionInv, NEW e \in Executions, LedgerInv', RowsStayEnded, ExecutionTypes',
           \A t \in Executions \ {e} : Untouched(t), ProgressInv(e)', ChargeInv(e)'
    PROVE  GatewayInv'
  BY UntouchedKept DEF GatewayInv, ExecutionInv

LEMMA AuthoriseStep ==
    ASSUME GatewayInv, NEW e \in Executions, NEW r \in Reservations, NEW d \in Days,
           ValidateQuoteForInference(e, r, d)
    PROVE  GatewayInv'
  <1> USE DEF GatewayInv, ExecutionInv, ExecutionTypes
  <1>1. LedgerInv' /\ RowsStayEnded
    BY LedgerKept DEF ValidateQuoteForInference, economyVars
  <1>2. /\ pc[e] = "IDLE" /\ pc' = [pc EXCEPT ![e] = "AUTHORISED"]
        /\ DOMAIN plan' = Executions /\ plan'[e].row = r
        /\ \A t \in Executions \ {e} : plan'[t] = plan[t]
        /\ UNCHANGED <<exec, tries, receipt>>
    BY DEF ValidateQuoteForInference, Goto
  <1>3. ExecutionTypes'
    BY <1>2 DEF AtWork
  <1>4. ProgressInv(e)' /\ ChargeInv(e)'
    BY <1>2 DEF ProgressInv, ChargeInv, AtWork
  <1>5. \A t \in Executions \ {e} : Untouched(t)
    BY <1>2 DEF Untouched
  <1> QED BY <1>1, <1>3, <1>4, <1>5, OneMoves

LEMMA PrepareStep ==
    ASSUME GatewayInv, NEW e \in Executions, PrepareExecution(e)
    PROVE  GatewayInv'
  <1> USE DEF GatewayInv, ExecutionInv, ExecutionTypes
  <1>1. LedgerInv' /\ RowsStayEnded
    BY LedgerKept DEF PrepareExecution, economyVars
  <1>2. pc[e] = "AUTHORISED" /\ UNCHANGED <<tries, receipt>>
    BY DEF PrepareExecution
  <1>3. /\ exec[e].status = "NONE" /\ exec[e].charge = NoCharge /\ tries[e] = 0
        /\ receipt[e] = NoCharge /\ plan[e].row \in Reservations
    BY <1>2 DEF ProgressInv, AtWork
  <1>4. CASE Preparable(e)
    <2>1. /\ exec' = [exec EXCEPT ![e].status = "PROPOSED"]
          /\ pc' = [pc EXCEPT ![e] = "PREPARED"] /\ plan' = plan
      BY <1>4 DEF PrepareExecution, Goto
    <2>2. ExecutionTypes'
      BY <1>2, <2>1 DEF ExecutionRows, AtWork
    <2>3. exec'[e].status = "PROPOSED" /\ exec'[e].charge = NoCharge
      BY <1>3, <2>1 DEF ExecutionRows
    <2>4. ProgressInv(e)' /\ ChargeInv(e)'
      BY <1>2, <1>3, <2>1, <2>3 DEF ProgressInv, ChargeInv, AtWork
    <2>5. \A t \in Executions \ {e} : Untouched(t)
      BY <1>2, <2>1 DEF Untouched
    <2> QED BY <1>1, <2>2, <2>4, <2>5, OneMoves
  <1>5. CASE ~ Preparable(e)
    <2>1. /\ plan' = [plan EXCEPT ![e] = NoPlan]
          /\ pc' = [pc EXCEPT ![e] = "IDLE"] /\ exec' = exec
      BY <1>5 DEF PrepareExecution, Goto
    <2>2. ExecutionTypes'
      BY <1>2, <2>1
    <2>3. ProgressInv(e)' /\ ChargeInv(e)'
      BY <1>2, <1>3, <2>1 DEF ProgressInv, ChargeInv, AtWork
    <2>4. \A t \in Executions \ {e} : Untouched(t)
      BY <1>2, <2>1 DEF Untouched
    <2> QED BY <1>1, <2>2, <2>3, <2>4, OneMoves
  <1> QED BY <1>4, <1>5

(* Steps of the call in its process that write no row.                     *)
LEMMA ControlStep ==
    ASSUME GatewayInv, NEW e \in Executions,
           CheckEligibility(e) \/ DispatchRefused(e) \/ CredentialUnavailable(e) \/ Crash(e)
    PROVE  GatewayInv'
  <1> USE DEF GatewayInv, ExecutionInv, ExecutionTypes
  <1>1. UNCHANGED <<economyVars, records>>
    BY DEF CheckEligibility, DispatchRefused, CredentialUnavailable, Crash
  <1>2. LedgerInv' /\ RowsStayEnded
    BY <1>1, LedgerKept DEF economyVars
  <1>3. PICK step \in {"ELIGIBLE", "BLOCKED", "ENDED"} :
           /\ pc' = [pc EXCEPT ![e] = step]
           /\ pc[e] \in AtWork
           /\ step = "ELIGIBLE" => exec[e].status # "CANCELLED"
    BY DEF CheckEligibility, DispatchRefused, CredentialUnavailable, Crash, Goto, AtWork,
           Eligible, Dispatchable
  <1>4. ExecutionTypes'
    BY <1>1, <1>3 DEF records, AtWork
  <1>5. pc'[e] = step
    BY <1>3
  <1>6. ProgressInv(e)' /\ ChargeInv(e)'
    BY <1>1, <1>3, <1>5 DEF records, economyVars, ProgressInv, ChargeInv, AtWork, Row
  <1>7. \A t \in Executions \ {e} : Untouched(t)
    BY <1>1, <1>3 DEF Untouched, records
  <1> QED BY <1>2, <1>4, <1>6, <1>7, OneMoves

(* Sending a request, and retrying after a failure of the transport.       *)
LEMMA DispatchStep ==
    ASSUME GatewayInv, NEW e \in Executions, MarkAttemptDispatched(e) \/ MarkRetryableFailure(e)
    PROVE  GatewayInv'
  <1> USE DEF GatewayInv, ExecutionInv, ExecutionTypes
  <1>1. LedgerInv' /\ RowsStayEnded
    BY LedgerKept DEF MarkAttemptDispatched, MarkRetryableFailure, economyVars
  <1>2. CASE MarkAttemptDispatched(e)
    <2>1. /\ pc[e] = "ELIGIBLE" /\ pc' = [pc EXCEPT ![e] = "SENT"]
          /\ exec' = [exec EXCEPT ![e].status = "DISPATCHED"]
          /\ tries' = [tries EXCEPT ![e] = @ + 1]
          /\ UNCHANGED <<plan, receipt>>
      BY <1>2 DEF MarkAttemptDispatched, Goto
    <2>2. ExecutionTypes'
      BY <2>1 DEF ExecutionRows, AtWork
    <2>3. exec'[e].status = "DISPATCHED" /\ exec'[e].charge = exec[e].charge
      BY <2>1 DEF ExecutionRows
    <2>4. ProgressInv(e)' /\ ChargeInv(e)'
      BY <2>1, <2>3 DEF ProgressInv, ChargeInv, AtWork
    <2>5. \A t \in Executions \ {e} : Untouched(t)
      BY <2>1 DEF Untouched
    <2> QED BY <1>1, <2>2, <2>4, <2>5, OneMoves
  <1>3. CASE MarkRetryableFailure(e)
    <2>1. /\ pc[e] = "SENT" /\ pc' = [pc EXCEPT ![e] = "PREPARED"]
          /\ UNCHANGED <<plan, exec, tries, receipt>>
      BY <1>3 DEF MarkRetryableFailure, Goto
    <2>2. ExecutionTypes'
      BY <2>1 DEF AtWork
    <2>3. ProgressInv(e)' /\ ChargeInv(e)'
      BY <2>1 DEF ProgressInv, ChargeInv, AtWork
    <2>4. \A t \in Executions \ {e} : Untouched(t)
      BY <2>1 DEF Untouched
    <2> QED BY <1>1, <2>2, <2>3, <2>4, OneMoves
  <1> QED BY <1>2, <1>3

(* The statuses written without a charge.                                  *)
LEMMA NoChargeStep ==
    ASSUME GatewayInv, NEW e \in Executions, FinalizeEligibilityFailure(e) \/ FinalizeUnknown(e)
    PROVE  GatewayInv'
  <1> USE DEF GatewayInv, ExecutionInv, ExecutionTypes
  <1>1. pc[e] \in AtWork /\ plan[e].row \in Reservations
    BY DEF FinalizeEligibilityFailure, FinalizeUnknown, AtWork, ProgressInv
  <1>2. LedgerInv' /\ RowsStayEnded
    <2>1. CASE FinalizeUnknown(e)
      BY <2>1, LedgerKept DEF FinalizeUnknown, economyVars
    <2>2. CASE FinalizeEligibilityFailure(e)
      <3>1. UNCHANGED call /\ (Release(Row(e)) \/ UNCHANGED <<rsv, quote>>)
        BY <2>2 DEF FinalizeEligibilityFailure
      <3> QED BY <1>1, <3>1, LedgerKept, ReleaseStep DEF Row
    <2> QED BY <2>1, <2>2
  <1>3. PICK status \in {"FAILED", "OUTCOME_UNKNOWN"} :
           /\ exec' = [exec EXCEPT ![e].status = status]
           /\ pc[e] # "ENDED" /\ pc' = [pc EXCEPT ![e] = "ENDED"]
           /\ UNCHANGED <<plan, tries, receipt>>
    BY DEF FinalizeEligibilityFailure, FinalizeUnknown, Goto
  <1>4. ExecutionTypes'
    BY <1>3 DEF ExecutionRows
  <1>5. exec'[e].status = status /\ exec'[e].charge = exec[e].charge /\ pc'[e] = "ENDED"
    BY <1>3 DEF ExecutionRows
  <1>6. ProgressInv(e)' /\ ChargeInv(e)'
    BY <1>1, <1>3, <1>5 DEF ProgressInv, ChargeInv, AtWork
  <1>7. \A t \in Executions \ {e} : Untouched(t)
    BY <1>3 DEF Untouched
  <1> QED BY <1>2, <1>4, <1>6, <1>7, OneMoves

(* The transactions that record a charge.                                  *)
LEMMA ChargeStep ==
    ASSUME GatewayInv, NEW e \in Executions,
           \/ \E status \in {"SUCCEEDED", "FAILED"}, c \in {0} \cup Amounts :
                 FinalizeWithUsage(e, status, c)
           \/ FinalizeFailure(e)
    PROVE  GatewayInv'
  <1> USE DEF GatewayInv, ExecutionInv, ExecutionTypes
  <1>1. pc[e] = "SENT" /\ pc' = [pc EXCEPT ![e] = "ENDED"] /\ UNCHANGED <<plan, tries, call>>
    BY DEF FinalizeWithUsage, FinalizeFailure, Goto
  <1>2. Row(e) \in Reservations /\ exec[e].charge = NoCharge /\ receipt[e] = NoCharge
    BY <1>1 DEF ProgressInv, AtWork, Row
  <1>3. CASE UNCHANGED <<rsv, quote, exec, receipt>>
    <2>1. LedgerInv' /\ RowsStayEnded
      BY <1>1, <1>3, LedgerKept
    <2>2. ExecutionTypes'
      BY <1>1, <1>3
    <2>3. ProgressInv(e)' /\ ChargeInv(e)'
      BY <1>1, <1>3 DEF ProgressInv, ChargeInv, AtWork
    <2>4. \A t \in Executions \ {e} : Untouched(t)
      BY <1>1, <1>3 DEF Untouched
    <2> QED BY <2>1, <2>2, <2>3, <2>4, OneMoves
  <1>4. ASSUME NEW status \in {"SUCCEEDED", "FAILED"}, NEW c \in {0} \cup Amounts,
               Settleable(Row(e), c), Settle(Row(e), c), Resolve(e, status, c),
               receipt' = [receipt EXCEPT ![e] = c]
        PROVE  GatewayInv'
    <2>1. c \in Nat
      BY EconomyBounds
    <2>2. LedgerInv' /\ RowsStayEnded /\ rsv'[Row(e)].status = "SETTLED" /\ rsv'[Row(e)].settled = c
      BY <1>1, <1>2, <1>4, <2>1, SettleStep
    <2>3. exec' = [exec EXCEPT ![e] = [status |-> status, charge |-> c]]
      BY <1>4 DEF Resolve
    <2>4. ExecutionTypes'
      BY <1>1, <1>4, <2>1, <2>3 DEF ExecutionRows
    <2>5. exec'[e].status = status /\ exec'[e].charge = c /\ receipt'[e] = c
      BY <1>4, <2>3
    <2>6. ProgressInv(e)'
      BY <1>1, <1>2, <2>5 DEF ProgressInv, AtWork, Row
    <2>7. ChargeInv(e)'
      BY <1>1, <2>1, <2>2, <2>5 DEF ChargeInv, Row, NoCharge
    <2>8. \A t \in Executions \ {e} : Untouched(t)
      BY <1>1, <1>4, <2>3 DEF Untouched
    <2> QED BY <2>2, <2>4, <2>6, <2>7, <2>8, OneMoves
  <1>5. ASSUME Releasable(Row(e)), Release(Row(e)), Resolve(e, "FAILED", 0), UNCHANGED receipt
        PROVE  GatewayInv'
    <2>1. LedgerInv' /\ RowsStayEnded /\ rsv'[Row(e)].status = "RELEASED"
      BY <1>1, <1>2, <1>5, ReleaseStep
    <2>2. exec' = [exec EXCEPT ![e] = [status |-> "FAILED", charge |-> 0]]
      BY <1>5 DEF Resolve
    <2>3. ExecutionTypes'
      BY <1>1, <1>5, <2>2 DEF ExecutionRows
    <2>4. ProgressInv(e)' /\ ChargeInv(e)'
      BY <1>1, <1>2, <1>5, <2>1, <2>2 DEF ProgressInv, ChargeInv, AtWork, Row
    <2>5. \A t \in Executions \ {e} : Untouched(t)
      BY <1>1, <1>5, <2>2 DEF Untouched
    <2> QED BY <2>1, <2>3, <2>4, <2>5, OneMoves
  <1> QED BY <1>3, <1>4, <1>5 DEF FinalizeWithUsage, FinalizeFailure

LEMMA CancelStep ==
    ASSUME GatewayInv, NEW e \in Executions, CancelExecution(e)
    PROVE  GatewayInv'
  <1> USE DEF GatewayInv, ExecutionInv, ExecutionTypes
  <1>1. /\ exec[e].status = "PROPOSED" /\ pc[e] # "ELIGIBLE"
        /\ exec' = [exec EXCEPT ![e].status = "CANCELLED"]
        /\ UNCHANGED <<plan, tries, receipt, pc, call>>
    BY DEF CancelExecution, Cancellable, RowUnlocked
  <1>2. Row(e) \in Reservations
    BY <1>1 DEF ProgressInv, Row
  <1>3. LedgerInv' /\ RowsStayEnded
    BY <1>1, <1>2, ReleaseStep DEF CancelExecution
  <1>4. ExecutionTypes'
    BY <1>1 DEF ExecutionRows
  <1>5. exec'[e].status = "CANCELLED" /\ exec'[e].charge = exec[e].charge
    BY <1>1 DEF ExecutionRows
  <1>6. ProgressInv(e)' /\ ChargeInv(e)'
    BY <1>1, <1>5 DEF ProgressInv, ChargeInv, AtWork
  <1>7. \A t \in Executions \ {e} : Untouched(t)
    BY <1>1 DEF Untouched
  <1> QED BY <1>3, <1>4, <1>6, <1>7, OneMoves

(* The ledger and the connectors go on without the executions.             *)
LEMMA ElsewhereStep ==
    ASSUME GatewayInv, Ledger \/ DisableConnector \/ UNCHANGED vars
    PROVE  GatewayInv'
  <1>1. UNCHANGED <<plan, exec, tries, receipt, pc>>
    BY DEF Ledger, DisableConnector, vars, gatewayVars, records
  <1>2. LedgerInv' /\ RowsStayEnded
    BY LedgerKept, LedgerStep DEF GatewayInv, Ledger, DisableConnector, vars, economyVars
  <1>3. \A t \in Executions : Untouched(t)
    BY <1>1 DEF Untouched
  <1>4. ExecutionTypes'
    BY <1>1 DEF GatewayInv, ExecutionInv, ExecutionTypes
  <1> QED BY <1>2, <1>3, <1>4, UntouchedKept DEF GatewayInv, ExecutionInv

LEMMA GatewayInitially == Init => GatewayInv
  <1> SUFFICES ASSUME Init PROVE GatewayInv
    OBVIOUS
  <1> USE DEF Init, EconomyInit
  <1>1. LedgerTypes
    BY DEF LedgerTypes, ReservationRows, NoReservation, QuoteRows, NoQuoteRow, CallOK, Idle,
           Reserving
  <1>2. QuoteInv
    BY NoQuoteIsNoQuote DEF QuoteInv, NoReservation, Idle, Reserving
  <1>3. ExecutionTypes
    BY DEF ExecutionTypes, ExecutionRows
  <1>4. ASSUME NEW e \in Executions PROVE ProgressInv(e) /\ ChargeInv(e)
    BY DEF ProgressInv, ChargeInv, AtWork
  <1> QED BY <1>1, <1>2, <1>3, <1>4 DEF GatewayInv, LedgerInv, ExecutionInv

LEMMA GatewayStep == GatewayInv /\ [Next]_vars => GatewayInv'
  BY AuthoriseStep, PrepareStep, ControlStep, DispatchStep, NoChargeStep, ChargeStep, CancelStep,
     ElsewhereStep DEF Next

LEMMA GatewayInvariance == Spec => []GatewayInv
  BY GatewayInitially, GatewayStep, PTL DEF Spec

-----------------------------------------------------------------------------
(* A quote says what happened to the reservation bound to it: no used or   *)
(* released reservation leaves a quote that another inference can be       *)
(* authorised against (reserveQuoted, sync_quote_reservation_status).      *)
THEOREM QuotesFollow == Spec => []QuoteFollowsReservation
  <1>1. GatewayInv => QuoteFollowsReservation
    BY DEF GatewayInv, LedgerInv, QuoteInv, Followed, QuoteFollowsReservation
  <1> QED BY <1>1, GatewayInvariance, PTL

(* What an execution reports as its charge is what its reservation was     *)
(* settled for, or nothing where it was released (finalizeSuccess,         *)
(* finalizeFailure).                                                       *)
THEOREM ChargesSettle == Spec => []ChargesAreSettlements
  <1>1. GatewayInv => ChargesAreSettlements
    BY DEF GatewayInv, ExecutionInv, ChargeInv, ChargesAreSettlements
  <1> QED BY <1>1, GatewayInvariance, PTL

(* What a running call did not write yet, and what is done, stay apart:    *)
(* an execution with an outcome has a call that ended, and no other        *)
(* transaction touches it.                                                 *)
LEMMA OutcomesKept ==
    ASSUME GatewayInv, [Next]_vars, NEW e \in Executions,
           exec[e].status \in {"SUCCEEDED", "FAILED", "OUTCOME_UNKNOWN"}
    PROVE  UNCHANGED <<exec[e], tries[e], receipt[e]>>
  <1>1. pc[e] = "ENDED"
    BY DEF GatewayInv, ExecutionInv, ProgressInv
  <1>2. CASE Ledger \/ DisableConnector \/ UNCHANGED vars
    BY <1>2 DEF Ledger, DisableConnector, vars, gatewayVars, records
  <1>3. ASSUME NEW f \in Executions,
               \/ \E r \in Reservations, d \in Days : ValidateQuoteForInference(f, r, d)
               \/ PrepareExecution(f)
               \/ MarkAttemptDispatched(f)
               \/ FinalizeEligibilityFailure(f)
               \/ \E status \in {"SUCCEEDED", "FAILED"}, c \in {0} \cup Amounts :
                     FinalizeWithUsage(f, status, c)
               \/ FinalizeFailure(f)
               \/ FinalizeUnknown(f)
               \/ CancelExecution(f)
        PROVE  UNCHANGED <<exec[e], tries[e], receipt[e]>>
    <2>1. f # e
      BY <1>1, <1>3 DEF ValidateQuoteForInference, PrepareExecution, MarkAttemptDispatched,
         FinalizeEligibilityFailure, FinalizeWithUsage, FinalizeFailure, FinalizeUnknown,
         CancelExecution, Cancellable
    <2> QED
      BY <1>3, <2>1 DEF ValidateQuoteForInference, PrepareExecution, MarkAttemptDispatched,
         FinalizeEligibilityFailure, FinalizeWithUsage, FinalizeFailure, FinalizeUnknown,
         CancelExecution, Resolve, GatewayInv, ExecutionInv, ExecutionTypes
  <1>4. ASSUME NEW f \in Executions,
               \/ CheckEligibility(f) \/ DispatchRefused(f) \/ CredentialUnavailable(f)
               \/ MarkRetryableFailure(f) \/ Crash(f)
        PROVE  UNCHANGED <<exec[e], tries[e], receipt[e]>>
    BY <1>4 DEF CheckEligibility, DispatchRefused, CredentialUnavailable, MarkRetryableFailure,
       Crash, records
  <1> QED BY <1>2, <1>3, <1>4 DEF Next

(* An execution that succeeded, failed or whose outcome is unknown is      *)
(* never sent to the provider again, and its status and charge never       *)
(* change (infer, cancelExecution).                                        *)
THEOREM FinalOutcomes == Spec => OutcomesAreFinal
  <1> DEFINE Final(e) ==
         exec[e].status \in {"SUCCEEDED", "FAILED", "OUTCOME_UNKNOWN"} =>
            UNCHANGED <<exec[e], tries[e], receipt[e]>>
  <1>1. GatewayInv /\ [Next]_vars => [\A e \in Executions : Final(e)]_vars
    BY OutcomesKept
  <1> QED BY <1>1, GatewayInvariance, PTL DEF Spec, OutcomesAreFinal

(* A cancelled execution was not sent to the provider and never will be,   *)
(* although cancelExecution races the dispatch.                            *)
THEOREM NeverSent == Spec => CancelledIsNeverSent
  <1> DEFINE Unsent(e) ==
         exec[e].status = "CANCELLED" => tries[e] = 0 /\ tries'[e] = 0 /\ receipt'[e] = NoCharge
  <1>1. GatewayInv /\ [Next]_vars => [\A e \in Executions : Unsent(e)]_vars
    <2> SUFFICES ASSUME GatewayInv, [Next]_vars, NEW e \in Executions, exec[e].status = "CANCELLED"
                 PROVE  tries[e] = 0 /\ tries'[e] = 0 /\ receipt'[e] = NoCharge
      OBVIOUS
    <2>1. tries[e] = 0 /\ receipt[e] = NoCharge /\ pc[e] \notin {"SENT", "ELIGIBLE"}
      BY DEF GatewayInv, ExecutionInv, ProgressInv
    <2>2. ASSUME NEW f \in Executions, MarkAttemptDispatched(f)
          PROVE  tries'[e] = 0 /\ receipt'[e] = NoCharge
      BY <2>1, <2>2 DEF MarkAttemptDispatched, GatewayInv, ExecutionInv, ExecutionTypes
    <2>3. ASSUME NEW f \in Executions, NEW status, NEW c, FinalizeWithUsage(f, status, c)
          PROVE  tries'[e] = 0 /\ receipt'[e] = NoCharge
      BY <2>1, <2>3 DEF FinalizeWithUsage, GatewayInv, ExecutionInv, ExecutionTypes
    <2>4. CASE \/ Ledger \/ DisableConnector \/ UNCHANGED vars
               \/ \E f \in Executions :
                     \/ \E r \in Reservations, d \in Days : ValidateQuoteForInference(f, r, d)
                     \/ PrepareExecution(f) \/ CheckEligibility(f) \/ DispatchRefused(f)
                     \/ CredentialUnavailable(f) \/ FinalizeEligibilityFailure(f)
                     \/ MarkRetryableFailure(f) \/ FinalizeFailure(f) \/ FinalizeUnknown(f)
                     \/ CancelExecution(f) \/ Crash(f)
      BY <2>1, <2>4 DEF Ledger, DisableConnector, vars, gatewayVars, records,
         ValidateQuoteForInference, PrepareExecution, CheckEligibility, DispatchRefused,
         CredentialUnavailable, FinalizeEligibilityFailure, MarkRetryableFailure,
         FinalizeFailure, FinalizeUnknown, CancelExecution, Crash
    <2> QED BY <2>1, <2>2, <2>3, <2>4 DEF Next
  <1> QED BY <1>1, GatewayInvariance, PTL DEF Spec, CancelledIsNeverSent
=============================================================================
