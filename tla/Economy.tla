------------------------------ MODULE Economy ------------------------------
(***************************************************************************)
(* The local Energy ledger (src/services/economy.js): wallets, mint,       *)
(* transfer, reservations, the daily activity fee, and the quotes that     *)
(* back a reservation (src/services/p1_4.js).                              *)
(*                                                                         *)
(* A command is one READ COMMITTED transaction that first locks the wallet *)
(* row.  lockWallet reads the posted balance of the locked row, but its    *)
(* sub-select sums the reservations in the snapshot of the statement, taken *)
(* before the lock was granted.  A command whose decision depends on that  *)
(* sum is therefore two steps, Begin (the snapshot) and Finish (everything  *)
(* after the lock); the others are one.                                    *)
(***************************************************************************)
EXTENDS Integers, FiniteSets, Functions

CONSTANTS
    Entities,         \* entities of one world, each with a wallet
    Keys,             \* business keys of reservations
    Quotes,           \* ids of resource quotes
    NoQuote,          \* reservations.quote_id IS NULL
    Bases,            \* mint basis keys; bounds the Energy issued
    TransferKeys,     \* transfer business keys; bounds the transfers
    Sessions,         \* commands in progress at a time
    Amounts,          \* amounts of a command
    MintAmount,       \* the amount of a mint
    Fee,              \* DAILY_ACTIVITY_FEE_MICRO_E
    ActivationFloor,  \* FIRST_ACTIVATION_MIN_MICRO_E
    Days              \* 1 .. the last UTC day (bound)

ASSUME EconomyBounds == /\ Amounts \subseteq Nat \ {0}
                        /\ MintAmount \in Nat \ {0}
                        /\ Fee \in Nat \ {0}
                        /\ ActivationFloor \in Nat
                        /\ Days \subseteq Nat
                        /\ 1 \in Days
ASSUME NoQuoteIsNoQuote == NoQuote \notin Quotes
ASSUME FiniteTables == IsFiniteSet(Entities) /\ IsFiniteSet(Keys)

VARIABLES
    posted,           \* wallets.posted_balance_micro_e
    rsv,              \* reservations, by (entity, business key)
    quote,            \* resource_quotes
    expired,          \* quotes whose expires_at has passed
    activated,        \* entities with first_activated_at
    fees,             \* activity_fees, pairs (entity, billing date)
    journals,         \* business keys of mint and transfer journals
    day,              \* the current UTC day
    call              \* commands between their snapshot and their lock

ledger == <<posted, rsv, quote, fees, journals, activated>>
economyVars == <<posted, rsv, quote, expired, activated, fees, journals, day, call>>

Reservations == Entities \X Keys
NoReservation == [status |-> "NONE", amount |-> 0, settled |-> 0, quote |-> NoQuote]
ReservationRows ==
    [status : {"NONE", "ACTIVE", "SETTLED", "RELEASED"}, amount : Nat, settled : Nat,
     quote : Quotes \cup {NoQuote}]
NoQuoteRow == [status |-> "NONE"]
QuoteRows ==
    {NoQuoteRow} \cup
    [status : {"ACTIVE", "RESERVED", "CONSUMED", "CANCELLED"}, payer : Entities, max : Nat]
Idle == [op |-> "IDLE"]

Reserved(x) ==
    SumFunctionOnSet([r \in Reservations |-> rsv[r].amount],
                     {r \in Reservations : r[1] = x /\ rsv[r].status = "ACTIVE"})
Available(x) == posted[x] - Reserved(x)

EconomyInit ==
    /\ posted = [x \in Entities |-> 0]
    /\ rsv = [r \in Reservations |-> NoReservation]
    /\ quote = [q \in Quotes |-> NoQuoteRow]
    /\ expired = {}
    /\ activated = {}
    /\ fees = {}
    /\ journals = {}
    /\ day = 1
    /\ call = [s \in Sessions |-> Idle]

---------------------------------------------------------------------------
(* Time: the UTC day and the expiry of quotes (external).                  *)
NextDay == /\ day + 1 \in Days
           /\ day' = day + 1
           /\ UNCHANGED <<ledger, expired, call>>

Expire(q) == /\ quote[q].status # "NONE"
             /\ q \notin expired
             /\ expired' = expired \cup {q}
             /\ UNCHANGED <<ledger, day, call>>

---------------------------------------------------------------------------
(* Commands of one step.                                                   *)
Mint(x, b) ==
    /\ <<"mint", b>> \notin journals
    /\ journals' = journals \cup {<<"mint", b>>}
    /\ posted' = [posted EXCEPT ![x] = @ + MintAmount]
    /\ UNCHANGED <<rsv, quote, fees, activated, expired, day, call>>

QuoteResource(x, q, m) ==
    /\ quote[q].status = "NONE"
    /\ quote' = [quote EXCEPT ![q] = [status |-> "ACTIVE", payer |-> x, max |-> m]]
    /\ UNCHANGED <<posted, rsv, fees, journals, activated, expired, day, call>>

(* Mutant: the quote is not updated with its reservation.                  *)
SyncQuote_Forgotten(q, status) == quote' = quote

(* Trigger reservations_sync_quote_status: the quote follows a reservation *)
(* that is settled or released.                                            *)
SyncQuote(q, status) ==
    quote' = IF q \in Quotes /\ quote[q].status = "RESERVED"
             THEN [quote EXCEPT ![q].status = status] ELSE quote

(* releaseReservation: an ACTIVE row is released, a RELEASED one replays,  *)
(* a SETTLED one is an error.                                              *)
Releasable(r) == rsv[r].status \in {"ACTIVE", "RELEASED"}
Release(r) ==
    IF rsv[r].status = "ACTIVE"
    THEN /\ rsv' = [rsv EXCEPT ![r].status = "RELEASED"]
         /\ SyncQuote(rsv[r].quote, "CANCELLED")
    ELSE UNCHANGED <<rsv, quote>>

ReleaseReservation(r) ==
    /\ rsv[r].status = "ACTIVE"
    /\ Release(r)
    /\ UNCHANGED <<posted, fees, journals, activated, expired, day, call>>

(* settleReservation.  A SETTLED row replays an equal amount; the CHECK    *)
(* posted_balance_micro_e >= 0 aborts a charge the wallet cannot pay.      *)
Settleable(r, c) ==
    \/ rsv[r].status = "SETTLED" /\ rsv[r].settled = c
    \/ rsv[r].status = "ACTIVE" /\ c <= rsv[r].amount /\ c <= posted[r[1]]

(* Mutant: a replay of a settled reservation charges the wallet again.     *)
Settle_ChargesReplay(r, c) ==
    /\ posted' = [posted EXCEPT ![r[1]] = @ - c]
    /\ IF rsv[r].status = "ACTIVE"
       THEN /\ rsv' = [rsv EXCEPT ![r].status = "SETTLED", ![r].settled = c]
            /\ SyncQuote(rsv[r].quote, "CONSUMED")
       ELSE UNCHANGED <<rsv, quote>>

(* Mutant: the whole reservation is charged, not the measured usage.       *)
Settle_WholeReservation(r, c) ==
    IF rsv[r].status = "ACTIVE"
    THEN /\ posted' = [posted EXCEPT ![r[1]] = @ - rsv[r].amount]
         /\ rsv' = [rsv EXCEPT ![r].status = "SETTLED", ![r].settled = rsv[r].amount]
         /\ SyncQuote(rsv[r].quote, "CONSUMED")
    ELSE UNCHANGED <<posted, rsv, quote>>

Settle(r, c) ==
    IF rsv[r].status = "ACTIVE"
    THEN /\ posted' = [posted EXCEPT ![r[1]] = @ - c]
         /\ rsv' = [rsv EXCEPT ![r].status = "SETTLED", ![r].settled = c]
         /\ SyncQuote(rsv[r].quote, "CONSUMED")
    ELSE UNCHANGED <<posted, rsv, quote>>

---------------------------------------------------------------------------
(* Commands that read the available balance.                               *)
Begin(s, c) ==
    /\ call[s] = Idle
    /\ call' = [call EXCEPT ![s] = c]
    /\ UNCHANGED <<ledger, expired, day>>

Done(s) == /\ call[s] # Idle
           /\ call' = [call EXCEPT ![s] = Idle]
           /\ UNCHANGED <<expired, day>>

Calls(op) == {s \in Sessions : call[s].op = op}

(* Mutant: the posted balance is what is looked at.                        *)
AvailableSeen_Posted(s) == posted[call[s].who]

(* available_micro_e as lockWallet computes it, for the caller's snapshot. *)
AvailableSeen(s) == posted[call[s].who] - call[s].reserved

(* reserve, or reserveQuoted for q \in Quotes; the latter first locks the  *)
(* quote row and checks it.                                                *)
BeginReserve(s, r, a, q) ==
    /\ q \in Quotes =>
          /\ quote[q].status = "ACTIVE"
          /\ quote[q].payer = r[1]
          /\ q \notin expired
          /\ a >= quote[q].max
          /\ \A t \in Calls("RESERVE") : call[t].quote # q
    /\ Begin(s, [op |-> "RESERVE", who |-> r[1], row |-> r, amount |-> a, quote |-> q,
                 reserved |-> Reserved(r[1])])

(* The row is new, or a replay: same amount, still ACTIVE, and not bound to *)
(* another quote (trigger reservations_quote_binding_immutable).           *)
ReserveReplays(s) ==
    LET row == rsv[call[s].row]
    IN  /\ row.status = "ACTIVE"
        /\ row.amount = call[s].amount
        /\ call[s].quote \in Quotes => row.quote \in {NoQuote, call[s].quote}

Bind(s, row) ==
    LET q == call[s].quote
    IN  /\ rsv' = [rsv EXCEPT ![call[s].row] = IF q \in Quotes THEN [row EXCEPT !.quote = q] ELSE row]
        /\ quote' = IF q \in Quotes THEN [quote EXCEPT ![q].status = "RESERVED"] ELSE quote

ReserveNew(s) ==
    /\ AvailableSeen(s) >= call[s].amount
    /\ rsv[call[s].row].status = "NONE"
    /\ Bind(s, [NoReservation EXCEPT !.status = "ACTIVE", !.amount = call[s].amount])

ReserveReplay(s) ==
    /\ AvailableSeen(s) >= call[s].amount
    /\ ReserveReplays(s)
    /\ Bind(s, rsv[call[s].row])

(* INSUFFICIENT_ENERGY, IDEMPOTENCY_CONFLICT or a refused binding.         *)
ReserveRefused(s) ==
    /\ \/ AvailableSeen(s) < call[s].amount
       \/ rsv[call[s].row].status # "NONE" /\ ~ReserveReplays(s)
    /\ UNCHANGED <<rsv, quote>>

FinishReserve(s) ==
    /\ call[s].op = "RESERVE"
    /\ ReserveNew(s) \/ ReserveReplay(s) \/ ReserveRefused(s)
    /\ Done(s)
    /\ UNCHANGED <<posted, fees, journals, activated>>

BeginTransfer(s, x, y, a, t) ==
    /\ x # y
    /\ Begin(s, [op |-> "TRANSFER", who |-> x, to |-> y, amount |-> a, key |-> <<"transfer", t>>,
                 reserved |-> Reserved(x)])

Post(s) ==
    posted' = [posted EXCEPT ![call[s].who] = @ - call[s].amount,
                             ![call[s].to] = @ + call[s].amount]

TransferPosted(s) ==
    /\ AvailableSeen(s) >= call[s].amount
    /\ call[s].key \notin journals
    /\ journals' = journals \cup {call[s].key}
    /\ Post(s)

(* Not enough Energy, or a journal of this key exists (replay or conflict). *)
TransferNotPosted(s) ==
    /\ AvailableSeen(s) < call[s].amount \/ call[s].key \in journals
    /\ UNCHANGED <<posted, journals>>

FinishTransfer(s) ==
    /\ call[s].op = "TRANSFER"
    /\ TransferPosted(s) \/ TransferNotPosted(s)
    /\ Done(s)
    /\ UNCHANGED <<rsv, quote, fees, activated>>

(* firstActivation locks the activity_subjects row, then the wallet;       *)
(* chargeDailyActivityFee needs an activated subject.                      *)
BeginActivation(s, x, d) ==
    /\ x \notin activated
    /\ \A t \in Calls("ACTIVATE") : call[t].who # x
    /\ Begin(s, [op |-> "ACTIVATE", who |-> x, date |-> d, reserved |-> Reserved(x)])

BeginDailyFee(s, x, d) ==
    /\ x \in activated
    /\ Begin(s, [op |-> "FEE", who |-> x, date |-> d, reserved |-> Reserved(x)])

ChargeFee(x, d) ==
    /\ posted' = [posted EXCEPT ![x] = @ - Fee]
    /\ fees' = fees \cup {<<x, d>>}

FeePayable(s, available) ==
    /\ <<call[s].who, call[s].date>> \notin fees
    /\ available - Fee > 0

FinishDailyFee(s) ==
    /\ call[s].op = "FEE"
    /\ IF FeePayable(s, AvailableSeen(s))
       THEN ChargeFee(call[s].who, call[s].date)
       ELSE UNCHANGED <<posted, fees>>
    /\ Done(s)
    /\ UNCHANGED <<rsv, quote, journals, activated>>

(* The fee of an activation is charged by a second statement, which holds  *)
(* the lock already and sees every reservation.                            *)
FinishActivation(s) ==
    LET x == call[s].who
    IN  /\ call[s].op = "ACTIVATE"
        /\ IF AvailableSeen(s) >= ActivationFloor /\ FeePayable(s, Available(x))
           THEN ChargeFee(x, call[s].date) /\ activated' = activated \cup {x}
           ELSE UNCHANGED <<posted, fees, activated>>
        /\ Done(s)
        /\ UNCHANGED <<rsv, quote, journals>>

EconomyNext ==
    \/ NextDay
    \/ \E q \in Quotes : Expire(q)
    \/ \E x \in Entities, b \in Bases : Mint(x, b)
    \/ \E x \in Entities, q \in Quotes, m \in Amounts : QuoteResource(x, q, m)
    \/ \E r \in Reservations : ReleaseReservation(r)
    \/ \E s \in Sessions :
          \/ \E r \in Reservations, a \in Amounts, q \in Quotes \cup {NoQuote} : BeginReserve(s, r, a, q)
          \/ FinishReserve(s)
          \/ \E x, y \in Entities, a \in Amounts, t \in TransferKeys : BeginTransfer(s, x, y, a, t)
          \/ FinishTransfer(s)
          \/ \E x \in Entities, d \in Days : BeginActivation(s, x, d) \/ BeginDailyFee(s, x, d)
          \/ FinishDailyFee(s)
          \/ FinishActivation(s)

EconomySpec == EconomyInit /\ [][EconomyNext]_economyVars
=============================================================================
