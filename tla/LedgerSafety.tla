---------------------------- MODULE LedgerSafety ----------------------------
(***************************************************************************)
(* Types and conservation of Energy for the gateway with its ledger, for   *)
(* any finite tables of entities and keys and any sessions, executions,    *)
(* amounts and attempts.  The sums over wallets and reservations are folds *)
(* of the community modules; the first section proves what is needed of    *)
(* such a fold: it counts the units of its terms.                          *)
(***************************************************************************)
EXTENDS GatewaySafety, FiniteSetTheorems, WellFoundedInduction

-----------------------------------------------------------------------------
(* Sums of natural numbers over finite sets.                               *)

UnitsOf(w, x) == {x} \X (1 .. w[x])
Units(w, S) == UNION {UnitsOf(w, x) : x \in S}
Summable(w, S) == IsFiniteSet(S) /\ \A x \in S : w[x] \in Nat

LEMMA UnitsFinite ==
    ASSUME NEW w, NEW S, Summable(w, S)
    PROVE  /\ IsFiniteSet(Units(w, S))
           /\ \A x \in S : IsFiniteSet(UnitsOf(w, x)) /\ Cardinality(UnitsOf(w, x)) = w[x]
  <1> USE DEF Summable
  <1>1. ASSUME NEW x \in S
        PROVE  IsFiniteSet(UnitsOf(w, x)) /\ Cardinality(UnitsOf(w, x)) = w[x]
    <2>1. IsFiniteSet({x}) /\ Cardinality({x}) = 1
      BY FS_Singleton
    <2>2. IsFiniteSet(1 .. w[x]) /\ Cardinality(1 .. w[x]) = w[x]
      BY FS_Interval
    <2>3. IsFiniteSet(UnitsOf(w, x)) /\ Cardinality(UnitsOf(w, x)) = 1 * w[x]
      BY <2>1, <2>2, FS_Product DEF UnitsOf
    <2> QED BY <2>3
  <1> DEFINE T == {UnitsOf(w, x) : x \in S}
             f == [x \in S |-> UnitsOf(w, x)]
  <1>2. f \in Surjection(S, T)
    BY DEF Surjection
  <1>3. IsFiniteSet(T)
    BY <1>2, FS_Surjection
  <1>4. IsFiniteSet(UNION T)
    BY <1>1, <1>3, FS_UNION
  <1> QED BY <1>1, <1>4 DEF Units

LEMMA UnitsSplit ==
    ASSUME NEW w, NEW S, Summable(w, S), NEW x \in S
    PROVE  Cardinality(Units(w, S)) = w[x] + Cardinality(Units(w, S \ {x}))
  <1>1. Units(w, S) = UnitsOf(w, x) \cup Units(w, S \ {x})
    BY DEF Units
  <1>2. UnitsOf(w, x) \cap Units(w, S \ {x}) = {}
    BY DEF Units, UnitsOf
  <1>3. Summable(w, S \ {x})
    BY FS_RemoveElement DEF Summable
  <1>4. /\ IsFiniteSet(UnitsOf(w, x)) /\ Cardinality(UnitsOf(w, x)) = w[x]
        /\ IsFiniteSet(Units(w, S \ {x}))
    BY <1>3, UnitsFinite
  <1>5. Cardinality(UnitsOf(w, x) \cup Units(w, S \ {x})) =
           Cardinality(UnitsOf(w, x)) + Cardinality(Units(w, S \ {x}))
             - Cardinality(UnitsOf(w, x) \cap Units(w, S \ {x}))
    BY <1>4, FS_Union
  <1>6. Cardinality({}) = 0 /\ Cardinality(Units(w, S \ {x})) \in Nat /\ w[x] \in Nat
    BY <1>4, FS_EmptySet, FS_CardinalityType DEF Summable
  <1>7. Cardinality(Units(w, S)) = Cardinality(UnitsOf(w, x)) + Cardinality(Units(w, S \ {x})) - 0
    BY <1>1, <1>2, <1>5, <1>6
  <1> QED BY <1>4, <1>6, <1>7

LEMMA SumCounts ==
    ASSUME NEW w, NEW S, Summable(w, S)
    PROVE  SumFunctionOnSet(w, S) = Cardinality(Units(w, S))
  <1> DEFINE first(s) == CHOOSE x \in s : TRUE
             next(g) == [s \in SUBSET S |->
                           IF s = {} THEN 0 ELSE w[first(s)] + g[s \ {first(s)}]]
             sum == CHOOSE g : g = next(g)
             count == [s \in SUBSET S |-> Cardinality(Units(w, s))]
  <1>1. SumFunctionOnSet(w, S) = sum[S]
    BY Zenon DEF SumFunctionOnSet, FoldFunctionOnSet, MapThenFoldSet
  <1>2. \A s \in SUBSET S : s # {} => first(s) \in s
    OBVIOUS
  <1> HIDE DEF first
  <1>3. \A s \in SUBSET S : Summable(w, s)
    BY FS_Subset DEF Summable
  <1>4. ASSUME NEW s \in SUBSET S
        PROVE  count[s] = IF s = {} THEN 0 ELSE w[first(s)] + count[s \ {first(s)}]
    <2>1. CASE s = {}
      <3>1. Units(w, {}) = {}
        BY DEF Units
      <3> QED BY <2>1, <3>1, FS_EmptySet
    <2>2. CASE s # {}
      <3>1. first(s) \in s
        BY <1>2, <2>2
      <3>2. Cardinality(Units(w, s)) = w[first(s)] + Cardinality(Units(w, s \ {first(s)}))
        BY <1>3, <3>1, UnitsSplit
      <3> QED BY <2>2, <3>2
    <2> QED BY <2>1, <2>2
  <1>5. count = next(count)
    BY <1>4
  <1>6. sum = next(sum)
    <2> HIDE DEF next, count
    <2> QED BY <1>5
  <1>7. \A s \in SUBSET S : sum[s] = IF s = {} THEN 0 ELSE w[first(s)] + sum[s \ {first(s)}]
    <2> HIDE DEF sum
    <2> QED BY <1>6
  <1> HIDE DEF sum, count
  <1> DEFINE Wrong == {s \in SUBSET S : sum[s] # count[s]}
  <1>8. Wrong = {}
    <2> SUFFICES ASSUME Wrong # {} PROVE FALSE
      OBVIOUS
    <2>1. IsWellFoundedOn(StrictSubsetOrdering(S), SUBSET S)
      BY FS_StrictSubsetOrderingWellFounded, FS_FiniteSubsetsOfFinite DEF Summable
    <2>2. PICK s \in Wrong : \A t \in Wrong : <<t, s>> \notin StrictSubsetOrdering(S)
      BY <2>1, WFMin
    <2>3. s # {} => s \ {first(s)} \notin Wrong
      BY <1>2, <2>2 DEF StrictSubsetOrdering
    <2> QED BY <1>4, <1>7, <2>2, <2>3
  <1> QED BY <1>1, <1>8 DEF count

LEMMA SumIsNat ==
    ASSUME NEW w, NEW S, Summable(w, S)
    PROVE  SumFunctionOnSet(w, S) \in Nat
  BY SumCounts, UnitsFinite, FS_CardinalityType

(* One term and the others.                                                *)
LEMMA SumSplit ==
    ASSUME NEW w, NEW S, Summable(w, S), NEW x \in S
    PROVE  SumFunctionOnSet(w, S) = w[x] + SumFunctionOnSet(w, S \ {x})
  <1>1. Summable(w, S \ {x})
    BY FS_RemoveElement DEF Summable
  <1> QED BY <1>1, SumCounts, UnitsSplit

(* A sum depends on its terms only.                                        *)
LEMMA SumAgrees ==
    ASSUME NEW w, NEW v, NEW S, Summable(w, S), \A x \in S : v[x] = w[x]
    PROVE  SumFunctionOnSet(v, S) = SumFunctionOnSet(w, S)
  <1>1. Summable(v, S)
    BY DEF Summable
  <1>2. Units(v, S) = Units(w, S)
    BY DEF Units, UnitsOf
  <1> QED BY <1>1, <1>2, SumCounts

(* One term changes.                                                       *)
LEMMA SumMoves ==
    ASSUME NEW w, NEW v, NEW S, Summable(w, S), NEW x \in S, v[x] \in Nat,
           \A y \in S \ {x} : v[y] = w[y]
    PROVE  SumFunctionOnSet(v, S) - v[x] = SumFunctionOnSet(w, S) - w[x]
  <1>1. Summable(v, S) /\ Summable(w, S \ {x})
    BY FS_RemoveElement DEF Summable
  <1> DEFINE rest == SumFunctionOnSet(w, S \ {x})
  <1>2. SumFunctionOnSet(v, S \ {x}) = rest
    BY <1>1, SumAgrees
  <1>3. SumFunctionOnSet(v, S) = v[x] + rest /\ SumFunctionOnSet(w, S) = w[x] + rest
    BY <1>1, <1>2, SumSplit
  <1>4. rest \in Nat /\ w[x] \in Nat
    BY <1>1, SumIsNat DEF Summable
  <1> HIDE DEF rest
  <1> QED BY <1>3, <1>4

-----------------------------------------------------------------------------
(* The inductive invariant.                                                *)

(* A command holds what its second step will use: a snapshot of the sum of *)
(* the payer's reservations, and the arguments of its posting.             *)
Typed(c) ==
    c.op # "IDLE" =>
        /\ c.op \in Calling
        /\ c.who \in Entities /\ c.reserved \in Nat
        /\ c.op = "RESERVE" => c.who = c.row[1]
        /\ c.op = "TRANSFER" =>
              /\ c.to \in Entities \ {c.who} /\ c.amount \in Nat
              /\ c.key \in {"transfer"} \X TransferKeys
        /\ c.op \in {"ACTIVATE", "FEE"} => c.date \in Days

CallTypes == \A s \in Sessions : Typed(call[s])

(* Only what a command inserted is in the tables, so they stay finite.     *)
WalletTypes ==
    /\ posted \in [Entities -> Nat]
    /\ expired \subseteq Quotes
    /\ activated \subseteq Entities
    /\ fees \subseteq Entities \X Days /\ IsFiniteSet(fees)
    /\ journals \subseteq ({"mint"} \X Bases) \cup ({"transfer"} \X TransferKeys)
    /\ IsFiniteSet(journals)
    /\ day \in Days

WalletInv == WalletTypes /\ CallTypes /\ MoneyIsConserved

(* A call that may still send has an attempt left.                         *)
RecordInv ==
    /\ plan \in [Executions -> Plans]
    /\ tries \in [Executions -> 0 .. MaxAttempts]
    /\ attempt \in [Executions -> {"NONE", "STARTED", "SUCCEEDED", "FAILED", "OUTCOME_UNKNOWN"}]
    /\ recon \subseteq Executions
    /\ routable \in BOOLEAN
    /\ \A e \in Executions : pc[e] \in {"PREPARED", "ELIGIBLE"} => tries[e] < MaxAttempts

BooksInv == GatewayInv /\ WalletInv /\ RecordInv

-----------------------------------------------------------------------------
(* The terms of the equation.                                              *)

LEMMA ReservationsFinite == IsFiniteSet(Reservations)
  BY FiniteTables, FS_Product DEF Reservations

(* The reservations of an entity in a table of rows, and their sum.        *)
Rows == [Reservations -> ReservationRows]
Held(t, x) == {r \in Reservations : r[1] = x /\ t[r].status = "ACTIVE"}
AmountColumn(t) == [r \in Reservations |-> t[r].amount]
ReservedIn(t, x) == SumFunctionOnSet(AmountColumn(t), Held(t, x))

LEMMA HeldSummable ==
    ASSUME NEW t \in Rows, NEW x
    PROVE  Summable(AmountColumn(t), Held(t, x)) /\ ReservedIn(t, x) \in Nat
  <1>1. Held(t, x) \in SUBSET Reservations /\ IsFiniteSet(Held(t, x))
    BY ReservationsFinite, FS_Subset DEF Held
  <1>2. Summable(AmountColumn(t), Held(t, x))
    BY <1>1 DEF Summable, AmountColumn, Rows, ReservationRows
  <1> QED BY <1>2, SumIsNat DEF ReservedIn

LEMMA ReservedIsNat ==
    ASSUME LedgerTypes, NEW x
    PROVE  Reserved(x) \in Nat
  BY HeldSummable DEF Reserved, ReservedIn, Held, AmountColumn, Rows, LedgerTypes

(* Only active rows count, and with their amounts.                         *)
LEMMA HeldAgrees ==
    ASSUME NEW t \in Rows, NEW u \in Rows, NEW x,
           \A r \in Reservations : r[1] = x =>
              /\ t[r].status = "ACTIVE" <=> u[r].status = "ACTIVE"
              /\ t[r].status = "ACTIVE" => t[r].amount = u[r].amount
    PROVE  ReservedIn(u, x) = ReservedIn(t, x)
  <1>1. Held(u, x) = Held(t, x)
    BY DEF Held
  <1>2. \A r \in Held(t, x) : AmountColumn(u)[r] = AmountColumn(t)[r]
    BY DEF Held, AmountColumn
  <1>3. SumFunctionOnSet(AmountColumn(u), Held(t, x)) = SumFunctionOnSet(AmountColumn(t), Held(t, x))
    BY <1>2, HeldSummable, SumAgrees
  <1> QED BY <1>1, <1>3 DEF ReservedIn

(* A row becomes active.                                                   *)
LEMMA HeldGrows ==
    ASSUME NEW t \in Rows, NEW u \in Rows, NEW r \in Reservations,
           t[r].status # "ACTIVE", u[r].status = "ACTIVE",
           \A p \in Reservations \ {r} : u[p] = t[p]
    PROVE  ReservedIn(u, r[1]) = u[r].amount + ReservedIn(t, r[1])
  <1> DEFINE x == r[1]
  <1>1. r \in Held(u, x) /\ Held(u, x) \ {r} = Held(t, x)
    BY DEF Held
  <1>2. \A p \in Held(t, x) : AmountColumn(u)[p] = AmountColumn(t)[p]
    BY DEF Held, AmountColumn
  <1>3. SumFunctionOnSet(AmountColumn(u), Held(t, x)) = SumFunctionOnSet(AmountColumn(t), Held(t, x))
    BY <1>2, HeldSummable, SumAgrees
  <1>4. SumFunctionOnSet(AmountColumn(u), Held(u, x)) =
           AmountColumn(u)[r] + SumFunctionOnSet(AmountColumn(u), Held(u, x) \ {r})
    BY <1>1, HeldSummable, SumSplit
  <1>5. AmountColumn(u)[r] = u[r].amount
    BY DEF AmountColumn
  <1> QED BY <1>1, <1>3, <1>4, <1>5 DEF ReservedIn

LEMMA BalancesAreNat ==
    ASSUME WalletTypes
    PROVE  Summable(posted, Entities) /\ Balances \in Nat
  BY FiniteTables, SumIsNat DEF WalletTypes, Summable, Balances

(* A wallet is debited or credited.                                        *)
LEMMA WalletMoves ==
    ASSUME WalletTypes, NEW x \in Entities, NEW n \in Int, posted[x] + n \in Nat,
           posted' = [posted EXCEPT ![x] = @ + n]
    PROVE  posted' \in [Entities -> Nat] /\ Balances' = Balances + n
  <1>1. /\ posted' \in [Entities -> Nat]
        /\ posted'[x] \in Nat /\ posted'[x] = posted[x] + n
    BY DEF WalletTypes
  <1>2. \A y \in Entities \ {x} : posted'[y] = posted[y]
    BY DEF WalletTypes
  <1>3. Summable(posted, Entities) /\ Summable(posted', Entities)
    BY <1>1, BalancesAreNat, FiniteTables DEF Summable
  <1>4. SumFunctionOnSet(posted', Entities) - posted'[x] = SumFunctionOnSet(posted, Entities) - posted[x]
    <2>1. \A w, v : /\ Summable(w, Entities) /\ v[x] \in Nat
                    /\ \A y \in Entities \ {x} : v[y] = w[y]
                    => SumFunctionOnSet(v, Entities) - v[x] = SumFunctionOnSet(w, Entities) - w[x]
      BY SumMoves
    <2> QED BY <1>1, <1>2, <1>3, <2>1
  <1>5. Balances \in Nat /\ Balances' \in Nat /\ posted[x] \in Nat
    BY <1>3, SumIsNat DEF Summable, Balances
  <1>6. Balances' - posted'[x] = Balances - posted[x]
    BY <1>4 DEF Balances
  <1> QED BY <1>1, <1>5, <1>6

SettledColumn == [r \in Reservations |-> rsv[r].settled]

LEMMA SettledSummable ==
    ASSUME LedgerTypes
    PROVE  Summable(SettledColumn, Settled) /\ SettledEnergy \in Nat
  <1>1. Settled \in SUBSET Reservations /\ IsFiniteSet(Settled)
    BY ReservationsFinite, FS_Subset DEF Settled
  <1>2. Summable(SettledColumn, Settled)
    BY <1>1 DEF Summable, SettledColumn, LedgerTypes, ReservationRows
  <1> QED BY <1>2, SumIsNat DEF SettledEnergy, SettledColumn

(* No row becomes SETTLED.                                                 *)
LEMMA NothingSettled ==
    ASSUME LedgerTypes, RowsStayEnded,
           \A r \in Reservations : rsv'[r].status = "SETTLED" => rsv[r].status = "SETTLED"
    PROVE  SettledEnergy' = SettledEnergy
  <1>1. Settled' = Settled /\ \A r \in Settled : SettledColumn'[r] = SettledColumn[r]
    BY DEF Settled, SettledColumn, RowsStayEnded
  <1>2. SumFunctionOnSet(SettledColumn', Settled) = SumFunctionOnSet(SettledColumn, Settled)
    BY <1>1, SettledSummable, SumAgrees
  <1>3. SettledEnergy' = SumFunctionOnSet(SettledColumn', Settled')
    BY DEF SettledEnergy, SettledColumn
  <1> QED BY <1>1, <1>2, <1>3 DEF SettledEnergy, SettledColumn

(* One row becomes SETTLED.                                                *)
LEMMA OneSettled ==
    ASSUME LedgerTypes, LedgerTypes', RowsStayEnded, NEW r \in Reservations, NEW c \in Nat,
           rsv[r].status # "SETTLED", rsv'[r].status = "SETTLED", rsv'[r].settled = c,
           \A t \in Reservations \ {r} : rsv'[t] = rsv[t]
    PROVE  SettledEnergy' = SettledEnergy + c
  <1>1. r \in Settled' /\ Settled' \ {r} = Settled
    BY DEF Settled
  <1>2. SettledColumn'[r] = c /\ \A t \in Settled : SettledColumn'[t] = SettledColumn[t]
    BY DEF Settled, SettledColumn
  <1>3. Summable(SettledColumn', Settled')
    <2>1. Settled' \in SUBSET Reservations /\ IsFiniteSet(Settled')
      BY ReservationsFinite, FS_Subset DEF Settled
    <2> QED BY <2>1 DEF Summable, SettledColumn, LedgerTypes, ReservationRows
  <1>4. SumFunctionOnSet(SettledColumn', Settled') = c + SumFunctionOnSet(SettledColumn', Settled)
    BY <1>1, <1>2, <1>3, SumSplit
  <1>5. SumFunctionOnSet(SettledColumn', Settled) = SumFunctionOnSet(SettledColumn, Settled)
    BY <1>2, SettledSummable, SumAgrees
  <1>6. /\ SettledEnergy' = SumFunctionOnSet(SettledColumn', Settled')
        /\ SettledEnergy = SumFunctionOnSet(SettledColumn, Settled)
    BY DEF SettledEnergy, SettledColumn
  <1> QED BY <1>4, <1>5, <1>6, SettledSummable

-----------------------------------------------------------------------------
(* What each posting does to the equation.                                 *)

LEMMA OneMore ==
    ASSUME NEW a \in Nat, NEW n \in Nat
    PROVE  a * n \in Nat /\ a * (n + 1) = a * n + a
  OBVIOUS

LEMMA NothingPosted ==
    ASSUME MoneyIsConserved, UNCHANGED <<posted, fees, journals>>, SettledEnergy' = SettledEnergy
    PROVE  MoneyIsConserved'
  BY DEF MoneyIsConserved, Minted, Balances

Mints == {j \in journals : j[1] = "mint"}

LEMMA MintBooks ==
    ASSUME LedgerTypes, WalletTypes, MoneyIsConserved, SettledEnergy' = SettledEnergy,
           NEW x \in Entities, NEW b \in Bases, Mint(x, b)
    PROVE  WalletTypes' /\ MoneyIsConserved'
  <1>1. <<"mint", b>> \notin journals /\ journals' = journals \cup {<<"mint", b>>}
    BY DEF Mint
  <1>2. posted' = [posted EXCEPT ![x] = @ + MintAmount] /\ MintAmount \in Nat
    BY EconomyBounds DEF Mint
  <1>3. posted' \in [Entities -> Nat] /\ Balances' = Balances + MintAmount
    <2>1. posted[x] + MintAmount \in Nat /\ MintAmount \in Int
      BY <1>2 DEF WalletTypes
    <2> QED BY <1>2, <2>1, WalletMoves
  <1>4. IsFiniteSet(journals') /\ Cardinality(Mints') = Cardinality(Mints) + 1
        /\ Cardinality(Mints) \in Nat
    <2>1. Mints' = Mints \cup {<<"mint", b>>} /\ <<"mint", b>> \notin Mints
      BY <1>1 DEF Mints
    <2>2. IsFiniteSet(Mints)
      BY FS_Subset DEF Mints, WalletTypes
    <2>3. IsFiniteSet(journals')
      BY <1>1, FS_AddElement DEF WalletTypes
    <2> QED BY <2>1, <2>2, <2>3, FS_AddElement, FS_CardinalityType
  <1>5. WalletTypes'
    BY <1>1, <1>3, <1>4 DEF WalletTypes, Mint
  <1>6. MoneyIsConserved'
    <2>1. Minted = MintAmount * Cardinality(Mints)
          /\ Minted' = MintAmount * Cardinality(Mints')
      BY DEF Minted, Mints
    <2>2. Minted' = Minted + MintAmount /\ Minted \in Nat
      BY <1>2, <1>4, <2>1, OneMore
    <2>3. fees' = fees /\ Fee * Cardinality(fees) \in Nat
      BY EconomyBounds, OneMore, FS_CardinalityType DEF Mint, WalletTypes
    <2>4. Balances \in Nat /\ SettledEnergy \in Nat
      BY BalancesAreNat, SettledSummable
    <2> DEFINE paid == Fee * Cardinality(fees)
    <2>5. Minted = Balances + paid + SettledEnergy /\ paid' = paid /\ paid \in Nat
      BY <2>3 DEF MoneyIsConserved
    <2>6. Minted' = Balances' + paid' + SettledEnergy'
      <3> HIDE DEF paid
      <3> QED BY <1>2, <1>3, <2>2, <2>4, <2>5
    <2> QED BY <2>6 DEF MoneyIsConserved
  <1> QED BY <1>5, <1>6

LEMMA FeeBooks ==
    ASSUME LedgerTypes, WalletTypes, MoneyIsConserved, SettledEnergy' = SettledEnergy,
           NEW x \in Entities, NEW d \in Days, ChargeFee(x, d), <<x, d>> \notin fees,
           posted[x] - Fee \in Nat, UNCHANGED journals
    PROVE  /\ posted' \in [Entities -> Nat]
           /\ fees' \subseteq Entities \X Days /\ IsFiniteSet(fees')
           /\ MoneyIsConserved'
  <1>1. fees' = fees \cup {<<x, d>>} /\ posted' = [posted EXCEPT ![x] = @ - Fee] /\ Fee \in Nat
    BY EconomyBounds DEF ChargeFee
  <1>2. posted' \in [Entities -> Nat] /\ Balances' = Balances - Fee
    <2> DEFINE n == 0 - Fee
    <2>0. n \in Int /\ posted[x] - Fee = posted[x] + n
      BY <1>1 DEF WalletTypes
    <2>1. posted[x] + n \in Nat /\ posted' = [posted EXCEPT ![x] = @ + n]
      <3> HIDE DEF n
      <3> QED BY <1>1, <2>0 DEF WalletTypes
    <2>2. posted' \in [Entities -> Nat] /\ Balances' = Balances + n
      <3> HIDE DEF n
      <3> QED BY <2>0, <2>1, WalletMoves
    <2> QED BY <1>1, <2>2, BalancesAreNat
  <1>3. IsFiniteSet(fees') /\ Cardinality(fees') = Cardinality(fees) + 1 /\ Cardinality(fees) \in Nat
    BY <1>1, FS_AddElement, FS_CardinalityType DEF WalletTypes
  <1>4. MoneyIsConserved'
    <2>1. Minted' = Minted /\ Minted = Balances + Fee * Cardinality(fees) + SettledEnergy
      BY DEF Minted, MoneyIsConserved
    <2>2. Fee * Cardinality(fees') = Fee * Cardinality(fees) + Fee
          /\ Fee * Cardinality(fees) \in Nat
      BY <1>1, <1>3, OneMore
    <2>3. Balances \in Nat /\ SettledEnergy \in Nat
      BY BalancesAreNat, SettledSummable
    <2> DEFINE paid == Fee * Cardinality(fees)
    <2>4. Minted = Balances + paid + SettledEnergy /\ paid' = paid + Fee /\ paid \in Nat
      BY <2>1, <2>2
    <2>5. Minted' = Balances' + paid' + SettledEnergy'
      <3> HIDE DEF paid
      <3> QED BY <1>1, <1>2, <2>1, <2>3, <2>4
    <2> QED BY <2>5 DEF MoneyIsConserved
  <1> QED BY <1>1, <1>2, <1>3, <1>4 DEF WalletTypes

(* A transfer debits one wallet and credits another.                       *)
LEMMA TransferBooks ==
    ASSUME LedgerTypes, WalletTypes, MoneyIsConserved, SettledEnergy' = SettledEnergy,
           NEW s \in Sessions, call[s].op = "TRANSFER", Typed(call[s]), TransferPosted(s),
           UNCHANGED fees
    PROVE  /\ posted' \in [Entities -> Nat]
           /\ journals' \subseteq ({"mint"} \X Bases) \cup ({"transfer"} \X TransferKeys)
           /\ IsFiniteSet(journals')
           /\ MoneyIsConserved'
  <1>0. PICK x \in Entities, y \in Entities, a \in Nat, k \in {"transfer"} \X TransferKeys :
           x # y /\ call[s].who = x /\ call[s].to = y /\ call[s].amount = a /\ call[s].key = k
    BY DEF Typed
  <1>1. /\ posted' = [posted EXCEPT ![x] = @ - a, ![y] = @ + a]
        /\ journals' = journals \cup {k}
    BY <1>0 DEF TransferPosted, Post
  <1>2. posted[x] - a \in Nat /\ posted[y] + a \in Nat /\ posted[x] \in Nat /\ posted[y] \in Nat
    BY <1>0 DEF TransferPosted, AvailableSeen, Typed, WalletTypes
  <1>3. posted' \in [Entities -> Nat] /\ posted'[x] = posted[x] - a /\ posted'[y] = posted[y] + a
    BY <1>0, <1>1, <1>2 DEF WalletTypes
  <1> DEFINE sum(w) == SumFunctionOnSet(w, Entities)
             rest(w) == SumFunctionOnSet(w, Entities \ {x})
             others(w) == SumFunctionOnSet(w, (Entities \ {x}) \ {y})
  <1>4. ASSUME NEW w \in [Entities -> Nat]
        PROVE  sum(w) = w[x] + w[y] + others(w) /\ others(w) \in Nat
    <2>1. /\ Summable(w, Entities) /\ Summable(w, Entities \ {x})
          /\ Summable(w, (Entities \ {x}) \ {y})
      BY FiniteTables, FS_RemoveElement DEF Summable
    <2>2. sum(w) = w[x] + rest(w)
      BY <2>1, SumSplit
    <2>3. rest(w) = w[y] + others(w)
      BY <1>0, <2>1, SumSplit
    <2>4. others(w) \in Nat
      BY <2>1, SumIsNat
    <2> HIDE DEF sum, rest, others
    <2> QED BY <2>2, <2>3, <2>4
  <1>5. others(posted') = others(posted)
    <2>1. Summable(posted, (Entities \ {x}) \ {y})
      BY FiniteTables, FS_RemoveElement DEF Summable, WalletTypes
    <2>2. \A z \in (Entities \ {x}) \ {y} : posted'[z] = posted[z]
      BY <1>1 DEF WalletTypes
    <2> QED BY <2>1, <2>2, SumAgrees
  <1>6. sum(posted') = sum(posted)
    <2>1. sum(posted) = posted[x] + posted[y] + others(posted) /\ others(posted) \in Nat
      BY <1>4 DEF WalletTypes
    <2>2. sum(posted') = posted'[x] + posted'[y] + others(posted)
      BY <1>3, <1>4, <1>5
    <2> HIDE DEF sum, others
    <2> QED BY <1>2, <1>3, <2>1, <2>2
  <1>7. {j \in journals' : j[1] = "mint"} = {j \in journals : j[1] = "mint"}
    BY <1>0, <1>1
  <1>8. MoneyIsConserved'
    BY <1>6, <1>7 DEF MoneyIsConserved, Minted, Balances
  <1>9. IsFiniteSet(journals')
    BY <1>1, FS_AddElement DEF WalletTypes
  <1> QED BY <1>0, <1>1, <1>3, <1>8, <1>9 DEF WalletTypes

LEMMA ReleaseBooks ==
    ASSUME LedgerInv, NEW r \in Reservations, Release(r), UNCHANGED call
    PROVE  SettledEnergy' = SettledEnergy
  <1>1. RowsStayEnded
    BY ReleaseStep
  <1>2. \A t \in Reservations : rsv'[t].status = "SETTLED" => rsv[t].status = "SETTLED"
    BY DEF Release, LedgerInv, LedgerTypes, ReservationRows
  <1> QED BY <1>1, <1>2, NothingSettled DEF LedgerInv

(* A settlement takes from the wallet what it records on the reservation.  *)
LEMMA SettleBooks ==
    ASSUME LedgerInv, WalletTypes, MoneyIsConserved, NEW r \in Reservations, NEW c \in Nat,
           Settleable(r, c), Settle(r, c), UNCHANGED <<call, fees, journals>>
    PROVE  posted' \in [Entities -> Nat] /\ MoneyIsConserved'
  <1>1. LedgerInv' /\ RowsStayEnded /\ rsv'[r].status = "SETTLED" /\ rsv'[r].settled = c
    BY SettleStep
  <1>2. CASE rsv[r].status = "ACTIVE"
    <2>1. /\ posted' = [posted EXCEPT ![r[1]] = @ - c] /\ c <= posted[r[1]]
          /\ \A t \in Reservations \ {r} : rsv'[t] = rsv[t]
      BY <1>2 DEF Settle, Settleable, LedgerInv, LedgerTypes
    <2>2. SettledEnergy' = SettledEnergy + c
      BY <1>1, <1>2, <2>1, OneSettled DEF LedgerInv
    <2>3. r[1] \in Entities
      BY DEF Reservations
    <2>4. posted' \in [Entities -> Nat] /\ Balances' = Balances - c
      <3> DEFINE n == 0 - c
      <3>1. n \in Int /\ posted[r[1]] - c = posted[r[1]] + n /\ posted[r[1]] - c \in Nat
        BY <2>1, <2>3 DEF WalletTypes
      <3>2. posted[r[1]] + n \in Nat /\ posted' = [posted EXCEPT ![r[1]] = @ + n]
        <4> HIDE DEF n
        <4> QED BY <2>1, <2>3, <3>1 DEF WalletTypes
      <3>3. posted' \in [Entities -> Nat] /\ Balances' = Balances + n
        <4> HIDE DEF n
        <4> QED BY <2>3, <3>1, <3>2, WalletMoves
      <3> QED BY <3>3, BalancesAreNat
    <2> DEFINE paid == Fee * Cardinality(fees)
    <2>5. Minted' = Minted /\ Minted = Balances + paid + SettledEnergy /\ paid' = paid
      BY DEF Minted, MoneyIsConserved
    <2>6. paid \in Nat /\ Balances \in Nat /\ SettledEnergy \in Nat
      BY EconomyBounds, OneMore, FS_CardinalityType, BalancesAreNat, SettledSummable
      DEF WalletTypes, LedgerInv
    <2>7. Minted' = Balances' + paid' + SettledEnergy'
      <3> HIDE DEF paid
      <3> QED BY <2>2, <2>4, <2>5, <2>6
    <2> QED BY <2>4, <2>7 DEF MoneyIsConserved
  <1>3. CASE rsv[r].status # "ACTIVE"
    <2>1. UNCHANGED <<posted, rsv>>
      BY <1>3 DEF Settle
    <2>2. SettledEnergy' = SettledEnergy
      BY <1>1, <2>1, NothingSettled DEF LedgerInv
    <2> QED BY <2>1, <2>2, NothingPosted DEF WalletTypes
  <1> QED BY <1>2, <1>3

-----------------------------------------------------------------------------
(* The commands of the ledger.                                             *)

LEMMA CallMoves ==
    ASSUME CallOK, CallTypes, NEW s \in Sessions, NEW c, Typed(c), call' = [call EXCEPT ![s] = c]
    PROVE  CallTypes'
  <1>1. \A t \in Sessions : call'[t] = call[t] \/ call'[t] = c
    BY DEF CallOK
  <1> QED BY <1>1 DEF CallTypes

LEMMA BeginBooks ==
    ASSUME LedgerInv, WalletInv, NEW s \in Sessions, NEW c, Typed(c), Begin(s, c)
    PROVE  WalletInv'
  <1>1. /\ call' = [call EXCEPT ![s] = c]
        /\ UNCHANGED <<posted, rsv, fees, journals, activated, expired, day>>
    BY DEF Begin, ledger
  <1>2. SettledEnergy' = SettledEnergy
    BY <1>1 DEF SettledEnergy, Settled
  <1>3. CallTypes'
    BY <1>1, CallMoves DEF LedgerInv, LedgerTypes, WalletInv
  <1> QED BY <1>1, <1>2, <1>3, NothingPosted DEF WalletInv, WalletTypes

LEMMA IdleTyped == Typed(Idle)
  BY DEF Typed, Idle

LEMMA FinishBooks ==
    ASSUME LedgerInv, WalletInv, NEW s \in Sessions,
           FinishReserve(s) \/ FinishTransfer(s) \/ FinishDailyFee(s) \/ FinishActivation(s)
    PROVE  WalletInv'
  <1> USE DEF WalletInv
  <1>0. Done(s)
    BY DEF FinishReserve, FinishTransfer, FinishDailyFee, FinishActivation
  <1>1. CallTypes'
    BY <1>0, CallMoves, IdleTyped DEF Done, LedgerInv, LedgerTypes
  <1>2. Typed(call[s]) /\ UNCHANGED <<expired, day>>
    BY <1>0 DEF CallTypes, Done
  <1>3. CASE FinishReserve(s)
    <2>1. UNCHANGED <<posted, fees, journals, activated>> /\ RowsStayEnded
      BY <1>3, ReserveStep DEF FinishReserve
    <2>2. \A r \in Reservations : rsv'[r].status = "SETTLED" => rsv[r].status = "SETTLED"
      <3>1. call[s].row \in Reservations
        BY <1>3 DEF FinishReserve, LedgerInv, LedgerTypes, CallOK, Reserving
      <3>2. rsv'[call[s].row].status = "ACTIVE" \/ rsv' = rsv
        <4>1. ASSUME NEW row \in ReservationRows, row.status = "ACTIVE", Bind(s, row)
              PROVE  rsv'[call[s].row].status = "ACTIVE"
          BY <3>1, <4>1 DEF Bind, LedgerInv, LedgerTypes, ReservationRows
        <4>2. CASE ReserveNew(s)
          <5> DEFINE row == [NoReservation EXCEPT !.status = "ACTIVE", !.amount = call[s].amount]
          <5>1. row \in ReservationRows /\ row.status = "ACTIVE"
            BY <1>3 DEF FinishReserve, LedgerInv, LedgerTypes, CallOK, Reserving, NoReservation,
               ReservationRows
          <5>2. Bind(s, row)
            BY <4>2 DEF ReserveNew
          <5> HIDE DEF row
          <5> QED BY <4>1, <5>1, <5>2
        <4>3. CASE ReserveReplay(s)
          BY <3>1, <4>1, <4>3 DEF ReserveReplay, ReserveReplays, LedgerInv, LedgerTypes
        <4> QED BY <1>3, <4>2, <4>3 DEF FinishReserve, ReserveRefused
      <3>3. \A r \in Reservations \ {call[s].row} : rsv'[r] = rsv[r]
        BY <1>3 DEF FinishReserve, ReserveNew, ReserveReplay, ReserveRefused, Bind, LedgerInv,
           LedgerTypes
      <3> QED BY <3>1, <3>2, <3>3
    <2>3. SettledEnergy' = SettledEnergy
      BY <2>1, <2>2, NothingSettled DEF LedgerInv
    <2> QED BY <1>1, <1>2, <2>1, <2>3, NothingPosted DEF WalletTypes
  <1>4. ASSUME UNCHANGED rsv
        PROVE  SettledEnergy' = SettledEnergy
    BY <1>4 DEF SettledEnergy, Settled
  <1>5. CASE FinishTransfer(s) /\ TransferPosted(s)
    <2>1. UNCHANGED <<rsv, fees, activated>> /\ call[s].op = "TRANSFER"
      BY <1>5 DEF FinishTransfer
    <2>2. /\ posted' \in [Entities -> Nat]
          /\ journals' \subseteq ({"mint"} \X Bases) \cup ({"transfer"} \X TransferKeys)
          /\ IsFiniteSet(journals')
          /\ MoneyIsConserved'
      BY <1>2, <1>4, <1>5, <2>1, TransferBooks DEF LedgerInv
    <2> QED BY <1>1, <1>2, <2>1, <2>2 DEF WalletTypes
  <1>6. ASSUME NEW x \in Entities, NEW d \in Days, ChargeFee(x, d), <<x, d>> \notin fees,
               posted[x] - Fee \in Nat, UNCHANGED <<rsv, journals>>, activated' \subseteq Entities
        PROVE  WalletInv'
    <2>1. /\ posted' \in [Entities -> Nat]
          /\ fees' \subseteq Entities \X Days /\ IsFiniteSet(fees')
          /\ MoneyIsConserved'
      BY <1>4, <1>6, FeeBooks DEF LedgerInv
    <2> QED BY <1>1, <1>2, <1>6, <2>1 DEF WalletTypes
  <1>7. CASE FinishDailyFee(s) /\ FeePayable(s, AvailableSeen(s))
    <2>1. call[s].who \in Entities /\ call[s].date \in Days /\ call[s].reserved \in Nat
      BY <1>2, <1>7 DEF FinishDailyFee, Typed
    <2>2. posted[call[s].who] - Fee \in Nat
      BY <1>7, <2>1, EconomyBounds DEF FeePayable, AvailableSeen, WalletTypes
    <2> QED BY <1>6, <1>7, <2>1, <2>2 DEF FinishDailyFee, FeePayable, WalletTypes
  <1>8. CASE /\ FinishActivation(s)
             /\ AvailableSeen(s) >= ActivationFloor /\ FeePayable(s, Available(call[s].who))
    <2>1. call[s].who \in Entities /\ call[s].date \in Days
      BY <1>2, <1>8 DEF FinishActivation, Typed
    <2>2. posted[call[s].who] - Fee \in Nat
      <3>1. Reserved(call[s].who) \in Nat
        BY ReservedIsNat DEF LedgerInv
      <3> QED BY <1>8, <2>1, <3>1, EconomyBounds DEF FeePayable, Available, WalletTypes
    <2> QED BY <1>6, <1>8, <2>1, <2>2 DEF FinishActivation, FeePayable, WalletTypes
  <1>9. CASE UNCHANGED <<posted, rsv, fees, journals, activated>>
    BY <1>1, <1>2, <1>4, <1>9, NothingPosted DEF WalletTypes
  <1> QED
    BY <1>3, <1>5, <1>7, <1>8, <1>9
    DEF FinishTransfer, FinishDailyFee, FinishActivation, TransferNotPosted

LEMMA LedgerBooks ==
    ASSUME LedgerInv, WalletInv, EconomyNext
    PROVE  WalletInv'
  <1> USE DEF WalletInv
  <1>1. ASSUME UNCHANGED <<posted, rsv, fees, journals, activated, call>>, WalletTypes'
        PROVE  WalletInv'
    <2>1. SettledEnergy' = SettledEnergy
      BY <1>1 DEF SettledEnergy, Settled
    <2> QED BY <1>1, <2>1, NothingPosted DEF CallTypes
  <1>2. CASE NextDay \/ \E q \in Quotes : Expire(q)
    BY <1>1, <1>2 DEF NextDay, Expire, ledger, WalletTypes
  <1>3. ASSUME NEW x \in Entities, NEW b \in Bases, Mint(x, b)
        PROVE  WalletInv'
    <2>1. SettledEnergy' = SettledEnergy
      BY <1>3 DEF SettledEnergy, Settled, Mint
    <2>2. WalletTypes' /\ MoneyIsConserved'
      BY <1>3, <2>1, MintBooks DEF LedgerInv
    <2> QED BY <1>3, <2>2 DEF Mint, CallTypes
  <1>4. ASSUME NEW x \in Entities, NEW q \in Quotes, NEW m \in Amounts, QuoteResource(x, q, m)
        PROVE  WalletInv'
    BY <1>1, <1>4 DEF QuoteResource, WalletTypes
  <1>5. ASSUME NEW r \in Reservations, ReleaseReservation(r)
        PROVE  WalletInv'
    <2>1. SettledEnergy' = SettledEnergy
      BY <1>5, ReleaseBooks DEF ReleaseReservation
    <2> QED BY <1>5, <2>1, NothingPosted DEF ReleaseReservation, CallTypes, WalletTypes
  <1>6. ASSUME NEW s \in Sessions, NEW r \in Reservations, NEW a \in Amounts,
               NEW q \in Quotes \cup {NoQuote}, BeginReserve(s, r, a, q)
        PROVE  WalletInv'
    <2>1. r[1] \in Entities /\ Reserved(r[1]) \in Nat
      BY ReservedIsNat DEF Reservations, LedgerInv
    <2> QED BY <1>6, <2>1, BeginBooks DEF BeginReserve, Typed, Calling
  <1>7. ASSUME NEW s \in Sessions, NEW x \in Entities, NEW y \in Entities, NEW a \in Amounts,
               NEW t \in TransferKeys, BeginTransfer(s, x, y, a, t)
        PROVE  WalletInv'
    <2>1. Reserved(x) \in Nat
      BY ReservedIsNat DEF LedgerInv
    <2> QED BY <1>7, <2>1, EconomyBounds, BeginBooks DEF BeginTransfer, Typed, Calling
  <1>8. ASSUME NEW s \in Sessions, NEW x \in Entities, NEW d \in Days,
               BeginActivation(s, x, d) \/ BeginDailyFee(s, x, d)
        PROVE  WalletInv'
    <2>1. Reserved(x) \in Nat
      BY ReservedIsNat DEF LedgerInv
    <2> QED BY <1>8, <2>1, BeginBooks DEF BeginActivation, BeginDailyFee, Typed, Calling
  <1> QED
    BY <1>2, <1>3, <1>4, <1>5, <1>6, <1>7, <1>8, FinishBooks DEF EconomyNext

-----------------------------------------------------------------------------
(* The executions.                                                         *)

LEMMA WalletsKept ==
    ASSUME WalletInv, UNCHANGED economyVars
    PROVE  WalletInv'
  <1>1. SettledEnergy' = SettledEnergy
    BY DEF SettledEnergy, Settled, economyVars
  <1> QED BY <1>1, NothingPosted DEF WalletInv, WalletTypes, CallTypes, economyVars

LEMMA WalletStep ==
    ASSUME BooksInv, [Next]_vars
    PROVE  WalletInv'
  <1> USE DEF BooksInv, GatewayInv
  <1>1. ASSUME NEW e \in Executions, pc[e] \in AtWork \/ exec[e].status # "NONE"
        PROVE  Row(e) \in Reservations
    BY <1>1 DEF ExecutionInv, ProgressInv, Row
  <1>2. ASSUME NEW r \in Reservations, Release(r) \/ UNCHANGED <<rsv, quote>>,
               UNCHANGED <<posted, expired, activated, fees, journals, day, call>>
        PROVE  WalletInv'
    <2>1. CASE Release(r)
      <3>1. SettledEnergy' = SettledEnergy
        BY <1>2, <2>1, ReleaseBooks
      <3> QED BY <1>2, <3>1, NothingPosted DEF WalletInv, WalletTypes, CallTypes
    <2>2. CASE UNCHANGED <<rsv, quote>>
      BY <1>2, <2>2, WalletsKept DEF economyVars
    <2> QED BY <1>2, <2>1, <2>2
  <1>3. CASE Ledger
    BY <1>3, LedgerBooks DEF Ledger
  <1>4. CASE UNCHANGED economyVars
    BY <1>4, WalletsKept
  <1>5. ASSUME NEW e \in Executions, FinalizeEligibilityFailure(e)
        PROVE  WalletInv'
    BY <1>1, <1>2, <1>5 DEF FinalizeEligibilityFailure, AtWork
  <1>6. ASSUME NEW e \in Executions, FinalizeFailure(e)
        PROVE  WalletInv'
    BY <1>1, <1>2, <1>6 DEF FinalizeFailure, AtWork
  <1>7. ASSUME NEW e \in Executions, CancelExecution(e)
        PROVE  WalletInv'
    BY <1>1, <1>2, <1>7 DEF CancelExecution, Cancellable
  <1>8. ASSUME NEW e \in Executions, NEW status, NEW c \in {0} \cup Amounts,
               FinalizeWithUsage(e, status, c)
        PROVE  WalletInv'
    <2>1. UNCHANGED <<expired, activated, fees, journals, day, call>> /\ c \in Nat
      BY <1>8, EconomyBounds DEF FinalizeWithUsage
    <2>2. Row(e) \in Reservations
      BY <1>1, <1>8 DEF FinalizeWithUsage, AtWork
    <2>3. CASE Settleable(Row(e), c) /\ Settle(Row(e), c)
      <3>1. posted' \in [Entities -> Nat] /\ MoneyIsConserved'
        BY <2>1, <2>2, <2>3, SettleBooks DEF WalletInv
      <3> QED BY <2>1, <3>1 DEF WalletInv, WalletTypes, CallTypes
    <2>4. CASE UNCHANGED <<posted, rsv, quote>>
      BY <2>1, <2>4, WalletsKept DEF economyVars
    <2> QED BY <1>8, <2>3, <2>4 DEF FinalizeWithUsage
  <1>9. ASSUME NEW e \in Executions,
               \/ \E r \in Reservations, d \in Days : ValidateQuoteForInference(e, r, d)
               \/ PrepareExecution(e) \/ CheckEligibility(e) \/ MarkAttemptDispatched(e)
               \/ DispatchRefused(e) \/ CredentialUnavailable(e) \/ MarkRetryableFailure(e)
               \/ FinalizeUnknown(e) \/ Crash(e)
        PROVE  WalletInv'
    BY <1>4, <1>9
    DEF ValidateQuoteForInference, PrepareExecution, CheckEligibility, MarkAttemptDispatched,
        DispatchRefused, CredentialUnavailable, MarkRetryableFailure, FinalizeUnknown, Crash
  <1> QED
    BY <1>3, <1>4, <1>5, <1>6, <1>7, <1>8, <1>9 DEF Next, DisableConnector, vars

LEMMA RecordStep ==
    ASSUME BooksInv, [Next]_vars
    PROVE  RecordInv'
  <1> USE DEF BooksInv, GatewayInv, RecordInv
  <1>0. pc \in [Executions -> AtWork \cup {"IDLE", "ENDED"}]
    BY DEF ExecutionInv, ExecutionTypes
  <1>1. CASE Ledger \/ UNCHANGED vars
    BY <1>1 DEF Ledger, vars, gatewayVars, records
  <1>2. CASE DisableConnector
    BY <1>2 DEF DisableConnector, records
  <1>3. ASSUME NEW e \in Executions, NEW r \in Reservations, NEW d \in Days,
               ValidateQuoteForInference(e, r, d)
        PROVE  RecordInv'
    <2> DEFINE q == rsv[r].quote
               row == [row |-> r, quote |-> q, day |-> d, max |-> quote[q].max]
    <2>1. /\ q \in Quotes /\ quote[q].status = "RESERVED"
          /\ plan' = [plan EXCEPT ![e] = row] /\ pc' = [pc EXCEPT ![e] = "AUTHORISED"]
          /\ UNCHANGED <<tries, attempt, recon, routable>>
      BY <1>3 DEF ValidateQuoteForInference, Goto
    <2>2. quote[q].max \in Nat
      BY <2>1 DEF LedgerInv, LedgerTypes, QuoteRows, NoQuoteRow
    <2>3. row \in Plans
      BY <2>1, <2>2 DEF Plans
    <2> HIDE DEF row
    <2> QED BY <1>0, <2>1, <2>3
  <1>4. ASSUME NEW e \in Executions, PrepareExecution(e)
        PROVE  RecordInv'
    <2>1. tries[e] = 0 /\ pc[e] = "AUTHORISED"
      BY <1>4 DEF PrepareExecution, ExecutionInv, ProgressInv
    <2>2. /\ plan' \in [Executions -> Plans] /\ UNCHANGED <<tries, attempt, recon, routable>>
          /\ \A t \in Executions \ {e} : pc'[t] = pc[t]
      BY <1>0, <1>4 DEF PrepareExecution, Goto, Plans
    <2> QED BY <2>1, <2>2, GatewayBounds
  <1>5. ASSUME NEW e \in Executions,
               CheckEligibility(e) \/ DispatchRefused(e) \/ CredentialUnavailable(e) \/ Crash(e)
        PROVE  RecordInv'
    <2>1. /\ UNCHANGED <<plan, tries, attempt, recon, routable>>
          /\ pc[e] = "PREPARED" \/ pc'[e] \notin {"PREPARED", "ELIGIBLE"}
          /\ \A t \in Executions \ {e} : pc'[t] = pc[t]
      BY <1>0, <1>5
      DEF CheckEligibility, DispatchRefused, CredentialUnavailable, Crash, Goto, records
    <2> QED BY <2>1
  <1>6. ASSUME NEW e \in Executions, MarkAttemptDispatched(e)
        PROVE  RecordInv'
    <2>1. /\ pc[e] = "ELIGIBLE" /\ pc' = [pc EXCEPT ![e] = "SENT"]
          /\ tries' = [tries EXCEPT ![e] = @ + 1]
          /\ attempt' = [attempt EXCEPT ![e] = "STARTED"]
          /\ UNCHANGED <<plan, recon, routable>>
      BY <1>6 DEF MarkAttemptDispatched, Goto
    <2>2. tries[e] + 1 \in 0 .. MaxAttempts
      BY <2>1, GatewayBounds
    <2>3. tries' \in [Executions -> 0 .. MaxAttempts]
      BY <2>1, <2>2
    <2> QED BY <1>0, <2>1, <2>3
  <1>7. ASSUME NEW e \in Executions, MarkRetryableFailure(e)
        PROVE  RecordInv'
    BY <1>0, <1>7 DEF MarkRetryableFailure, Retries, Goto
  <1>8. ASSUME NEW e \in Executions,
               FinalizeEligibilityFailure(e) \/ FinalizeFailure(e) \/ FinalizeUnknown(e)
        PROVE  RecordInv'
    BY <1>0, <1>8 DEF FinalizeEligibilityFailure, FinalizeFailure, FinalizeUnknown, Resolve, Goto
  <1>9. ASSUME NEW e \in Executions, NEW status \in {"SUCCEEDED", "FAILED"}, NEW c,
               FinalizeWithUsage(e, status, c)
        PROVE  RecordInv'
    BY <1>0, <1>9 DEF FinalizeWithUsage, Resolve, Goto
  <1>10. ASSUME NEW e \in Executions, CancelExecution(e)
         PROVE  RecordInv'
    BY <1>10 DEF CancelExecution
  <1> QED BY <1>1, <1>2, <1>3, <1>4, <1>5, <1>6, <1>7, <1>8, <1>9, <1>10 DEF Next

LEMMA BooksInitially == Init => BooksInv
  <1> SUFFICES ASSUME Init PROVE BooksInv
    OBVIOUS
  <1> USE DEF Init, EconomyInit
  <1>1. GatewayInv
    BY GatewayInitially
  <1>2. RecordInv
    BY GatewayBounds DEF RecordInv, Plans
  <1>3. WalletTypes /\ CallTypes
    BY EconomyBounds, FS_EmptySet DEF WalletTypes, CallTypes, Typed, Idle
  <1>4. Balances = 0
    <2>1. \A x \in Entities : UnitsOf(posted, x) = {}
      BY DEF UnitsOf
    <2>2. Units(posted, Entities) = {}
      BY <2>1 DEF Units
    <2> QED BY <1>3, <2>2, BalancesAreNat, SumCounts, FS_EmptySet DEF Balances
  <1>5. SettledEnergy = 0
    <2>1. Settled = {}
      BY DEF Settled, NoReservation
    <2>2. Summable(SettledColumn, {}) /\ Units(SettledColumn, {}) = {}
      BY FS_EmptySet DEF Summable, Units
    <2> QED BY <2>1, <2>2, SumCounts, FS_EmptySet DEF SettledEnergy, SettledColumn
  <1>6. Minted = 0 /\ Fee * Cardinality(fees) = 0
    <2>1. {j \in journals : j[1] = "mint"} = {}
      OBVIOUS
    <2>2. Cardinality({j \in journals : j[1] = "mint"}) = 0 /\ Cardinality(fees) = 0
      BY <2>1, FS_EmptySet
    <2> QED BY <2>2, EconomyBounds DEF Minted
  <1> QED BY <1>1, <1>2, <1>3, <1>4, <1>5, <1>6 DEF BooksInv, WalletInv, MoneyIsConserved

LEMMA BooksInvariance == Spec => []BooksInv
  <1>1. BooksInv /\ [Next]_vars => BooksInv'
    BY GatewayStep, WalletStep, RecordStep DEF BooksInv
  <1> QED BY <1>1, BooksInitially, PTL DEF Spec

-----------------------------------------------------------------------------
(* Every table of the ledger and of the gateway keeps its form; no wallet  *)
(* is overdrawn, and no execution is sent more often than its descriptor   *)
(* allows (the CHECK on wallets, infer).                                   *)
THEOREM GatewayTypes == Spec => []TypeOK
  <1>1. BooksInv => TypeOK
    <2> SUFFICES ASSUME BooksInv PROVE TypeOK
      OBVIOUS
    <2>1. \A s \in Sessions : call[s].op \in Calling
      BY DEF BooksInv, WalletInv, CallTypes, Typed, Calling
    <2> QED
      BY <2>1 DEF BooksInv, GatewayInv, LedgerInv, LedgerTypes, CallOK, ExecutionInv,
         ExecutionTypes, WalletInv, WalletTypes, RecordInv, TypeOK
  <1> QED BY <1>1, BooksInvariance, PTL

(* Every microE minted is in a wallet, was paid as a recorded fee, or was  *)
(* settled from a reservation, whatever commands ran concurrently,         *)
(* replayed or failed (createBalancedJournal, settleReservation,           *)
(* chargeFee).                                                             *)
THEOREM EnergyIsConserved == Spec => []MoneyIsConserved
  <1>1. BooksInv => MoneyIsConserved
    BY DEF BooksInv, WalletInv
  <1> QED BY <1>1, BooksInvariance, PTL

-----------------------------------------------------------------------------
(* Who overdraws.                                                          *)

Overdrawn(x) == Available(x)' < 0 /\ Available(x)' < Available(x)
Overlooked(x) ==
    \E s \in Calls("RESERVE") \cup Calls("TRANSFER") \cup Calls("FEE") :
       call'[s] = Idle /\ call[s].who = x /\ Overlooks(s)

LEMMA BalancesThen ==
    ASSUME BooksInv, BooksInv', NEW x \in Entities
    PROVE  /\ posted[x] \in Nat /\ posted'[x] \in Nat
           /\ rsv \in Rows /\ rsv' \in Rows
           /\ ReservedIn(rsv, x) \in Nat /\ ReservedIn(rsv', x) \in Nat
           /\ Reserved(x) = ReservedIn(rsv, x)
           /\ Available(x) = posted[x] - ReservedIn(rsv, x)
           /\ Available(x)' = posted'[x] - ReservedIn(rsv', x)
  <1>1. rsv \in Rows /\ rsv' \in Rows /\ posted[x] \in Nat /\ posted'[x] \in Nat
    BY DEF BooksInv, GatewayInv, LedgerInv, LedgerTypes, Rows, WalletInv, WalletTypes
  <1>2. ReservedIn(rsv, x) \in Nat /\ ReservedIn(rsv', x) \in Nat
    BY <1>1, HeldSummable
  <1>3. Reserved(x) = ReservedIn(rsv, x) /\ Reserved(x)' = ReservedIn(rsv', x)
    BY DEF Reserved, ReservedIn, AmountColumn, Held
  <1> QED BY <1>1, <1>2, <1>3 DEF Available

(* The wallet loses no more than its reservations do.                      *)
LEMMA Covered ==
    ASSUME BooksInv, BooksInv', NEW x \in Entities,
           ReservedIn(rsv', x) - ReservedIn(rsv, x) <= posted'[x] - posted[x]
    PROVE  ~Overdrawn(x)
  BY BalancesThen DEF Overdrawn

(* A command of the owner found n in the wallet and took or reserved it.   *)
LEMMA Spent ==
    ASSUME BooksInv, BooksInv', NEW s \in Sessions, call[s].op \in {"RESERVE", "TRANSFER", "FEE"},
           call'[s] = Idle, NEW x \in Entities, call[s].who = x,
           NEW n \in Nat, AvailableSeen(s) >= n,
           posted'[x] - ReservedIn(rsv', x) = posted[x] - ReservedIn(rsv, x) - n
    PROVE  ~Overdrawn(x) \/ Overlooked(x)
  <1>1. CASE Overlooks(s)
    BY <1>1 DEF Overlooked, Calls
  <1>2. CASE ~Overlooks(s)
    <2>1. /\ posted[x] \in Nat /\ ReservedIn(rsv, x) \in Nat
          /\ Reserved(x) = ReservedIn(rsv, x)
          /\ Available(x)' = posted'[x] - ReservedIn(rsv', x)
      BY BalancesThen
    <2>2. call[s].reserved \in Nat /\ ReservedIn(rsv, x) <= call[s].reserved
      BY <1>2, <2>1 DEF Overlooks, BooksInv, WalletInv, CallTypes, Typed
    <2>3. posted[x] - call[s].reserved >= n
      BY DEF AvailableSeen
    <2>4. posted[x] - ReservedIn(rsv, x) - n >= 0
      BY <2>1, <2>2, <2>3
    <2> QED BY <2>1, <2>4 DEF Overdrawn
  <1> QED BY <1>1, <1>2

LEMMA ReleaseCovered ==
    ASSUME BooksInv, BooksInv', NEW r \in Reservations, Release(r), UNCHANGED posted,
           NEW x \in Entities
    PROVE  ~Overdrawn(x)
  <1>1. rsv \in Rows /\ rsv' \in Rows /\ posted[x] \in Nat
        /\ ReservedIn(rsv, x) \in Nat /\ ReservedIn(rsv', x) \in Nat
    BY BalancesThen
  <1>2. CASE rsv[r].status = "ACTIVE" /\ x = r[1]
    <2>1. /\ rsv'[r].status # "ACTIVE" /\ rsv[r].amount \in Nat
          /\ \A p \in Reservations \ {r} : rsv[p] = rsv'[p]
      BY <1>1, <1>2 DEF Release, Rows, ReservationRows
    <2>2. ReservedIn(rsv, x) = rsv[r].amount + ReservedIn(rsv', x)
      BY <1>1, <1>2, <2>1, HeldGrows
    <2> QED BY <1>1, <2>1, <2>2, Covered
  <1>3. CASE rsv[r].status # "ACTIVE" \/ x # r[1]
    <2>1. \A p \in Reservations : p[1] = x =>
             /\ rsv[p].status = "ACTIVE" <=> rsv'[p].status = "ACTIVE"
             /\ rsv[p].status = "ACTIVE" => rsv[p].amount = rsv'[p].amount
      BY <1>1, <1>3 DEF Release, Rows
    <2>2. ReservedIn(rsv', x) = ReservedIn(rsv, x)
      BY <1>1, <2>1, HeldAgrees
    <2> QED BY <1>1, <2>2, Covered
  <1> QED BY <1>2, <1>3

(* A charge is no more than what was reserved for it.                      *)
LEMMA SettleCovered ==
    ASSUME BooksInv, BooksInv', NEW r \in Reservations, NEW c \in Nat,
           Settleable(r, c), Settle(r, c), NEW x \in Entities
    PROVE  ~Overdrawn(x)
  <1>1. rsv \in Rows /\ rsv' \in Rows /\ posted[x] \in Nat
        /\ ReservedIn(rsv, x) \in Nat /\ ReservedIn(rsv', x) \in Nat
        /\ posted \in [Entities -> Nat]
    BY BalancesThen DEF BooksInv, WalletInv, WalletTypes
  <1>2. CASE rsv[r].status = "ACTIVE" /\ x = r[1]
    <2>1. /\ rsv'[r].status # "ACTIVE" /\ rsv[r].amount \in Nat /\ c <= rsv[r].amount
          /\ \A p \in Reservations \ {r} : rsv[p] = rsv'[p]
          /\ posted'[x] = posted[x] - c
      BY <1>1, <1>2 DEF Settle, Settleable, Rows, ReservationRows
    <2>2. ReservedIn(rsv, x) = rsv[r].amount + ReservedIn(rsv', x)
      BY <1>1, <1>2, <2>1, HeldGrows
    <2> QED BY <1>1, <2>1, <2>2, Covered
  <1>3. CASE rsv[r].status # "ACTIVE" \/ x # r[1]
    <2>1. /\ posted'[x] = posted[x]
          /\ \A p \in Reservations : p[1] = x =>
                /\ rsv[p].status = "ACTIVE" <=> rsv'[p].status = "ACTIVE"
                /\ rsv[p].status = "ACTIVE" => rsv[p].amount = rsv'[p].amount
      BY <1>1, <1>3 DEF Settle, Rows
    <2>2. ReservedIn(rsv', x) = ReservedIn(rsv, x)
      BY <1>1, <2>1, HeldAgrees
    <2> QED BY <1>1, <2>1, <2>2, Covered
  <1> QED BY <1>2, <1>3

LEMMA ReserveSpends ==
    ASSUME BooksInv, BooksInv', NEW s \in Sessions, FinishReserve(s), NEW x \in Entities
    PROVE  ~Overdrawn(x) \/ Overlooked(x)
  <1>1. /\ call[s].op = "RESERVE" /\ call'[s] = Idle /\ UNCHANGED posted
        /\ call[s].who = call[s].row[1] /\ call[s].row \in Reservations
    BY DEF FinishReserve, Done, BooksInv, GatewayInv, LedgerInv, LedgerTypes, CallOK, Reserving,
       WalletInv, CallTypes, Typed
  <1>2. PICK r \in Reservations, a \in Nat : r = call[s].row /\ a = call[s].amount
    BY <1>1 DEF BooksInv, GatewayInv, LedgerInv, LedgerTypes, CallOK, Reserving
  <1>3. rsv \in Rows /\ rsv' \in Rows /\ posted[x] \in Nat
        /\ ReservedIn(rsv, x) \in Nat /\ ReservedIn(rsv', x) \in Nat
    BY BalancesThen
  <1>4. \A p \in Reservations \ {r} : rsv'[p] = rsv[p]
    BY <1>2, <1>3 DEF FinishReserve, ReserveNew, ReserveReplay, ReserveRefused, Bind, Rows
  <1>5. CASE ReserveNew(s) /\ x = r[1]
    <2>1. AvailableSeen(s) >= a /\ rsv[r].status = "NONE"
      BY <1>2, <1>5 DEF ReserveNew
    <2>2. rsv'[r].status = "ACTIVE" /\ rsv'[r].amount = a
      BY <1>2, <1>3, <1>5 DEF ReserveNew, Bind, NoReservation, Rows, ReservationRows
    <2>3. ReservedIn(rsv', x) = a + ReservedIn(rsv, x)
      BY <1>3, <1>4, <1>5, <2>1, <2>2, HeldGrows
    <2> QED BY <1>1, <1>2, <1>3, <1>5, <2>1, <2>3, Spent
  <1>6. CASE ~ReserveNew(s) \/ x # r[1]
    <2>1. ~ReserveNew(s) =>
             \/ /\ rsv[r].status = "ACTIVE" /\ rsv'[r].status = "ACTIVE"
                /\ rsv'[r].amount = rsv[r].amount
             \/ rsv' = rsv
      BY <1>2, <1>3
      DEF FinishReserve, ReserveReplay, ReserveReplays, ReserveRefused, Bind, Rows, ReservationRows
    <2>2. \A p \in Reservations : p[1] = x =>
             /\ rsv[p].status = "ACTIVE" <=> rsv'[p].status = "ACTIVE"
             /\ rsv[p].status = "ACTIVE" => rsv[p].amount = rsv'[p].amount
      BY <1>4, <1>6, <2>1
    <2>3. ReservedIn(rsv', x) = ReservedIn(rsv, x)
      BY <1>3, <2>2, HeldAgrees
    <2> QED BY <1>1, <1>3, <2>3, Covered
  <1> QED BY <1>5, <1>6

(* The wallet of another entity, or a reservation alone.                   *)
LEMMA NotDebited ==
    ASSUME BooksInv, BooksInv', UNCHANGED rsv, NEW x \in Entities, posted'[x] >= posted[x]
    PROVE  ~Overdrawn(x)
  <1>1. posted[x] \in Nat /\ posted'[x] \in Nat /\ ReservedIn(rsv, x) \in Nat
    BY BalancesThen
  <1> QED BY <1>1, Covered

LEMMA TransferSpends ==
    ASSUME BooksInv, BooksInv', NEW s \in Sessions, FinishTransfer(s), NEW x \in Entities
    PROVE  ~Overdrawn(x) \/ Overlooked(x)
  <1>1. /\ call[s].op = "TRANSFER" /\ call'[s] = Idle /\ UNCHANGED rsv
        /\ call[s].who \in Entities /\ call[s].to \in Entities \ {call[s].who}
        /\ call[s].amount \in Nat
    BY DEF FinishTransfer, Done, BooksInv, GatewayInv, LedgerInv, LedgerTypes, CallOK,
       WalletInv, CallTypes, Typed
  <1>2. posted \in [Entities -> Nat] /\ posted[x] \in Nat /\ ReservedIn(rsv, x) \in Nat
    BY BalancesThen DEF BooksInv, WalletInv, WalletTypes
  <1>3. CASE TransferPosted(s) /\ x = call[s].who
    <2>1. posted'[x] = posted[x] - call[s].amount /\ AvailableSeen(s) >= call[s].amount
      BY <1>1, <1>2, <1>3 DEF TransferPosted, Post
    <2>2. posted'[x] - ReservedIn(rsv', x) = posted[x] - ReservedIn(rsv, x) - call[s].amount
      BY <1>1, <1>2, <2>1
    <2> QED BY <1>1, <1>3, <2>1, <2>2, Spent
  <1>4. CASE TransferPosted(s) /\ x # call[s].who
    <2>1. posted'[x] >= posted[x]
      BY <1>1, <1>2, <1>4 DEF TransferPosted, Post
    <2> QED BY <1>1, <2>1, NotDebited
  <1>5. CASE TransferNotPosted(s)
    BY <1>1, <1>2, <1>5, NotDebited DEF TransferNotPosted
  <1> QED BY <1>3, <1>4, <1>5 DEF FinishTransfer

LEMMA FeeSpends ==
    ASSUME BooksInv, BooksInv', NEW s \in Sessions, FinishDailyFee(s), NEW x \in Entities
    PROVE  ~Overdrawn(x) \/ Overlooked(x)
  <1>1. /\ call[s].op = "FEE" /\ call'[s] = Idle /\ UNCHANGED rsv
        /\ call[s].who \in Entities /\ call[s].reserved \in Nat /\ Fee \in Nat
    BY EconomyBounds
    DEF FinishDailyFee, Done, BooksInv, GatewayInv, LedgerInv, LedgerTypes, CallOK,
       WalletInv, CallTypes, Typed
  <1>2. posted \in [Entities -> Nat] /\ posted[x] \in Nat /\ ReservedIn(rsv, x) \in Nat
    BY BalancesThen DEF BooksInv, WalletInv, WalletTypes
  <1>3. CASE FeePayable(s, AvailableSeen(s)) /\ x = call[s].who
    <2>1. posted'[x] = posted[x] - Fee
      BY <1>1, <1>2, <1>3 DEF FinishDailyFee, ChargeFee
    <2>2. AvailableSeen(s) >= Fee
      BY <1>1, <1>2, <1>3 DEF FeePayable, AvailableSeen
    <2>3. posted'[x] - ReservedIn(rsv', x) = posted[x] - ReservedIn(rsv, x) - Fee
      BY <1>1, <1>2, <2>1
    <2> QED BY <1>1, <1>3, <2>2, <2>3, Spent
  <1>4. CASE ~FeePayable(s, AvailableSeen(s)) \/ x # call[s].who
    <2>1. posted'[x] = posted[x]
      BY <1>1, <1>2, <1>4 DEF FinishDailyFee, ChargeFee
    <2> QED BY <1>1, <1>2, <2>1, NotDebited
  <1> QED BY <1>3, <1>4

(* The fee of an activation is checked against every reservation.          *)
LEMMA ActivationCovered ==
    ASSUME BooksInv, BooksInv', NEW s \in Sessions, FinishActivation(s), NEW x \in Entities
    PROVE  ~Overdrawn(x)
  <1>1. UNCHANGED rsv /\ Fee \in Nat
    BY EconomyBounds DEF FinishActivation
  <1>2. /\ posted \in [Entities -> Nat] /\ posted[x] \in Nat /\ ReservedIn(rsv, x) \in Nat
        /\ Available(x) = posted[x] - ReservedIn(rsv, x)
        /\ Available(x)' = posted'[x] - ReservedIn(rsv', x)
    BY BalancesThen DEF BooksInv, WalletInv, WalletTypes
  <1>3. CASE posted'[x] = posted[x] - Fee /\ Available(x) - Fee > 0
    BY <1>1, <1>2, <1>3 DEF Overdrawn
  <1>4. CASE posted'[x] = posted[x]
    BY <1>1, <1>2, <1>4, NotDebited
  <1> QED BY <1>2, <1>3, <1>4 DEF FinishActivation, FeePayable, ChargeFee

LEMMA OverdraftStep ==
    ASSUME BooksInv, BooksInv', [Next]_vars, NEW x \in Entities
    PROVE  ~Overdrawn(x) \/ Overlooked(x)
  <1> USE DEF BooksInv, GatewayInv
  <1>0. posted \in [Entities -> Nat] /\ posted[x] \in Nat
    BY DEF WalletInv, WalletTypes
  <1>1. ASSUME NEW e \in Executions, pc[e] \in AtWork \/ exec[e].status # "NONE"
        PROVE  Row(e) \in Reservations
    BY <1>1 DEF ExecutionInv, ProgressInv, Row
  <1>2. ASSUME UNCHANGED <<posted, rsv>>
        PROVE  ~Overdrawn(x)
    BY <1>0, <1>2, NotDebited
  <1>3. ASSUME NEW r \in Reservations, Release(r) \/ UNCHANGED <<rsv, quote>>, UNCHANGED posted
        PROVE  ~Overdrawn(x)
    BY <1>0, <1>3, ReleaseCovered, NotDebited
  <1>4. CASE Ledger
    <2>1. ASSUME NEW y \in Entities, NEW b \in Bases, Mint(y, b) PROVE ~Overdrawn(x)
      <3>1. posted'[x] >= posted[x] /\ UNCHANGED rsv
        BY <1>0, <2>1, EconomyBounds DEF Mint
      <3> QED BY <3>1, NotDebited
    <2>2. CASE UNCHANGED <<posted, rsv>>
      BY <1>2, <2>2
    <2>3. ASSUME NEW r \in Reservations, ReleaseReservation(r) PROVE ~Overdrawn(x)
      BY <1>3, <2>3 DEF ReleaseReservation
    <2>4. ASSUME NEW s \in Sessions,
                 FinishReserve(s) \/ FinishTransfer(s) \/ FinishDailyFee(s) \/ FinishActivation(s)
          PROVE  ~Overdrawn(x) \/ Overlooked(x)
      BY <2>4, ReserveSpends, TransferSpends, FeeSpends, ActivationCovered
    <2> QED
      BY <1>4, <2>1, <2>2, <2>3, <2>4
      DEF Ledger, EconomyNext, NextDay, Expire, QuoteResource, BeginReserve, BeginTransfer,
          BeginActivation, BeginDailyFee, Begin, ledger
  <1>5. ASSUME NEW e \in Executions,
               FinalizeEligibilityFailure(e) \/ FinalizeFailure(e) \/ CancelExecution(e)
        PROVE  ~Overdrawn(x)
    <2>1. pc[e] \in AtWork \/ exec[e].status # "NONE"
      BY <1>5 DEF FinalizeEligibilityFailure, FinalizeFailure, CancelExecution, Cancellable, AtWork
    <2>2. /\ Release(Row(e)) \/ UNCHANGED <<rsv, quote>>
          /\ UNCHANGED posted
      BY <1>5 DEF FinalizeEligibilityFailure, FinalizeFailure, CancelExecution
    <2> QED BY <1>1, <1>3, <2>1, <2>2
  <1>6. ASSUME NEW e \in Executions, NEW status, NEW c \in {0} \cup Amounts,
               FinalizeWithUsage(e, status, c)
        PROVE  ~Overdrawn(x)
    <2>1. Row(e) \in Reservations
      BY <1>1, <1>6 DEF FinalizeWithUsage, AtWork
    <2>2. c \in Nat
      BY EconomyBounds
    <2>3. PICK r \in Reservations : r = Row(e)
      BY <2>1
    <2>4. (Settleable(r, c) /\ Settle(r, c)) \/ UNCHANGED <<posted, rsv>>
      BY <1>6, <2>3 DEF FinalizeWithUsage
    <2>5. CASE Settleable(r, c) /\ Settle(r, c)
      <3> HIDE DEF BooksInv, GatewayInv
      <3> QED BY <2>2, <2>5, SettleCovered
    <2> QED BY <1>2, <2>4, <2>5
  <1>7. ASSUME NEW e \in Executions,
               \/ \E r \in Reservations, d \in Days : ValidateQuoteForInference(e, r, d)
               \/ PrepareExecution(e) \/ CheckEligibility(e) \/ MarkAttemptDispatched(e)
               \/ DispatchRefused(e) \/ CredentialUnavailable(e) \/ MarkRetryableFailure(e)
               \/ FinalizeUnknown(e) \/ Crash(e)
        PROVE  UNCHANGED <<posted, rsv>>
    BY <1>7
    DEF ValidateQuoteForInference, PrepareExecution, CheckEligibility, MarkAttemptDispatched,
        DispatchRefused, CredentialUnavailable, MarkRetryableFailure, FinalizeUnknown, Crash,
        economyVars
  <1>8. CASE DisableConnector \/ UNCHANGED vars
    BY <1>2, <1>8 DEF DisableConnector, vars, economyVars
  <1> QED BY <1>2, <1>4, <1>5, <1>6, <1>7, <1>8 DEF Next

(* A command can overdraw the available balance only by overlooking        *)
(* reservations: the step that takes a balance below zero is the end of a  *)
(* command of its owner whose snapshot was taken before another command    *)
(* reserved (lockWallet, reserve, transfer, chargeFee, settleReservation). *)
THEOREM OverdraftsAreOversights == Spec => OnlyOverlookingOverdraws
  <1>1. BooksInv /\ BooksInv' /\ [Next]_vars =>
           [\A x \in Entities : Overdrawn(x) => Overlooked(x)]_vars
    BY OverdraftStep
  <1>2. [\A x \in Entities : Overdrawn(x) => Overlooked(x)]_vars <=>
        [\A x \in Entities : Available(x)' < 0 /\ Available(x)' < Available(x) =>
            \E s \in Calls("RESERVE") \cup Calls("TRANSFER") \cup Calls("FEE") :
               call'[s] = Idle /\ call[s].who = x /\ Overlooks(s)]_vars
    BY DEF Overdrawn, Overlooked
  <1> QED BY <1>1, <1>2, BooksInvariance, PTL DEF Spec, OnlyOverlookingOverdraws
=============================================================================
