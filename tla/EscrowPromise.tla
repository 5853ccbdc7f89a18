--------------------------- MODULE EscrowPromise ----------------------------
(***************************************************************************)
(* What the contract Saga promises the two parties, with neither messages  *)
(* nor recovery: a contract is put in force by one escrow that holds       *)
(* money, an escrow that put a contract in force is never refunded, money  *)
(* is distributed only for a contract in force and from its own escrow,    *)
(* and a contract is settled only after its escrow was distributed.        *)
(***************************************************************************)
CONSTANTS Deals, Escrows, NoFunds

VARIABLES phase,   \* of each contract
          backing, \* the escrow that put it in force
          funds    \* of each escrow

promise == <<phase, backing, funds>>

PromiseInit ==
    /\ phase = [d \in Deals |-> "absent"]
    /\ backing = [d \in Deals |-> NoFunds]
    /\ funds = [e \in Escrows |-> "none"]

Propose(d) ==
    /\ phase[d] = "absent"
    /\ phase' = [phase EXCEPT ![d] = "proposed"]
    /\ UNCHANGED <<backing, funds>>

Fund(e) ==
    /\ funds[e] = "none"
    /\ funds' = [funds EXCEPT ![e] = "held"]
    /\ UNCHANGED <<phase, backing>>

PutInForce(d, e) ==
    /\ phase[d] = "proposed"
    /\ funds[e] = "held"
    /\ \A other \in Deals : backing[other] # e
    /\ phase' = [phase EXCEPT ![d] = "in force"]
    /\ backing' = [backing EXCEPT ![d] = e]
    /\ UNCHANGED funds

Refund(e) ==
    /\ funds[e] = "held"
    /\ \A d \in Deals : backing[d] # e
    /\ funds' = [funds EXCEPT ![e] = "refunded"]
    /\ UNCHANGED <<phase, backing>>

Distribute(d) ==
    /\ phase[d] = "in force"
    /\ backing[d] \in Escrows
    /\ funds[backing[d]] = "held"
    /\ funds' = [funds EXCEPT ![backing[d]] = "distributed"]
    /\ UNCHANGED <<phase, backing>>

Settle(d) ==
    /\ phase[d] = "in force"
    /\ backing[d] \in Escrows
    /\ funds[backing[d]] = "distributed"
    /\ phase' = [phase EXCEPT ![d] = "settled"]
    /\ UNCHANGED <<backing, funds>>

PromiseNext ==
    \/ \E d \in Deals : Propose(d) \/ Distribute(d) \/ Settle(d)
    \/ \E e \in Escrows : Fund(e) \/ Refund(e)
    \/ \E d \in Deals, e \in Escrows : PutInForce(d, e)

Promise == PromiseInit /\ [][PromiseNext]_promise
=============================================================================
