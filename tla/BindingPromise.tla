--------------------------- MODULE BindingPromise ---------------------------
(***************************************************************************)
(* What commands and identity bindings promise, without transactions,      *)
(* locks or an authority to wait for: a key is decided once, and with a    *)
(* success goes one line in the log of its entity; an entity takes a       *)
(* principal nobody stands for while it has none, and gives it up again;   *)
(* every such change is one line in the log, in the order in which they    *)
(* happened; no version and no line is ever rewritten.                     *)
(***************************************************************************)
EXTENDS Naturals, Sequences

CONSTANTS Keys, Entities, NoEntity, Writers, Principals

VARIABLES outcome,   \* of each idempotency key
          versions,  \* principals an entity stood for, the newest last
          open,      \* entities that stand for their newest one
          log        \* of each entity

promise == <<outcome, versions, open, log>>

PromiseInit ==
    /\ outcome = [k \in Keys |-> [status |-> "NONE", target |-> NoEntity]]
    /\ versions = [e \in Entities |-> <<>>]
    /\ open = {}
    /\ log = [e \in Entities |-> <<>>]

Decide(k, status, e) ==
    /\ outcome[k].status = "NONE"
    /\ outcome' = [outcome EXCEPT ![k] = [status |-> status, target |-> e]]
Tell(e, kind, by) == log' = [log EXCEPT ![e] = Append(@, [kind |-> kind, by |-> by])]

Succeed(k, e) ==
    /\ Decide(k, "SUCCEEDED", e)
    /\ Tell(e, "DONE", k)
    /\ UNCHANGED <<versions, open>>

Fail(k, e) ==
    /\ Decide(k, "FAILED", e)
    /\ UNCHANGED <<versions, open, log>>

StandsFor(e, p) == e \in open /\ versions[e][Len(versions[e])] = p

Bind(e, p, b) ==
    /\ e \notin open
    /\ \A f \in Entities : ~StandsFor(f, p)
    /\ versions' = [versions EXCEPT ![e] = Append(@, p)]
    /\ open' = open \cup {e}
    /\ Tell(e, "BOUND", b)
    /\ UNCHANGED outcome

Revoke(e, b) ==
    /\ e \in open
    /\ open' = open \ {e}
    /\ Tell(e, "REVOKED", b)
    /\ UNCHANGED <<outcome, versions>>

PromiseNext ==
    \E e \in Entities :
       \/ \E k \in Keys : Succeed(k, e) \/ Fail(k, e)
       \/ \E b \in Writers : Revoke(e, b) \/ \E p \in Principals : Bind(e, p, b)

Promise == PromiseInit /\ [][PromiseNext]_promise
=============================================================================
