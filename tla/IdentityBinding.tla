--------------------------- MODULE IdentityBinding --------------------------
(***************************************************************************)
(* Bindings of entities to Knowledge Ball principals                       *)
(* (src/services/knowledge_ball_identity_binding.js), beside the commands  *)
(* that write events of the same entities.  A bind looks in a first        *)
(* transaction, asks the external authority outside any, and looks again   *)
(* and inserts in a second; the binding lock of the entity is an advisory  *)
(* lock of those transactions.                                             *)
(***************************************************************************)
EXTENDS Commands

CONSTANTS
    Calls,                    \* calls of bind and revoke
    Principals, NoPrincipal   \* what the authority can answer

ASSUME BindingConstants == NoPrincipal \notin Principals /\ Nobody \notin Calls /\ Calls \cap Requests = {}

VARIABLES
    call,         \* each call of bind or revoke under way
    locked,       \* holder of the binding lock of an entity
    bindings      \* core.entity_provider_bindings of an entity, by version

commandVars == <<request, action, events, writing>>
bindingVars == <<call, locked, bindings>>
vars == <<commandVars, bindingVars>>

CallRows ==
    [at : {"IDLE", "VERIFYING", "VERIFIED", "BINDING", "INSERTED", "REVOKING", "DONE"},
     entity : Entities \cup {NoEntity}, principal : Principals \cup {NoPrincipal},
     authorised : BOOLEAN]   \* its actor may bind the entity
Row(stage, e) == [at |-> stage, entity |-> e, principal |-> NoPrincipal, authorised |-> TRUE]
BindingRows == [principal : Principals, status : {"ACTIVE", "REVOKED"}]

Init ==
    /\ CommandsInit
    /\ call = [b \in Calls |-> Row("IDLE", NoEntity)]
    /\ locked = [e \in Entities |-> Nobody]
    /\ bindings = [e \in Entities |-> <<>>]

Actives(e) == {v \in DOMAIN bindings[e] : bindings[e][v].status = "ACTIVE"}

(* Grants end and identities are suspended, without the binding lock; it   *)
(* matters between the two looks.                                          *)
LoseAuthority(b) ==
    /\ call[b].at \in {"VERIFYING", "VERIFIED"}
    /\ call[b].authorised
    /\ call' = [call EXCEPT ![b].authorised = FALSE]
    /\ UNCHANGED <<commandVars, locked, bindings>>

Step(b, stage) == call' = [call EXCEPT ![b].at = stage]
End(b) == call' = [call EXCEPT ![b] = Row("DONE", NoEntity)]
Unlock(b) == locked' = [e \in Entities |-> IF locked[e] = b THEN Nobody ELSE locked[e]]

(* A refused or failed call: its transaction is rolled back.               *)
GiveUp(b) ==
    /\ End(b)
    /\ Unlock(b)
    /\ DropEvent(b)
    /\ UNCHANGED <<request, action, events, bindings>>

---------------------------------------------------------------------------
(* Mutant: one transaction around all of it.                               *)
BeginBind_KeepsLock(b, e) ==
    /\ call[b].at = "IDLE"
    /\ locked[e] = Nobody
    /\ Actives(e) = {}
    /\ call' = [call EXCEPT ![b] = Row("VERIFYING", e)]
    /\ locked' = [locked EXCEPT ![e] = b]
    /\ UNCHANGED <<commandVars, bindings>>

(* The first transaction only looks.                                       *)
BeginBind(b, e) ==
    /\ call[b].at = "IDLE"
    /\ locked[e] = Nobody
    /\ Actives(e) = {}
    /\ call' = [call EXCEPT ![b] = Row("VERIFYING", e)]
    /\ UNCHANGED <<commandVars, locked, bindings>>

(* verifyBindingProof; there is no bound on how long it takes.             *)
Verify(b, p) ==
    /\ call[b].at = "VERIFYING"
    /\ call' = [call EXCEPT ![b].at = "VERIFIED", ![b].principal = p]
    /\ UNCHANGED <<commandVars, locked, bindings>>

RejectProof(b) ==
    /\ call[b].at = "VERIFYING"
    /\ GiveUp(b)

Bindable(b, e) == call[b].authorised /\ Actives(e) = {}

(* Mutant: the answer of the authority is not waited for.                  *)
LockBinding_Unverified(b) ==
    LET e == call[b].entity
    IN  /\ call[b].at \in {"VERIFYING", "VERIFIED"}
        /\ locked[e] = Nobody
        /\ Bindable(b, e)
        /\ Step(b, "BINDING")
        /\ locked' = [locked EXCEPT ![e] = b]
        /\ UNCHANGED <<commandVars, bindings>>

LockBinding(b) ==
    LET e == call[b].entity
    IN  /\ call[b].at = "VERIFIED"
        /\ locked[e] = Nobody
        /\ IF Bindable(b, e)
           THEN /\ Step(b, "BINDING")
                /\ locked' = [locked EXCEPT ![e] = b]
                /\ UNCHANGED <<commandVars, bindings>>
           ELSE GiveUp(b)

(* The indexes on ACTIVE rows: an insert waits for the calls in flight     *)
(* that add or end an ACTIVE row of the principal, and fails if one is     *)
(* there in the end.                                                       *)
Contended(p) ==
    \E b \in Calls :
       \/ call[b].at = "INSERTED" /\ call[b].principal = p
       \/ call[b].at = "REVOKING" /\ \E v \in Actives(call[b].entity) :
                                        bindings[call[b].entity][v].principal = p
Bound(p) == \E e \in Entities : \E v \in Actives(e) : bindings[e][v].principal = p

(* Mutant: no unique index on the principal.                               *)
Insertable_AnyPrincipal(b) == Actives(call[b].entity) = {}

Insertable(b) == ~Bound(call[b].principal) /\ Actives(call[b].entity) = {}

InsertBinding(b) ==
    /\ call[b].at = "BINDING"
    /\ ~Contended(call[b].principal)
    /\ IF Insertable(b)
       THEN /\ AppendEvent(b, call[b].entity)
            /\ Step(b, "INSERTED")
            /\ UNCHANGED <<request, action, events, locked, bindings>>
       ELSE GiveUp(b)

CommitBinding(b) ==
    LET e == call[b].entity
    IN  /\ call[b].at = "INSERTED"
        /\ bindings' = [bindings EXCEPT ![e] =
                          Append(@, [principal |-> call[b].principal, status |-> "ACTIVE"])]
        /\ PublishEvent(b, [kind |-> "BOUND", by |-> b])
        /\ End(b)
        /\ Unlock(b)
        /\ UNCHANGED <<request, action>>

---------------------------------------------------------------------------
BeginRevoke(b, e) ==
    /\ call[b].at = "IDLE"
    /\ locked[e] = Nobody
    /\ Actives(e) # {}
    /\ call' = [call EXCEPT ![b] = Row("REVOKING", e)]
    /\ AppendEvent(b, e)
    /\ locked' = [locked EXCEPT ![e] = b]
    /\ UNCHANGED <<request, action, events, bindings>>

CommitRevoke(b) ==
    LET e == call[b].entity
    IN  /\ call[b].at = "REVOKING"
        /\ \E v \in Actives(e) : bindings' = [bindings EXCEPT ![e][v].status = "REVOKED"]
        /\ PublishEvent(b, [kind |-> "REVOKED", by |-> b])
        /\ End(b)
        /\ Unlock(b)
        /\ UNCHANGED <<request, action>>

(* The server dies, or the caller's connection to the database does.       *)
AbortCall(b) ==
    /\ call[b].at \notin {"IDLE", "DONE"}
    /\ GiveUp(b)

(* What happens to a verified call without anybody's help.                 *)
Proceed(b) == LockBinding(b) \/ InsertBinding(b) \/ CommitBinding(b) \/ CommitRevoke(b)

BindingNext ==
    \E b \in Calls :
       \/ \E e \in Entities : BeginBind(b, e) \/ BeginRevoke(b, e)
       \/ \E p \in Principals : Verify(b, p)
       \/ RejectProof(b) \/ Proceed(b) \/ AbortCall(b) \/ LoseAuthority(b)

Next == (CommandsNext /\ UNCHANGED bindingVars) \/ BindingNext

Spec == Init /\ [][Next]_vars

(* While it has something to do, the server does something; nobody answers *)
(* for the external authority.                                             *)
ServerStep ==
    \/ (\E r \in Requests : Serve(r)) /\ UNCHANGED bindingVars
    \/ \E b \in Calls : Proceed(b)

FairSpec == Spec /\ WF_vars(ServerStep)
=============================================================================
