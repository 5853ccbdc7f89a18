------------------------ MODULE IdentityBindingProps ------------------------
(***************************************************************************)
(* What commands and identity bindings owe their callers, one another and  *)
(* the event log.                                                          *)
(***************************************************************************)
EXTENDS IdentityBinding

Writers == Requests \cup Calls

(* Types of all variables.                                                 *)
TypeOK ==
    /\ request \in [Requests -> RequestRows]
    /\ action \in [Keys -> ActionRows]
    /\ \A e \in Entities : \A i \in DOMAIN events[e] : events[e][i] \in EventRows(Keys \cup Calls)
    /\ \A w \in writing : w.by \in Writers /\ w.entity \in Entities /\ w.seq \in Nat
    /\ call \in [Calls -> CallRows]
    /\ locked \in [Entities -> Calls \cup {Nobody}]
    /\ \A e \in Entities : \A v \in DOMAIN bindings[e] : bindings[e][v] \in BindingRows

-----------------------------------------------------------------------------
(* However often a command is sent, retried or answered late, its effect   *)
(* is in the log once if it succeeded and not at all otherwise, on the     *)
(* entity it was about, and every answer is the one on record (runCommand, *)
(* its savepoint and the key's unique index).                              *)
Effects(k, e) == {i \in DOMAIN events[e] : events[e][i] = [kind |-> "DONE", by |-> k]}
CommandsRunOnce ==
    /\ \A k \in Keys, e \in Entities :
          Cardinality(Effects(k, e)) =
             IF action[k] = [status |-> "SUCCEEDED", target |-> e] THEN 1 ELSE 0
    /\ \A r \in Requests :
          request[r].answer \in {"RESULT", "FAILED", "CONFLICT"} =>
             request[r].answer = ReplayAnswer(action[request[r].key], request[r].target)

(* The log tells the bindings: of each entity, one BOUND for each version, *)
(* at every point of the log as many REVOKED or one less, only the newest  *)
(* version may be ACTIVE, and no principal stands for two entities at      *)
(* once, whatever other calls did while the external authority was asked   *)
(* (bindKnowledgeBallPrincipal, revokeKnowledgeBallPrincipalBinding).      *)
Told(kind, e, n) == Cardinality({i \in 1 .. n : events[e][i].kind = kind})
LogTellsBindings ==
    /\ \A e \in Entities :
          LET n == Len(events[e])
          IN  /\ \A m \in 1 .. n : Told("BOUND", e, m) - Told("REVOKED", e, m) \in {0, 1}
              /\ Told("BOUND", e, n) = Len(bindings[e])
              /\ Told("REVOKED", e, n) = Len(bindings[e]) - Cardinality(Actives(e))
              /\ Actives(e) \subseteq {Len(bindings[e])}
    /\ \A e, f \in Entities : \A v \in Actives(e), w \in Actives(f) :
          bindings[e][v].principal = bindings[f][w].principal => e = f

-----------------------------------------------------------------------------
(* The refinement: what is committed, as BindingPromise sees it.           *)
PrincipalsOf(e) == [v \in DOMAIN bindings[e] |-> bindings[e][v].principal]

Abstract == INSTANCE BindingPromise WITH
    Writers <- Calls, outcome <- action, log <- events,
    versions <- [e \in Entities |-> PrincipalsOf(e)],
    open <- {e \in Entities : Actives(e) # {}}

(* However commands, binds and revocations interleave, fail or lose their  *)
(* connection, what they commit is one change at a time of keys, bindings  *)
(* and log together (runCommand, appendEvent, bindKnowledgeBallPrincipal,  *)
(* revokeKnowledgeBallPrincipalBinding).                                   *)
OneChangeAtATime == Abstract!Promise

-----------------------------------------------------------------------------
Through ==
    /\ \A r \in Requests : request[r].at = "DONE"
    /\ \A b \in Calls : call[b].at \in {"IDLE", "VERIFYING", "DONE"}

(* Every command and every verified call ends, even if the external        *)
(* authority never answers another call on the same entity: no transaction *)
(* waits for the authority, none waits in a circle, and no two writers of  *)
(* an entity's log take the same number and fail on it (appendEvent, the   *)
(* two transactions of bindKnowledgeBallPrincipal).                        *)
EverybodyGetsThrough == <>[]Through
=============================================================================
