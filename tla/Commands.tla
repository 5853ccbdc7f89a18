------------------------------ MODULE Commands ------------------------------
(***************************************************************************)
(* Commands and the event log (src/services/core.js).  A request runs its  *)
(* domain work in one transaction, under an idempotency key, behind a      *)
(* savepoint; the work ends with an event of the entity it is about.  A    *)
(* command is told apart by that entity: action type and payload hash are  *)
(* the same for two requests exactly if their targets are.  The ACTION     *)
(* event of each command has an aggregate of its own and is left out, and  *)
(* so is the outbox row that every event takes with it.                    *)
(***************************************************************************)
EXTENDS Naturals, Sequences, FiniteSets

CONSTANTS
    Requests,         \* calls of runCommand
    Keys,             \* idempotency keys of one actor
    Entities, NoEntity,
    Nobody            \* no holder of a lock

ASSUME CommandConstants == NoEntity \notin Entities /\ Nobody \notin Requests

VARIABLES
    request,    \* stage, key, target and answer of each call
    action,     \* core.actions: committed rows
    events,     \* core.life_events of each entity, by aggregate_seq
    writing     \* uncommitted events: writer, entity and the number it took

Answers == {"NONE", "RESULT", "FAILED", "CONFLICT", "ERROR"}
RequestRows ==
    [at : {"SENT", "RUNNING", "WORKED", "DONE"},
     key : Keys, target : Entities, answer : Answers]
ActionRows == [status : {"NONE", "SUCCEEDED", "FAILED"}, target : Entities \cup {NoEntity}]
EventRows(Writers) == [kind : {"DONE", "BOUND", "REVOKED"}, by : Writers]

CommandsInit ==
    /\ \E key \in [Requests -> Keys], target \in [Requests -> Entities] :
          request = [r \in Requests |->
                       [at |-> "SENT", key |-> key[r], target |-> target[r], answer |-> "NONE"]]
    /\ action = [k \in Keys |-> [status |-> "NONE", target |-> NoEntity]]
    /\ events = [e \in Entities |-> <<>>]
    /\ writing = {}

---------------------------------------------------------------------------
(* appendEvent: the advisory lock of the aggregate is held to the end of   *)
(* the transaction, and the number is read in a statement that starts      *)
(* after the lock was granted.                                             *)
EventLockFree(e) == \A w \in writing : w.entity # e

AppendEvent(who, e) ==
    /\ EventLockFree(e)
    /\ writing' = writing \cup {[by |-> who, entity |-> e, seq |-> Len(events[e]) + 1]}

(* The event becomes visible unless its number is taken (UNIQUE).          *)
Numbered(w) == w.seq = Len(events[w.entity]) + 1
PublishEvent(who, event) ==
    \E w \in writing :
       /\ w.by = who
       /\ Numbered(w)
       /\ events' = [events EXCEPT ![w.entity] = Append(@, event)]
       /\ writing' = writing \ {w}

DropEvent(who) == writing' = {w \in writing : w.by # who}

---------------------------------------------------------------------------
Answer(r, a) == request' = [request EXCEPT ![r].at = "DONE", ![r].answer = a]

(* INSERT ... ON CONFLICT DO NOTHING waits for an uncommitted row of the   *)
(* same key.                                                               *)
InFlight(k) == {r \in Requests : request[r].key = k /\ request[r].at \in {"RUNNING", "WORKED"}}

(* Mutant: a command is looked up and run, its key is not reserved.        *)
InsertAction_NoWait(r) ==
    /\ request[r].at = "SENT"
    /\ action[request[r].key].status = "NONE"
    /\ request' = [request EXCEPT ![r].at = "RUNNING"]
    /\ UNCHANGED <<action, events, writing>>

InsertAction(r) ==
    /\ request[r].at = "SENT"
    /\ InFlight(request[r].key) = {}
    /\ action[request[r].key].status = "NONE"
    /\ request' = [request EXCEPT ![r].at = "RUNNING"]
    /\ UNCHANGED <<action, events, writing>>

(* The key is known: its result, its failure, or a conflict.               *)
ReplayAnswer(row, target) ==
    IF row.target # target THEN "CONFLICT"
    ELSE IF row.status = "SUCCEEDED" THEN "RESULT" ELSE "FAILED"

ReplayAction(r) ==
    LET row == action[request[r].key]
    IN  /\ request[r].at = "SENT"
        /\ row.status # "NONE"
        /\ Answer(r, ReplayAnswer(row, request[r].target))
        /\ UNCHANGED <<action, events, writing>>

Execute(r) ==
    /\ request[r].at = "RUNNING"
    /\ AppendEvent(r, request[r].target)
    /\ request' = [request EXCEPT ![r].at = "WORKED"]
    /\ UNCHANGED <<action, events>>

Record(r, status) ==
    action' = [action EXCEPT ![request[r].key] =
                 [status |-> status, target |-> request[r].target]]

(* Whether the answer arrives is not told apart: a caller without one      *)
(* sends the command again, as another request under the same key.         *)
CommitCommand(r) ==
    /\ request[r].at = "WORKED"
    /\ Record(r, "SUCCEEDED")
    /\ PublishEvent(r, [kind |-> "DONE", by |-> request[r].key])
    /\ Answer(r, "RESULT")

(* The work throws before or after its event: back to the savepoint, which *)
(* gives the event lock back, and FAILED is committed.                     *)
FailCommand(r) ==
    /\ request[r].at \in {"RUNNING", "WORKED"}
    /\ Record(r, "FAILED")
    /\ DropEvent(r)
    /\ Answer(r, "FAILED")
    /\ UNCHANGED events

(* A deferred constraint fails at COMMIT, or the connection dies: nothing  *)
(* is recorded, and the key may run again.                                 *)
AbortCommand(r) ==
    /\ request[r].at \in {"RUNNING", "WORKED"}
    /\ DropEvent(r)
    /\ Answer(r, "ERROR")
    /\ UNCHANGED <<action, events>>

(* What the server does for a request without anybody's help.              *)
Serve(r) == InsertAction(r) \/ ReplayAction(r) \/ Execute(r) \/ CommitCommand(r)

CommandsNext ==
    \E r \in Requests : Serve(r) \/ FailCommand(r) \/ AbortCommand(r)
=============================================================================
