------------------------------ MODULE Runtime -------------------------------
(***************************************************************************)
(* What runs on the lifecycle of RuntimeLifecycle: goals and traits, the   *)
(* checkpoints of the worker that holds the lease, and scheduled actions,  *)
(* AUTONOMOUS_TURN claims and WAKEs (src/services/runtime_scheduler.js).   *)
(* Due times and the SKIP window are left to chance: a due action may run  *)
(* at any later time, and any action may have missed its window.  Nothing  *)
(* cancels a schedule.                                                     *)
(***************************************************************************)
EXTENDS RuntimeLifecycle

CONSTANTS
    Goals, Traits,   \* goal ids, trait keys
    Actions,         \* scheduled actions, of either kind
    MaxEdits         \* bound on the versions of goals and traits together

VARIABLES
    goals,        \* status and version
    traits,       \* class and version
    checkpoint,   \* the last row of runtime_checkpoints
    schedule      \* kind, status and claim of a scheduled action

mind == <<goals, traits>>
vars == <<lifecycleVars, mind, checkpoint, schedule>>

GOAL_TERMINAL == {"COMPLETED", "ABANDONED", "FAILED"}
GOAL_TRANSITIONS ==
    [PROPOSED |-> {"ACTIVE", "PAUSED", "BLOCKED", "ABANDONED"},
     ACTIVE |-> {"PAUSED", "BLOCKED", "COMPLETED", "ABANDONED", "FAILED"},
     PAUSED |-> {"ACTIVE", "BLOCKED", "ABANDONED"},
     BLOCKED |-> {"ACTIVE", "PAUSED", "ABANDONED", "FAILED"}]

GoalStatuses == GOAL_TERMINAL \cup DOMAIN GOAL_TRANSITIONS
GoalRows == [status : {"NONE"} \cup GoalStatuses, version : Nat]
TraitRows == [class : {"NONE", "BIRTH", "LEARNED", "SHORT_TERM"}, version : Nat]
Checkpoints == [epoch : Nat, route : Nat, goals : [Goals -> Nat]]
ActionKinds == {"AUTONOMOUS_TURN", "WAKE"}
ScheduleRows ==
    [kind : {"NONE"} \cup ActionKinds,
     status : {"NONE", "SCHEDULED", "CLAIMED", "COMPLETED", "BLOCKED", "MISSED"},
     worker : Workers \cup {NoWorker}, epoch : Nat]
NoAction == [kind |-> "NONE", status |-> "NONE", worker |-> NoWorker, epoch |-> 0]

Init ==
    /\ LifecycleInit
    /\ goals = [g \in Goals |-> [status |-> "NONE", version |-> 0]]
    /\ traits = [t \in Traits |-> [class |-> "NONE", version |-> 0]]
    /\ checkpoint = [epoch |-> 0, route |-> 0, goals |-> [g \in Goals |-> 0]]
    /\ schedule = [s \in Actions |-> NoAction]

Edits == {x \in Goals \X (1 .. MaxEdits) : x[2] <= goals[x[1]].version}
         \cup {x \in Traits \X (1 .. MaxEdits) : x[2] <= traits[x[1]].version}
Editable == LifecycleFree /\ Cardinality(Edits) < MaxEdits

---------------------------------------------------------------------------
(* Lifecycle steps leave the rest alone.                                   *)
Control == LifecycleNext /\ UNCHANGED <<mind, checkpoint, schedule>>

CreateGoal(g) ==
    /\ Editable
    /\ goals[g].status = "NONE"
    /\ goals' = [goals EXCEPT ![g] = [status |-> "PROPOSED", version |-> 1]]
    /\ BumpRuntimeState
    /\ UNCHANGED <<identity, lifecycle, route, ports, lease, wallet, traits, checkpoint, schedule>>

(* Mutant: an edited goal is not a new state version.                      *)
UpdateGoal_Silent(g, next) ==
    /\ Editable
    /\ goals[g].status \in DOMAIN GOAL_TRANSITIONS
    /\ next \in GOAL_TRANSITIONS[goals[g].status]
    /\ goals' = [goals EXCEPT ![g] = [status |-> next, version |-> @.version + 1]]
    /\ UNCHANGED <<lifecycleVars, traits, checkpoint, schedule>>

UpdateGoal(g, next) ==
    /\ Editable
    /\ goals[g].status \in DOMAIN GOAL_TRANSITIONS
    /\ next \in GOAL_TRANSITIONS[goals[g].status] \cup {goals[g].status}
    /\ goals' = [goals EXCEPT ![g] = [status |-> next, version |-> @.version + 1]]
    /\ BumpRuntimeState
    /\ UNCHANGED <<identity, lifecycle, route, ports, lease, wallet, traits, checkpoint, schedule>>

CreateTrait(t, class) ==
    /\ Editable
    /\ traits[t].class = "NONE"
    /\ traits' = [traits EXCEPT ![t] = [class |-> class, version |-> 1]]
    /\ BumpRuntimeState
    /\ UNCHANGED <<identity, lifecycle, route, ports, lease, wallet, goals, checkpoint, schedule>>

SetTrait(t) ==
    /\ Editable
    /\ traits[t].class \in {"LEARNED", "SHORT_TERM"}
    /\ traits' = [traits EXCEPT ![t].version = @ + 1]
    /\ BumpRuntimeState
    /\ UNCHANGED <<identity, lifecycle, route, ports, lease, wallet, goals, checkpoint, schedule>>

---------------------------------------------------------------------------
(* Goal references of a checkpoint: what the caller names, or every goal   *)
(* that is not terminal (trigger runtime_checkpoints_authority_refs).      *)
Existing == {g \in Goals : goals[g].status # "NONE"}
GoalRefs == {G \in SUBSET Existing : G # {}}
            \cup {{g \in Existing : goals[g].status \notin GOAL_TERMINAL}}

(* Mutant: the state version is checked, the lease is not.                 *)
SaveRuntimeCheckpoint_NoFence(w, e, G) ==
    /\ LifecycleFree
    /\ e <= lease.epoch
    /\ checkpoint' = [epoch |-> e, route |-> route.version,
                      goals |-> [g \in Goals |-> IF g \in G THEN goals[g].version ELSE 0]]
    /\ current' = TRUE
    /\ UNCHANGED <<identity, lifecycle, route, ports, lease, wallet, mind, schedule>>

(* The writer holds the lease and names the current state version; the     *)
(* checkpoint takes the next one.                                          *)
SaveRuntimeCheckpoint(w, e, G) ==
    /\ LifecycleFree
    /\ Holds(w, e)
    /\ checkpoint' = [epoch |-> e, route |-> route.version,
                      goals |-> [g \in Goals |-> IF g \in G THEN goals[g].version ELSE 0]]
    /\ current' = TRUE
    /\ UNCHANGED <<identity, lifecycle, route, ports, lease, wallet, mind, schedule>>

---------------------------------------------------------------------------
ScheduleAction(s, kind) ==
    /\ LifecycleFree
    /\ schedule[s].status = "NONE"
    /\ schedule' = [schedule EXCEPT ![s].kind = kind, ![s].status = "SCHEDULED"]
    /\ BumpRuntimeState
    /\ UNCHANGED <<identity, lifecycle, route, ports, lease, wallet, mind, checkpoint>>

Stamp(s, status, w, e) ==
    schedule' = [schedule EXCEPT ![s] = [kind |-> @.kind, status |-> status,
                                         worker |-> w, epoch |-> e]]

Pending(s, kind) == LifecycleFree /\ schedule[s].kind = kind /\ schedule[s].status = "SCHEDULED"

(* Mutant: the fee of the day is left to the daily job.                    *)
Reconciled_Later == UNCHANGED <<energy, paid>>

(* Every claim reconciles the fee first; this is its effect when funded.   *)
Reconciled ==
    IF life = "ACTIVE"
    THEN ~Unfunded(Today) /\ ChargeFee(Today)
    ELSE UNCHANGED <<energy, paid>>

(* can_autonomous_turn and runtime.assert_current_autonomous_eligibility,  *)
(* after the reconciliation.                                               *)
CanAutonomousTurn ==
    /\ identity
    /\ life = "ACTIVE"
    /\ execution = "IDLE"
    /\ RouteReady
    /\ flags \cap (POLICY_BLOCKING_FLAGS \cup {"M03_CONTEXT_UNAVAILABLE"}) = {}

ClaimScheduledAction(s, w, e) ==
    /\ Pending(s, "AUTONOMOUS_TURN")
    /\ Holds(w, e)
    /\ Reconciled
    /\ CanAutonomousTurn
    /\ Stamp(s, "CLAIMED", w, e)
    /\ BumpRuntimeState
    /\ UNCHANGED <<identity, lifecycle, route, ports, lease, activated, mind, checkpoint>>

(* The SKIP window is over, or the context provider is missing.            *)
ClaimEndsSchedule(s, w, e) ==
    /\ Pending(s, "AUTONOMOUS_TURN")
    /\ Holds(w, e)
    /\ Reconciled
    /\ \/ Stamp(s, "MISSED", w, e)
       \/ "M03_CONTEXT_UNAVAILABLE" \in flags /\ Stamp(s, "BLOCKED", w, e)
    /\ BumpRuntimeState
    /\ UNCHANGED <<identity, lifecycle, route, ports, lease, activated, mind, checkpoint>>

(* A claim on an unfunded runtime ends in dormancy: the action is blocked  *)
(* and the lease given up, in the same transaction.                        *)
ClaimUnfunded(s, w, e) ==
    /\ Pending(s, "AUTONOMOUS_TURN")
    /\ Unfunded(Today)
    /\ Holds(w, e)
    /\ Dormant(ReconcileReason(Today))
    /\ Stamp(s, "BLOCKED", w, e)
    /\ lease' = [lease EXCEPT !.status = "RELEASED"]
    /\ BumpRuntimeState
    /\ UNCHANGED <<identity, model, route, ports, wallet, mind, checkpoint>>

(* A later lease takes a claim over.  On an unfunded runtime the takeover  *)
(* aborts: the trigger of migration 015e lets only the claiming lease end  *)
(* a claim, and that lease is gone.                                        *)
RecoverAutonomousScheduledClaim(s, w, e) ==
    /\ LifecycleFree
    /\ schedule[s].status = "CLAIMED"
    /\ Holds(w, e)
    /\ e > schedule[s].epoch
    /\ Reconciled
    /\ CanAutonomousTurn
    /\ Stamp(s, "CLAIMED", w, e)
    /\ BumpRuntimeState
    /\ UNCHANGED <<identity, lifecycle, route, ports, lease, activated, mind, checkpoint>>

(* Mutant: any worker with a lease ends the claim.                         *)
CompleteScheduledAction_AnyLease(s, w, e, outcome) ==
    /\ LifecycleFree
    /\ schedule[s].status = "CLAIMED"
    /\ Holds(w, e)
    /\ Stamp(s, outcome, w, e)
    /\ BumpRuntimeState
    /\ UNCHANGED <<identity, lifecycle, route, ports, lease, wallet, mind, checkpoint>>

CompleteScheduledAction(s, w, e, outcome) ==
    /\ LifecycleFree
    /\ schedule[s].status = "CLAIMED"
    /\ Holds(w, e)
    /\ schedule[s].worker = w /\ schedule[s].epoch = e
    /\ Stamp(s, outcome, w, e)
    /\ BumpRuntimeState
    /\ UNCHANGED <<identity, lifecycle, route, ports, lease, wallet, mind, checkpoint>>

---------------------------------------------------------------------------
(* runDueWakeScheduledAction: no lease; the worker only leaves its name.   *)
WakeMissed(s) ==
    /\ Pending(s, "WAKE")
    /\ Stamp(s, "MISSED", NoWorker, 0)
    /\ BumpRuntimeState
    /\ UNCHANGED <<identity, lifecycle, route, ports, lease, wallet, mind, checkpoint>>

WakeCompleted(s) ==
    /\ Pending(s, "WAKE")
    /\ ActivateRuntime(Today)
    /\ Stamp(s, "COMPLETED", NoWorker, 0)
    /\ UNCHANGED <<identity, route, ports, lease, mind, checkpoint>>

(* markWakeBlockedState: the flag a refusal leaves behind.                 *)
WakeBlockedFlag(code) ==
    IF code = "DAILY_FEE_UNFUNDED" THEN {"DAILY_FEE_UNFUNDED"}
    ELSE IF code = "FIRST_ACTIVATION_MINIMUM_UNFUNDED" THEN {"NO_ACTIVITY_ENERGY"}
    ELSE {}

(* Refusals that block a wake.  The evidence trigger of migration 015c     *)
(* wants a missing route to show in the lifecycle row; RUNTIME_NOT_        *)
(* QUIESCENT leaves the schedule for another try.                          *)
Blockable(code) ==
    /\ code \notin {"NONE", "RUNTIME_NOT_QUIESCENT"}
    /\ code = "MODEL_ROUTE_UNAVAILABLE" => model # "AVAILABLE" \/ "NO_MODEL_ROUTE" \in flags

WakeBlocked(s) ==
    LET code == ActivationRefusal(Today)
    IN  /\ Pending(s, "WAKE")
        /\ Blockable(code)
        /\ flags' = flags \cup WakeBlockedFlag(code)
        /\ BumpRuntimeState
        /\ Stamp(s, "BLOCKED", NoWorker, 0)
        /\ UNCHANGED <<identity, life, execution, model, route, ports, lease, wallet, mind,
                       checkpoint>>

---------------------------------------------------------------------------
MindNext ==
    \/ \E g \in Goals : CreateGoal(g) \/ \E next \in GoalStatuses : UpdateGoal(g, next)
    \/ \E t \in Traits :
          SetTrait(t) \/ \E class \in {"BIRTH", "LEARNED", "SHORT_TERM"} : CreateTrait(t, class)

WorkerNext ==
    \E w \in Workers, e \in 1 .. MaxEpoch :
       \/ \E G \in GoalRefs : SaveRuntimeCheckpoint(w, e, G)
       \/ \E s \in Actions :
             \/ ClaimScheduledAction(s, w, e)
             \/ ClaimEndsSchedule(s, w, e)
             \/ ClaimUnfunded(s, w, e)
             \/ RecoverAutonomousScheduledClaim(s, w, e)
             \/ \E outcome \in {"COMPLETED", "BLOCKED"} :
                   CompleteScheduledAction(s, w, e, outcome)

Next ==
    \/ Control
    \/ MindNext
    \/ WorkerNext
    \/ \E s \in Actions :
          \/ WakeMissed(s) \/ WakeCompleted(s) \/ WakeBlocked(s)
          \/ \E kind \in ActionKinds : ScheduleAction(s, kind)

Spec == Init /\ [][Next]_vars
=============================================================================
