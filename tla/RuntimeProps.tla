---------------------------- MODULE RuntimeProps ----------------------------
(***************************************************************************)
(* What must be true of the runtime of an Agent: who may act, in whose     *)
(* name, and what a checkpoint is worth.                                   *)
(***************************************************************************)
EXTENDS Runtime

LifecycleTypeOK ==
    /\ identity \in BOOLEAN
    /\ life \in {"NONE", "REGISTERED", "ACTIVE", "DORMANT"}
    /\ execution \in {"IDLE", "BLOCKED"}
    /\ model \in {"AVAILABLE", "UNAVAILABLE"}
    /\ flags \subseteq RuntimeFlags
    /\ current \in BOOLEAN
    /\ route \in Routes
    /\ enabled \subseteq Connectors
    /\ publishing \in Connectors \cup {NoConnector}
    /\ disabling \in Connectors \cup {NoConnector}
    /\ lease \in Leases
    /\ energy \in Nat
    /\ paid \in BOOLEAN
    /\ activated \in BOOLEAN

(* Types of all variables.                                                 *)
TypeOK ==
    /\ LifecycleTypeOK
    /\ goals \in [Goals -> GoalRows]
    /\ traits \in [Traits -> TraitRows]
    /\ checkpoint \in Checkpoints
    /\ schedule \in [Actions -> ScheduleRows]

-----------------------------------------------------------------------------
(* A runtime is ACTIVE only with an ACTIVE identity, a model and no        *)
(* restriction of any kind, and executable exactly when ACTIVE, whatever   *)
(* restrictions, suspensions, route changes, outages and unfunded days     *)
(* came in between, and whichever of the dozen statements that write the   *)
(* row came last (activateRuntime, publishModelRoute, setModelStatus,      *)
(* force_model_unavailable, markWakeBlockedState).                         *)
ActiveIsAuthorised ==
    /\ life = "ACTIVE" => identity /\ flags = {} /\ model = "AVAILABLE"
    /\ life = "ACTIVE" <=> execution = "IDLE"

(* As long as the checkpoint carries the current state version, the route  *)
(* and the goals it names are still the current ones: a worker that        *)
(* resumes from it misses nothing (saveRuntimeCheckpoint, bumpState).      *)
CheckpointIsCurrent ==
    current =>
       /\ checkpoint.route = route.version
       /\ \A g \in Goals : checkpoint.goals[g] \in {0, goals[g].version}

(* Every record stamped with a lease epoch carries the worker of that      *)
(* epoch, and no record is ahead of the lease: a worker never acts under   *)
(* an epoch another worker was given (acquireRuntimeLease, takeovers of    *)
(* claims by recoverAutonomousScheduledClaim).                             *)
Stamps == {[worker |-> lease.worker, epoch |-> lease.epoch]} \cup
          {[worker |-> schedule[s].worker, epoch |-> schedule[s].epoch] : s \in Actions}
EpochHasOneWorker ==
    /\ checkpoint.epoch <= lease.epoch
    /\ \A a \in Stamps : a.epoch <= lease.epoch
    /\ \A a, b \in Stamps : a.epoch = b.epoch /\ a.epoch # 0 => a.worker = b.worker

-----------------------------------------------------------------------------
(* A worker that lost its lease never overwrites the checkpoint of a later *)
(* one: checkpoints come in the order of their epochs                      *)
(* (saveRuntimeCheckpoint, runtime.assert_checkpoint_fence).               *)
CheckpointsAreOrdered == [][checkpoint'.epoch >= checkpoint.epoch]_vars

(* A claim passes only to a strictly later lease and is ended only under   *)
(* the one that holds it; an action that ended never runs again            *)
(* (guard_scheduled_action_update, completeScheduledAction).               *)
ClaimMovesForward(s) ==
    \/ schedule'[s] = schedule[s]
    \/ schedule[s].status \in {"NONE", "SCHEDULED"}
    \/ /\ schedule[s].status = "CLAIMED"
       /\ IF schedule'[s].status = "CLAIMED"
          THEN schedule'[s].epoch > schedule[s].epoch
          ELSE /\ schedule'[s].worker = schedule[s].worker
               /\ schedule'[s].epoch = schedule[s].epoch
               /\ lease.epoch = schedule[s].epoch
ClaimsMoveForward == [][\A s \in Actions : ClaimMovesForward(s)]_vars

(* Nobody gets a turn on an unpaid day or on a route that is gone, even    *)
(* though connectors fail and restrictions come and go without the worker  *)
(* noticing (claimAutonomousScheduledAction, recoverAutonomous-            *)
(* ScheduledClaim).                                                        *)
TurnsAreEntitled ==
    [][\A s \in Actions :
         schedule'[s].status = "CLAIMED" /\ schedule'[s] # schedule[s] =>
            paid' /\ energy' > 0 /\ life' = "ACTIVE" /\ RouteAvailable]_vars
=============================================================================
