------------------------- MODULE RuntimeLifecycle -------------------------
(***************************************************************************)
(* The runtime of one Agent: its lifecycle row, model route and worker     *)
(* lease (src/services/runtime.js, runtime_control.js, runtime_policy.js,  *)
(* migrations 007 to 015e), with the wallet and the daily fee the          *)
(* lifecycle asks for.                                                     *)
(*                                                                         *)
(* A command is one transaction that holds the lifecycle row, so it is one *)
(* step; publishing a route and disabling a connector are two, because     *)
(* neither holds what the other reads.  Versions that a caller must name   *)
(* (of the profile, the state, a goal, a trait) are not counted: a caller  *)
(* that names another than the current one is refused.  What is kept of    *)
(* state_version is whether the last checkpoint still carries it.  The     *)
(* wallet is its available balance, where zero stands for everything that  *)
(* is not positive, and whether the fee of the present day is paid.        *)
(***************************************************************************)
EXTENDS Naturals, FiniteSets

CONSTANTS
    Workers, NoWorker,        \* worker_id values
    Connectors, NoConnector,  \* connector_configs a manifest can name
    Restrictions,             \* flags in use by operators and by callers of pause
    MaxEpoch,                 \* bound on lease epochs
    MaxRoutes,                \* bound on published routes
    MaxEnergy,                \* bound on the available balance
    Fee, ActivationFloor      \* daily fee, first activation minimum

ENERGY_FLAGS == {"NO_ACTIVITY_ENERGY", "DAILY_FEE_UNFUNDED"}
POLICY_BLOCKING_FLAGS == {"OWNER_PAUSE", "NO_BUDGET", "QUARANTINE", "WORLD_SUSPENSION"}

ASSUME RuntimeConstants ==
    /\ NoWorker \notin Workers
    /\ NoConnector \notin Connectors
    /\ Restrictions \subseteq POLICY_BLOCKING_FLAGS \cup ENERGY_FLAGS
    /\ MaxEpoch \in Nat /\ MaxRoutes \in Nat /\ MaxEnergy \in Nat
    /\ Fee \in Nat /\ ActivationFloor \in Nat /\ Fee < ActivationFloor

VARIABLES
    identity,     \* entities.identity_status = ACTIVE
    life,         \* lifecycle_states.life_status, NONE before registration
    execution,    \* execution_status; no code ever sets RUNNING
    model,        \* model_status, AVAILABLE or not
    flags,        \* restriction_flags
    current,      \* the last checkpoint carries the current state_version
    route,        \* current route: version and connector of its manifest
    enabled,      \* connectors enabled, with an ACTIVE descriptor
    publishing,   \* connector of the publish that holds profile and lifecycle
    disabling,    \* connector whose disable waits for the lifecycle row (one at a time)
    lease,        \* runtime_leases
    energy,       \* available balance
    paid,         \* today's activity fee is charged
    activated     \* activity_subjects.first_activated_at is set

lifecycle == <<life, execution, model, flags>>
ports == <<enabled, publishing, disabling>>
wallet == <<energy, paid, activated>>
lifecycleVars == <<identity, lifecycle, current, route, ports, lease, wallet>>

RuntimeFlags ==
    {"M03_CONTEXT_UNAVAILABLE", "NO_MODEL_ROUTE"} \cup ENERGY_FLAGS \cup POLICY_BLOCKING_FLAGS
Routes == [version : Nat, on : Connectors \cup {NoConnector}]
Leases == [worker : Workers \cup {NoWorker}, epoch : Nat,
           status : {"NONE", "ACTIVE", "EXPIRED", "RELEASED"}]

LifecycleInit ==
    /\ identity = TRUE
    /\ life = "NONE" /\ execution = "BLOCKED" /\ model = "UNAVAILABLE" /\ flags = {}
    /\ current = FALSE
    /\ route = [version |-> 0, on |-> NoConnector]
    /\ enabled = Connectors /\ publishing = NoConnector /\ disabling = NoConnector
    /\ lease = [worker |-> NoWorker, epoch |-> 0, status |-> "NONE"]
    /\ energy = 0 /\ paid = FALSE /\ activated = FALSE

(* A statement that takes the lifecycle row waits for a publish in flight. *)
LifecycleFree == life # "NONE" /\ publishing = NoConnector

BumpRuntimeState == current' = FALSE

(* The lease as a transaction sees it: now() is the start of the           *)
(* transaction, so one that began in time still sees an expired lease as   *)
(* held.                                                                   *)
Holds(w, e) == lease.worker = w /\ lease.epoch = e /\ lease.status \in {"ACTIVE", "EXPIRED"}
Quiescent == lease.status # "ACTIVE"

RouteAvailable == route.on \in enabled
RouteReady == model = "AVAILABLE" /\ "NO_MODEL_ROUTE" \notin flags /\ RouteAvailable

(* Leaves ACTIVE, or only blocks what is not ACTIVE.                       *)
Dormant(adding) ==
    /\ life' = IF life = "ACTIVE" THEN "DORMANT" ELSE life
    /\ execution' = "BLOCKED"
    /\ flags' = flags \cup adding

---------------------------------------------------------------------------
RegisterAgentRuntime ==
    /\ identity
    /\ life = "NONE"
    /\ life' = "REGISTERED"
    /\ flags' = {"M03_CONTEXT_UNAVAILABLE", "NO_MODEL_ROUTE"}
    /\ UNCHANGED <<identity, execution, model, current, route, ports, lease, wallet>>

(* publishModelRoute takes profile and lifecycle and reads the manifest's  *)
(* connector; the connector row itself is not locked.                      *)
BeginPublishModelRoute(c) ==
    /\ LifecycleFree
    /\ c \in enabled
    /\ route.version < MaxRoutes
    /\ publishing' = c
    /\ UNCHANGED <<identity, lifecycle, current, route, enabled, disabling, lease, wallet>>

PublishModelRoute ==
    /\ publishing # NoConnector
    /\ route' = [version |-> route.version + 1, on |-> publishing]
    /\ model' = "AVAILABLE"
    /\ execution' = IF life = "ACTIVE" THEN "IDLE" ELSE "BLOCKED"
    /\ flags' = flags \ {"NO_MODEL_ROUTE"}
    /\ BumpRuntimeState
    /\ publishing' = NoConnector
    /\ UNCHANGED <<identity, life, enabled, disabling, lease, wallet>>

(* force_model_unavailable, called by the connector's trigger.             *)
ForceModelUnavailable ==
    /\ model' = "UNAVAILABLE"
    /\ Dormant({"NO_MODEL_ROUTE"})
    /\ BumpRuntimeState

(* The trigger looks for Agents whose committed route uses the connector,  *)
(* then waits for the lifecycle row of each.                               *)
DisableUnused(c) ==
    /\ c \in enabled
    /\ c # disabling
    /\ route.on # c
    /\ enabled' = enabled \ {c}
    /\ UNCHANGED <<identity, lifecycle, current, route, publishing, disabling, lease, wallet>>

BeginDisable(c) ==
    /\ c \in enabled
    /\ route.on = c
    /\ disabling = NoConnector
    /\ disabling' = c
    /\ UNCHANGED <<identity, lifecycle, current, route, enabled, publishing, lease, wallet>>

FinishDisable ==
    /\ disabling # NoConnector
    /\ LifecycleFree
    /\ enabled' = enabled \ {disabling}
    /\ disabling' = NoConnector
    /\ ForceModelUnavailable
    /\ UNCHANGED <<identity, route, publishing, lease, wallet>>

EnableConnector(c) ==
    /\ c \notin enabled
    /\ enabled' = enabled \cup {c}
    /\ UNCHANGED <<identity, lifecycle, current, route, publishing, disabling, lease, wallet>>

(* The process of a publish or of a disable dies: its transaction is gone. *)
Rollback ==
    /\ <<publishing, disabling>> # <<NoConnector, NoConnector>>
    /\ \/ publishing' = NoConnector /\ UNCHANGED disabling
       \/ disabling' = NoConnector /\ UNCHANGED publishing
    /\ UNCHANGED <<identity, lifecycle, current, route, enabled, lease, wallet>>

---------------------------------------------------------------------------
(* Mutant: the runtime does not follow its identity.                       *)
SuspendIdentity_Only ==
    /\ identity
    /\ identity' = FALSE
    /\ UNCHANGED <<lifecycle, current, route, ports, lease, wallet>>

(* Trigger entities_runtime_identity_invalidate: an ACTIVE runtime of an   *)
(* identity that is suspended goes DORMANT with it.                        *)
SuspendIdentity ==
    /\ identity
    /\ life = "NONE" \/ LifecycleFree
    /\ identity' = FALSE
    /\ IF life = "ACTIVE"
       THEN Dormant({}) /\ BumpRuntimeState
       ELSE UNCHANGED <<life, execution, flags, current>>
    /\ UNCHANGED <<model, route, ports, lease, wallet>>

RestoreIdentity ==
    /\ ~identity
    /\ identity' = TRUE
    /\ UNCHANGED <<lifecycle, current, route, ports, lease, wallet>>

---------------------------------------------------------------------------
(* Mutant: a lease that was given up is handed out again.                  *)
AcquireRuntimeLease_SameEpoch(w) ==
    /\ LifecycleFree
    /\ Quiescent
    /\ lease' = [worker |-> w, epoch |-> IF lease.epoch = 0 THEN 1 ELSE lease.epoch,
                 status |-> "ACTIVE"]
    /\ UNCHANGED <<identity, lifecycle, current, route, ports, wallet>>

AcquireRuntimeLease(w) ==
    /\ LifecycleFree
    /\ Quiescent
    /\ lease.epoch < MaxEpoch
    /\ lease' = [worker |-> w, epoch |-> lease.epoch + 1, status |-> "ACTIVE"]
    /\ UNCHANGED <<identity, lifecycle, current, route, ports, wallet>>

RenewRuntimeLease(w, e) ==
    /\ LifecycleFree
    /\ Holds(w, e)
    /\ lease' = [lease EXCEPT !.status = "ACTIVE"]
    /\ UNCHANGED <<identity, lifecycle, current, route, ports, wallet>>

(* Takes the lease row only.                                               *)
ReleaseRuntimeLease(w, e) ==
    /\ Holds(w, e)
    /\ lease' = [lease EXCEPT !.status = "RELEASED"]
    /\ UNCHANGED <<identity, lifecycle, current, route, ports, wallet>>

ExpireLease ==
    /\ lease.status = "ACTIVE"
    /\ lease' = [lease EXCEPT !.status = "EXPIRED"]
    /\ UNCHANGED <<identity, lifecycle, current, route, ports, wallet>>

---------------------------------------------------------------------------
(* The day a fee is asked for: several commands take it from their caller, *)
(* who may name another day, its fee still due or already charged.         *)
Today == "TODAY"
BillingDays == {Today, "OTHER_DUE"} \cup (IF activated THEN {"OTHER_CHARGED"} ELSE {})

(* Mutant: the fee may overdraw the wallet.                                *)
Chargeable_Overdrawn(d) == d \in BillingDays

(* chargeFee: once per day, and only if something is left.                 *)
Charged(d) == d = "OTHER_CHARGED" \/ (d = Today /\ paid)
Chargeable(d) == Charged(d) \/ energy > Fee
ChargeFee(d) ==
    /\ energy' = IF Charged(d) THEN energy ELSE energy - Fee
    /\ paid' = (paid \/ d = Today)

(* Why resumeRuntime and activateRuntime refuse, in the order they look.   *)
ActivationRefusal(d) ==
    IF ~identity THEN "IDENTITY_NOT_ACTIVE"
    ELSE IF flags \cap POLICY_BLOCKING_FLAGS # {} THEN "RUNTIME_RESTRICTED"
    ELSE IF life = "ACTIVE" THEN "NONE"
    ELSE IF "M03_CONTEXT_UNAVAILABLE" \in flags THEN "M03_CONTEXT_UNAVAILABLE"
    ELSE IF ~RouteReady THEN "MODEL_ROUTE_UNAVAILABLE"
    ELSE IF ~Quiescent THEN "RUNTIME_NOT_QUIESCENT"
    ELSE IF ~activated /\ energy < ActivationFloor THEN "FIRST_ACTIVATION_MINIMUM_UNFUNDED"
    ELSE IF ~Chargeable(d) THEN "DAILY_FEE_UNFUNDED"
    ELSE "NONE"

(* An ACTIVE runtime answers without charging and without a new version.   *)
ActivateRuntime(d) ==
    /\ ActivationRefusal(d) = "NONE"
    /\ IF life = "ACTIVE"
       THEN UNCHANGED <<lifecycle, current, energy, paid, activated>>
       ELSE /\ life' = "ACTIVE" /\ execution' = "IDLE"
            /\ flags' = flags \ ENERGY_FLAGS
            /\ BumpRuntimeState
            /\ ChargeFee(d)
            /\ activated' = TRUE
            /\ UNCHANGED model

(* POST /lifecycle/resume takes the billing date from its caller.          *)
ResumeRuntime(d) ==
    /\ LifecycleFree
    /\ ActivateRuntime(d)
    /\ UNCHANGED <<identity, route, ports, lease>>

PauseRuntime(reason) ==
    /\ LifecycleFree
    /\ life = "ACTIVE"
    /\ Quiescent
    /\ Dormant(reason)
    /\ BumpRuntimeState
    /\ UNCHANGED <<identity, model, route, ports, lease, wallet>>

AddRestriction(f) ==
    /\ LifecycleFree
    /\ f \notin flags
    /\ life = "ACTIVE" => Quiescent
    /\ IF life = "ACTIVE"
       THEN Dormant({f})
       ELSE flags' = flags \cup {f} /\ UNCHANGED <<life, execution>>
    /\ BumpRuntimeState
    /\ UNCHANGED <<identity, model, route, ports, lease, wallet>>

ClearRestriction(f) ==
    /\ LifecycleFree
    /\ f \in flags
    /\ flags' = flags \ {f}
    /\ BumpRuntimeState
    /\ UNCHANGED <<identity, life, execution, model, route, ports, lease, wallet>>

(* setModelStatus; a change from one unavailable status to another is a    *)
(* new version too.  NO_MODEL_ROUTE is left to publishModelRoute.          *)
ModelBecomesUnavailable ==
    /\ LifecycleFree
    /\ life = "ACTIVE" => Quiescent
    /\ model' = "UNAVAILABLE"
    /\ Dormant({})
    /\ BumpRuntimeState
    /\ UNCHANGED <<identity, route, ports, lease, wallet>>

ModelBecomesAvailable ==
    /\ LifecycleFree
    /\ model = "UNAVAILABLE"
    /\ model' = "AVAILABLE"
    /\ BumpRuntimeState
    /\ UNCHANGED <<identity, life, execution, flags, route, ports, lease, wallet>>

(* The context provider is adopted by a migration outside the code; the    *)
(* tests stand in for it with one UPDATE (p3b_runtime_control.test.js).    *)
AdoptContextProvider ==
    /\ LifecycleFree
    /\ "M03_CONTEXT_UNAVAILABLE" \in flags
    /\ flags' = flags \ {"M03_CONTEXT_UNAVAILABLE"}
    /\ BumpRuntimeState
    /\ UNCHANGED <<identity, life, execution, model, route, ports, lease, wallet>>

---------------------------------------------------------------------------
(* What reconcileActiveRuntime finds wrong with an ACTIVE runtime.         *)
ReconcileReason(d) ==
    IF energy = 0 THEN {"NO_ACTIVITY_ENERGY"}
    ELSE IF Chargeable(d) THEN {}
    ELSE {"DAILY_FEE_UNFUNDED"}

Unfunded(d) == life = "ACTIVE" /\ ReconcileReason(d) # {}

ReconcileToDormancy(d) ==
    /\ LifecycleFree
    /\ Unfunded(d)
    /\ Quiescent
    /\ Dormant(ReconcileReason(d))
    /\ BumpRuntimeState
    /\ UNCHANGED <<identity, model, route, ports, lease, wallet>>

(* Charging a day moves no version of the lifecycle row.                   *)
ReconcileCharge(d) ==
    /\ LifecycleFree
    /\ life = "ACTIVE"
    /\ ~Unfunded(d)
    /\ ChargeFee(d)
    /\ UNCHANGED <<identity, lifecycle, current, route, ports, lease, activated>>

---------------------------------------------------------------------------
(* The rest of the economy, as far as the lifecycle sees it.               *)
Earn ==
    /\ energy < MaxEnergy
    /\ energy' = energy + 1
    /\ UNCHANGED <<identity, lifecycle, current, route, ports, lease, paid, activated>>

Spend ==
    /\ energy > 0
    /\ energy' = energy - 1
    /\ UNCHANGED <<identity, lifecycle, current, route, ports, lease, paid, activated>>

(* economy.js firstActivation and chargeDailyActivityFee, called directly. *)
EnergyActivation(d) ==
    /\ ~activated
    /\ energy >= ActivationFloor
    /\ ChargeFee(d)
    /\ activated' = TRUE
    /\ UNCHANGED <<identity, lifecycle, current, route, ports, lease>>

EnergyDailyFee(d) ==
    /\ activated
    /\ Chargeable(d)
    /\ ChargeFee(d)
    /\ UNCHANGED <<identity, lifecycle, current, route, ports, lease, activated>>

(* Midnight; the new day's fee may have been charged ahead.                *)
NextDay ==
    /\ paid' \in {FALSE, activated}
    /\ UNCHANGED <<identity, lifecycle, current, route, ports, lease, energy, activated>>

---------------------------------------------------------------------------
(* Reasons a caller of pauseRuntime may give.                              *)
PauseReasons ==
    {{}} \cup {{f} : f \in Restrictions \cap ({"OWNER_PAUSE", "NO_BUDGET"} \cup ENERGY_FLAGS)}

RouteNext ==
    \/ \E c \in Connectors :
          BeginPublishModelRoute(c) \/ DisableUnused(c) \/ BeginDisable(c) \/ EnableConnector(c)
    \/ PublishModelRoute \/ FinishDisable \/ Rollback

LeaseNext ==
    \/ \E w \in Workers :
          \/ AcquireRuntimeLease(w)
          \/ \E e \in 1 .. MaxEpoch : RenewRuntimeLease(w, e) \/ ReleaseRuntimeLease(w, e)
    \/ ExpireLease

ControlNext ==
    \/ RegisterAgentRuntime \/ SuspendIdentity \/ RestoreIdentity \/ AdoptContextProvider
    \/ ModelBecomesUnavailable \/ ModelBecomesAvailable
    \/ \E d \in BillingDays : ResumeRuntime(d) \/ ReconcileToDormancy(d) \/ ReconcileCharge(d)
    \/ \E r \in PauseReasons : PauseRuntime(r)
    \/ \E f \in Restrictions \cap POLICY_BLOCKING_FLAGS :
          AddRestriction(f) \/ ClearRestriction(f)

WalletNext ==
    \/ Earn \/ Spend \/ NextDay
    \/ \E d \in BillingDays : EnergyActivation(d) \/ EnergyDailyFee(d)

LifecycleNext == RouteNext \/ LeaseNext \/ ControlNext \/ WalletNext
=============================================================================
