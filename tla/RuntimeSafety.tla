--------------------------- MODULE RuntimeSafety ----------------------------
(***************************************************************************)
(* Type correctness and the safety properties of RuntimeProps, for any     *)
(* workers, connectors, goals, traits, actions, fee and bounds.            *)
(***************************************************************************)
EXTENDS RuntimeProps, TLAPS

-----------------------------------------------------------------------------
(* The daily fee.                                                          *)

(* A fee that chargeFee admits leaves a balance: the wallet is never       *)
(* overdrawn by it.                                                        *)
LEMMA FeeLeavesABalance ==
    ASSUME energy \in Nat, paid \in BOOLEAN, NEW d \in BillingDays, Chargeable(d), ChargeFee(d)
    PROVE  energy' \in Nat /\ paid' \in BOOLEAN
  <1>1. Fee \in Nat
    BY RuntimeConstants
  <1>2. energy' \in Nat
    BY <1>1 DEF Chargeable, ChargeFee
  <1>3. paid' \in BOOLEAN
    BY DEF ChargeFee
  <1> QED BY <1>2, <1>3

(* What activateRuntime does to the lifecycle and the wallet, as resume    *)
(* and wake call it.                                                       *)
LEMMA ActivationTypes ==
    ASSUME LifecycleTypeOK, NEW d \in BillingDays, ActivateRuntime(d)
    PROVE  /\ life' \in {"NONE", "REGISTERED", "ACTIVE", "DORMANT"}
           /\ execution' \in {"IDLE", "BLOCKED"}
           /\ model' \in {"AVAILABLE", "UNAVAILABLE"}
           /\ flags' \subseteq RuntimeFlags
           /\ current' \in BOOLEAN
           /\ energy' \in Nat /\ paid' \in BOOLEAN /\ activated' \in BOOLEAN
  <1>1. CASE life = "ACTIVE"
    BY <1>1 DEF LifecycleTypeOK, ActivateRuntime, lifecycle
  <1>2. CASE life # "ACTIVE"
    <2>1. Chargeable(d)
      BY <1>2 DEF ActivateRuntime, ActivationRefusal
    <2>2. energy' \in Nat /\ paid' \in BOOLEAN
      BY <1>2, <2>1, FeeLeavesABalance DEF LifecycleTypeOK, ActivateRuntime
    <2> QED
      BY <1>2, <2>2 DEF LifecycleTypeOK, ActivateRuntime, BumpRuntimeState
  <1> QED BY <1>1, <1>2

-----------------------------------------------------------------------------
(* The lifecycle.                                                          *)

LEMMA RouteTypes ==
    ASSUME LifecycleTypeOK, RouteNext
    PROVE  LifecycleTypeOK'
  <1> USE DEF LifecycleTypeOK, lifecycle, ports, wallet, BumpRuntimeState
  <1>1. ASSUME NEW c \in Connectors, BeginPublishModelRoute(c)
        PROVE  LifecycleTypeOK'
    BY <1>1 DEF BeginPublishModelRoute
  <1>2. ASSUME NEW c \in Connectors, DisableUnused(c)
        PROVE  LifecycleTypeOK'
    BY <1>2 DEF DisableUnused
  <1>3. ASSUME NEW c \in Connectors, BeginDisable(c)
        PROVE  LifecycleTypeOK'
    BY <1>3 DEF BeginDisable
  <1>4. ASSUME NEW c \in Connectors, EnableConnector(c)
        PROVE  LifecycleTypeOK'
    BY <1>4 DEF EnableConnector
  <1>5. CASE PublishModelRoute
    <2>1. route' \in Routes
      BY <1>5 DEF PublishModelRoute, Routes
    <2>2. flags' \subseteq RuntimeFlags
      BY <1>5 DEF PublishModelRoute
    <2> QED BY <1>5, <2>1, <2>2 DEF PublishModelRoute
  <1>6. CASE FinishDisable
    BY <1>6 DEF FinishDisable, ForceModelUnavailable, Dormant, RuntimeFlags
  <1>7. CASE Rollback
    BY <1>7 DEF Rollback
  <1> QED BY <1>1, <1>2, <1>3, <1>4, <1>5, <1>6, <1>7 DEF RouteNext

LEMMA LeaseTypes ==
    ASSUME LifecycleTypeOK, LeaseNext
    PROVE  LifecycleTypeOK'
  <1> USE DEF LifecycleTypeOK, lifecycle, ports, wallet, Leases
  <1>1. ASSUME NEW w \in Workers, AcquireRuntimeLease(w)
        PROVE  LifecycleTypeOK'
    BY <1>1 DEF AcquireRuntimeLease
  <1>2. ASSUME NEW w \in Workers, NEW e \in 1 .. MaxEpoch, RenewRuntimeLease(w, e)
        PROVE  LifecycleTypeOK'
    BY <1>2 DEF RenewRuntimeLease
  <1>3. ASSUME NEW w \in Workers, NEW e \in 1 .. MaxEpoch, ReleaseRuntimeLease(w, e)
        PROVE  LifecycleTypeOK'
    BY <1>3 DEF ReleaseRuntimeLease
  <1>4. CASE ExpireLease
    BY <1>4 DEF ExpireLease
  <1> QED BY <1>1, <1>2, <1>3, <1>4 DEF LeaseNext

LEMMA ControlTypes ==
    ASSUME LifecycleTypeOK, ControlNext
    PROVE  LifecycleTypeOK'
  <1> USE DEF LifecycleTypeOK, lifecycle, ports, wallet, BumpRuntimeState, Dormant
  <1>0. Restrictions \subseteq RuntimeFlags /\ ENERGY_FLAGS \subseteq RuntimeFlags
    BY RuntimeConstants DEF RuntimeFlags
  <1>1. CASE RegisterAgentRuntime
    BY <1>1 DEF RegisterAgentRuntime, RuntimeFlags
  <1>2. CASE SuspendIdentity
    BY <1>2 DEF SuspendIdentity
  <1>3. CASE RestoreIdentity
    BY <1>3 DEF RestoreIdentity
  <1>4. CASE AdoptContextProvider
    BY <1>4 DEF AdoptContextProvider
  <1>5. CASE ModelBecomesUnavailable
    BY <1>5 DEF ModelBecomesUnavailable
  <1>6. CASE ModelBecomesAvailable
    BY <1>6 DEF ModelBecomesAvailable
  <1>7. ASSUME NEW d \in BillingDays, ResumeRuntime(d)
        PROVE  LifecycleTypeOK'
    BY <1>7, ActivationTypes DEF ResumeRuntime
  <1>8. ASSUME NEW d \in BillingDays, ReconcileToDormancy(d)
        PROVE  LifecycleTypeOK'
    BY <1>0, <1>8 DEF ReconcileToDormancy, ReconcileReason, ENERGY_FLAGS
  <1>9. ASSUME NEW d \in BillingDays, ReconcileCharge(d)
        PROVE  LifecycleTypeOK'
    <2>1. Chargeable(d)
      BY <1>9 DEF ReconcileCharge, Unfunded, ReconcileReason
    <2>2. energy' \in Nat /\ paid' \in BOOLEAN
      BY <1>9, <2>1, FeeLeavesABalance DEF ReconcileCharge
    <2> QED BY <1>9, <2>2 DEF ReconcileCharge
  <1>10. ASSUME NEW r \in PauseReasons, PauseRuntime(r)
         PROVE  LifecycleTypeOK'
    <2>1. r \subseteq RuntimeFlags
      BY <1>0, <1>10 DEF PauseReasons
    <2> QED BY <1>10, <2>1 DEF PauseRuntime
  <1>11. ASSUME NEW f \in Restrictions \cap POLICY_BLOCKING_FLAGS, AddRestriction(f)
         PROVE  LifecycleTypeOK'
    <2>1. flags' \subseteq RuntimeFlags
      BY <1>0, <1>11 DEF AddRestriction
    <2> QED BY <1>11, <2>1 DEF AddRestriction
  <1>12. ASSUME NEW f \in Restrictions \cap POLICY_BLOCKING_FLAGS, ClearRestriction(f)
         PROVE  LifecycleTypeOK'
    BY <1>12 DEF ClearRestriction
  <1> QED
    BY <1>1, <1>2, <1>3, <1>4, <1>5, <1>6, <1>7, <1>8, <1>9, <1>10, <1>11, <1>12 DEF ControlNext

LEMMA WalletTypes ==
    ASSUME LifecycleTypeOK, WalletNext
    PROVE  LifecycleTypeOK'
  <1> USE DEF LifecycleTypeOK, lifecycle, ports
  <1>1. CASE Earn
    BY <1>1 DEF Earn
  <1>2. CASE Spend
    BY <1>2 DEF Spend
  <1>3. CASE NextDay
    BY <1>3 DEF NextDay
  <1>4. ASSUME NEW d \in BillingDays, EnergyActivation(d)
        PROVE  LifecycleTypeOK'
    <2>1. Chargeable(d)
      BY <1>4, RuntimeConstants DEF EnergyActivation, Chargeable
    <2>2. energy' \in Nat /\ paid' \in BOOLEAN
      BY <1>4, <2>1, FeeLeavesABalance DEF EnergyActivation
    <2> QED BY <1>4, <2>2 DEF EnergyActivation
  <1>5. ASSUME NEW d \in BillingDays, EnergyDailyFee(d)
        PROVE  LifecycleTypeOK'
    <2>1. energy' \in Nat /\ paid' \in BOOLEAN
      BY <1>5, FeeLeavesABalance DEF EnergyDailyFee
    <2> QED BY <1>5, <2>1 DEF EnergyDailyFee
  <1> QED BY <1>1, <1>2, <1>3, <1>4, <1>5 DEF WalletNext

LEMMA LifecycleTypes ==
    ASSUME TypeOK, Control
    PROVE  TypeOK'
  <1>1. LifecycleTypeOK'
    BY RouteTypes, LeaseTypes, ControlTypes, WalletTypes DEF TypeOK, Control, LifecycleNext
  <1> QED BY <1>1 DEF TypeOK, Control, mind

-----------------------------------------------------------------------------
(* Goals, traits, checkpoints and schedules.                               *)

LEMMA MindTypes ==
    ASSUME TypeOK, MindNext
    PROVE  TypeOK'
  <1> USE DEF TypeOK, LifecycleTypeOK, lifecycle, ports, wallet, BumpRuntimeState
  <1>1. ASSUME NEW g \in Goals, CreateGoal(g)
        PROVE  TypeOK'
    BY <1>1 DEF CreateGoal, GoalRows, GoalStatuses, GOAL_TRANSITIONS
  <1>2. ASSUME NEW g \in Goals, NEW next \in GoalStatuses, UpdateGoal(g, next)
        PROVE  TypeOK'
    <2>1. goals' \in [Goals -> GoalRows]
      BY <1>2 DEF UpdateGoal, GoalRows
    <2> QED BY <1>2, <2>1 DEF UpdateGoal
  <1>3. ASSUME NEW t \in Traits, SetTrait(t)
        PROVE  TypeOK'
    <2>1. traits' \in [Traits -> TraitRows]
      BY <1>3 DEF SetTrait, TraitRows
    <2> QED BY <1>3, <2>1 DEF SetTrait
  <1>4. ASSUME NEW t \in Traits, NEW class \in {"BIRTH", "LEARNED", "SHORT_TERM"},
               CreateTrait(t, class)
        PROVE  TypeOK'
    <2>1. traits' \in [Traits -> TraitRows]
      BY <1>4 DEF CreateTrait, TraitRows
    <2> QED BY <1>4, <2>1 DEF CreateTrait
  <1> QED BY <1>1, <1>2, <1>3, <1>4 DEF MindNext

(* A claim is a well-typed row, stamped by a worker or by none.            *)
LEMMA StampTypes ==
    ASSUME schedule \in [Actions -> ScheduleRows], NEW s \in Actions,
           NEW status \in {"CLAIMED", "COMPLETED", "BLOCKED", "MISSED"},
           NEW w \in Workers \cup {NoWorker}, NEW e \in Nat, Stamp(s, status, w, e)
    PROVE  schedule' \in [Actions -> ScheduleRows]
  BY DEF Stamp, ScheduleRows

(* The reconciliation before a claim keeps the wallet well typed.          *)
LEMMA ReconciledTypes ==
    ASSUME energy \in Nat, paid \in BOOLEAN, Reconciled
    PROVE  energy' \in Nat /\ paid' \in BOOLEAN
  <1>1. CASE life = "ACTIVE"
    <2>1. Chargeable(Today) /\ ChargeFee(Today) /\ Today \in BillingDays
      BY <1>1 DEF Reconciled, Unfunded, ReconcileReason, BillingDays
    <2> QED BY <2>1, FeeLeavesABalance
  <1>2. CASE life # "ACTIVE"
    BY <1>2 DEF Reconciled
  <1> QED BY <1>1, <1>2

LEMMA WorkerTypes ==
    ASSUME TypeOK, WorkerNext
    PROVE  TypeOK'
  <1> USE DEF TypeOK, LifecycleTypeOK, lifecycle, ports, wallet, mind, BumpRuntimeState
  <1>0. 1 .. MaxEpoch \subseteq Nat
    BY RuntimeConstants
  <1>1. ASSUME NEW w \in Workers, NEW e \in 1 .. MaxEpoch, NEW G \in GoalRefs,
               SaveRuntimeCheckpoint(w, e, G)
        PROVE  TypeOK'
    <2>1. checkpoint' \in Checkpoints
      BY <1>0, <1>1 DEF SaveRuntimeCheckpoint, Checkpoints, Routes, GoalRows
    <2> QED BY <1>1, <2>1 DEF SaveRuntimeCheckpoint
  <1>2. ASSUME NEW w \in Workers, NEW e \in 1 .. MaxEpoch, NEW s \in Actions,
               ClaimScheduledAction(s, w, e)
        PROVE  TypeOK'
    <2>1. schedule' \in [Actions -> ScheduleRows]
      BY <1>0, <1>2, StampTypes DEF ClaimScheduledAction
    <2>2. energy' \in Nat /\ paid' \in BOOLEAN
      BY <1>2, ReconciledTypes DEF ClaimScheduledAction
    <2> QED BY <1>2, <2>1, <2>2 DEF ClaimScheduledAction
  <1>3. ASSUME NEW w \in Workers, NEW e \in 1 .. MaxEpoch, NEW s \in Actions,
               ClaimEndsSchedule(s, w, e)
        PROVE  TypeOK'
    <2>1. schedule' \in [Actions -> ScheduleRows]
      BY <1>0, <1>3, StampTypes DEF ClaimEndsSchedule
    <2>2. energy' \in Nat /\ paid' \in BOOLEAN
      BY <1>3, ReconciledTypes DEF ClaimEndsSchedule
    <2> QED BY <1>3, <2>1, <2>2 DEF ClaimEndsSchedule
  <1>4. ASSUME NEW w \in Workers, NEW e \in 1 .. MaxEpoch, NEW s \in Actions,
               ClaimUnfunded(s, w, e)
        PROVE  TypeOK'
    <2>1. schedule' \in [Actions -> ScheduleRows]
      BY <1>0, <1>4, StampTypes DEF ClaimUnfunded
    <2>2. flags' \subseteq RuntimeFlags
      BY <1>4 DEF ClaimUnfunded, Dormant, ReconcileReason, RuntimeFlags, ENERGY_FLAGS
    <2> QED BY <1>4, <2>1, <2>2 DEF ClaimUnfunded, Dormant, Leases
  <1>5. ASSUME NEW w \in Workers, NEW e \in 1 .. MaxEpoch, NEW s \in Actions,
               RecoverAutonomousScheduledClaim(s, w, e)
        PROVE  TypeOK'
    <2>1. schedule' \in [Actions -> ScheduleRows]
      BY <1>0, <1>5, StampTypes DEF RecoverAutonomousScheduledClaim
    <2>2. energy' \in Nat /\ paid' \in BOOLEAN
      BY <1>5, ReconciledTypes DEF RecoverAutonomousScheduledClaim
    <2> QED BY <1>5, <2>1, <2>2 DEF RecoverAutonomousScheduledClaim
  <1>6. ASSUME NEW w \in Workers, NEW e \in 1 .. MaxEpoch, NEW s \in Actions,
               NEW outcome \in {"COMPLETED", "BLOCKED"}, CompleteScheduledAction(s, w, e, outcome)
        PROVE  TypeOK'
    <2>1. schedule' \in [Actions -> ScheduleRows]
      BY <1>0, <1>6, StampTypes DEF CompleteScheduledAction
    <2> QED BY <1>6, <2>1 DEF CompleteScheduledAction
  <1> QED BY <1>1, <1>2, <1>3, <1>4, <1>5, <1>6 DEF WorkerNext

LEMMA ScheduleTypes ==
    ASSUME TypeOK, NEW s \in Actions,
           \/ WakeMissed(s) \/ WakeCompleted(s) \/ WakeBlocked(s)
           \/ \E kind \in ActionKinds : ScheduleAction(s, kind)
    PROVE  TypeOK'
  <1> USE DEF TypeOK, LifecycleTypeOK, lifecycle, ports, wallet, mind, BumpRuntimeState
  <1>0. 0 \in Nat
    OBVIOUS
  <1>1. CASE WakeMissed(s)
    <2>1. schedule' \in [Actions -> ScheduleRows]
      BY <1>0, <1>1, StampTypes DEF WakeMissed
    <2> QED BY <1>1, <2>1 DEF WakeMissed
  <1>2. CASE WakeCompleted(s)
    <2>1. schedule' \in [Actions -> ScheduleRows]
      BY <1>0, <1>2, StampTypes DEF WakeCompleted
    <2>2. Today \in BillingDays
      BY DEF BillingDays
    <2> QED BY <1>2, <2>1, <2>2, ActivationTypes DEF WakeCompleted
  <1>3. CASE WakeBlocked(s)
    <2>1. schedule' \in [Actions -> ScheduleRows]
      BY <1>0, <1>3, StampTypes DEF WakeBlocked
    <2>2. \A code : WakeBlockedFlag(code) \subseteq RuntimeFlags
      BY DEF WakeBlockedFlag, RuntimeFlags, ENERGY_FLAGS
    <2> QED BY <1>3, <2>1, <2>2 DEF WakeBlocked
  <1>4. ASSUME NEW kind \in ActionKinds, ScheduleAction(s, kind)
        PROVE  TypeOK'
    <2>1. schedule' \in [Actions -> ScheduleRows]
      <3> DEFINE due == [schedule EXCEPT ![s].kind = kind]
      <3>1. due \in [Actions -> ScheduleRows]
        BY DEF ScheduleRows
      <3>2. schedule' = [due EXCEPT ![s].status = "SCHEDULED"]
        BY <1>4 DEF ScheduleAction
      <3> HIDE DEF due
      <3> QED BY <3>1, <3>2 DEF ScheduleRows
    <2> QED BY <1>4, <2>1 DEF ScheduleAction
  <1> QED BY <1>1, <1>2, <1>3, <1>4

-----------------------------------------------------------------------------
LEMMA InitialTypes == Init => TypeOK
  <1> SUFFICES ASSUME Init PROVE TypeOK
    OBVIOUS
  <1> USE DEF Init
  <1>1. LifecycleTypeOK
    BY DEF LifecycleInit, LifecycleTypeOK, Routes, Leases
  <1>2. goals \in [Goals -> GoalRows] /\ traits \in [Traits -> TraitRows]
    BY DEF GoalRows, TraitRows
  <1>3. checkpoint \in Checkpoints
    BY DEF Checkpoints
  <1>4. schedule \in [Actions -> ScheduleRows]
    BY DEF ScheduleRows, NoAction
  <1> QED BY <1>1, <1>2, <1>3, <1>4 DEF TypeOK

LEMMA NextTypes == TypeOK /\ [Next]_vars => TypeOK'
  <1> SUFFICES ASSUME TypeOK, [Next]_vars PROVE TypeOK'
    OBVIOUS
  <1>1. CASE Next
    BY <1>1, LifecycleTypes, MindTypes, WorkerTypes, ScheduleTypes DEF Next
  <1>2. CASE UNCHANGED vars
    BY <1>2 DEF TypeOK, LifecycleTypeOK, vars, lifecycleVars, lifecycle, ports, wallet, mind
  <1> QED BY <1>1, <1>2

(* Every reachable state of a runtime is well typed; in particular no fee  *)
(* overdraws the wallet, whoever names the day it is charged for.          *)
THEOREM TypeCorrectness == Spec => []TypeOK
  <1>1. Init => TypeOK
    BY InitialTypes
  <1>2. TypeOK /\ [Next]_vars => TypeOK'
    BY NextTypes
  <1> QED BY <1>1, <1>2, PTL DEF Spec

-----------------------------------------------------------------------------
(* Who may be ACTIVE.                                                      *)

Authority == <<identity, lifecycle>>

LEMMA AuthorityKept ==
    ASSUME ActiveIsAuthorised, UNCHANGED Authority
    PROVE  ActiveIsAuthorised'
  BY DEF ActiveIsAuthorised, Authority, lifecycle

(* Dormancy never leaves an ACTIVE runtime behind.                         *)
LEMMA DormantIsAuthorised ==
    ASSUME ActiveIsAuthorised, NEW adding, Dormant(adding)
    PROVE  ActiveIsAuthorised'
  BY DEF ActiveIsAuthorised, Dormant

(* What activateRuntime checks is all there is to check: the restrictions  *)
(* it does not look for are the two it clears.                             *)
LEMMA ActivationIsAuthorised ==
    ASSUME TypeOK, ActiveIsAuthorised, NEW d, ActivateRuntime(d), UNCHANGED identity
    PROVE  ActiveIsAuthorised'
  <1>1. CASE life = "ACTIVE"
    BY <1>1, AuthorityKept DEF ActivateRuntime, Authority
  <1>2. CASE life # "ACTIVE"
    <2>1. identity /\ model = "AVAILABLE"
      BY <1>2 DEF ActivateRuntime, ActivationRefusal, RouteReady
    <2>2. flags \cap (POLICY_BLOCKING_FLAGS \cup {"M03_CONTEXT_UNAVAILABLE", "NO_MODEL_ROUTE"}) = {}
      BY <1>2 DEF ActivateRuntime, ActivationRefusal, RouteReady
    <2>3. flags \subseteq ENERGY_FLAGS
      BY <2>2 DEF TypeOK, LifecycleTypeOK, RuntimeFlags
    <2> QED BY <1>2, <2>1, <2>3 DEF ActivateRuntime, ActiveIsAuthorised
  <1> QED BY <1>1, <1>2

LEMMA RouteAuthority ==
    ASSUME ActiveIsAuthorised, RouteNext
    PROVE  ActiveIsAuthorised'
  <1>1. ASSUME NEW c \in Connectors,
               BeginPublishModelRoute(c) \/ DisableUnused(c) \/ BeginDisable(c) \/ EnableConnector(c)
        PROVE  ActiveIsAuthorised'
    BY <1>1, AuthorityKept
       DEF BeginPublishModelRoute, DisableUnused, BeginDisable, EnableConnector, Authority
  <1>2. CASE PublishModelRoute
    BY <1>2 DEF PublishModelRoute, ActiveIsAuthorised
  <1>3. CASE FinishDisable
    BY <1>3, DormantIsAuthorised DEF FinishDisable, ForceModelUnavailable
  <1>4. CASE Rollback
    BY <1>4, AuthorityKept DEF Rollback, Authority
  <1> QED BY <1>1, <1>2, <1>3, <1>4 DEF RouteNext

LEMMA LeaseAuthority ==
    ASSUME ActiveIsAuthorised, LeaseNext
    PROVE  ActiveIsAuthorised'
  <1>1. UNCHANGED Authority
    BY DEF LeaseNext, AcquireRuntimeLease, RenewRuntimeLease, ReleaseRuntimeLease, ExpireLease,
           Authority
  <1> QED BY <1>1, AuthorityKept

LEMMA WalletAuthority ==
    ASSUME ActiveIsAuthorised, WalletNext
    PROVE  ActiveIsAuthorised'
  <1>1. UNCHANGED Authority
    BY DEF WalletNext, Earn, Spend, NextDay, EnergyActivation, EnergyDailyFee, Authority
  <1> QED BY <1>1, AuthorityKept

LEMMA ControlAuthority ==
    ASSUME TypeOK, ActiveIsAuthorised, ControlNext
    PROVE  ActiveIsAuthorised'
  <1>1. CASE RegisterAgentRuntime
    BY <1>1 DEF RegisterAgentRuntime, ActiveIsAuthorised
  <1>2. CASE SuspendIdentity
    BY <1>2, DormantIsAuthorised DEF SuspendIdentity, ActiveIsAuthorised
  <1>3. CASE RestoreIdentity
    BY <1>3 DEF RestoreIdentity, ActiveIsAuthorised, lifecycle
  <1>4. CASE AdoptContextProvider
    BY <1>4 DEF AdoptContextProvider, ActiveIsAuthorised
  <1>5. CASE ModelBecomesUnavailable
    BY <1>5, DormantIsAuthorised DEF ModelBecomesUnavailable
  <1>6. CASE ModelBecomesAvailable
    BY <1>6 DEF ModelBecomesAvailable, ActiveIsAuthorised
  <1>7. ASSUME NEW d \in BillingDays, ResumeRuntime(d)
        PROVE  ActiveIsAuthorised'
    BY <1>7, ActivationIsAuthorised DEF ResumeRuntime
  <1>8. ASSUME NEW d \in BillingDays, ReconcileToDormancy(d)
        PROVE  ActiveIsAuthorised'
    BY <1>8, DormantIsAuthorised DEF ReconcileToDormancy
  <1>9. ASSUME NEW d \in BillingDays, ReconcileCharge(d)
        PROVE  ActiveIsAuthorised'
    BY <1>9, AuthorityKept DEF ReconcileCharge, Authority
  <1>10. ASSUME NEW r \in PauseReasons, PauseRuntime(r)
         PROVE  ActiveIsAuthorised'
    BY <1>10, DormantIsAuthorised DEF PauseRuntime
  <1>11. ASSUME NEW f \in Restrictions \cap POLICY_BLOCKING_FLAGS, AddRestriction(f)
         PROVE  ActiveIsAuthorised'
    BY <1>11, DormantIsAuthorised DEF AddRestriction, ActiveIsAuthorised
  <1>12. ASSUME NEW f \in Restrictions \cap POLICY_BLOCKING_FLAGS, ClearRestriction(f)
         PROVE  ActiveIsAuthorised'
    BY <1>12 DEF ClearRestriction, ActiveIsAuthorised
  <1> QED
    BY <1>1, <1>2, <1>3, <1>4, <1>5, <1>6, <1>7, <1>8, <1>9, <1>10, <1>11, <1>12 DEF ControlNext

(* Workers act under a runtime; only an unfunded claim changes it.         *)
LEMMA WorkerAuthority ==
    ASSUME ActiveIsAuthorised, WorkerNext
    PROVE  ActiveIsAuthorised'
  <1>1. ASSUME NEW w \in Workers, NEW e \in 1 .. MaxEpoch, NEW s \in Actions,
               ClaimUnfunded(s, w, e)
        PROVE  ActiveIsAuthorised'
    BY <1>1, DormantIsAuthorised DEF ClaimUnfunded
  <1>2. ASSUME NEW w \in Workers, NEW e \in 1 .. MaxEpoch, NEW s \in Actions,
               ~ ClaimUnfunded(s, w, e),
               \/ \E G \in GoalRefs : SaveRuntimeCheckpoint(w, e, G)
               \/ ClaimScheduledAction(s, w, e)
               \/ ClaimEndsSchedule(s, w, e)
               \/ RecoverAutonomousScheduledClaim(s, w, e)
               \/ \E outcome \in {"COMPLETED", "BLOCKED"} :
                     CompleteScheduledAction(s, w, e, outcome)
        PROVE  ActiveIsAuthorised'
    <2>1. UNCHANGED Authority
      BY <1>2 DEF SaveRuntimeCheckpoint, ClaimScheduledAction, ClaimEndsSchedule,
                  RecoverAutonomousScheduledClaim, CompleteScheduledAction, Authority
    <2> QED BY <2>1, AuthorityKept
  <1>3. ASSUME NEW w \in Workers, NEW e \in 1 .. MaxEpoch, NEW G \in GoalRefs,
               SaveRuntimeCheckpoint(w, e, G)
        PROVE  ActiveIsAuthorised'
    BY <1>3, AuthorityKept DEF SaveRuntimeCheckpoint, Authority
  <1> QED BY <1>1, <1>2, <1>3 DEF WorkerNext

LEMMA ScheduleAuthority ==
    ASSUME TypeOK, ActiveIsAuthorised, NEW s \in Actions,
           \/ WakeMissed(s) \/ WakeCompleted(s) \/ WakeBlocked(s)
           \/ \E kind \in ActionKinds : ScheduleAction(s, kind)
    PROVE  ActiveIsAuthorised'
  <1>1. CASE WakeMissed(s) \/ \E kind \in ActionKinds : ScheduleAction(s, kind)
    BY <1>1, AuthorityKept DEF WakeMissed, ScheduleAction, Authority
  <1>2. CASE WakeCompleted(s)
    BY <1>2, ActivationIsAuthorised DEF WakeCompleted
  <1>3. CASE WakeBlocked(s)
    <2>1. life # "ACTIVE"
      BY <1>3 DEF WakeBlocked, Blockable, ActivationRefusal, ActiveIsAuthorised
    <2> QED BY <1>3, <2>1 DEF WakeBlocked, ActiveIsAuthorised
  <1> QED BY <1>1, <1>2, <1>3

LEMMA NextAuthority == TypeOK /\ ActiveIsAuthorised /\ [Next]_vars => ActiveIsAuthorised'
  <1> SUFFICES ASSUME TypeOK, ActiveIsAuthorised, [Next]_vars PROVE ActiveIsAuthorised'
    OBVIOUS
  <1>1. CASE Control
    BY <1>1, RouteAuthority, LeaseAuthority, ControlAuthority, WalletAuthority
       DEF Control, LifecycleNext
  <1>2. CASE MindNext
    <2>1. UNCHANGED Authority
      BY <1>2 DEF MindNext, CreateGoal, UpdateGoal, CreateTrait, SetTrait, Authority
    <2> QED BY <2>1, AuthorityKept
  <1>3. CASE UNCHANGED vars
    BY <1>3, AuthorityKept DEF vars, lifecycleVars, Authority
  <1> QED BY <1>1, <1>2, <1>3, WorkerAuthority, ScheduleAuthority DEF Next

(* A runtime is ACTIVE only with an ACTIVE identity, a model and no        *)
(* restriction, and it is executable exactly when ACTIVE, whichever        *)
(* statement wrote the lifecycle row last.                                 *)
THEOREM ActiveAuthorised == Spec => []ActiveIsAuthorised
  <1>1. Init => ActiveIsAuthorised
    BY DEF Init, LifecycleInit, ActiveIsAuthorised
  <1>2. TypeOK /\ ActiveIsAuthorised /\ [Next]_vars => ActiveIsAuthorised'
    BY NextAuthority
  <1> QED BY <1>1, <1>2, TypeCorrectness, PTL DEF Spec

-----------------------------------------------------------------------------
(* What each step does to the lease, to a checkpoint and to a stamp.       *)

LEMMA ControlKeepsLease ==
    ASSUME RouteNext \/ ControlNext \/ WalletNext
    PROVE  UNCHANGED lease
  <1>1. CASE RouteNext
    BY <1>1 DEF RouteNext, BeginPublishModelRoute, DisableUnused, BeginDisable, EnableConnector,
                PublishModelRoute, FinishDisable, Rollback
  <1>2. CASE WalletNext
    BY <1>2 DEF WalletNext, Earn, Spend, NextDay, EnergyActivation, EnergyDailyFee
  <1>3. CASE ControlNext
    BY <1>3 DEF ControlNext, RegisterAgentRuntime, SuspendIdentity, RestoreIdentity,
                AdoptContextProvider, ModelBecomesUnavailable, ModelBecomesAvailable,
                ResumeRuntime, ReconcileToDormancy, ReconcileCharge, PauseRuntime,
                AddRestriction, ClearRestriction
  <1> QED BY <1>1, <1>2, <1>3

LeaseKept == lease'.worker = lease.worker /\ lease'.epoch = lease.epoch
LeasePassed == lease'.epoch = lease.epoch + 1

(* The lease changes hands only with a new epoch.                          *)
LEMMA LeaseStep ==
    ASSUME TypeOK, [Next]_vars
    PROVE  LeaseKept \/ (LeasePassed /\ UNCHANGED <<checkpoint, schedule>>)
  <1> USE DEF LeaseKept
  <1>1. CASE Control
    <2>1. CASE LeaseNext
      <3>1. ASSUME NEW w \in Workers, AcquireRuntimeLease(w)
            PROVE  LeasePassed
        BY <3>1 DEF AcquireRuntimeLease, LeasePassed
      <3>2. CASE \/ ExpireLease
                 \/ \E w \in Workers, e \in 1 .. MaxEpoch :
                       RenewRuntimeLease(w, e) \/ ReleaseRuntimeLease(w, e)
        BY <3>2 DEF ExpireLease, RenewRuntimeLease, ReleaseRuntimeLease, TypeOK, LifecycleTypeOK,
                    Leases
      <3> QED BY <1>1, <2>1, <3>1, <3>2 DEF LeaseNext, Control
    <2> QED BY <1>1, <2>1, ControlKeepsLease DEF Control, LifecycleNext
  <1>2. CASE MindNext
    BY <1>2 DEF MindNext, CreateGoal, UpdateGoal, CreateTrait, SetTrait
  <1>3. CASE WorkerNext
    <2>1. PICK w \in Workers, e \in 1 .. MaxEpoch :
             \/ UNCHANGED lease
             \/ lease' = [lease EXCEPT !.status = "RELEASED"]
      BY <1>3 DEF WorkerNext, SaveRuntimeCheckpoint, ClaimScheduledAction, ClaimEndsSchedule,
                  ClaimUnfunded, RecoverAutonomousScheduledClaim, CompleteScheduledAction
    <2> QED BY <2>1 DEF TypeOK, LifecycleTypeOK, Leases
  <1>4. ASSUME NEW s \in Actions,
               \/ WakeMissed(s) \/ WakeCompleted(s) \/ WakeBlocked(s)
               \/ \E kind \in ActionKinds : ScheduleAction(s, kind)
        PROVE  LeaseKept
    BY <1>4 DEF WakeMissed, WakeCompleted, WakeBlocked, ScheduleAction
  <1>5. CASE UNCHANGED vars
    BY <1>5 DEF vars, lifecycleVars
  <1> QED BY <1>1, <1>2, <1>3, <1>4, <1>5 DEF Next

(* A new checkpoint bears the epoch of the lease that is held.             *)
LEMMA CheckpointStep ==
    ASSUME TypeOK, [Next]_vars
    PROVE  UNCHANGED checkpoint \/ checkpoint'.epoch = lease.epoch
  <1>1. CASE WorkerNext
    BY <1>1 DEF WorkerNext, SaveRuntimeCheckpoint, ClaimScheduledAction, ClaimEndsSchedule,
                ClaimUnfunded, RecoverAutonomousScheduledClaim, CompleteScheduledAction, Holds
  <1>2. CASE Control \/ MindNext \/ UNCHANGED vars
    BY <1>2 DEF Control, MindNext, CreateGoal, UpdateGoal, CreateTrait, SetTrait, vars
  <1>3. ASSUME NEW s \in Actions,
               \/ WakeMissed(s) \/ WakeCompleted(s) \/ WakeBlocked(s)
               \/ \E kind \in ActionKinds : ScheduleAction(s, kind)
        PROVE  UNCHANGED checkpoint
    BY <1>3 DEF WakeMissed, WakeCompleted, WakeBlocked, ScheduleAction
  <1> QED BY <1>1, <1>2, <1>3 DEF Next

(* What a step may do to one scheduled action.                             *)
Stamped(s, worker, epoch) == schedule'[s].worker = worker /\ schedule'[s].epoch = epoch

RowEffect(s) ==
    \/ schedule'[s] = schedule[s]
    \/ /\ schedule[s].status = "NONE"
       /\ schedule'[s].status = "SCHEDULED"
       /\ Stamped(s, schedule[s].worker, schedule[s].epoch)
    \/ /\ schedule[s].status = "SCHEDULED"
       /\ schedule'[s].status # "CLAIMED"
       /\ Stamped(s, NoWorker, 0) \/ Stamped(s, lease.worker, lease.epoch)
    \/ /\ schedule[s].status = "CLAIMED"
       /\ schedule'[s].status # "CLAIMED"
       /\ Stamped(s, lease.worker, lease.epoch)
       /\ Stamped(s, schedule[s].worker, schedule[s].epoch)
    \/ /\ \/ schedule[s].status = "SCHEDULED"
          \/ schedule[s].status = "CLAIMED" /\ lease.epoch > schedule[s].epoch
       /\ schedule'[s].status = "CLAIMED"
       /\ Stamped(s, lease.worker, lease.epoch)
       /\ life = "ACTIVE" /\ life' = "ACTIVE"
       /\ Reconciled /\ CanAutonomousTurn
       /\ UNCHANGED ports /\ UNCHANGED route

LEMMA StampRow ==
    ASSUME TypeOK, NEW s \in Actions, NEW status, NEW w, NEW e, Stamp(s, status, w, e),
           NEW t \in Actions
    PROVE  /\ t # s => schedule'[t] = schedule[t]
           /\ schedule'[s].status = status
           /\ Stamped(s, w, e)
  BY DEF Stamp, Stamped, TypeOK

LEMMA WorkerRow ==
    ASSUME TypeOK, WorkerNext, NEW t \in Actions
    PROVE  RowEffect(t)
  <1> PICK w \in Workers, e \in 1 .. MaxEpoch :
             \/ \E G \in GoalRefs : SaveRuntimeCheckpoint(w, e, G)
             \/ \E s \in Actions :
                   \/ ClaimScheduledAction(s, w, e)
                   \/ ClaimEndsSchedule(s, w, e)
                   \/ ClaimUnfunded(s, w, e)
                   \/ RecoverAutonomousScheduledClaim(s, w, e)
                   \/ \E outcome \in {"COMPLETED", "BLOCKED"} :
                         CompleteScheduledAction(s, w, e, outcome)
    BY DEF WorkerNext
  <1>1. ASSUME NEW G \in GoalRefs, SaveRuntimeCheckpoint(w, e, G)
        PROVE  RowEffect(t)
    BY <1>1 DEF SaveRuntimeCheckpoint, RowEffect
  <1>2. ASSUME NEW s \in Actions, ClaimScheduledAction(s, w, e)
        PROVE  RowEffect(t)
    <2>1. life = "ACTIVE" /\ life' = "ACTIVE" /\ UNCHANGED ports /\ UNCHANGED route
      BY <1>2 DEF ClaimScheduledAction, CanAutonomousTurn, lifecycle
    <2>2. Stamp(s, "CLAIMED", lease.worker, lease.epoch) /\ schedule[s].status = "SCHEDULED"
      BY <1>2 DEF ClaimScheduledAction, Holds, Pending
    <2> QED BY <1>2, <2>1, <2>2, StampRow DEF ClaimScheduledAction, RowEffect
  <1>3. ASSUME NEW s \in Actions, ClaimEndsSchedule(s, w, e)
        PROVE  RowEffect(t)
    <2>1. \/ Stamp(s, "MISSED", lease.worker, lease.epoch)
          \/ Stamp(s, "BLOCKED", lease.worker, lease.epoch)
      BY <1>3 DEF ClaimEndsSchedule, Holds
    <2>2. schedule[s].status = "SCHEDULED"
      BY <1>3 DEF ClaimEndsSchedule, Pending
    <2> QED BY <2>1, <2>2, StampRow DEF RowEffect
  <1>4. ASSUME NEW s \in Actions, ClaimUnfunded(s, w, e)
        PROVE  RowEffect(t)
    <2>1. Stamp(s, "BLOCKED", lease.worker, lease.epoch) /\ schedule[s].status = "SCHEDULED"
      BY <1>4 DEF ClaimUnfunded, Holds, Pending
    <2> QED BY <2>1, StampRow DEF RowEffect
  <1>5. ASSUME NEW s \in Actions, RecoverAutonomousScheduledClaim(s, w, e)
        PROVE  RowEffect(t)
    <2>1. life = "ACTIVE" /\ life' = "ACTIVE" /\ UNCHANGED ports /\ UNCHANGED route
      BY <1>5 DEF RecoverAutonomousScheduledClaim, CanAutonomousTurn, lifecycle
    <2>2. /\ Stamp(s, "CLAIMED", lease.worker, lease.epoch)
          /\ schedule[s].status = "CLAIMED" /\ lease.epoch > schedule[s].epoch
      BY <1>5 DEF RecoverAutonomousScheduledClaim, Holds
    <2> QED BY <1>5, <2>1, <2>2, StampRow DEF RecoverAutonomousScheduledClaim, RowEffect
  <1>6. ASSUME NEW s \in Actions, NEW outcome \in {"COMPLETED", "BLOCKED"},
               CompleteScheduledAction(s, w, e, outcome)
        PROVE  RowEffect(t)
    <2>1. /\ Stamp(s, outcome, lease.worker, lease.epoch)
          /\ schedule[s].status = "CLAIMED"
          /\ schedule[s].worker = lease.worker /\ schedule[s].epoch = lease.epoch
      BY <1>6 DEF CompleteScheduledAction, Holds
    <2> QED BY <2>1, StampRow DEF RowEffect, Stamped
  <1> QED BY <1>1, <1>2, <1>3, <1>4, <1>5, <1>6

LEMMA ScheduleRow ==
    ASSUME TypeOK, NEW t \in Actions, NEW s \in Actions,
           \/ WakeMissed(s) \/ WakeCompleted(s) \/ WakeBlocked(s)
           \/ \E kind \in ActionKinds : ScheduleAction(s, kind)
    PROVE  RowEffect(t)
  <1>1. CASE WakeMissed(s) \/ WakeCompleted(s) \/ WakeBlocked(s)
    <2>1. \E status \in {"MISSED", "COMPLETED", "BLOCKED"} : Stamp(s, status, NoWorker, 0)
      BY <1>1 DEF WakeMissed, WakeCompleted, WakeBlocked
    <2>2. schedule[s].status = "SCHEDULED"
      BY <1>1 DEF WakeMissed, WakeCompleted, WakeBlocked, Pending
    <2> QED BY <2>1, <2>2, StampRow DEF RowEffect
  <1>2. ASSUME NEW kind \in ActionKinds, ScheduleAction(s, kind)
        PROVE  RowEffect(t)
    <2>1. /\ t # s => schedule'[t] = schedule[t]
          /\ schedule'[s].status = "SCHEDULED"
          /\ Stamped(s, schedule[s].worker, schedule[s].epoch)
      BY <1>2 DEF ScheduleAction, TypeOK, ScheduleRows, Stamped
    <2> QED BY <1>2, <2>1 DEF ScheduleAction, RowEffect
  <1> QED BY <1>1, <1>2

LEMMA RowStep ==
    ASSUME TypeOK, [Next]_vars, NEW t \in Actions
    PROVE  RowEffect(t)
  <1>1. CASE Control \/ MindNext \/ UNCHANGED vars
    BY <1>1 DEF Control, MindNext, CreateGoal, UpdateGoal, CreateTrait, SetTrait, vars, RowEffect
  <1> QED BY <1>1, WorkerRow, ScheduleRow DEF Next

-----------------------------------------------------------------------------
(* Epochs.                                                                 *)

(* EpochHasOneWorker, said of the lease and of the rows one by one.        *)
StampFacts ==
    /\ checkpoint.epoch <= lease.epoch
    /\ \A s \in Actions :
          /\ schedule[s].epoch <= lease.epoch
          /\ schedule[s].epoch = lease.epoch /\ schedule[s].epoch # 0 =>
                schedule[s].worker = lease.worker
    /\ \A s, t \in Actions :
          schedule[s].epoch = schedule[t].epoch /\ schedule[s].epoch # 0 =>
             schedule[s].worker = schedule[t].worker

LEMMA StampFactsSuffice == TypeOK => (StampFacts <=> EpochHasOneWorker)
  <1> SUFFICES ASSUME TypeOK PROVE StampFacts <=> EpochHasOneWorker
    OBVIOUS
  <1>1. lease.epoch \in Nat
    BY DEF TypeOK, LifecycleTypeOK, Leases
  <1>2. ASSUME StampFacts PROVE EpochHasOneWorker
    BY <1>1, <1>2 DEF StampFacts, EpochHasOneWorker, Stamps
  <1>3. ASSUME EpochHasOneWorker PROVE StampFacts
    <2>1. checkpoint.epoch <= lease.epoch
      BY <1>3 DEF EpochHasOneWorker
    <2>2. ASSUME NEW s \in Actions
          PROVE  /\ schedule[s].epoch <= lease.epoch
                 /\ schedule[s].epoch = lease.epoch /\ schedule[s].epoch # 0 =>
                       schedule[s].worker = lease.worker
      <3> DEFINE a == [worker |-> schedule[s].worker, epoch |-> schedule[s].epoch]
                 b == [worker |-> lease.worker, epoch |-> lease.epoch]
      <3>1. a \in Stamps /\ b \in Stamps
        BY DEF Stamps
      <3> QED BY <1>3, <3>1 DEF EpochHasOneWorker
    <2>3. ASSUME NEW s \in Actions, NEW t \in Actions
          PROVE  schedule[s].epoch = schedule[t].epoch /\ schedule[s].epoch # 0 =>
                    schedule[s].worker = schedule[t].worker
      <3> DEFINE a == [worker |-> schedule[s].worker, epoch |-> schedule[s].epoch]
                 b == [worker |-> schedule[t].worker, epoch |-> schedule[t].epoch]
      <3>1. a \in Stamps /\ b \in Stamps
        BY DEF Stamps
      <3> QED BY <1>3, <3>1 DEF EpochHasOneWorker
    <2> QED BY <2>1, <2>2, <2>3 DEF StampFacts
  <1> QED BY <1>2, <1>3

(* Every row keeps its stamp, takes that of the lease, or takes none.      *)
LEMMA StampStep ==
    ASSUME TypeOK, [Next]_vars, NEW t \in Actions
    PROVE  \/ Stamped(t, schedule[t].worker, schedule[t].epoch)
           \/ Stamped(t, lease.worker, lease.epoch)
           \/ Stamped(t, NoWorker, 0)
  BY RowStep DEF RowEffect, Stamped

LEMMA NextStamps == TypeOK /\ TypeOK' /\ StampFacts /\ [Next]_vars => StampFacts'
  <1> SUFFICES ASSUME TypeOK, TypeOK', StampFacts, [Next]_vars PROVE StampFacts'
    OBVIOUS
  <1>1. /\ lease.epoch \in Nat /\ checkpoint.epoch \in Nat
        /\ \A s \in Actions : schedule[s].epoch \in Nat
    BY DEF TypeOK, LifecycleTypeOK, Leases, Checkpoints, ScheduleRows
  <1>2. CASE LeaseKept
    <2>1. checkpoint'.epoch <= lease'.epoch
      BY <1>1, <1>2, CheckpointStep DEF LeaseKept, StampFacts
    <2>2. ASSUME NEW s \in Actions
          PROVE  /\ schedule'[s].epoch <= lease'.epoch
                 /\ schedule'[s].epoch = lease'.epoch /\ schedule'[s].epoch # 0 =>
                       schedule'[s].worker = lease'.worker
      BY <1>1, <1>2, StampStep DEF LeaseKept, StampFacts, Stamped
    <2>3. ASSUME NEW s \in Actions, NEW t \in Actions,
                 schedule'[s].epoch = schedule'[t].epoch, schedule'[s].epoch # 0
          PROVE  schedule'[s].worker = schedule'[t].worker
      <3>1. \/ Stamped(s, schedule[s].worker, schedule[s].epoch)
            \/ Stamped(s, lease.worker, lease.epoch)
        BY <2>3, StampStep DEF Stamped
      <3>2. \/ Stamped(t, schedule[t].worker, schedule[t].epoch)
            \/ Stamped(t, lease.worker, lease.epoch)
        BY <2>3, StampStep DEF Stamped
      <3> QED BY <2>3, <3>1, <3>2 DEF StampFacts, Stamped
    <2> QED BY <2>1, <2>2, <2>3 DEF StampFacts
  <1>3. CASE LeasePassed /\ UNCHANGED <<checkpoint, schedule>>
    BY <1>1, <1>3 DEF LeasePassed, StampFacts
  <1> QED BY <1>2, <1>3, LeaseStep

(* Every record stamped with a lease epoch carries the worker of that      *)
(* epoch, and none is ahead of the lease: no worker acts under an epoch    *)
(* that another was given.                                                 *)
THEOREM OneWorkerPerEpoch == Spec => []EpochHasOneWorker
  <1>1. Init => StampFacts
    BY DEF Init, LifecycleInit, NoAction, StampFacts
  <1>2. TypeOK /\ TypeOK' /\ StampFacts /\ [Next]_vars => StampFacts'
    BY NextStamps
  <1>3. TypeOK => (StampFacts <=> EpochHasOneWorker)
    BY StampFactsSuffice
  <1> QED BY <1>1, <1>2, <1>3, TypeCorrectness, PTL DEF Spec

(* Checkpoints come in the order of their epochs: a worker that lost its   *)
(* lease never overwrites the checkpoint of a later one.                   *)
THEOREM OrderedCheckpoints == Spec => CheckpointsAreOrdered
  <1>1. TypeOK /\ EpochHasOneWorker /\ [Next]_vars => [checkpoint'.epoch >= checkpoint.epoch]_vars
    <2> SUFFICES ASSUME TypeOK, EpochHasOneWorker, [Next]_vars
                 PROVE  checkpoint'.epoch >= checkpoint.epoch
      OBVIOUS
    <2>1. checkpoint.epoch \in Nat /\ lease.epoch \in Nat /\ checkpoint.epoch <= lease.epoch
      BY DEF TypeOK, LifecycleTypeOK, Leases, Checkpoints, EpochHasOneWorker
    <2> QED BY <2>1, CheckpointStep
  <1> QED BY <1>1, TypeCorrectness, OneWorkerPerEpoch, PTL DEF Spec, CheckpointsAreOrdered

(* A claim passes only to a strictly later lease and is ended only by the  *)
(* one that holds it; an action that ended never runs again.               *)
THEOREM ForwardClaims == Spec => ClaimsMoveForward
  <1>1. TypeOK /\ [Next]_vars => [\A s \in Actions : ClaimMovesForward(s)]_vars
    <2> SUFFICES ASSUME TypeOK, [Next]_vars, NEW s \in Actions
                 PROVE  ClaimMovesForward(s)
      OBVIOUS
    <2>1. RowEffect(s)
      BY RowStep
    <2>2. lease.epoch \in Nat /\ schedule[s].epoch \in Nat
      BY DEF TypeOK, LifecycleTypeOK, Leases, ScheduleRows
    <2> QED BY <2>1, <2>2 DEF RowEffect, Stamped, ClaimMovesForward
  <1> QED BY <1>1, TypeCorrectness, PTL DEF Spec, ClaimsMoveForward

(* Nobody gets a turn on an unpaid day, with an empty wallet, in a runtime *)
(* that is not ACTIVE or on a route that is gone.                          *)
THEOREM EntitledTurns == Spec => TurnsAreEntitled
  <1> DEFINE Entitled(s) ==
         schedule'[s].status = "CLAIMED" /\ schedule'[s] # schedule[s] =>
            paid' /\ energy' > 0 /\ life' = "ACTIVE" /\ RouteAvailable
  <1>1. TypeOK /\ [Next]_vars => [\A s \in Actions : Entitled(s)]_vars
    <2> SUFFICES ASSUME TypeOK, [Next]_vars, NEW s \in Actions,
                        schedule'[s].status = "CLAIMED", schedule'[s] # schedule[s]
                 PROVE  paid' /\ energy' > 0 /\ life' = "ACTIVE" /\ RouteAvailable
      OBVIOUS
    <2>1. life = "ACTIVE" /\ life' = "ACTIVE" /\ Reconciled /\ CanAutonomousTurn
      BY RowStep DEF RowEffect
    <2>2. energy # 0 /\ Chargeable(Today) /\ ChargeFee(Today)
      BY <2>1 DEF Reconciled, Unfunded, ReconcileReason
    <2>3. energy \in Nat /\ Fee \in Nat
      BY RuntimeConstants DEF TypeOK, LifecycleTypeOK
    <2>4. energy' > 0
      BY <2>2, <2>3 DEF Chargeable, ChargeFee
    <2>5. paid'
      BY <2>2 DEF ChargeFee
    <2> QED BY <2>1, <2>4, <2>5 DEF CanAutonomousTurn, RouteReady
  <1> QED BY <1>1, TypeCorrectness, PTL DEF Spec, TurnsAreEntitled

-----------------------------------------------------------------------------
(* What a checkpoint is worth.                                             *)

MemoryKept == route' = route /\ goals' = goals /\ checkpoint' = checkpoint

LEMMA ActivationVersion ==
    ASSUME NEW d, ActivateRuntime(d)
    PROVE  current' \in {current, FALSE}
  BY DEF ActivateRuntime, BumpRuntimeState

LEMMA LifecycleMemory ==
    ASSUME LifecycleNext
    PROVE  current' = FALSE \/ (current' = current /\ route' = route)
  <1>1. CASE RouteNext
    <2>1. CASE PublishModelRoute \/ FinishDisable
      BY <2>1 DEF PublishModelRoute, FinishDisable, ForceModelUnavailable, BumpRuntimeState
    <2>2. CASE Rollback \/ \E c \in Connectors : BeginPublishModelRoute(c) \/ DisableUnused(c)
                                                 \/ BeginDisable(c) \/ EnableConnector(c)
      BY <2>2 DEF BeginPublishModelRoute, DisableUnused, BeginDisable, EnableConnector, Rollback
    <2> QED BY <1>1, <2>1, <2>2 DEF RouteNext
  <1>2. CASE LeaseNext
    BY <1>2 DEF LeaseNext, AcquireRuntimeLease, RenewRuntimeLease, ReleaseRuntimeLease, ExpireLease
  <1>3. CASE WalletNext
    BY <1>3 DEF WalletNext, Earn, Spend, NextDay, EnergyActivation, EnergyDailyFee
  <1>4. CASE ControlNext
    <2>1. ASSUME NEW d \in BillingDays, ResumeRuntime(d)
          PROVE  current' \in {current, FALSE} /\ route' = route
      BY <2>1, ActivationVersion DEF ResumeRuntime
    <2>2. ASSUME ~ \E d \in BillingDays : ResumeRuntime(d)
          PROVE  current' = FALSE \/ (current' = current /\ route' = route)
      BY <1>4, <2>2 DEF ControlNext, RegisterAgentRuntime, SuspendIdentity, RestoreIdentity,
                AdoptContextProvider, ModelBecomesUnavailable, ModelBecomesAvailable,
                ReconcileToDormancy, ReconcileCharge, PauseRuntime,
                AddRestriction, ClearRestriction, BumpRuntimeState
    <2> QED BY <2>1, <2>2
  <1> QED BY <1>1, <1>2, <1>3, <1>4 DEF LifecycleNext

(* A step that touches what a checkpoint refers to is a new version, or    *)
(* takes a checkpoint of it.                                               *)
LEMMA MemoryStep ==
    ASSUME [Next]_vars
    PROVE  \/ current' = FALSE
           \/ current' = current /\ MemoryKept
           \/ \E w \in Workers, e \in 1 .. MaxEpoch, G \in GoalRefs : SaveRuntimeCheckpoint(w, e, G)
  <1> USE DEF MemoryKept, mind
  <1>1. CASE Control
    BY <1>1, LifecycleMemory DEF Control
  <1>2. CASE MindNext
    BY <1>2 DEF MindNext, CreateGoal, UpdateGoal, CreateTrait, SetTrait, BumpRuntimeState
  <1>3. CASE WorkerNext
    BY <1>3 DEF WorkerNext, ClaimScheduledAction, ClaimEndsSchedule, ClaimUnfunded,
                RecoverAutonomousScheduledClaim, CompleteScheduledAction, BumpRuntimeState
  <1>4. ASSUME NEW s \in Actions,
               \/ WakeMissed(s) \/ WakeCompleted(s) \/ WakeBlocked(s)
               \/ \E kind \in ActionKinds : ScheduleAction(s, kind)
        PROVE  current' = FALSE \/ (current' = current /\ MemoryKept)
    <2>1. CASE WakeCompleted(s)
      BY <2>1, ActivationVersion DEF WakeCompleted
    <2> QED BY <1>4, <2>1 DEF WakeMissed, WakeBlocked, ScheduleAction, BumpRuntimeState
  <1>5. CASE UNCHANGED vars
    BY <1>5 DEF vars, lifecycleVars
  <1> QED BY <1>1, <1>2, <1>3, <1>4, <1>5 DEF Next

(* As long as the checkpoint carries the current state version, the route  *)
(* and the goals it names are the current ones.                            *)
THEOREM CurrentCheckpoint == Spec => []CheckpointIsCurrent
  <1>1. Init => CheckpointIsCurrent
    BY DEF Init, LifecycleInit, CheckpointIsCurrent
  <1>2. TypeOK /\ CheckpointIsCurrent /\ [Next]_vars => CheckpointIsCurrent'
    <2> SUFFICES ASSUME TypeOK, CheckpointIsCurrent, [Next]_vars PROVE CheckpointIsCurrent'
      OBVIOUS
    <2>1. CASE current' = FALSE
      BY <2>1 DEF CheckpointIsCurrent
    <2>2. CASE current' = current /\ MemoryKept
      BY <2>2 DEF CheckpointIsCurrent, MemoryKept
    <2>3. ASSUME NEW w \in Workers, NEW e \in 1 .. MaxEpoch, NEW G \in GoalRefs,
                 SaveRuntimeCheckpoint(w, e, G)
          PROVE  CheckpointIsCurrent'
      BY <2>3 DEF SaveRuntimeCheckpoint, CheckpointIsCurrent, mind
    <2> QED BY <2>1, <2>2, <2>3, MemoryStep
  <1> QED BY <1>1, <1>2, TypeCorrectness, PTL DEF Spec
=============================================================================
