# NewHumans: a verification project

NewHumans is a Node.js and PostgreSQL backend for persistent agents: identities,
an Energy ledger, a model gateway, agent runtimes, and social contracts whose
money is kept by another product, Knowledge Ball (KB). These modules model the
parts in which several actors, crashes and lost messages meet: the
*cross-product Saga* that funds, refunds and distributes the escrow of a
contract; the *gateway* with the *local Energy ledger* that pays for model
inferences; the *runtime* of an Agent, its lifecycle, leases and schedules; the
*commands and event log* under everything, with the *identity bindings* beside
them; and *relationships and spaces*. Paths below are relative to the
repository.

## 1. Inventory

| Component | State | Operations | Talks to | What is hard | Status |
|---|---|---|---|---|---|
| Saga engine: `shared/cross_product_saga.js`, `services/cross_product_saga_{store,worker,worker_runtime}.js`, migration 0528 | Saga row and snapshot, outbox rows, inbox rows | prepare, claim, send, record result or failure, reconcile, replay, mark committed, request compensation | KB EconomyPort (`escrow`, lookup by key); contracts | crashes between send and record, expired leases, late or conflicting answers, stale NOT_FOUND | modelled |
| Contracts: `services/m04_contracts.js`, `m04_contract_delivery.js`, `contract_saga.js`, migration 0526 | contract status, version, acceptances, escrow reference, deliveries, disputes | propose, revise, accept, deliver, review, dispute, adjudicate, prepare and commit activation and settlement | Saga store in the same transaction | revision, rework or dispute while money moves | partly |
| Gateway: `services/gateway.js`, `p1_4.js`, migrations 003-006 | executions, attempts, provider requests, quotes, receipts, reconciliation jobs | quote, infer (prepare, dispatch, finalize), cancel | economy in the same transactions; provider over HTTP outside them | cancel or release racing a dispatch, unknown outcomes, crash with a request out | modelled (platform-paid inferences) |
| Economy (legacy, NH-012): `services/economy.js`, `domain/energy.js` | wallets, reservations, journals, fees | mint, transfer, reserve, release, settle, first activation, daily fee | gateway, runtime | checks against other transactions' reservations | modelled |
| Commands and events: `services/core.js`, migration 001 | actions, life events, outbox | `runCommand`, `appendEvent`, `createEntity` | every HTTP command | replay of a failed or running command, numbers of the log | modelled |
| Runtime: `services/runtime.js`, `runtime_control.js`, `runtime_policy.js`, `runtime_scheduler.js`, migrations 007-015e | leases, checkpoints, lifecycle, routes, goals, traits, schedules | publish, acquire, renew, release, checkpoint, activate, resume, pause, restrict, reconcile, schedule, claim, recover, complete, wake | economy, gateway connectors, identities | stale workers, a dozen writers of one row, connector outages | modelled |
| KB identity binding: `services/knowledge_ball_identity_binding.js`, migration 0300 | binding versions | bind, revoke, resolve | KB identity port | verification between two transactions | modelled |
| Relationships, spaces: `services/social_relationships.js`, `social_space.js`, migrations 0523, 0525 | version chains, proposals, confirmations; spaces, memberships, attachments | record, append, propose, confirm; create, update, join, leave, attach, detach | none | version races, stale proposals and looks | modelled |
| Organizations, messaging, directory: migrations 0500, 0501, 0527 | tables and triggers only | none in `src/` | - | no service code exists | not modelled |
| Ports, adapters, HTTP, logging, metrics, readiness, sandbox contract | none | validation, parsing, I/O | - | stateless | not modelled |

How they interact: a party's HTTP command runs in one transaction
(`runCommand`). `prepareContractActivation` and `prepareContractSettlement`
insert a Saga and an outbox row in the caller's transaction. Worker processes
(`runSagaWorkerLoop`) poll: a claim transaction leases one row, the request goes
to KB outside any transaction, a second transaction records the outcome. When
the outcome is unknown the row and the Saga wait in `RECONCILIATION_REQUIRED`
until a worker's lookup finds the stored outcome or says `NOT_FOUND`. After a
recorded success the commits of `contract_saga.js` change contract and Saga in
one transaction, or queue a refund.

What makes each component correct, in a sentence: *contracts* are in force only
on money that is there; *the engine* sends every operation until its result is
known, records it once and never forgets money; *the gateway and the economy*
charge each execution once and never promise the same Energy twice; *the
runtime* obeys only the holder of the current lease epoch; *commands* take
effect once; *bindings* follow one another and are told by the log;
*relationships* hold only what both parties agreed to, and *spaces* lose no
change.

## 2. Modules

| Module | Models | Source |
|---|---|---|
| `CrossProductSaga` | the pure Saga protocol: snapshots and the functions that move them | `shared/cross_product_saga.js` |
| `Contracts` | the contract lifecycle and its state trigger | `m04_contracts.js`, `m04_contract_delivery.js`, 0526 |
| `SagaEngine` (extends the first) | store, workers, reconciler, KB as an idempotent authority | `cross_product_saga_{store,worker,worker_runtime}.js`, 0528 |
| `ContractSaga` | the composition: the prepare and commit transactions, `Next`, fairness | `contract_saga.js` |
| `ContractSagaProps` | all properties and the refinement mapping | - |
| `EscrowPromise` | abstract specification: what the parties are promised | - |
| `MCContractSaga`, `MCGateway`, `MCRuntime`, `MCIdentityBinding`, `MCSocial` | symmetry and instances for TLC | - |
| `Economy` | the local ledger: wallets, reservations, quotes, fees, transfers | `economy.js`, `p1_4.js`, 001, 005, 006 |
| `Gateway` (extends `Economy`) | the composition: executions, attempts, receipts, `Next` | `gateway.js`, `p1_4.js`, 003, 005, 006 |
| `GatewayProps` | properties of executions, reservations and money together | - |
| `RuntimeLifecycle` | one Agent's lifecycle row, route, lease, connectors, wallet and daily fee | `runtime.js`, `runtime_control.js`, `runtime_policy.js`, 007, 015b, 015e |
| `Runtime` (extends it) | goals, traits, checkpoints, claims and wakes on that lifecycle, `Next` | the same, `runtime_scheduler.js`, 009-015e |
| `RuntimeProps` | who may act in whose name, and what a checkpoint is worth | - |
| `Commands` | `runCommand` and `appendEvent`, several requests at once | `core.js`, 001 |
| `IdentityBinding` (extends it) | the composition with bind and revoke calls, `Next`, fairness | `knowledge_ball_identity_binding.js`, 0300 |
| `IdentityBindingProps` | properties of commands, bindings and the log together, and the refinement mapping | - |
| `BindingPromise` | abstract specification: commands and bindings as single changes | - |
| `Relationships` | declared, derived and mutual relationships, proposals | `social_relationships.js`, 0523 |
| `Spaces` | a space, its members and attached objects | `social_space.js`, 0525 |
| `Social` (extends both) | the composition over shared sessions | - |
| `SocialProps` | what a version rests on, and what the log of a space tells | - |
| `ContractSagaSafety`, `ContractSagaRecovery`, `ContractSagaPromise` | theorems and proofs about the Saga, each built on the one before | - |
| `LedgerSafety` (on `GatewaySafety`) | theorems and proofs about the ledger's sums | - |
| `GatewaySafety`, `RuntimeSafety`, `IdentityBindingSafety`, `SocialSafety` | theorems and proofs about the other components | - |

### Contracts and the Saga

State and code. `saga[s]` is the snapshot of the Saga of business attempt `s`
(`Activations` and `Settlements` are the attempt identifiers; an escrow is
named by the activation that funds it). `outbox[op]`, `inbox[op]` are the rows
of operation key `op` (a pair of attempt and step, as in `sagaOperationKey`).
`kb[op]` is what KB stored for the key, `inflight[op]` the requests sent and
not executed. `pc[w]`, `job[w]` say where a worker stands between its
transactions. `contract[c]` is the contract row with the latest delivery and
dispute. Each action is one transaction of the code, or one answer of KB.

Reductions, each an over-approximation unless it says otherwise:

- Claim and send are one action: a request that is late or lost stays in
  `inflight` and may never execute.
- Reading a stored outcome and recording it are one action, because a stored
  outcome does not change; `NOT_FOUND`, which can become stale, is the separate
  program counter value `notFound`.
- An idempotent replay of a used attempt changes nothing and is a stutter.
- Deliveries are the latest status and a count of reworks (`ReworkLimit`);
  a contract has at most one dispute (a restriction).
- The escrow snapshot of a settlement proves only that the escrow held money
  at some earlier time.
- Amounts and digests are abstracted (a restriction: KB answers with the digest
  it was sent); a result carries a tag from `Tags`, so that two reports of one
  operation can differ.
- A tick runs reconcile and then dispatch; the model allows any order.
  `next_attempt_at` and `next_reconcile_at` only delay, and are left out.
- The lease of a live owner expires only as a fault; a dead owner's always does.
- The branch at `cross_product_saga_worker.js:78-86` (a row whose command does
  not match) is unreachable, because command and row are written together.
- `Refusals` are the error codes of answers that refuse one request
  (authentication, binding) and decide nothing about its key. In every run any
  request in flight may be refused, whatever KB stored for its key or still has
  to execute; the refused request itself never executes.
- A `TIMEOUT` is taken by the code for a request without effect. In the model it
  may have been executed, may still be, or may be gone.

### Gateway and ledger

State and code. `posted`, `rsv`, `quote`, `fees`, `journals` are the rows of the
tables of the same names (`rsv` by entity and business key); `expired` and `day`
are the clock. `call[s]` is a ledger command between the snapshot its balance
check uses and the grant of the wallet lock. `plan[e]` holds the immutable
columns of the execution, `exec[e]` its status and charge, `tries`/`attempt` its
attempts, and `pc[e]` where `infer` stands in its process: `AUTHORISED` after
the quote was checked, `PREPARED`, `ELIGIBLE` inside the dispatching transaction
before the reservation is locked, `SENT` while the provider works, `BLOCKED`
before the refusal is recorded. Every other action is one transaction.

Reductions:

- A ledger command that reads the available balance is two steps: `lockWallet`
  sums the reservations in a sub-select of its `SELECT ... FOR UPDATE`, and under
  READ COMMITTED that sub-select keeps the snapshot taken before the wait for
  the lock. A command that does not use the sum is one step.
- The dispatching transaction is two steps, because it reads fee, balance and
  routing before it locks the reservation and the quote is read. Cancelling
  waits for the row lock that it holds (`RowUnlocked`).
- `Crash` is the death of the process and also any transaction of `infer` that
  aborts (deadlock, lost connection): both leave what was committed.
- The replay of a whole command under its idempotency key is a stutter.
- BYOK connectors, which reserve and charge nothing, are left out (a
  restriction); so are prompt, token count and provider payload: an answer is
  an outcome and a charge from `{0} \cup Amounts` within the authorised maximum.
- The reconciliation job is a row that no code in `src/` resolves.

### Runtime

State and code. One Agent; `life`, `execution`, `model`, `flags` are the columns
of `runtime.lifecycle_states`, `route` the current `model_routes` row with the
connector of its manifest, `lease` the `runtime_leases` row, `checkpoint` the
last `runtime_checkpoints` row, `schedule[s]` a `scheduled_actions` row with the
claim stamped on it. Every command takes the lifecycle row for update, so it is
one step. Two are not: `publishModelRoute` reads the manifest's connector without
locking it (`publishing`), and the trigger of a disabled connector looks for
routes before it waits for the lifecycle rows (`disabling`).

Reductions:

- `state_version` counts edits; only whether the last checkpoint still carries
  the current one is kept (`current`). A caller that names an old version is
  refused, which changes nothing.
- The wallet is an available balance (zero for everything not positive) and
  whether today's fee is paid. A billing date chosen by the caller is today,
  another day still due, or one already charged.
- An expired lease is held until somebody acts on it: `now()` is the start of a
  transaction, so one that began in time still passes the check (`Holds`).
- Due times, SKIP windows, budgets, plan and cursor payloads are left out: a due
  action may run, or be missed, at any later time.
- The trigger of 015e lets only the claiming lease end a claim, so a takeover on
  an unfunded runtime always aborts and is not an action.
- Adoption of the M03 context provider and re-enabling a connector are
  operators' steps and external.

### Commands and identity bindings

State and code. `action[k]` is the committed `core.actions` row of an idempotency
key, `events[e]` the committed log of entity `e`, `writing` the uncommitted
events with the number each read. `call[b]` says where a bind or revoke stands,
`locked[e]` who holds the advisory lock of the bindings of `e`. A request is
told apart by its target: two requests have the same action type and payload
hash exactly if their targets agree.

Reductions:

- `INSERT ... ON CONFLICT DO NOTHING` waits for an uncommitted row of the key;
  the lookup after it is one step with it.
- A caller without an answer sends the command again as another request.
- `AbortCommand` is a lost connection and also a deferred constraint that fails
  at `COMMIT` (the rollback to the savepoint then fails too): nothing is recorded.
- The ACTION event of each command and the outbox row of each event are left
  out; nobody competes for them. `createEntity` only inserts.
- Grants and identity status may end while the external authority works
  (`LoseAuthority`, external).

### Relationships and spaces

State and code. `header`, `versions`, `proposals`, `confirmations` are the four
append-only tables; `draft[s]` is the call of session `s` between its reads and
its commit. `space`, `memberships`, `relations`, `spaceLog` are the rows and the
events of one space; `visit[s]` holds what the caller had looked at and, after
the row lock, the row it read. A call of a relationship reads first, inserts
when the lock of the sequence trigger is free, and commits; a space operation is
`LockSpace` and one step with everything to the commit.

Reductions:

- Period, dispute state and provenance text of a version are one value of
  `Terms`; the deferred evidence triggers repeat the checks of the service and
  are part of the commit.
- A party may be offered an id that a declaration takes meanwhile, because
  `recordRelationship` accepts an id from its caller.
- The metadata of a space is the set of updates it contains; a caller computes
  new metadata from what it looked at. Roles of members and kinds of relations
  are not told apart, except the owner.
- Refusals, idempotent answers, conflicts and failures end a call without a
  trace (`LoseDraft`, `EndVisit`).
- Nothing in `src/` calls these services except tests; callers are assumed to
  use `runCommand`, as the evidence triggers require.

## 3. Runs

### Contracts and the Saga

Bounds: one contract; one or two activation and settlement attempts; one or two
workers; one or two result tags; `MaxVersion` 1-2, `ReworkLimit` 0-1,
`MaxAttempts` 1-2; `MaxFaults` 0-2 adverse events (crash, lease expired under a
live owner, ambiguous answer, timeout or unavailability, inconclusive lookup;
refusals are unlimited). Two
attempts and two versions let a funding be orphaned and repeated; two workers
let a late owner meet its successor; two faults give every pair of them (crash
then lost answer, ...); a second contract would add nothing, because the
unique index, the keys and the escrow all belong to one contract.
Deadlock checking is off: a settled contract and resolved operations stop.

| Run | Result | Shows |
|---|---|---|
| `saga_recovery` | 860,727 states, pass | money, contract, Saga, outbox and inbox agree through any two faults; a failure is definite, and no money forgotten, unless a re-send was refused; the system implements `EscrowPromise` |
| `contract_lifecycle` | 1,575,592 states, pass | revision, rework, dispute and repeated settlement never make a paid contract unsettleable, nor settle it unpaid |
| `saga_liveness` | 15,126 states, pass | leases end; every queued funding or distribution gets a result or a dead letter |
| `refund_stuck` | violation | finding 1 |
| `frozen_saga` | violation | finding 2 |
| `refused_key` | violation | finding 3 |

Fairness (`EngineFairness`): the loop survives every failed tick and claims in
the order of due times, so a row that is claimable again and again is claimed
(strong fairness of the two claims, per key); a call that nothing disturbs is
answered and recorded (weak fairness). Nothing is assumed of the parties or of
the commits, which no code in `src/` schedules. Fairness is per key because
`ORDER BY next_attempt_at` (and `next_reconcile_at`) lets no row be passed over
for ever. Symmetry is used in safety runs only.

### Gateway and ledger

Bounds of `gateway_billing`: two executions and one command session racing on
one reservation key and one quote; two entities, so that a transfer has another
end; one mint of 3 (`Bases`), one transfer key, amounts 1, a fee of 1, two days,
two attempts. Two executions let one settle, release or outlive the
reservation of the other; two attempts give one retry; two days put midnight
between preparation and dispatch. A second reservation key would separate the
executions again. Charges 0 and 1 against a reservation of 1 distinguish
settling the usage from settling the reservation. The over-commitment needs two
command sessions and another key, and no execution, and has its own
configuration. With one session no two ledger commands overlap, and 3 is little
enough to be overdrawn by what the commands ask for: the run shows that nothing
but an overlap overdraws, the theorem covers the overlaps. Entities, sessions,
keys and executions are symmetric: nothing names one of them.
Mint, transfer and quote ids are used once, which bounds every
counter; deadlock checking is off because everything then ends. No fairness is
assumed: no liveness is claimed.

| Run | Result | Shows |
|---|---|---|
| `gateway_billing` | 783,400 states, pass | no Energy appears or is lost, an overdraft is an oversight, a charge is a settlement, a quote follows its reservation, outcomes are final, a cancelled execution is never sent |
| `wallet_overcommitted` | violation | finding 4 |

### Runtime

Bounds of `runtime_authority`: one Agent with one connector and one route, two
workers and two lease epochs, one restriction, one scheduled action of either
kind, a balance up to 2 with a fee of 1 and a floor of 2. Two epochs give a stale
worker and its successor; one action is claimed, taken over and ended; a balance
of 0, 1 or 2 is unfunded, not above the fee, or funded. `runtime_memory` has
instead two connectors and two routes, one goal, one trait and two edits, and no
money: a checkpoint meets an edit of everything it names, and a publish onto a
connector crosses with its disable, which one connector does not allow. Workers (and connectors
in the second) are symmetric. Nothing schedules a runtime's steps in `src/`, so
no fairness is assumed and no liveness claimed; deadlock checking is off because
a bounded instance stops.

| Run | Result | Shows |
|---|---|---|
| `runtime_authority` | 782,004 states, pass | ACTIVE only under an ACTIVE identity with a model and no flag; one worker per epoch; claims move to later leases only; every turn is on a paid day and a live route |
| `runtime_memory` | 341,526 states, pass | a checkpoint with the current version names the current route and goals; checkpoints come in the order of their epochs |

### Commands and identity bindings

Bounds of `binding`: two requests under one key, so that one is a retry or a
conflict of the other; three bind or revoke calls on two entities and one
principal, so that a bind, its revocation and a bind that was verified earlier
meet. A request or call happens once, which bounds the log. Fairness
(`WF_vars(ServerStep)`): while a request or a verified call can take its next
step, the server takes one; failures and the external authority are not fair.
This is the event loop of one process with its pool and no more: it never starves
all of them, and the progress argument needs no fairness among them because
every step uses one of finitely many up.

| Run | Result | Shows |
|---|---|---|
| `binding` | 321,860 states, pass | a command takes effect once and every answer is the one on record; the log tells the bindings; the system implements `BindingPromise`; commands and verified calls end although the authority may never answer another call |

### Relationships and spaces

Bounds of `social`: two sessions, six calls in all; two entities, one
relationship id, two versions, three proposals, two values of terms; one space,
one object, four versions. Six calls are a proposal and its confirmation
followed by two proposals and two confirmations for the next version, the
shortest race of revisions; for the space they are its creation, two looks, and
further changes between them. A second id would be a second copy: no table
relates two ids. Sessions and terms are symmetric.

| Run | Result | Shows |
|---|---|---|
| `social` | 461,333 states, pass | every version is declared by its subject, derived, or agreed by both parties for exactly that version; the log of a space tells its version, metadata, members and objects |

Each property has a mutant in `PROJECT.json`: a definition changed as a
plausible bug would change it (a missing lease check, a conflict that
overwrites, a commit that trusts an old version, ...), defined beside the
original, under which the property fails.

## 4. Findings

Each is a disagreement between a document and the code, with its run:

1. *A lost refund is never re-sent* (`RefundResolves`).
   `cross_product_saga_worker.js:234` replays after `NOT_FOUND` only if the
   snapshot holds no result, but a compensating Saga always holds the primary
   one. NH_011:220 asks to retry the same compensation identity.
2. *A frozen Saga still sends* (`FrozenSagaSendsNothing`). NH_011:229 says
   automated money movement stops.
3. *A refusal of a re-send counts as failure without effect*
   (`FailedMeansNoEffect`), against NH_011:241. `cross_product_saga_worker.js:150`
   records any refusal as FAILED. If KB refuses before it looks the key up, the
   earlier request may have executed; if it looks first, that request may still
   be on its way and execute afterwards. `FailureIsDefinite` and
   `NoMoneyIsForgotten` show, and the proofs confirm, that nothing else makes a
   FAILED Saga wrong.
4. *The ledger over-commits a wallet* (`AvailableNonNegative`). A command that
   waits for the lock behind a `reserve` decides on the reservations before it
   (`economy.js:19`), against `docs/modules/05_Energy_and_Resources.md:30`. The
   ledger is the legacy one, kept outside production (`economy.js:1`).

Also seen in the models; the first four contradict a document as well, the
others none, and no run is spent on them:

- *A dead letter hides moved money.* NH_011:193 says every non-terminal Saga is
  scanned; a dead letter leaves the Saga `PENDING_REMOTE`, and the code scans
  `RECONCILIATION_REQUIRED` only (`cross_product_saga_store.js:82`).
- *A contract settles with its dispute open* (`contract_saga.js:223`), against
  `docs/modules/04_Social_Collaboration.md:72`: a dispute raised while the
  distribution is in flight is not looked at by the commit.
- *The reservation of an unknown outcome is released* (`economy.js:114`), where
  `P1_2_M06_Gateway.md:36` says it remains ACTIVE.
- *A receipt nobody paid.* Two executions may share one reservation, and the
  second settlement of an equal amount replays the first (`economy.js:134`),
  against `P1_2_M06_Gateway.md:91`.
- A crash after dispatch leaves an execution DISPATCHED with its reservation
  ACTIVE and no job; a quote that expires between preparation and dispatch
  leaves it PROPOSED; a dispatch refused because of a cancellation overwrites
  CANCELLED by FAILED.
- A takeover of a claim on an unfunded runtime is coded as blocking the action
  and going dormant (`runtime_policy.js:263`), but the trigger at 015e:149 aborts
  it every time.
- A publish and a disable that cross (`runtime.js:238`) can leave a runtime
  ACTIVE on a disabled connector without `NO_MODEL_ROUTE`; its claims are refused,
  and a wake can then neither complete nor be blocked. The other order marks a
  freshly published route unavailable.
- Resume and reconcile take the billing date from their caller, so a runtime can
  be ACTIVE on a day that is not paid; the next claim charges it.
- A wake that completes on an ACTIVE runtime is no new state version.
- A PENDING action row is never committed, so `COMMAND_NOT_REPLAYABLE` for it
  (`core.js:47`) is unreachable. A command that loses a deadlock is recorded
  FAILED, and its key never runs again.
- A bind whose proof was verified before another bind and its revocation may
  still complete after them; there is no time limit on the authority.
- A departure from a space whose transaction began before the arrival it ends
  fails on `CHECK (left_at >= joined_at)`, without a domain error.
- A proposal for an id that somebody else declares first, or for a version that
  exists meanwhile, stays for ever and can never be confirmed.

## 5. Proofs

TLAPS proves, for all values of the constants that satisfy the named
assumptions (`EngineBounds`, `NoWorkerIsNoWorker`, `KindsAreDisjoint`,
`NoEscrowIsNoSaga`, `RefusalsAreNoDecisions`, `ContractBounds`; `EconomyBounds`, `NoQuoteIsNoQuote`,
`FiniteTables`, `GatewayBounds`; `RuntimeConstants`; `CommandConstants`, `BindingConstants`;
`RelationshipConstants`, `SpaceConstants`, `OneSetOfSessions`; each in the module
that declares the constants). `FiniteTables` says that a table has finitely many
rows; without it a sum over its rows has no meaning.

| Theorem | Statement |
|---|---|
| `ContractSagaSafety!TypeCorrectness` | `Spec => []TypeOK` |
| `ContractSagaSafety!InForceIsFunded` | `Spec => []ActiveOnlyIfFunded` |
| `ContractSagaSafety!RefundsAreForOrphans` | `Spec => []OnlyOrphansAreRefunded` |
| `ContractSagaSafety!AcceptedVersionIsBound` | `Spec => []ActiveBindsAcceptedVersion` |
| `ContractSagaSafety!RecordedResultsAreFinal` | `Spec => ResultsAreFinal` |
| `ContractSagaRecovery!AnsweredIsNotSent` | `Spec => []ResultEndsDispatch` |
| `ContractSagaRecovery!SnapshotsAgree` | `Spec => []SnapshotAgreesWithInbox` |
| `ContractSagaRecovery!PersistedSagas` | `Spec => []PersistedSagaInvariant` |
| `ContractSagaRecovery!FailuresAreHarmless` | `Spec => []FailureIsDefinite` |
| `ContractSagaRecovery!MoneyIsRemembered` | `Spec => []NoMoneyIsForgotten` |
| `ContractSagaRecovery!FinishedSagasConverged` | `Spec => []TerminalStatesConverged` |
| `ContractSagaRecovery!SettledIsPaid` | `Spec => []SettledOnlyIfDistributed` |
| `ContractSagaRecovery!SettlementsCanCommit` | `Spec => []ForwardRecoveryNeverNeeded` |
| `ContractSagaRecovery!UpdatesAreLegal` | `Spec => TriggerNeverAborts` |
| `ContractSagaPromise!ImplementsThePromise` | `Spec => KeepsThePromise` |
| `GatewaySafety!QuotesFollow` | `Spec => []QuoteFollowsReservation` |
| `GatewaySafety!ChargesSettle` | `Spec => []ChargesAreSettlements` |
| `GatewaySafety!FinalOutcomes` | `Spec => OutcomesAreFinal` |
| `GatewaySafety!NeverSent` | `Spec => CancelledIsNeverSent` |
| `LedgerSafety!GatewayTypes` | `Spec => []TypeOK` |
| `LedgerSafety!EnergyIsConserved` | `Spec => []MoneyIsConserved` |
| `LedgerSafety!OverdraftsAreOversights` | `Spec => OnlyOverlookingOverdraws` |
| `RuntimeSafety!TypeCorrectness` | `Spec => []TypeOK` |
| `RuntimeSafety!ActiveAuthorised` | `Spec => []ActiveIsAuthorised` |
| `RuntimeSafety!OneWorkerPerEpoch` | `Spec => []EpochHasOneWorker` |
| `RuntimeSafety!OrderedCheckpoints` | `Spec => CheckpointsAreOrdered` |
| `RuntimeSafety!ForwardClaims` | `Spec => ClaimsMoveForward` |
| `RuntimeSafety!EntitledTurns` | `Spec => TurnsAreEntitled` |
| `RuntimeSafety!CurrentCheckpoint` | `Spec => []CheckpointIsCurrent` |
| `IdentityBindingSafety!BindingTypes` | `Spec => []TypeOK` |
| `IdentityBindingSafety!CommandsTakeEffectOnce` | `Spec => []CommandsRunOnce` |
| `IdentityBindingSafety!LogTells` | `Spec => []LogTellsBindings` |
| `IdentityBindingSafety!ChangesAreAtomic` | `Spec => OneChangeAtATime` |
| `SocialSafety!SocialTypes` | `SocialSpec => []TypeOK` |
| `SocialSafety!RelationshipsAreAgreed` | `SocialSpec => []VersionsAreAgreed` |
| `SocialSafety!SpacesAreTold` | `SocialSpec => []LogTellsSpace` |

### Contracts and the Saga

None of the invariants is inductive: that a contract in force is funded depends
on what its Saga's snapshot says, which depends on the inbox, which depends on
what KB stored. `SafetyInv` adds those links to the type invariant:

- *Evidence*: a key that was sent has a row (`RowsComeFirst`); an attempt that
  was not prepared has left no trace (`UnpreparedIsBlank`); a recorded success
  happened (`SuccessesHappened`); a snapshot's result is its inbox row
  (`SnapshotMirrorsInbox`); a refund's row exists only if its Saga requested it
  (`RefundsAreRequested`).
- *Binding*: a Saga that requested its refund can never complete
  (`RefundsArePermanent`), a contract binds only a completed activation
  (`BindingSagasCompleted`), for its version and with both acceptances
  (`InForceIsBound`).

The store's transactions are proved once as lemmas over any key and result and
then cited for each worker action. `ResultsAreFinal` follows from the same
lemmas: only `RecordFirstResult` writes the inbox, where it was empty.

`RecoveryInv` extends it in two directions. *Stages*: the state of a Saga says
which results it has (`StageMatchesResults`), an operation with a result is never
queued again (`ResultEndsDispatch`), and, for `FailuresAreOver`, the requests of a
key are counted by the attempts of its row (`SendsAreCounted`), so that a recorded
failure is KB's decision, the refusal of the only request, or the refusal of a
re-send (`FailureIsOver`). *Closure*: a
settlement rests on a decision nobody can withdraw any more
(`SettlementsAreDecided`), an attempt and a version have one unresolved Saga
(`OneUnresolved`), and what is completed or settled is over (`CompletedIsClosed`,
`SettledIsOver`). Every engine step is first reduced to what it does to one Saga
(`SagaMoves`, `EngineMoves`), so that Stages and Closure are argued over a handful
of moves.

`FailuresAreHarmless` and `MoneyIsRemembered` are the reverse of finding 3. They
assume nothing about when KB refuses: a FAILED Saga whose money moved, or will,
is one whose re-send was refused.

The refinement needs that a Saga names its own escrow (`OwnEscrow`); then each
engine step is a step of `EscrowPromise` or, when the promise does not see it, a
stutter (`Stutters`).

### Gateway

`GatewayInv` says that a quote is bound to one reservation and follows it, and
that a quote about to be bound is ACTIVE and wanted by one command (`QuoteInv`);
that no outcome is on record while the call runs and what is still cancellable was
never sent (`ProgressInv`); and what a charge rests on (`ChargeInv`). What keeps
it is that a settled or released row never changes again (`RowsStayEnded`). In
these proofs the ledger's sums only choose a branch, and either is allowed.

`BooksInv` adds what the sums need. `WalletInv`: balances are naturals, a command
between its two steps is well formed, and what was minted is what the wallets
hold, what was settled and what was paid in fees. `RecordInv`: what is on record
about executions, attempts and days has its type. A sum over rows is a fold;
`SumCounts` shows that a fold of naturals counts units, the pairs of a row and a
number up to its amount. It takes a smallest set of rows for which it would
not (strict inclusion of finite sets is well-founded), because a theorem of
induction with an operator parameter cannot be used. `SumSplit`, `SumAgrees` and
`SumMoves` then come from cardinalities, and each posting is followed line by
line (`MintBooks`, `SettleBooks`, `TransferBooks`, ...).

`OverdraftsAreOversights` is the reverse of finding 4: the sum of the old snapshot
is its only cause. A step may take an available balance below zero only if it
ends a reservation, transfer or fee of that owner whose snapshot misses a
reservation that is active now. Settling and releasing never take the balance
lower (`SettleCovered`, `ReleaseCovered`), and a command that overlooked nothing
leaves what it checked (`ReserveSpends`, `TransferSpends`, `FeeSpends`).

### Runtime

Types first, then `ActiveIsAuthorised`, which is inductive with them. The others
rest on frame lemmas, what any step does to the lease, the checkpoint, a schedule
row and what a checkpoint names (`LeaseStep`, `CheckpointStep`, `RowEffect`,
`MemoryStep`). `StampFacts` is `EpochHasOneWorker` row by row: a stamp is behind
the lease or carries the worker that holds it.

### Commands, bindings, relationships and spaces

`BindingInv`: one request runs under a key that has no row yet
(`KeysAreReserved`), an answer is the one on record, an event under way is the
only one of its writer (`WritersAreAtWork`), a call that writes holds the lock of
its entity, and what an inserter found missing, for its entity and its principal,
is still missing (`CallInv`). The counts of the log then move by one with each
event (`ToldGrows`, `EntityGrows`).

`OneChangeAtATime` says that commands and bindings implement `BindingPromise`, in
which a key is decided, or an entity bound or released, at once and together
with its line in the log. The commits are the steps of the promise
(`DecisionPromised`, `BindPromised`, `RevokePromised`); locks, reads, answers of the
authority and aborts are stutters. The promise asks that nobody stands for a new
principal; that follows from `CallInv`, with `NewestIsOpen`: only the newest version
of an entity can be open.

`RelationshipInv`: a relationship has one writer at a time, and what it is about
to write was founded and still fits. `SpaceInv`: one holder, whose row is the row;
looks are older or the same; rows and events are counted together.

### Only model-checked

Liveness (`LeasesEnd`, `PrimaryResolves`, `EverybodyGetsThrough`), which needs
`ENABLED` and fairness. The four violations.

## 6. What is left

Contracts: several deliveries or disputes of one contract, and digests that
differ. Gateway: BYOK connectors, which reserve and charge nothing.

Not modelled: organizations, messaging and the directory, which have tables and
triggers but no service code in `src/`; the ports, adapters, HTTP server, logging,
metrics and readiness checks, which keep no state; lock-order deadlocks inside
PostgreSQL (it aborts one transaction, which the worker treats as a failed tick);
back-off times; validation, formatting and I/O.
