# Verification of generations, Cells and money in Yleum

TLA+ specifications of the parts of Yleum (`src/apps/...`) where processes, transactions and
external effects interleave: how one user turn of a project is accepted, executed, stopped,
published and ended; how the Cell it runs in is operated through a queue and a controller;
what it costs; and how the account pays. The reference is the code; every definition carries
a line range in `PROJECT.json` ("map").

Paths below are relative to `src/apps/api/src/yleum_api/` unless they start with `src/`.

## 1. Inventory

| Part | State it keeps | Operations | What is hard about it |
|---|---|---|---|
| **Generation runs** `services/generation_runs.py`, `services/generation/{acceptance,supervisor,lifecycle,completion_release,lightweight_turns}.py`, `workers/generation.py`, `routers/messages.py` | run row (status, backend, claim, `agent_state`), assistant row, session advisory lock, Redis cancellation key | accept, dispatch, stop, claim, execute, finalize, resume a release, fail an orphan, recover after a restart | Four kinds of actors write one row in separate transactions; locks die without their holders; completion must wait for a physical release |
| **Project Cell lease** `services/project_cell_executor.py`, `services/project_cell_capacity.py` | `project_cell_workspaces.generation_run_id`, fence, release operation | acquire, wait for capacity, promote, release, reclaim | the effect and its receipt are in different transactions and different processes |
| **Candidate publication** `services/generation/agent_publication.py` | snapshot, message, product outcome | publish, record a product failure | may run in a body whose run is already over |
| **Cell operation queue** `services/project_cells.py`, `services/project_cell_lifecycle.py`, `services/project_cell_activity.py` | operations with fences, digests, `next_attempt_at`; activity leases | reserve, claim, complete, fail, park, mark indeterminate, reconcile, replay | unknown outcomes, retries with the same envelope, stale fences |
| **Unit credits** `services/generation_credits.py`, `services/generation_credit_admin.py` | grants, holds, allocations, adjustments | reserve, settle, grant, adjust, reverse | concurrent settlement, expiry while held, exhausted grants |
| **Rouble billing** `services/generation_billing.py`, `services/billing_cycle.py` | terminal intent, debit, refund | admit a policy, record a candidate, seal, settle, reconcile | exactly one monetary outcome across crashes |
| **Payments and subscriptions** `routers/payments.py`, `services/payment_submission.py`, `services/payment_state.py`, `services/subscription_lifecycle.py` | payments, subscriptions | submit, confirm by webhook or poll, renew, expire | duplicated and late notifications |
| **LLM gateway** `src/apps/llm-gateway` | provider attempts, receipts, usage rows, room of the bucket, retained responses | admit, grant, post, record, close, charge, store, read back, clean up | a paid call whose answer is lost, a commit nobody confirmed |
| **Orchestrator** `src/apps/orchestrator` | Docker resources, command receipts, admission | ensure, control, observe | idempotent effects under host failure |
| **Recovery contract** `services/generation/recovery_*.py` | a second execution journal in `agent_state` | pause, resume, adapt | replay of model and tool effects |
| Agent runner, web, landing, infrastructure | | | I/O, user interface, deployment |

How the parts interact in a turn: the API process reserves a run (`reserve_generation_run`),
binds messages to it, and either spawns a task for a text turn or commits a durable dispatch.
Generation workers scan for dispatches, take the run's advisory lock, commit the claim
(`execution_started_at`), then run the body: lease the Cell, wait for capacity, be promoted,
build, publish a snapshot. Cleanup releases the Cell through the controller, and only then
is the run completed. Stop sets a Redis key and `cancel_requested`; a monitor in the worker
reads the row as well. Whatever a dead worker leaves is found by the maintenance scan; what
a dead API leaves is failed at its next start.

The properties that make each part correct, in the order of the plan:

* runs: one active run per project; a body is begun at most once; completion only over a
  published build, after the release; failures are not cancellations; Stop is never undone;
  every delivered turn ends;
* Cell: a working run holds the lease; the lease is returned; an unknown release effect is
  never taken for a known one;
* operation queue: one operation per workspace in flight, an answer is applied only to the
  fence that asked, an indeterminate operation ends by evidence only;
* credits and billing: a hold is settled once, grants are never overspent, each run has one
  monetary outcome, a reversal is applied once;
* gateway: a request pays the provider once whatever is resent, an answer is served only when
  it is accounted for, no object exists without room.

## 2. Plan

| Order | Module | State |
|---|---|---|
| 1 | `GenerationRuns` - runs, workers, API, lease and release | done |
| 1 | `ProjectTurns` - the abstract promise to the owner, implemented by 1 | done |
| 1 | `GenerationRunsProofs` - typing, single flight, at-most-once, completion, refinement, who asked for a Stop | done |
| 1 | `GenerationRunsCellProofs` - who holds the Cell and who completed | done |
| 2 | `CellOperations` - the fenced operation queue of the API and the journal of the controller, with HTTP between them | done |
| 2 | `CellOperationsProofs` - typing, a stored receipt is true | done |
| 2 | `CellLeaseProofs` - the Cell is held for the leased run and given back by its release; a failed release had no effect | done |
| 3 | `GenerationUnits` - grants, holds, the sealed bill in units or roubles, its debit | done |
| 3 | `FiniteSums` - the laws of sums over finite sets, for the proofs of 3 and 5 | done |
| 3 | `GenerationUnitsProofs` - who pays, a first build once, a bill is final; typing, no grant overspent, exact prices | done |
| 4 | `Payments` - orders, the provider, the subscription and its renewal | done |
| 4 | `PaymentsProofs` - typing, one charge per order, grants are paid, exactly one plan; for an account alone in its passes: paid months and periods charged once | done |
| 5 | `ProviderAttempts` - the gateway's attempts, receipts and retained responses | done |
| 5 | `ProviderAttemptsProofs` - one payment per request, answers whole and accounted for; typing, room of the bucket | done |
| 6 | `DispatchSelection` - `select_host_runs_to_start` against a reference definition, and the rotation of slots over scans | later |

How the modules meet. `GenerationRuns` uses the Cell as a lease and one release operation with
an outcome; `CellOperations` opens that up and knows of a run only whether it is new, active or
ended. `GenerationUnits` knows of a run only its status and what it published. `Payments`
delivers what `GenerationUnits` calls a purchase, a period or a top-up. `ProviderAttempts` is
one request of a body in `GenerationRuns` and knows of the run whether it is over. No module
composes two of them: each interface is a handful of states, and a product would hide the races
inside each part, which are what the properties are about.

## 3. `GenerationRuns`

One project, a set `Run` of turns, a set `Worker` of worker processes, one API process.

| Variable | Code |
|---|---|
| `status`, `backend`, `mode`, `started` | columns of `generation_runs` (`"none"`: no row yet) |
| `productFailed`, `relMark` | `agent_state.product_outcome`, `agent_state.completion_release_v1` |
| `overdue` | the run was ended by the deadline: the monitor's only reason to cancel the body of a failed run |
| `message`, `snapshot` | assistant row (`tokens_out` set = `"final"`), its committed snapshot |
| `lease`, `relOp` | `project_cell_workspaces.generation_run_id`; the run's release operation |
| `kept` | history: finished runs whose lease a reclaim has left in place |
| `owner` | session advisory lock of the run (`_lock_key`) |
| `pc`, `why`, `handle` | the coroutine of a worker for a run: its place, how its body ends, whether cleanup has a Cell to release |
| `textPc`, `request`, `apiUp` | API process: text task, accepting request, serving |
| `signal` | Redis cancellation key |
| `userStop`, `attempts`, `faults` | history and the fault bound |

An action is one transaction, or one step between two awaits. Where the code reads in one
transaction and writes in a later one, these are two actions: `SettleError`/`SetRunFailed`
(`_run_tracked_prompt`), `HandleBodyError`/`MarkRunFailed`/`MarkMessageFailed`
(`_process_prompt`), `FailOrphan`/`Emergency`, the two transactions of the release
(`ControllerAnswers`, `ConfirmRelease`), acceptance (`Reserve`, `PersistMessages`,
`DispatchText`/`DispatchBuild`).

* **Acceptance and Stop** (`Reserve` ... `StopRunning`). `Reserve` includes the lazy
  completion of the previous run. The partial unique index of the table is *not* modelled:
  the handlers alone must keep `SingleFlight`, and do.
* **Text turns** (`TextStart` ... `TextEmergency`): the tracker of the API process.
* **Admission** (`TakeLock` ... `Emergency`): `execute_dispatch` under the advisory lock.
* **Body** (`AcquireLease` ... `Deadline`): what the model calls, tools and files do is
  abstracted to the choice of ending: published, published without files, a recorded
  product failure, an exception.
* **Interruption** (`SignalStops`, `MonitorStops`, `OwnershipLossNoticed`): by Redis, by the
  row, by the lost lock connection, each at an await of the body. Between the loss and its
  notice the body goes on as a zombie.
* **Release** (`StartRelease` ... `ReclaimKeepsLease`). `relOp` is `"denied"` when readers
  could not be inventoried, `"interrupted"` when its executor died, `"unknown"` after a
  transport error, `"failed"` after a confirmed rejection. Only the first two are replayed.
  The lease of a finished run is reclaimed (`ReclaimStaleLease`) or left (`ReclaimKeepsLease`):
  what is observed partial or degraded keeps it, because `_clear_observed_terminal_lease` wants
  ready resources or none, and a requester gives up after three refused releases
  (`services/project_cell_capacity.py:880`).
* **Settling** (`SettleDone` ... `ResumeInterrupted`): the tracker's outcome, and the
  release-only continuation.
* **Faults**: a worker dies, a lock connection dies, the API dies and restarts, a request
  or a body raises, a release fails, a capacity claim is lost; all counted by `faults`.

Abstractions a reader should know:

* the reservation of a release operation and its claim are one step; a release still
  pending when its executor dies is resumed like a denied one;
* an attempt to reclaim a stale lease is one step that succeeds or leaves the lease: its
  observation, its retries (three per requester, with a cooldown) and its own release
  operation belong to `CellOperations`;
* a retained release needs a ready preview; the model lets it be ready or not;
* history `attempts` counts begun bodies, `kept` the reclaims that failed; no action reads them;
* Redis keys do not expire (their lifetime exceeds the run's).

Not modelled: runs under the recovery contract and the restoration adaptation
(`has_recovery_state`), builds executed by the API (`USE_GENERATION_WORKER` off), the orderly
shutdown of a worker, project deletion.

`ProjectTurns` is what the owner sees: a turn is absent, active, stopping, or over with one
outcome; at most one is open; a stopping turn never completes; outcomes are final. The
refinement maps `pending`, `queued_for_capacity` and `running` to `active`.

## 4. `CellOperations`

One Cell (workspace), its queue in the API's database, HTTP, and the controller of the host.

| Variable | Code |
|---|---|
| `op`, `wsFence`, `lease` | `project_cell_operations`, `project_cell_workspaces.fencing_epoch` and `.generation_run_id`; operations are numbered as they are reserved |
| `runState` | a generation run as the queue sees it: `"new"`, `"active"`, `"ended"` |
| `callers` | coroutines of the API that await the controller: the claim they made (fence, try), whether it is a replay, the answer once it came |
| `inbox` | requests on their way or waiting for a thread of the controller; a caller may be gone |
| `journal`, `rec` | the controller's durable state of the workspace and its record of each operation (`cell_state.py`) |
| `reserved`, `busy`, `compute` | the host's capacity reservation, the request being served under the workspace lock, the containers that exist |
| `faults` | faults so far, of the kinds in `Failures` |

* **Queue** (`ReserveAdmission`, `ReserveWake`, `Claim`, `Replay`, `Dispatch`, `Interrupt`,
  `CancelWaiting`): `services/project_cells.py`. A claim takes the next fence of the
  workspace; a replay keeps the envelope it was first sent with.
* **Answers** (`Outcome`, `Persist`, `LoseAnswer`, `ConnectionLost`): `project_cell_lifecycle.py`.
  The answer is stored if the row is running, whichever claim asked; a capacity wait parks the
  row; an unknown outcome makes it indeterminate.
* **Recovery** (`ReserveReconcile`, `ReserveRepair`, `ReserveObserve`, `ReserveRelease`,
  `ConfirmRelease`, `ClearObserved`): `project_cell_recovery.py`, `project_cell_capacity.py`.
  The lease of an ended run is cleared by a release receipt above every ensure, or by an
  observation at the current fence that shows nothing running.
* **Controller** (`TakeEnsure` .. `FinishEnsure`, `TakeRelease` .. `FinishRelease`,
  `TakeObserve` .. `FinishObserve`, `ArriveWake`): `docker_cell_resources.py` of the
  orchestrator. A request is admitted or refused under the workspace lock by fence, envelope
  and predecessor (`Allowed`, `SameEnvelope`, `StartupBlocked`), begun in the journal, applied,
  and completed in the journal: three steps between which it may die or fail. `ArriveWake` is
  the part of a wake that reads and marks the journal *before* the lock.
* **Host** (`FailEnsure`, `FailObserve`, `ControllerCrash`, `ContainersDie`,
  `ReleaseIdleReservation`): the faults `effect`, `crash`, `host`, and the housekeeping of
  capacity. A request that fails after it was begun is answered as a failure, which makes the row
  indeterminate, or (`conflict`, in `Breaks`) like a refusal before any effect: a
  `CellIdentityConflict` is answered 409 with `effect_applied: False` wherever it was raised
  (`routers/workspace.py:177` of the orchestrator), and the row is failed. The third place such
  an answer could come from, an observation whose lease changed under it
  (`docker_cell_resources.py:763`), is not reachable: the workspace lock is held.

Faults of the API side: `timeout` (the client gives up while its request is queued or being
served, so the effect comes after the row was written down as indeterminate), `write` (the
answer came and its transaction failed), `takeover` (a running row is claimed by another
dispatcher), `capacity` (the host answers with a wait).

Left out: pause, stop, restore, destroy, hibernation and checkpoints; activity leases and the
owner-preview continuation; other workspaces of the host (their demand for room is the fault
`capacity`); the queue of waiting workspaces and its victims; agent commands inside a Cell.

What the model showed about the code beside findings 2 and 3 of §9: `HeldCellIsGivenBack` holds
when answers are lost on their way into the queue, and does *not* hold under these faults,
which `cell_given_back` therefore leaves out:

1. an ensure is delayed past the reconcile of its run, the controller answered "retained"
   without recording that fence (there was no journal yet), and the ensure is applied after
   the run has ended: the Cell is held and nobody looks again;
2. the controller dies between the begin of a release and `release_generation`: the record is
   indeterminate and a replay of that envelope is refused for ever;
3. the observation or repair of an ended run ends `partial` or `degraded`: the lease stays, as
   `test_project_cell_capacity_recovery_edges.py` expects, until somebody intervenes;
4. releases are refused until every requester has used its three retries
   (`services/project_cell_capacity.py:880`). The model counts releases by `MaxOps` only; in
   `cell_given_back` no run has more than one, so the limit is not met there.

In each of them the Cell is kept, never given to two runs: the safety properties are checked
with all faults on. Under the fault `conflict` that is true only until an ensure that was begun
is written down as failed: `LeaseAgreement` and `ReleaseClearsOwnLease` say so in their
statement (`FailedEnsureHadNoEffect`), because the next run then takes the Cell over without a
release (finding 3).

## 5. `GenerationUnits`

One billing account, its runs and its grants; `services/generation_credits.py`,
`generation_credit_admin.py`, `generation_billing.py`.

| Variable | Code |
|---|---|
| `plan` | the live subscription: its period, whether it is metered, whether it is over |
| `grants`, `debits` | `generation_credit_grants` in order of creation; `generation_credit_adjustments` with their reversals |
| `run` | `generation_runs`: status, project, mode, the policy frozen at admission (`funding`), the candidate in `agent_state` (`published`), the recorded cost of its calls |
| `tx`, `lock` | the long transaction of an admission: what it has read and decided, and the row lock of the account |
| `hold`, `intent` | `generation_credit_reservations` with allocations; `generation_billing_intents` |
| `wallet` | roubles |

Admission is two steps, because it reads the inventory, works and commits much later
(`BeginAdmission`, `Admit`, `AdmissionFails`); every other holder of the account's lock is one
step guarded by `AccountFree`. `terminalize_generation_run_locked` seals the bill in the
transaction that ends the run; `CancelActivation` ends a run *without* a seal, which the tick
(`_settle_terminal_locked`) repairs. `allocate_units` gives a unit of the kind's own bucket, of
the edits, or the price in flexible units taken from the oldest grant first; `Takes` is what
one grant contributes.

Abstractions: a grant is usable by the plan it belongs to (free: on the free plan; period: in
the current, unfinished period; package: always); the project's flag
`generation_initial_accepted` is derived from its history; a failed run costs what a cancelled
one does, so `Endings` has one of them; the mode of a run is chosen when its version is
published; the cost of calls is counted for rouble runs only. Left out: refunds of packages,
the replay of an administrative operation by its id, the refusal of corrupt rows,
`refund_legacy_failed_locked`, the batch of a tick (each run is settled alone).

## 6. `Payments`

One account, its orders, the provider, notifications, and the processes that run the billing
loop; `routers/payments.py`, `routers/billing.py`, `services/payment_submission.py`,
`payment_state.py`, `subscription_lifecycle.py`, `billing_cycle.py`.

| Variable | Code |
|---|---|
| `orders` | `payments`: purpose, status, provider id (`charge`), when the frozen request was saved (`started`), review flag, the period it renews (`due`), how far it pays (`covers`) |
| `subs` | `subscriptions`; row `Free` is the account's free plan |
| `charges` | external: the payments the provider holds, and when it first saw their key (`born`) |
| `hooks` | notifications between their read of the provider and their lock of the order |
| `pass` | where each billing process is, with `clock`, the time it read when it started, and `seen`, the copy of the subscription it selected |
| `now`, `faults` | the clock in `billing_renewal_retry_hours`; lost answers and failed passes |

Every handler ends in one transaction under the order's row lock, so it is one action. What is
*not* one step: a notification of an order not yet bound reads the provider before any lock
(`notify_read`, `notify_apply`); a billing pass selects its subscriptions once and goes through
several transactions (`PassStarts`, `PassSelects`, `renew_subscription`,
`resolve_renewal_payment`, `downgrade_to_free`, `reconcile_pending_payments`) and writes the
copy it holds (`WriteBack`). Time passes while a pass is under way, by up to `Lag` (a bound;
the code has none): the pass judges due dates, grace and the age of a request by the clock it
read when it started (`services/billing_cycle.py:99`), while its requests reach the provider,
and its verdicts the tables, at the present time. `Crowded` says that other accounts are due in
the same pass, so that the first commit has already ended the batch's row locks when this
account's turn comes. `apply_provider_state` is the one place where a verdict changes tables;
`IndexesHold` states the partial unique indexes, and a transaction that breaks one is rolled
back (`Commit`). The provider answers (`Post`) with the payment it knows under the key, or
makes a new one when the key has lapsed.

Abstractions: plans are not told apart (buying while one is active is buying another), the
catalogue price is constant, a saved card is never revoked, one subscription of an account is
due at a time. Left out: purchase offers, the test payment,
refunds (made by hand), e-mails. The status `failed` of an order is never written by the code.

Seen while modelling, too far from any promise of the repository for a violation run:

* a renewal paid after a downgrade, or after another plan was bought, is refused with 409 for
  ever: a charge without a plan, left to review;
* the reconcile button of a renewal whose process died can send its charge after the owner
  was told "no further charges";
* `core/config.py:229-230` speaks of orders "closed as failed"; the code keeps them open for
  review;
* with two processes, a lost answer in one followed by a success in the other leaves a paid
  subscription `past_due` with an old grace date: it is downgraded at the end of the period.

## 7. `ProviderAttempts`

One model request of a run, from the API through the gateway to the provider and back;
`src/apps/llm-gateway/src/yleum_gateway/services/` (`generation_attempts.py`,
`provider_calls.py`, `billing.py`, `text_failover.py`, `generation_response_*.py`), its router
`messages_native.py`, and `services/generation/provider_attempts.py` of the API.

| Variable | Code |
|---|---|
| `attempt` | `generation_provider_attempts`: phase, terminal reason, and the wire that holds the dispatch token |
| `call` | `provider_calls`: status, scope (which provider), and whether its usage row is linked |
| `body`, `budget` | `generation_responses` (state, hold, allocated, used, stored) and the allocated bytes of the bucket |
| `objects` | private objects that exist, of each attempt |
| `wire` | an HTTP request of the API with the gateway task that serves it: its step, what it knows of the outcome, whether it was admitted to storage (`ledger`), whether the accounting is confirmed |
| `sweep` | the body each cleanup loop has claimed |
| `run`, `retention` | whether the run is over; the setting |
| `heard`, `served` | what the API knows: a refusal, a completed answer |
| `posts`, `paid` | history: requests that left for the provider, attempts it may have charged |

A step is one transaction, one object operation or the post itself, because the task
(`run_retained`) can stop between any two of them: `admit_response`,
`reserve_generation_attempt`, `mark_attempt_dispatching`, `_post_llmgw`, `finish_call`,
`close_attempt`, `charge`, then `ReservePart` and `PutPart` for each object, `CompleteBody`,
`ReleaseHold`, `Answer`. A transaction whose commit is not confirmed may or may not have been
applied, and the code goes on as if it had not: it never posts, and it never releases room or a
hold. `GatewayDies` ends every task; nobody takes them over. The API sends the same attempt
again (`prepare_generation_attempt`), a child of a refusal it heard of, or reads a retained
answer (`load_generation_response`, `reconcile_generation_response`). `MayCost` and `Events` are
the provider: it takes no money for a connection that failed, a rate limit or another bare
refusal, nor for an overload when it is the primary one. `Reading` is what the gateway concludes.

Not modelled is the gateway's second native route, `/v1/project-cell/messages`: it names no user
(`messages_native.py:764-766`), so it skips the expense (`:886`) and confirms the accounting all
the same (`:941`). `ServedIsAccounted` would fail on it. Nothing in the repository calls it; the
API posts to `/v1/messages`.

Abstractions: room is counted in units and each object takes one; the free bytes of the disk
are folded into the quota; the age a body must reach before it is deleted is any age; the id of
a child is derived from its parent (`uuid5`), so the parent of `a` is `a - 1`; `heard` survives
a restart of the API, which lets it send more children than it would; the checks of ownership
and of digests always succeed while the run is running.

Seen while modelling: a task that dies between its receipt and its expense leaves a completed
call without usage, which nobody records later, and an answer nobody may read; an admission
whose commit was not confirmed keeps its room for ever; a body still on hold when its run ends
is never deleted. The code says so itself ("fail-closed"), and `ServedIsAccounted` and
`ObjectsAreBudgeted` are the promises that hold in spite of it.

## 8. Runs

Deadlock is not checked in any run: a project whose turns are over rests, a quiet Cell rests,
an account with nothing due rests. `MCGenerationRuns` adds the symmetry sets of the runs of
§3, `MCGenerationUnits` the packages on sale, `MCProviderAttempts` the symmetry of the cleanup
loops.

| Run | Instance | Shows |
|---|---|---|
| `one_turn` | 1 run, 2 workers, three modes, 2 faults, Stop, fairness; 0.19 million states | `TypeOK`, `NeverReplayed`, `CompletedBuildIsPublished`, `SavedBuildNeverFailed`, `NoFabricatedCancel`, `ImplementsTurns`, `DeliveredTurnEnds`, `StopTakesEffect`, `LeaseIsReturned` |
| `two_builds` | 2 builds, 2 workers, 1 fault; 0.7 million states | `SingleFlight`, `CompletedRunIsQuiet`, `WorkingRunHoldsCell`, `OnlyLeaseHolderPublishes` |
| `stop_during_acceptance` | expects a violation of `CancelledRunClosesMessage` | finding 1 |
| `cell_operations` | 2 runs and a wake, 5 operations, 3 tries, any 2 of eight kinds of fault; 0.2 million states | `TypeOK`, `LeaseAgreement`, `ReceiptsAreTrue`, `FailedReleaseHadNoEffect`, `ReleaseClearsOwnLease` |
| `cell_given_back` | 1 run, 8 operations, 4 tries, 3 lost answers or waits, fairness; 1255 states | `HeldCellIsGivenBack` |
| `parked_wake` | expects a violation of `FailedHadNoEffect` | finding 2 |
| `conflict_after_begin` | expects a violation of `FailedEnsureHadNoEffect` | finding 3 |
| `payment_orders` | 1 process, 3 orders (a top-up, or a first payment and renewals), passes of up to one unit of time, 1 fault, fairness; 0.1 million states | `TypeOK`, `OneChargePerOrder`, `PaidThrough`, `PeriodChargedOnce`, `ExactlyOnePlan`, `GrantIsPaid`, `PaidOrderIsSettled`, `GraceIsEnforced` |
| `cancel_during_pass` | expects a violation of `RenewalIsWanted`: other accounts in the pass | finding 5 |
| `two_billing_workers` | expects a violation of `PeriodChargedOnce` with 2 processes | finding 4 |
| `provider_attempts` | 3 attempts, 3 requests, 1 fault, 2 cleanup loops; 2 million states | `TypeOK`, `PaidOnce`, `ServedIsAccounted`, `ObjectsAreBudgeted` |
| `units_and_roubles` | 2 runs on 2 projects, 3 grants, 1 period, 1 debit, fairness; 0.37 million states | `TypeOK`, `NeverOverspent`, `PaidForProvenOnly`, `PriceIsExact`, `InitialPaidOnce`, `BillIsFinal`, `EndedRunKeepsNoUnits`, `AcceptedBuildIsDebited` |

Why the bounds are enough.

*GenerationRuns.* Two workers are what a takeover needs: the old executor and the new one; a
third would have to wait for the same lock. Two faults reach a worker that dies in cleanup and
a successor whose replay is interrupted; the safety properties hold with three as well (0.26
million states with symmetry), and each is proved for any number. Two runs are what
any overlap needs, since a run is compared with another one. `two_builds` has one fault
because a zombie needs exactly one (the lost lock connection) to meet the next run. The
refinement is model-checked for one run and proved for any number (`TurnsAreImplemented`).
`MaxFaults` limits the failures counted in `faults`,
`MaxStops` the runs Stop may be pressed on.

*CellOperations.* Five operations are the first run's ensure, its reconcile or release, a
wake, and the second run's ensure and release; three tries are a first dispatch, a replay and
a claim after a park. Two faults make an answer late and its recovery fail. The live instance
needs more operations, because each lost answer costs one of the queue, and fewer faults.

*Payments.* `KeyLife = Window + Lag` is the tightest case in which passes are short: 3, 2 and
1. A request replayed at the last moment of the window by a pass that read the clock a unit
before reaches the provider at the last moment of its key, and a window one unit longer (the
mutant of `Sendable`) is already too long. Time 3 is a period and the whole grace of its
renewal; three orders are a first payment and two renewals. One fault is enough for every
property, since each is about one lost step; two faults, an answer lost at the checkout and
another one in the replay, gave no error (0.32 million states). Orders of both mixes at once
are independent but for the clock. Other accounts in the pass (`Crowded`) are in the violation
runs only: they make `PaidThrough`, `PeriodChargedOnce` and `RenewalIsWanted` fail in one
process already.

*GenerationUnits.* The price of a first build is 3 and the package has 2 units, so it spans
two packages and leaves a rest; three grants are two packages and the period's, or the free
two and a package. Two runs compete on one project or on two. The larger instances tried
(4 grants; both endings; two debits; up to 3.9 million states) gave no error.

*ProviderAttempts.* Three attempts are a request, a child on the backup provider after an
overload, and a child of that one, which must stay there. Three wires are one for each of
them, or an attempt sent twice or thrice. A quota of 4 with answers of 1 or 3 units after an
admission of 2 makes an answer smaller than its admission, larger than it, and too large for
what another attempt of the request has left. Two cleanup loops can claim one body. Larger
instances gave no error: 2 attempts, 3 wires and 2 faults with both loops (2.3 million states);
3 attempts, 3 wires and 2 faults with one loop (2.7 million states).

**Fairness.** Used only by the runs that check a liveness property.

* `one_turn`: the event loop runs every ready coroutine (`WorkerProgress`, `TextProgress`); the
  dispatcher scans every two seconds (`_run_dispatch_forever`); a body ends, because its
  deadline ends it; the controller answers or the client times out; the API is restarted by its
  supervisor; a stale lease is reclaimed by the scheduled cleanup unless an attempt has left it
  in place (`kept`), after which nothing is assumed: whether it is looked at again depends on
  other requesters or an operator. Hence the exception in `LeaseIsReturned`; what is left to go
  wrong is the release of a dead executor, which bars every reclaim while it runs. Not fair:
  the user, every failure, the Redis signal (`SignalStops`; Stop must work without it) and
  waiting for capacity. `DeliveredTurnEnds` speaks of delivered turns, because a request that
  dies between its commits leaves a pending run nobody will execute, and it excepts
  `StuckRelease`: a completion release whose effect is unknown for other reasons than an
  interrupted executor, or which was rejected, is deliberately not replayed; the run stays
  `running` until Stop.
* `cell_given_back`: the maintenance loops of the worker claim what is reserved, replay what is
  indeterminate, recover ended runs and confirm receipts; a coroutine stores its answer or
  loses its connection; the controller serves what arrives. Not fair: runs, faults, the
  cancellation of a waiting row.
* `payment_orders`: `run_billing_loop` outlives a failing pass and begins another
  (`PassGoesOn`). Nothing is asked of the customer, the provider's decision or
  any notification: the sweep alone must find a paid order.
* `units_and_roubles`: the billing tick comes back to every run it selects. It is strongly fair
  because its step is enabled only while nobody holds the account's row, and Postgres grants a
  row lock to those who wait for it; an admission that has begun commits or fails.

Every property has a mutant: an operator marked "Regression:" next to the definition it
would replace (a dropped check, a stale read, a forgotten candidate of the scan).

## 9. Findings

1. `apply_cancelled_generation_locked` promises to end run and assistant row together
   (`services/generation_runs.py:628`). Stop between the two commits of acceptance cancels
   the run first; `persist_messages` then binds an open assistant row to it. For a build the
   row stays open: a cancelled run is no candidate of any scan.
2. `docs/superpowers/plans/2026-09-01-project-cell-fencing-hardening.md:248` reserves `failed`
   for a rejection before any effect. A wake that took effect, whose answer was lost and whose
   compute died meanwhile is replayed, answered with a capacity wait and parked
   (`services/project_cell_lifecycle.py:140`); its next claim takes a new fence, the controller
   refuses the changed envelope, and the row ends `failed`. For releases the promise holds
   (`FailedReleaseHadNoEffect`).
3. The same promise is broken for an ensure that was begun and then meets a resource that is
   not its own. The controller marks its record indeterminate
   (`docker_cell_resources.py:912-921`), but the route answers every `CellIdentityConflict` as
   a rejection before any effect (`routers/workspace.py:177`, `:2066`), so the API writes
   `failed` (`services/project_cell_lifecycle.py:148`). The take-over of a lease trusts that
   (`services/project_cell_executor.py:995-1003`): the next run may be given the Cell while the
   controller holds it for the last one. It takes a container that is not what the controller
   now expects (its image, environment or limits). The safety properties of the Cell hold up to
   that moment, and say so.
4. `core/config.py:223` says of the billing cycle in two processes "Running both is safe (row
   locks + unique pending renewal), only noisier." The commit after the first account of a
   batch ends the row locks of all of them, and the copies loaded with the batch are used
   without another read (`services/subscription_lifecycle.py:573`): two passes that begin
   together order and charge one renewal each, under different attempt numbers, when the
   first has succeeded before the second comes to the account. The cause is the batch, not the
   second process: one process and the reconcile button, pressed on a renewal that a failed pass
   left behind, charge twice as well (`Payments` with one worker and `Crowded`), and two
   processes do not when the account is alone in its passes (`AloneChargesOnce`).
5. `docs/plans/2026-09-23-phase3-commerce.md:29` says that after renewal is cancelled no charge
   follows, and `docs/qa/2026-10-23-billing-audit.md:44` that nothing is renewed without consent.
   For the reason of finding 4 a pass that settles other accounts first does not notice a
   cancellation that is committed meanwhile: it tests the copy of the row it loaded at its start
   (`services/subscription_lifecycle.py:579`) and charges the card (`cancel_during_pass`). One
   process suffices.

Two more disagreements have no run of their own:

* `services/generation/acceptance.py:273-274` says a replayed request cannot observe the run
  before the assistant id is committed. The run row is committed at line 161, the id at
  line 681. The replay is answered with a conflict, so the effect is a wrong comment and a
  spurious 409; after an exception between the commits the 409 lasts until Stop or a restart.
* `docs/qa/2026-10-23-billing-audit.md:43` says no request is sent again 23 h 59 min after it was
  saved. Its age is compared with the time the billing tick began
  (`services/payment_submission.py:134`, `services/billing_cycle.py:99`), while the request is
  sent after everything that comes before it in the tick. A tick that comes to it more than a
  minute late, at the very edge of the window, can send it when the provider has forgotten its
  key: a second payment of one order (TLC finds it in `Payments` with `Lag = 2`,
  a top-up and one lost answer). It is rare: the order must have been open and
  unbound for a day, and renewals are retried every twelve hours. The second payment of a
  redirect order is not paid by itself; that of a saved card is. With passes shorter than the
  minute there is none (`NoSecondCharge`).

## 10. Proofs

`GenerationRunsProofs` proves, for every set of runs and workers, every subset of the modes
and every bound (assumptions `NullsAreNotValues`, `KnownModes`, `FaultBound`, all in
`GenerationRuns`, evaluated by each run):

| Theorem | States | Argument |
|---|---|---|
| `TypeCorrect` | `Spec => []TypeOK` | `TypeOK` is inductive; one lemma per shared transaction (`EndingType`, `ReturnType`, `StatusType`, ...), one case per action |
| `OneActiveRun` | `Spec => []SingleFlight` | inductive together with `TypeOK`. `StatusStep` shows that every step moves statuses by `StatusMoves`: either no run becomes active, or `Reserve` makes one active while it ends the only other one |
| `BodyBegunOnce` | `Spec => []NeverReplayed` | strengthened by `ClaimCounts`: the number of begun bodies is 1 if the claim `started` is committed and 0 otherwise. `NeverReplayed` alone is not inductive: it does not say that a started run may not be admitted |
| `CompletionIsPublished` | `Spec => []CompletedBuildIsPublished` | strengthened by `AcceptedInOrder` (the mode is bound before any path can complete the run) and stated as `Sound`, that no completed run has a completion error: no later step takes the snapshot back, records a failure on a terminal run or rebinds the mode |
| `TurnsAreImplemented` | `Spec => ImplementsTurns` | step simulation: the initial state maps to the abstract one, and by `StatusStep` each step is an abstract step or a stutter; uses `SingleFlight` for `Accept` |
| `CancelIsAsked` | `Spec => []NoFabricatedCancel` | `StopsAreAsked`: a stopping status and a set signal were asked for, a body that ends as cancelled was stopped or is overdue, and an overdue run is decided, so that its cancelled body cancels nothing. All but seven actions are `Calm` |

The proofs rest on `StatusStep` and `RowStep`, which say for every action what may happen to
the status and to the row of a run; the theorems then never look at the actions again.

`GenerationRunsCellProofs` proves the other safety properties of `GenerationRuns`, from the
same assumptions:

| Theorem | States | Argument |
|---|---|---|
| `CellIsHeld` | `Spec => []WorkingRunHoldsCell` | `HInv`, below: `Holds` gives the lease to a body that has passed `AcquireLease`, and a lease is cleared only by the cleanup of that body, by a resumed release, which has a retained intent and hence no body beside it (`Resumes`, `Retained`), or when the run is over |
| `CompletedIsQuiet` | `Spec => []CompletedRunIsQuiet` | `HInv`: the tracker completes after its own, only body (`OneBody`); the lazy completion of `Reserve` finds a final message and no lease, which `Holds` excludes for a body at work |
| `SavedNeverFailed` | `Spec => []SavedBuildNeverFailed` | `HInv`: with a retained intent the build is complete and no coroutine stands where it fails a run (`Retained`); an API restart fails its own runs only (`OwnRuns`) |
| `HolderPublishes` | `Spec => OnlyLeaseHolderPublishes` | by `RowStep` only `Publish` writes a snapshot; `MayPublish` excludes a decided run, and `Holds` gives the lease |

`HInv` is `TypeOK`, `AcceptedInOrder` and, for each run, `RunInv`: one body and only once, what a
retained intent and a resumed release presuppose, which runs are the API's own, when the message
may be final, and who has the lease. None of the four properties is inductive alone: that a
resumed release never meets a body needs that an intent is retained only after the body, that the
lazy completion never meets one needs the order of lease and message. A step has to show
`RowMoved` or `CoroutineMoved` of its own run and `Alike` of every other (`RowKeeps`,
`CoroutineKeeps`, `AlikeKeeps`).

`CellOperationsProofs` proves, for any number of runs, operations, dispatches and failures
(assumptions `NoRunIsNoRun`, `OperationBounds`, `KnownFailures`, `WakesIsBoolean` of
`CellOperations`):

| Theorem | States | Argument |
|---|---|---|
| `TypeCorrect` | `Spec => []TypeOK` | inductive; the actions of the controller are typed through the moves they are reduced to |
| `ReceiptsHold` | `Spec => []ReceiptsAreTrue` | `IInv`, below. `ReceiptsAreTrue` alone says nothing of the answers that are still on their way, nor that a completed record is not begun once more |

The actions of the API are reduced to six `Writes` of its queue (`ApiWrites`), those of the
controller to six `Moves` of its journal (`ControllerMoves`). `IInv` says what each party knows
of a row: the queue, that at most one operation is active and fences follow the order of
reservation (`Queued`, `Ordered`); a waiting coroutine, that its fence is the row's and a
positive answer of it is true, while a refusal of it may have come after a begin (`Awaits`); a
request on its way, that an ensure or an observation was sent once and is not begun yet
(`OnItsWay`); the controller, that it records what it has begun at the fence of the row, the
last at that of the journal (`Recorded`, `JournalLast`, `Served`). A completed release or wake
is not begun again because its fence would have to be both that of the record and not below the
journal's (`BegunAgain`). `IInv` also proves that an observation that found no lease and
nothing open stays true until something else is begun (`Calm`).

`CellLeaseProofs` goes on from `IInv`, which knows rows but not runs, under the same assumptions.
All three theorems hold until an ensure that was begun is written down as failed
(`FailedEnsureHadNoEffect`; finding 3 shows that it happens); `FailedStays` proves that such a row
stays, so the invariants below may be assumed as long as there is none (`LentUnlessFailed`,
`FirmUnlessFailed`):

| Theorem | States | Argument |
|---|---|---|
| `CellIsLeased` | `Spec => []LeaseAgreement` | `LInv`, below. `LeaseAgreement` alone does not exclude a request that will hold the Cell for an earlier run once it is served |
| `OwnReleaseOnly` | `Spec => ReleaseClearsOwnLease` | `LInv`: what is served as a release is of the run the journal shows (`OwnRelease`) |
| `FailedReleaseIsDead` | `Spec => [](FailedEnsureHadNoEffect => FailedReleaseHadNoEffect)` | `FInv`, below. A release is sent again while it is unknown, so it has to be shown that the controller refuses every later request of it |

`LInv` is `IInv` with `Orderly` and `Lent`. `Orderly` is about the queue: the leased run owns
every operation since its first (`Together`), nothing of a run is ensured after its release
(`ReleaseLast`), and a run that is still active is released only when its chain ended in a
completed ensure (`ReleaseSettled`, which excludes a repair behind the release). `Lent` is
about the journal: an ensure that may still be begun, and the last operation if it may still
renew a lease, are of the leased run (`Coming`, `LastIsOurs`); a completed release with no
ensure above its fence leaves the Cell free (`Freed`). The three places where the lease changes
then follow. Admission takes it from a run whose ensures were refused, so that none was or will
be begun (`LentAdmitted`). A confirmed receipt is above the fence of every ensure there is
(`LentConfirmed`). An observation that clears the lease is the last thing that was begun
(`LentObserved`).

`FInv` adds `Watched` and `Firm`. `Watched` says that a run is observed only when it has ended,
after a release or after a reconcile above all its ensures. `Firm` says that a release whose first
request was refused is `Dead`: not begun, and its fence is passed, or nobody holds the Cell, or
the journal waits for an observation, which will be above it. A `Dead` release would come back to
life if an operation reserved before it, still on its way, gave the Cell to its run. That is
what `Behind` excludes: when a release is reserved, what is on its way of its run is below the
journal's fence, or nothing of the run was begun (`ReleasedBehind`). It rests on what the recovery
of a run waits for: the tail of its chain is completed and was begun (`TailIsBegun`), and an
observation that was answered without a record found nothing begun (`Unseen`).

`GenerationUnitsProofs` proves, for any number of runs, projects, grants and plans, any prices
and any wallet (assumptions `UnitPrices` and `UnitBounds` of `GenerationUnits`):

| Theorem | States | Argument |
|---|---|---|
| `ProvenIsPaid` | `Spec => []PaidForProvenOnly` | strengthened by `Bill`: a hold is decided only by the transaction that seals the bill, and a run that ended with its bill unsealed was cancelled, so the tick, which settles those, never consumes. Without that clause the tick could consume for a run of which the invariant knows nothing |
| `FirstBuildPaidOnce` | `Spec => []InitialPaidOnce` | by `FirstOnly`, a request that asks for a first build or holds one finds no version of its project and no first build paid; it stays true because no second run of the project works beside it (`SingleRun`) |
| `SealedIsFinal` | `Spec => BillIsFinal` | `BillKept` of every step: `Bill` says a sealed run is terminal, and no action settles a terminal run twice |
| `UnitsTypes` | `Spec => []TypeOK` | from `LInv`, below. Typing is not inductive alone: what is left of a grant is a natural number only as long as the grant is not overspent |
| `NeverOverspentAlways` | `Spec => []NeverOverspent` | `LInv`: `Solvent`, and for the run whose admission is open `Promised`, that the grants, with those it will add, still cover what it has been promised |
| `PriceAlwaysExact` | `Spec => []PriceIsExact` | `LInv`: `Prices` of the holds and, in `Promised`, of what an open admission has decided; neither changes when grants are added |

For the first three, `MoveKeeps` says once what one run may do while the others are left alone
(`MovesOn`), and each action shows it. How units are allocated over grants stays opaque
(`Shape`): the three properties hold whatever the inventory answers.

The other three are about the ledger. `LInv` is `IInv` with `Types`, `Locked` (one admission at
a time has the account), `Solvent`, `Promised` and `Prices`. What is spent of a grant is
rewritten as two sums over all runs and all debits, in which what does not count is zero
(`Taken`, `Debited`); a step changes one summand (`TakenChange`, `DebitedMore`, `DebitedLess`) or
lengthens the stock (`LongerStock`), and `LedgerCalm`, `LedgerGrows` and `LedgerFree` say what it
then has to show. That the promise of an admission is still covered when it commits rests
on the row lock: whoever debits, sells or settles meanwhile finds `AccountFree` false. That the
flexible units of a first build add up to its price is proved of the takes themselves: taken up
to the n-th grant they are the need or all that was available, whichever is less, by induction
over n.

`FiniteSums` is what those proofs and the last ones below need of `MapThenSumSet`: that its
recursion has a solution, which does not depend on the set it is taken for (`SumBelow`), that a
sum is a number (`SumIsNat`), how it changes with one element (`SumWith`, `SumWithout`,
`SumChanged`), and that elements that give nothing may be left out (`SumFiltered`). Its
inductions are over sets of numbers (`Counting`): a set that holds 0 and with each number the
next holds them all.

`PaymentsProofs` proves, for any number of processes, plans, orders, notifications and faults,
any durations and any clock (assumptions `Durations` and `PaymentBounds` of `Payments`):

| Theorem | States | Argument |
|---|---|---|
| `TypeCorrect` | `Spec => []TypeOK` | inductive; it includes that a pass past its order creation has an order to go on with |
| `NoSecondCharge` | `PassesAreShort /\ Spec => []OneChargePerOrder` | strengthened by `KeysKnown`: the payments of an order that is not bound yet are no older than its saved request. Whoever sends that request judged it by a reading of the clock at most `Lag` old (`Timely`) and found it inside the window, so with short passes the provider still knows its key. The hypothesis is needed, and nothing in the code enforces it (§9) |
| `SuccessIsPaid` | `Spec => []GrantIsPaid` | from `Linked`, below |
| `AlwaysOnePlan` | `Spec => []ExactlyOnePlan` | at most one by the unique index in `IndexesHold`; at least one because no transaction may end the live plan without opening another (`Good`) |
| `AloneKeepsMonths` | `~Crowded /\ Spec => []PaidThrough` | `AloneInv`, below |
| `AloneChargesOnce` | `PassesAreShort /\ ~Crowded /\ Spec => []PeriodChargedOnce` | `DueOnce`: of two renewals that begin at one time one has a payment the provider has closed, and a closed payment never succeeds; short passes give one payment per renewal |

Every handler ends in one transaction, so the lemmas say once what a transaction may leave
behind (`Good`: typed tables; orders only kept, placed, or bound to a payment of their own; a
plan live only through a first payment that succeeded; the account never without a plan), and
`NextMoves` shows that every action but the clock is such a `Moves`. `Linked` (`ChargeLinks`,
`BoundLinks`, `HookLinks`, `PassLinks`, `PaidLinks`, `PlanLinks`) is inductive together with
`TypeOK`: a payment names the order it was made for, a notification a payment, a pass the
subscription and the order it works on. `GrantIsPaid` alone is not inductive, since the
verdict is applied from what a notification or a pass remembers of earlier states.

The last two theorems have the hypothesis `~Crowded`: no other account comes before this
one in its passes. For such an account the promise of `core/config.py:223` is kept by any
number of processes; without the hypothesis both fail, and so does `RenewalIsWanted`
(findings 4 and 5). `AloneMove` says what a transaction may
then do: it keeps the period of a renewal and what a success covers (`Steady`), orders a
renewal only when every earlier one of the plan is `Decided`, that is paid or closed by the
provider (`OrdersWanted`), and moves the end of a plan only by its first payment or by one month
for one renewal that succeeds (`Pays`). `AloneInv` is inductive under it. A plan has run to
where each of its renewals begins, and a month on if that is paid (`Dues`), so a new renewal
can repeat the period of a closed one only (`DueOnce`). The hard part is the copy of the
plan a pass adds a month to after its renewal has been sent, when it holds no lock any more
(`Copies`): as long as that renewal is undecided, the copy has the end of the row, because
every other renewal of the plan is decided and none can be ordered (`StaysGood`). Whoever
else settles the renewal, another process, the button or a notification, decides it, and the
pass then has nothing to add.

`ProviderAttemptsProofs` proves, for any number of attempts, wires, cleanup loops and faults,
any quota and any sizes (assumptions `Room` and `RequestBounds` of `ProviderAttempts`):

| Theorem | States | Argument |
|---|---|---|
| `NothingPaidTwice` | `Spec => []PaidOnce` | `IInv`: only the wire that spent the attempt's token posts, receives and closes (`Granted`), and nothing was posted before it did (`Unspent`, `Posted`); what may have cost money is never read as a refusal (`ReadRight`), so a refused attempt cost nothing (`RefusalIsFree`); an attempt exists only after the refusals of all its ancestors (`Chained`). `PaidOnce` alone does not exclude a second wire that is about to post |
| `AnswersAreAccounted` | `Spec => []ServedIsAccounted` | `JInv`, which is `IInv` with `Accounts` (a hold is released and an answer given only with confirmed accounting, and what a task says of its outcome agrees with the rows) and `Storage` (one task writes a body, one part at a time, so its objects and its count of parts differ by at most the part in flight). `Kept` says what no step takes back: confirmed accounting, a refusal, a settled completion. `ServedIsAccounted` alone says nothing of the tasks that will answer next |
| `RequestTypes` | `Spec => []TypeOK` | from `KInv`, which is `JInv` with `Budgeted` and the types `JInv` does not speak of |
| `RoomIsBudgeted` | `Spec => []ObjectsAreBudgeted` | `Budgeted`: the allocated bytes of the bucket are the sum of what the bodies were given, so that giving back what one body had never takes them below zero; a body has no more objects than it has counted and counted no more than it was given. That a part is counted before it is written, and the cleanup returns the room after the last object, comes from `Storage` |

`IInv` needs only the rows and the wires: a step that neither writes an attempt nor posts is
`Quiet` and keeps it. For `JInv` the lemmas `AccountsStep`, `StorageCalm`, `StorageWrite` and
`StorageSweep` say once what a step has to show of what it changes, and each action shows it.

Only model-checked: the liveness properties (`DeliveredTurnEnds`, `StopTakesEffect`,
`LeaseIsReturned`, `HeldCellIsGivenBack`, `PaidOrderIsSettled`, `GraceIsEnforced`,
`EndedRunKeepsNoUnits`, `AcceptedBuildIsDebited`), which need fairness and ENABLED and are
outside what TLAPS decides. Every safety property of a passing run is a theorem, those of the
Cell's lease and of releases up to a begun ensure that is written down as failed,
`OneChargePerOrder` and `PeriodChargedOnce` for short passes, `PaidThrough` and
`PeriodChargedOnce` for an account alone in its passes.

## 11. Not modelled

The map covers the logic in which several actors write one piece of durable state. Most of the
repository's 240 000 lines are something else: the web and landing front ends, the generators
and prompts of the agent runtime, tools and file access inside a Cell, Docker, backup and
deployment scripts. Their difficulty is in data and input/output, not in an order of steps a
model checker could explore. Beyond these:

| Part | Why not |
|---|---|
| Gateway: the SSE chat path, receipts that share a provider request id, unit guards, price resolution | the same attempt and ledger behind a stream; the rest is arithmetic on one row |
| Recovery contract (`recovery_*.py`), restoration adaptation, `max_finalization.py` | a second execution protocol with a journal of its own; excluded from the modelled paths by `has_recovery_state`. The deadline of `max_finalization.py` is in `GenerationRuns` |
| Code restoration engine, checkpoints, deletion of a project | operations of the orchestrator on files; they take the same workspace lock and fences as those in `CellOperations` |
| Host capacity queue and hibernation | several workspaces of a host; here a capacity wait is a fault |
| Dispatch slots of the worker | `DispatchSelection` of the plan; the hazard is listed without a property |
| Usage charges made before the billing policies, purchase offers, refunds | historical or manual |

## 12. Files

* `GenerationRuns.tla`, `ProjectTurns.tla`, `CellOperations.tla`, `GenerationUnits.tla`,
  `Payments.tla`, `ProviderAttempts.tla` - the specifications
* `GenerationRunsProofs.tla`, `GenerationRunsCellProofs.tla`, `CellOperationsProofs.tla`,
  `CellLeaseProofs.tla`, `GenerationUnitsProofs.tla`, `PaymentsProofs.tla`,
  `ProviderAttemptsProofs.tla`, `FiniteSums.tla` - theorems and proofs
* `MCGenerationRuns.tla`, `MCGenerationUnits.tla`, `MCProviderAttempts.tla`, `*.cfg` - model
  checking
* `PROJECT.json` - components, runs, mutants, map to the source, findings, hazards, theorems

Run `tlc -config GenerationRuns_one.cfg MCGenerationRuns.tla` and `tlapm PaymentsProofs.tla`.
