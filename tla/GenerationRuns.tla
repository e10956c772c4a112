--------------------------- MODULE GenerationRuns ---------------------------
(***************************************************************************)
(* The durable lifecycle of one project's generation runs.                 *)
(*                                                                         *)
(* A request is accepted by the API process, a build or edit turn is then   *)
(* executed by one of several generation workers while a text turn is       *)
(* executed by the API process itself.  The run row, its assistant message, *)
(* the Project Cell lease and the release operation live in PostgreSQL; the *)
(* executor's ownership is a session advisory lock; Stop travels through    *)
(* Redis and through the row.  Processes crash, lose their lock connection  *)
(* and race with each other; every action below is one transaction or one   *)
(* local step of the code, so the interleavings are those of the program.   *)
(*                                                                         *)
(* Rows are functions on Run.  The state of one executor coroutine is the   *)
(* pair (pc, why): where it stands, and how the body it runs is ending.     *)
(***************************************************************************)
EXTENDS Naturals, FiniteSets

CONSTANTS Run,        \* the turns a user may submit to the project
          Worker,     \* the generation-worker processes
          TurnModes,  \* the response modes a turn may be given
          NoRun,      \* workspace.generation_run_id IS NULL
          NoWorker,   \* nobody holds the executor advisory lock
          MaxFaults,  \* bound: crashes, lost connections and claims, exceptions, failed releases
          MaxStops    \* bound: runs the owner may press Stop on

ASSUME NullsAreNotValues == NoRun \notin Run /\ NoWorker \notin Worker
ASSUME KnownModes == TurnModes \subseteq {"build", "edit", "clarify"}
ASSUME FaultBound == MaxFaults \in Nat /\ MaxStops \in Nat

VARIABLES
  status,         \* generation_runs.status, "none" before the row exists
  backend,        \* generation_runs.execution_backend; "worker" with a durable dispatch
  mode,           \* generation_runs.response_mode
  message,        \* assistant row: "none", "open" (tokens_out NULL), "final"
  snapshot,       \* the assistant row points at a committed snapshot
  productFailed,  \* agent_state.product_outcome.status = "failed"
  started,        \* generation_runs.execution_started_at IS NOT NULL
  overdue,        \* the run failed with "generation deadline exceeded"
  relMark,        \* agent_state.completion_release_v1 is present
  relOp,          \* the run's "release" row in project_cell_operations
  lease,          \* project_cell_workspaces.generation_run_id
  kept,           \* history: finished runs whose lease a reclaim has left in place
  owner,          \* holder of the run's executor advisory lock
  pc, why,        \* executor coroutine of a worker, for a run
  handle,         \* bodies that passed admission: cleanup releases the Cell
  textPc,         \* the API process's task of a text turn
  request,        \* the HTTP request that is accepting the run
  signal,         \* the Redis cancellation key of the run
  apiUp,          \* the API process is serving
  userStop,       \* history: the owner pressed Stop on this run
  attempts,       \* history: how often a body of the run was begun
  faults          \* failures so far

rowVars  == <<backend, mode, snapshot, productFailed, started, overdue>>
cellVars == <<relMark, relOp, lease, kept>>
execVars == <<owner, pc, why, handle, attempts>>
apiVars  == <<textPc, request, apiUp>>
stopVars == <<signal, userStop>>
vars == <<status, message, rowVars, cellVars, execVars, apiVars, stopVars, faults>>

-----------------------------------------------------------------------------
\* Sets of statuses (generation_runs.py:25-31).

ActiveStatuses      == {"pending", "queued_for_capacity", "running", "cancel_requested"}
InterruptedStatuses == {"pending", "running", "cancel_requested"}
TerminalStatuses    == {"completed", "failed", "cancelled"}
Statuses            == {"none"} \cup ActiveStatuses \cup TerminalStatuses

Active(r)   == status[r] \in ActiveStatuses
Terminal(r) == status[r] \in TerminalStatuses

\* Where the executor coroutine of a run stands.
BodyPcs   == {"preparing", "waiting", "building", "concluding", "published",
              "failing", "marking", "marked"}
CleanPcs  == {"releasing", "confirming"}
ExecPcs   == {"idle", "owned", "orphan", "resuming", "settling", "erroring", "emergency"}
                \cup BodyPcs \cup CleanPcs
Endings   == {"none", "done", "error", "cancel", "lost", "handoff", "resume"}
ReleaseOpStatuses == {"none", "running", "completed", "failed",
                      "interrupted", "denied", "unknown"}
TextPcs   == {"idle", "spawned", "drafting", "written", "erroring", "emergency"}

TypeOK ==
  /\ status \in [Run -> Statuses]
  /\ backend \in [Run -> {"api", "worker"}]
  /\ mode \in [Run -> {"none", "build", "edit", "clarify"}]
  /\ message \in [Run -> {"none", "open", "final"}]
  /\ snapshot \in [Run -> BOOLEAN]
  /\ productFailed \in [Run -> BOOLEAN]
  /\ started \in [Run -> BOOLEAN]
  /\ overdue \in [Run -> BOOLEAN]
  /\ relMark \in [Run -> BOOLEAN]
  /\ relOp \in [Run -> ReleaseOpStatuses]
  /\ lease \in Run \cup {NoRun}
  /\ kept \subseteq Run
  /\ owner \in [Run -> Worker \cup {NoWorker}]
  /\ pc \in [Worker -> [Run -> ExecPcs]]
  /\ why \in [Worker -> [Run -> Endings]]
  /\ handle \subseteq Worker \X Run
  /\ textPc \in [Run -> TextPcs]
  /\ request \in [Run -> {"none", "accepting", "persisted"}]
  /\ signal \in [Run -> BOOLEAN]
  /\ apiUp \in BOOLEAN
  /\ userStop \in [Run -> BOOLEAN]
  /\ attempts \in [Run -> Nat]
  /\ faults \in 0..MaxFaults

Init ==
  /\ status = [r \in Run |-> "none"]
  /\ backend = [r \in Run |-> "api"]
  /\ mode = [r \in Run |-> "none"]
  /\ message = [r \in Run |-> "none"]
  /\ snapshot = [r \in Run |-> FALSE]
  /\ productFailed = [r \in Run |-> FALSE]
  /\ started = [r \in Run |-> FALSE]
  /\ overdue = [r \in Run |-> FALSE]
  /\ relMark = [r \in Run |-> FALSE]
  /\ relOp = [r \in Run |-> "none"]
  /\ lease = NoRun
  /\ kept = {}
  /\ owner = [r \in Run |-> NoWorker]
  /\ pc = [w \in Worker |-> [r \in Run |-> "idle"]]
  /\ why = [w \in Worker |-> [r \in Run |-> "none"]]
  /\ handle = {}
  /\ textPc = [r \in Run |-> "idle"]
  /\ request = [r \in Run |-> "none"]
  /\ signal = [r \in Run |-> FALSE]
  /\ apiUp = TRUE
  /\ userStop = [r \in Run |-> FALSE]
  /\ attempts = [r \in Run |-> 0]
  /\ faults = 0

-----------------------------------------------------------------------------
\* Transactions shared by several callers.

\* Regression: a recorded product failure is forgotten by completion.
CompletionErrorBySnapshotOnly(r) == mode[r] = "build" /\ ~snapshot[r]

\* A finished build without its snapshot, or with a recorded product failure,
\* is not a completion.
CompletionError(r) == productFailed[r] \/ (mode[r] = "build" /\ ~snapshot[r])

\* Regression: the lease itself is not looked at, only the retained intent.
ReleasePendingByIntentOnly(r) == relMark[r] /\ relOp[r] # "completed"

\* A held lease, or a retained release intent without its physical receipt.
ReleasePending(r) ==
  \/ lease = r
  \/ relMark[r] /\ (lease # NoRun \/ relOp[r] # "completed")

\* Every failure of the environment is counted, so that the instances stay finite.
Fault == faults < MaxFaults /\ faults' = faults + 1

SetStatus(r, s) == status' = [status EXCEPT ![r] = s]

CloseMessage(r) == message' = [message EXCEPT ![r] = IF @ = "open" THEN "final" ELSE @]

ApplyCancelled(r) == SetStatus(r, "cancelled") /\ CloseMessage(r)

\* set_generation_run_status(run, "failed"): a missing or terminal run is left alone.
SetFailed(r) == IF Active(r) THEN SetStatus(r, "failed") ELSE UNCHANGED status

\* _finalize_cancelled_generation: cancels whatever is still active.
FinalizeCancelled(r) ==
  IF Active(r) THEN ApplyCancelled(r) ELSE UNCHANGED <<status, message>>

\* Regression: completion overwrites a Stop that was accepted meanwhile.
FinalizeOverStop(r) ==
  \/ Terminal(r) /\ UNCHANGED <<status, message>>
  \/ /\ Active(r)
     /\ \/ CompletionError(r) /\ SetStatus(r, "failed")
        \/ ~CompletionError(r) /\ ~ReleasePending(r) /\ SetStatus(r, "completed")
        \/ ~CompletionError(r) /\ ReleasePending(r) /\ UNCHANGED status
     /\ UNCHANGED message

\* finalize_generation_run; the last disjunct is GenerationReleasePending.
Finalize(r) ==
  \/ Terminal(r) /\ UNCHANGED <<status, message>>
  \/ status[r] = "cancel_requested" /\ ApplyCancelled(r)
  \/ /\ Active(r) /\ status[r] # "cancel_requested"
     /\ \/ CompletionError(r) /\ SetStatus(r, "failed")
        \/ ~CompletionError(r) /\ ~ReleasePending(r) /\ SetStatus(r, "completed")
        \/ ~CompletionError(r) /\ ReleasePending(r) /\ UNCHANGED status
     /\ UNCHANGED message

\* Regression: an abandoned release, whose effect may exist, is cancelled as only
\* a never dispatched one may be.
AbandonAsCancelled(r) == relOp' = [relOp EXCEPT ![r] = IF @ = "running" THEN "cancelled" ELSE @]

\* _abandon_operations: what a dead executor left running.
Abandon(r) == relOp' = [relOp EXCEPT ![r] = IF @ = "running" THEN "interrupted" ELSE @]

-----------------------------------------------------------------------------
\* Acceptance: the POST handler of the API process.

\* reserve_generation_run, up to the first commit of accept().  An active run
\* whose message is final and whose Cell is released is closed on the way; any
\* other active run is a conflict.
Closable(r) == status[r] # "cancel_requested" /\ message[r] = "final" /\ ~ReleasePending(r)

Reserve(r) ==
  /\ apiUp /\ status[r] = "none"
  /\ \/ /\ \A q \in Run : ~Active(q)
        /\ SetStatus(r, "pending")
     \/ \E q \in Run :
          /\ Active(q) /\ Closable(q)
          /\ status' = [status EXCEPT ![q] = IF CompletionError(q) THEN "failed" ELSE "completed",
                                      ![r] = "pending"]
  /\ request' = [request EXCEPT ![r] = "accepting"]
  /\ UNCHANGED <<message, rowVars, cellVars, execVars, textPc, apiUp, stopVars, faults>>

\* persist_messages: binds an open assistant row to the run, whatever its status.
PersistMessages(r) ==
  /\ request[r] = "accepting"
  /\ message' = [message EXCEPT ![r] = "open"]
  /\ \E m \in TurnModes : mode' = [mode EXCEPT ![r] = m]
  /\ request' = [request EXCEPT ![r] = "persisted"]
  /\ UNCHANGED <<status, backend, snapshot, productFailed, started, overdue,
                 cellVars, execVars, textPc, apiUp, stopVars, faults>>

\* dispatch: a text turn becomes a task of this process, any other turn is
\* committed as a durable dispatch for the generation workers.
DispatchText(r) ==
  /\ request[r] = "persisted" /\ mode[r] = "clarify"
  /\ textPc' = [textPc EXCEPT ![r] = "spawned"]
  /\ request' = [request EXCEPT ![r] = "none"]
  /\ UNCHANGED <<status, message, rowVars, cellVars, execVars, apiUp, stopVars, faults>>

DispatchBuild(r) ==
  /\ request[r] = "persisted" /\ mode[r] # "clarify"
  /\ backend' = [backend EXCEPT ![r] = "worker"]
  /\ request' = [request EXCEPT ![r] = "none"]
  /\ UNCHANGED <<status, message, mode, snapshot, productFailed, started, overdue,
                 cellVars, execVars, textPc, apiUp, stopVars, faults>>

\* An exception after the first commit ends the request; the row stays.
RequestDies(r) ==
  /\ request[r] # "none" /\ Fault
  /\ request' = [request EXCEPT ![r] = "none"]
  /\ UNCHANGED <<status, message, rowVars, cellVars, execVars, textPc, apiUp, stopVars>>

-----------------------------------------------------------------------------
\* Stop (cancel_active_generation).

MayPressStop(r) == userStop[r] \/ Cardinality({q \in Run : userStop[q]}) < MaxStops

StopUnstarted(r) ==
  /\ apiUp /\ MayPressStop(r) /\ status[r] \in {"pending", "queued_for_capacity"}
  /\ ApplyCancelled(r)
  /\ userStop' = [userStop EXCEPT ![r] = TRUE]
  /\ UNCHANGED <<rowVars, cellVars, execVars, apiVars, signal, faults>>

\* The Redis key is set first; the second disjunct is a lost commit.
StopRunning(r) ==
  /\ apiUp /\ MayPressStop(r) /\ status[r] = "running"
  /\ signal' = [signal EXCEPT ![r] = TRUE]
  /\ SetStatus(r, "cancel_requested") \/ UNCHANGED status
  /\ userStop' = [userStop EXCEPT ![r] = TRUE]
  /\ UNCHANGED <<message, rowVars, cellVars, execVars, apiVars, faults>>

-----------------------------------------------------------------------------
\* A text turn, tracked by the API process (_run_tracked_prompt, no token).

ClearSignal(r) == signal' = [signal EXCEPT ![r] = FALSE]

TextStep(r, from, to) ==
  /\ textPc[r] = from
  /\ textPc' = [textPc EXCEPT ![r] = to]
  /\ UNCHANGED <<rowVars, cellVars, execVars, request, apiUp, userStop>>

TextStart(r) ==
  /\ TextStep(r, "spawned", "drafting")
  /\ IF status[r] = "pending" THEN SetStatus(r, "running") ELSE UNCHANGED status
  /\ UNCHANGED <<message, signal, faults>>

TextWrite(r) ==
  /\ TextStep(r, "drafting", "written")
  /\ message' = [message EXCEPT ![r] = "final"]
  /\ UNCHANGED <<status, signal, faults>>

TextFinish(r) ==
  TextStep(r, "written", "idle") /\ Finalize(r) /\ ClearSignal(r) /\ UNCHANGED faults

TextCancel(r) ==
  /\ signal[r]
  /\ \/ TextStep(r, "drafting", "idle")
     \/ TextStep(r, "written", "idle")
  /\ FinalizeCancelled(r) /\ ClearSignal(r) /\ UNCHANGED faults

\* recovery_failure_outcome reads the status; failing it is a later step.
TextFail(r) ==
  /\ Fault
  /\ \/ /\ status[r] \in {"cancel_requested", "cancelled"}
        /\ TextStep(r, "drafting", "idle")
        /\ FinalizeCancelled(r) /\ ClearSignal(r)
     \/ /\ status[r] \notin {"cancel_requested", "cancelled"}
        /\ TextStep(r, "drafting", "erroring")
        /\ UNCHANGED <<status, message, signal>>

TextSetFailed(r) ==
  TextStep(r, "erroring", "emergency") /\ SetFailed(r) /\ UNCHANGED <<message, signal, faults>>

TextEmergency(r) ==
  /\ TextStep(r, "emergency", "idle")
  /\ CloseMessage(r) /\ ClearSignal(r) /\ UNCHANGED <<status, faults>>

-----------------------------------------------------------------------------
\* execute_dispatch: ownership and admission.

\* The scan's two candidate queries.
Unstarted(r) ==
  backend[r] = "worker" /\ Active(r) /\ status[r] # "cancel_requested" /\ ~started[r]

\* Regression: claimed runs without an executor are not scanned for.
MaintenanceWithoutOrphans(r) ==
  /\ backend[r] = "worker" \/ relMark[r]
  /\ \/ status[r] = "cancel_requested"
     \/ status[r] = "running" /\ relMark[r]
     \/ ~Active(r) /\ relOp[r] = "running"

\* Regression: a requested Stop is left to the Redis signal alone.
MaintenanceWithoutStops(r) ==
  /\ backend[r] = "worker" \/ relMark[r]
  /\ \/ status[r] = "running" /\ relMark[r]
     \/ Active(r) /\ started[r] /\ ~relMark[r]
     \/ ~Active(r) /\ relOp[r] = "running"

\* Regression: what a dead executor left running under a terminal run is not scanned for.
MaintenanceWithoutLeftovers(r) ==
  /\ backend[r] = "worker" \/ relMark[r]
  /\ \/ status[r] = "cancel_requested"
     \/ status[r] = "running" /\ relMark[r]
     \/ Active(r) /\ started[r] /\ ~relMark[r]

Maintenance(r) ==
  /\ backend[r] = "worker" \/ relMark[r]
  /\ \/ status[r] = "cancel_requested"
     \/ status[r] = "running" /\ relMark[r]
     \/ Active(r) /\ started[r] /\ ~relMark[r]
     \/ ~Active(r) /\ relOp[r] = "running"

\* One step of the coroutine of worker w for run r.
Step(w, r, from, to) ==
  /\ pc[w][r] = from
  /\ pc' = [pc EXCEPT ![w][r] = to]

\* Return from execute_dispatch: its finally clause unlocks.
Return(w, r, from) ==
  /\ Step(w, r, from, "idle")
  /\ why' = [why EXCEPT ![w][r] = "none"]
  /\ owner' = [owner EXCEPT ![r] = IF @ = w THEN NoWorker ELSE @]
  /\ handle' = handle \ {<<w, r>>}

TakeLock(w, r) ==
  /\ Unstarted(r) \/ Maintenance(r)
  /\ owner[r] = NoWorker
  /\ Step(w, r, "idle", "owned")
  /\ owner' = [owner EXCEPT ![r] = w]
  /\ UNCHANGED <<status, message, rowVars, cellVars, why, handle, attempts, apiVars,
                 stopVars, faults>>

\* Nothing to execute: leftovers of a terminal run are marked, a requested
\* Stop is applied.
AdmitNothing(w, r) ==
  /\ Return(w, r, "owned")
  /\ \/ ~Active(r) /\ Abandon(r) /\ UNCHANGED <<status, message>>
     \/ status[r] = "cancel_requested" /\ ApplyCancelled(r) /\ UNCHANGED relOp
  /\ UNCHANGED <<rowVars, relMark, lease, kept, attempts, apiVars, stopVars, faults>>

MayContinue(r) == Active(r) /\ status[r] # "cancel_requested"

\* A retained release intent is resumed, an interrupted body becomes an orphan.
AdmitLeftover(w, r) ==
  /\ MayContinue(r)
  /\ \/ relMark[r] /\ Step(w, r, "owned", "resuming")
     \/ ~relMark[r] /\ started[r] /\ Step(w, r, "owned", "orphan")
  /\ UNCHANGED <<status, message, rowVars, cellVars, owner, why, handle, attempts, apiVars,
                 stopVars, faults>>

\* Regression: the claim is written but not read, a claimed run is started over.
AdmitBodyAgain(w, r) ==
  /\ MayContinue(r) /\ ~relMark[r]
  /\ Step(w, r, "owned", "preparing")
  /\ started' = [started EXCEPT ![r] = TRUE]
  /\ attempts' = [attempts EXCEPT ![r] = @ + 1]
  /\ UNCHANGED <<status, message, backend, mode, snapshot, productFailed, overdue,
                 cellVars, owner, why, handle, apiVars, stopVars, faults>>

\* The body begins: execution_started_at is committed under the row lock.
AdmitBody(w, r) ==
  /\ MayContinue(r) /\ ~relMark[r] /\ ~started[r]
  /\ Step(w, r, "owned", "preparing")
  /\ started' = [started EXCEPT ![r] = TRUE]
  /\ attempts' = [attempts EXCEPT ![r] = @ + 1]
  /\ UNCHANGED <<status, message, backend, mode, snapshot, productFailed, overdue,
                 cellVars, owner, why, handle, apiVars, stopVars, faults>>

\* Regression: every orphan is failed, a saved build with its release intent too.
FailOrphanAlways(w, r) ==
  /\ \/ /\ Terminal(r)
        /\ Return(w, r, "orphan") /\ UNCHANGED <<status, message, relOp>>
     \/ /\ status[r] = "cancel_requested"
        /\ Return(w, r, "orphan") /\ ApplyCancelled(r) /\ Abandon(r)
     \/ /\ MayContinue(r)
        /\ Step(w, r, "orphan", "emergency") /\ SetStatus(r, "failed") /\ Abandon(r)
        /\ UNCHANGED <<message, why, owner, handle>>
  /\ UNCHANGED <<rowVars, relMark, lease, kept, attempts, apiVars, stopVars, faults>>

\* _fail_orphan: a requested Stop wins, a release intent is preserved.
FailOrphan(w, r) ==
  /\ \/ /\ Terminal(r) \/ (status[r] # "cancel_requested" /\ relMark[r])
        /\ Return(w, r, "orphan") /\ UNCHANGED <<status, message, relOp>>
     \/ /\ status[r] = "cancel_requested"
        /\ Return(w, r, "orphan") /\ ApplyCancelled(r) /\ Abandon(r)
     \/ /\ MayContinue(r) /\ ~relMark[r]
        /\ Step(w, r, "orphan", "emergency") /\ SetStatus(r, "failed") /\ Abandon(r)
        /\ UNCHANGED <<message, why, owner, handle>>
  /\ UNCHANGED <<rowVars, relMark, lease, kept, attempts, apiVars, stopVars, faults>>

\* _emergency_error: the message is closed in a transaction of its own.
Emergency(w, r) ==
  /\ Return(w, r, "emergency")
  /\ CloseMessage(r)
  /\ IF why[w][r] = "error" THEN ClearSignal(r) ELSE UNCHANGED signal
  /\ UNCHANGED <<status, rowVars, cellVars, attempts, apiVars, userStop, faults>>

-----------------------------------------------------------------------------
\* The body (_process_prompt), run by the worker that admitted it.

\* Leave the body: cleanup releases the Cell if admission had happened.
EndBody(w, r, from, ending) ==
  /\ Step(w, r, from, IF <<w, r>> \in handle THEN "releasing" ELSE "settling")
  /\ why' = [why EXCEPT ![w][r] = ending]

\* maybe_create_project_cell_executor: a non-terminal run takes the free lease.
AcquireLease(w, r) ==
  /\ MayContinue(r) /\ lease \in {NoRun, r}
  /\ Step(w, r, "preparing", "waiting")
  /\ lease' = r
  /\ UNCHANGED <<status, message, rowVars, relMark, relOp, kept, owner, why, handle, attempts,
                 apiVars, stopVars, faults>>

QueueForCapacity(w, r) ==
  /\ MayContinue(r) /\ pc[w][r] = "waiting"
  /\ SetStatus(r, "queued_for_capacity")
  /\ UNCHANGED <<message, rowVars, cellVars, execVars, apiVars, stopVars, faults>>

\* The tracker lost its capacity claim: the body is cancelled, nothing settled.
LoseCapacityClaim(w, r) ==
  /\ status[r] = "queued_for_capacity" /\ Fault
  /\ Return(w, r, "waiting") /\ ClearSignal(r)
  /\ UNCHANGED <<status, message, rowVars, cellVars, attempts, apiVars, userStop>>

\* Regression: promotion trusts the status read before the wait for capacity.
PromoteUnchecked(w, r) ==
  /\ Step(w, r, "waiting", "building")
  /\ SetStatus(r, "running")
  /\ handle' = handle \cup {<<w, r>>}
  /\ UNCHANGED <<message, rowVars, cellVars, owner, why, attempts, apiVars, stopVars, faults>>

\* promote_generation_after_admission.
Promote(w, r) ==
  /\ MayContinue(r)
  /\ Step(w, r, "waiting", "building")
  /\ SetStatus(r, "running")
  /\ handle' = handle \cup {<<w, r>>}
  /\ UNCHANGED <<message, rowVars, cellVars, owner, why, attempts, apiVars, stopVars, faults>>

\* Promotion refused to a cancelled run: its lease is released before raising.
\* (Any other refusal raises and leaves the lease: BodyRefused.)
RefuseAdmission(w, r) ==
  /\ status[r] \in {"cancel_requested", "cancelled"}
  /\ Step(w, r, "waiting", "releasing")
  /\ why' = [why EXCEPT ![w][r] = "error"]
  /\ UNCHANGED <<status, message, rowVars, cellVars, owner, handle, attempts, apiVars,
                 stopVars, faults>>

RecordProductFailure(w, r) ==
  /\ Step(w, r, "building", "concluding")
  /\ productFailed' = [productFailed EXCEPT ![r] = @ \/ ~Terminal(r)]
  /\ UNCHANGED <<status, message, backend, mode, snapshot, started, overdue,
                 cellVars, owner, why, handle, attempts, apiVars, stopVars, faults>>

\* Regression: a candidate is recorded for a run that is already over.
MayPublishLate(r) == status[r] # "cancel_requested"

\* publish_agent_candidate with files: the snapshot transaction, which
\* record_accepted_candidate refuses once the run may not publish.
MayPublish(r) == status[r] \in {"pending", "running", "queued_for_capacity"}

Publish(w, r) ==
  /\ MayPublish(r)
  /\ Step(w, r, "building", "published") \/ Step(w, r, "concluding", "published")
  /\ snapshot' = [snapshot EXCEPT ![r] = TRUE]
  /\ message' = [message EXCEPT ![r] = "final"]
  /\ UNCHANGED <<status, backend, mode, productFailed, started, overdue,
                 cellVars, owner, why, handle, attempts, apiVars, stopVars, faults>>

\* publish_agent_candidate without files: the message alone.
PublishNothing(w, r) ==
  /\ Step(w, r, "building", "published") \/ Step(w, r, "concluding", "published")
  /\ message' = [message EXCEPT ![r] = "final"]
  /\ UNCHANGED <<status, rowVars, cellVars, owner, why, handle, attempts, apiVars,
                 stopVars, faults>>

BodyReturns(w, r) ==
  /\ EndBody(w, r, "published", "done")
  /\ UNCHANGED <<status, message, rowVars, cellVars, owner, handle, attempts, apiVars,
                 stopVars, faults>>

\* Any await of the body may raise.
BodyRaises(w, r) ==
  /\ Fault
  /\ \E from \in {"preparing", "waiting", "building", "concluding", "published"} :
       Step(w, r, from, "failing")
  /\ UNCHANGED <<status, message, rowVars, cellVars, owner, why, handle, attempts, apiVars,
                 stopVars>>

\* A run that may not continue is refused the lease, admission and publication.
BodyRefused(w, r) ==
  /\ ~MayContinue(r)
  /\ \E from \in {"preparing", "waiting", "building", "concluding"} : Step(w, r, from, "failing")
  /\ UNCHANGED <<status, message, rowVars, cellVars, owner, why, handle, attempts, apiVars,
                 stopVars, faults>>

\* The handler of _process_prompt: a cancelled run re-raises; otherwise the run
\* is failed, then the message is closed, in two transactions.
HandleBodyError(w, r) ==
  /\ IF status[r] \in {"cancel_requested", "cancelled"} \/ relMark[r]
     THEN EndBody(w, r, "failing", "error")
     ELSE Step(w, r, "failing", "marking") /\ UNCHANGED why
  /\ UNCHANGED <<status, message, rowVars, cellVars, owner, handle, attempts, apiVars,
                 stopVars, faults>>

MarkRunFailed(w, r) ==
  /\ Step(w, r, "marking", "marked") /\ SetFailed(r)
  /\ UNCHANGED <<message, rowVars, cellVars, owner, why, handle, attempts, apiVars,
                 stopVars, faults>>

MarkMessageFailed(w, r) ==
  /\ EndBody(w, r, "marked", "done") /\ CloseMessage(r)
  /\ UNCHANGED <<status, rowVars, cellVars, owner, handle, attempts, apiVars, stopVars, faults>>

\* watch_generation_deadline, alive between admission and cleanup; it does not
\* touch the message.
Deadline(w, r) ==
  /\ pc[w][r] \in {"building", "concluding", "published"} /\ Active(r)
  /\ SetStatus(r, IF status[r] = "cancel_requested" THEN "cancelled" ELSE "failed")
  /\ overdue' = [overdue EXCEPT ![r] = TRUE]
  /\ UNCHANGED <<message, backend, mode, snapshot, productFailed, started,
                 cellVars, execVars, apiVars, stopVars, faults>>

-----------------------------------------------------------------------------
\* Interruption of a running body: by Redis, by the ownership monitor's read of
\* the row, or by the loss of the lock connection.

\* A body is cancelled at its await; a release already under way is finished.
Interrupt(w, r, ending) ==
  /\ why[w][r] \notin {"cancel", "lost", "resume"}
  /\ why' = [why EXCEPT ![w][r] = ending]
  /\ \/ pc[w][r] \in BodyPcs
        /\ pc' = [pc EXCEPT ![w][r] = IF <<w, r>> \in handle THEN "releasing" ELSE "settling"]
     \/ pc[w][r] \in CleanPcs /\ UNCHANGED pc
     \/ pc[w][r] = "settling" /\ ending = "lost" /\ UNCHANGED pc
  /\ UNCHANGED <<status, message, rowVars, cellVars, owner, handle, attempts, apiVars,
                 stopVars, faults>>

SignalStops(w, r) == signal[r] /\ Interrupt(w, r, "cancel")

MonitorStops(w, r) ==
  /\ owner[r] = w
  /\ \/ status[r] \in {"cancel_requested", "cancelled"}
     \/ status[r] = "failed" /\ overdue[r]
  /\ Interrupt(w, r, "cancel")

\* Regression: the monitor ends the body without its OWNERSHIP_LOST reason.
OwnershipLossAsStop(w, r) == owner[r] # w /\ Interrupt(w, r, "cancel")

\* The lost connection is noticed by the next ping, not when it happens.
OwnershipLossNoticed(w, r) == owner[r] # w /\ Interrupt(w, r, "lost")

-----------------------------------------------------------------------------
\* Cleanup: _release_generation_lease and its durable release operation.

\* retain_completion_release: the intent is kept for a finished body only (the
\* preview of the snapshot must also be ready, hence the choice).
MayRetain(w, r) ==
  /\ why[w][r] = "done" /\ status[r] = "running" /\ message[r] = "final"
  /\ snapshot[r] /\ ~CompletionError(r)

ReleaseRaises(w, r) ==
  why' = [why EXCEPT ![w][r] = IF @ = "done" THEN "error" ELSE @]

StartRelease(w, r) ==
  /\ \/ /\ lease = r
        /\ Step(w, r, "releasing", "confirming") /\ UNCHANGED why
        /\ relOp' = [relOp EXCEPT ![r] = IF @ = "none" THEN "running" ELSE @]
        /\ \/ UNCHANGED relMark
           \/ MayRetain(w, r) /\ relMark' = [relMark EXCEPT ![r] = TRUE]
     \/ /\ lease # r
        /\ Step(w, r, "releasing", "settling")
        /\ IF lease = NoRun THEN UNCHANGED why ELSE ReleaseRaises(w, r)
        /\ UNCHANGED <<relOp, relMark>>
  /\ UNCHANGED <<status, message, rowVars, lease, kept, owner, handle, attempts, apiVars,
                 stopVars, faults>>

\* The controller's answer to the operation, persisted only while it is running.
ControllerAnswers(w, r, outcome) ==
  /\ pc[w][r] = "confirming" /\ relOp[r] = "running"
  /\ relOp' = [relOp EXCEPT ![r] = outcome]
  /\ UNCHANGED <<status, message, rowVars, relMark, lease, kept, execVars, apiVars, stopVars>>

ReleaseSucceeds(w, r) == ControllerAnswers(w, r, "completed") /\ UNCHANGED faults

\* Denied for want of readers, unknown (transport), or rejected before any
\* effect; a replay never turns an unknown effect into a rejection.
ReleaseFails(w, r) ==
  /\ Fault
  /\ \/ ControllerAnswers(w, r, "denied")
     \/ ControllerAnswers(w, r, "unknown")
     \/ why[w][r] # "resume" /\ ControllerAnswers(w, r, "failed")

\* The second transaction: the receipt clears the lease it was issued for.
ConfirmRelease(w, r) ==
  /\ relOp[r] = "completed" /\ lease = r
  /\ Step(w, r, "confirming", "settling")
  /\ lease' = NoRun
  /\ UNCHANGED <<status, message, rowVars, relMark, relOp, kept, owner, why, handle, attempts,
                 apiVars, stopVars, faults>>

\* No receipt, or not for the present lease: with a retained intent that is a
\* hand-off (GenerationReleasePending), otherwise an error of the body.
ReleaseUnconfirmed(w, r) ==
  /\ relOp[r] # "running" /\ ~(relOp[r] = "completed" /\ lease = r)
  /\ \/ why[w][r] = "resume" /\ Return(w, r, "confirming")
     \/ /\ why[w][r] # "resume"
        /\ Step(w, r, "confirming", "settling") /\ UNCHANGED <<owner, handle>>
        /\ IF why[w][r] = "done" /\ relMark[r] /\ relOp[r] \in {"interrupted", "denied", "unknown"}
           THEN why' = [why EXCEPT ![w][r] = "handoff"]
           ELSE ReleaseRaises(w, r)
  /\ UNCHANGED <<status, message, rowVars, cellVars, attempts, apiVars, stopVars, faults>>

\* Regression: a run that waits for capacity is taken for a stale one.
ReclaimWaitingLease(r) ==
  /\ lease = r /\ (Terminal(r) \/ status[r] = "queued_for_capacity") /\ relOp[r] # "running"
  /\ lease' = NoRun
  /\ UNCHANGED <<status, message, rowVars, relMark, relOp, kept, execVars, apiVars, stopVars,
                 faults>>

\* claim_stale_generation_lease: a terminal run's lease, never under a running release.
Stale(r) == lease = r /\ Terminal(r) /\ relOp[r] # "running"

\* The reclaim goes through: the controller has released the Cell, or observed
\* that nothing of it is active, and the lease is cleared.
ReclaimStaleLease(r) ==
  /\ Stale(r)
  /\ lease' = NoRun
  /\ UNCHANGED <<status, message, rowVars, relMark, relOp, kept, execVars, apiVars, stopVars,
                 faults>>

\* The reclaim leaves the lease: the resources are observed partial or degraded, or
\* the release was refused and its retries are used up.  Another requester or an
\* operator may free the lease later, but nothing makes sure of it.
ReclaimKeepsLease(r) ==
  /\ Stale(r) /\ Fault
  /\ kept' = kept \cup {r}
  /\ UNCHANGED <<status, message, rowVars, relMark, relOp, lease, execVars, apiVars, stopVars>>

-----------------------------------------------------------------------------
\* The tracker settles the run once the body and its cleanup are over.

SettleDone(w, r) ==
  /\ why[w][r] = "done"
  /\ Return(w, r, "settling") /\ Finalize(r) /\ ClearSignal(r)
  /\ UNCHANGED <<rowVars, cellVars, attempts, apiVars, userStop, faults>>

SettleCancel(w, r) ==
  /\ \/ why[w][r] = "cancel"
     \/ why[w][r] = "error" /\ status[r] \in {"cancel_requested", "cancelled"}
  /\ Return(w, r, "settling") /\ FinalizeCancelled(r) /\ ClearSignal(r)
  /\ UNCHANGED <<rowVars, cellVars, attempts, apiVars, userStop, faults>>

\* The durable intent owns completion: nothing is settled, the signal stays.
SettleHandoff(w, r) ==
  /\ \/ why[w][r] = "handoff"
     \/ why[w][r] = "error" /\ relMark[r] /\ status[r] \notin {"cancel_requested", "cancelled"}
  /\ Return(w, r, "settling")
  /\ UNCHANGED <<status, message, rowVars, cellVars, attempts, apiVars, stopVars, faults>>

\* The error outcome is read here and applied by the next transaction.
SettleError(w, r) ==
  /\ why[w][r] = "error" /\ ~relMark[r] /\ status[r] \notin {"cancel_requested", "cancelled"}
  /\ Step(w, r, "settling", "erroring")
  /\ UNCHANGED <<status, message, rowVars, cellVars, owner, why, handle, attempts, apiVars,
                 stopVars, faults>>

SetRunFailed(w, r) ==
  /\ Step(w, r, "erroring", "emergency") /\ SetFailed(r)
  /\ UNCHANGED <<message, rowVars, cellVars, owner, why, handle, attempts, apiVars,
                 stopVars, faults>>

\* Without its lock the tracker settles nothing; execute_dispatch then treats
\* the run as any other orphan.
SettleLost(w, r) ==
  /\ why[w][r] = "lost"
  /\ Step(w, r, "settling", "orphan") /\ ClearSignal(r)
  /\ UNCHANGED <<status, message, rowVars, cellVars, owner, why, handle, attempts, apiVars,
                 userStop, faults>>

-----------------------------------------------------------------------------
\* resume_completion_release, under a freshly taken executor lock.

\* An interrupted or denied release is replayed with its exact envelope, a
\* completed one is only confirmed.
ResumeRelease(w, r) ==
  /\ owner[r] = w /\ status[r] = "running" /\ lease = r
  /\ relOp[r] \in {"running", "interrupted", "denied", "completed"}
  /\ Step(w, r, "resuming", "confirming")
  /\ why' = [why EXCEPT ![w][r] = "resume"]
  /\ relOp' = [relOp EXCEPT ![r] = IF @ = "completed" THEN @ ELSE "running"]
  /\ UNCHANGED <<status, message, rowVars, relMark, lease, kept, owner, handle, attempts, apiVars,
                 stopVars, faults>>

\* The lease is already gone: only the run is left to finish.
ResumeFinished(w, r) ==
  /\ owner[r] = w /\ status[r] = "running" /\ lease = NoRun
  /\ Step(w, r, "resuming", "settling")
  /\ why' = [why EXCEPT ![w][r] = "resume"]
  /\ UNCHANGED <<status, message, rowVars, cellVars, owner, handle, attempts, apiVars,
                 stopVars, faults>>

\* Every other state of the run, the lease or the operation defers the work.
ResumeDefers(w, r) ==
  /\ \/ owner[r] # w \/ status[r] # "running"
     \/ lease \notin {NoRun, r}
     \/ lease = r /\ relOp[r] \in {"none", "unknown", "failed"}
  /\ Return(w, r, "resuming")
  /\ UNCHANGED <<status, message, rowVars, cellVars, attempts, apiVars, stopVars, faults>>

SettleResumed(w, r) ==
  /\ why[w][r] = "resume"
  /\ IF owner[r] = w THEN Finalize(r) ELSE UNCHANGED <<status, message>>
  /\ Return(w, r, "settling")
  /\ UNCHANGED <<rowVars, cellVars, attempts, apiVars, stopVars, faults>>

\* The monitor cancels a resumed release at its await: the effect in flight is
\* recorded as unknown.
ResumeInterrupted(w, r) ==
  /\ why[w][r] = "resume"
  /\ owner[r] # w \/ status[r] \in {"cancel_requested", "cancelled"}
  /\ \/ pc[w][r] = "confirming"
        /\ relOp' = [relOp EXCEPT ![r] = IF @ = "running" THEN "unknown" ELSE @]
     \/ pc[w][r] = "settling" /\ UNCHANGED relOp
  /\ pc' = [pc EXCEPT ![w][r] = IF owner[r] = w THEN "idle" ELSE "orphan"]
  /\ why' = [why EXCEPT ![w][r] = IF owner[r] = w THEN "none" ELSE "lost"]
  /\ owner' = [owner EXCEPT ![r] = IF @ = w THEN NoWorker ELSE @]
  /\ UNCHANGED <<status, message, rowVars, relMark, lease, kept, handle, attempts, apiVars,
                 stopVars, faults>>

-----------------------------------------------------------------------------
\* Faults.

\* A worker process dies with every coroutine and every lock it holds.
WorkerCrash(w) ==
  /\ Fault /\ \E r \in Run : pc[w][r] # "idle"
  /\ pc' = [pc EXCEPT ![w] = [r \in Run |-> "idle"]]
  /\ why' = [why EXCEPT ![w] = [r \in Run |-> "none"]]
  /\ owner' = [r \in Run |-> IF owner[r] = w THEN NoWorker ELSE owner[r]]
  /\ handle' = handle \ ({w} \X Run)
  /\ UNCHANGED <<status, message, rowVars, cellVars, attempts, apiVars, stopVars>>

\* The lock connection dies: PostgreSQL frees the lock, the coroutine runs on.
LoseOwnership(w, r) ==
  /\ Fault /\ owner[r] = w
  /\ owner' = [owner EXCEPT ![r] = NoWorker]
  /\ UNCHANGED <<status, message, rowVars, cellVars, pc, why, handle, attempts, apiVars, stopVars>>

\* The API process dies: its requests and its text tasks are gone.
ApiStop ==
  /\ apiUp /\ Fault
  /\ apiUp' = FALSE
  /\ request' = [r \in Run |-> "none"]
  /\ textPc' = [r \in Run |-> "idle"]
  /\ UNCHANGED <<status, message, rowVars, cellVars, execVars, stopVars>>

\* Startup fails the runs the API itself was executing
\* (_recover_interrupted_generation_runs), before it serves again.
Interrupted(r) ==
  status[r] \in InterruptedStatuses /\ backend[r] = "api" /\ ~relMark[r]

ApiStart ==
  /\ ~apiUp /\ apiUp' = TRUE
  /\ status' = [r \in Run |-> IF Interrupted(r) THEN "failed" ELSE status[r]]
  /\ message' = [r \in Run |-> IF Interrupted(r) /\ message[r] = "open" THEN "final"
                               ELSE message[r]]
  /\ UNCHANGED <<rowVars, cellVars, execVars, textPc, request, stopVars, faults>>

-----------------------------------------------------------------------------
ApiNext(r) ==
  \/ Reserve(r) \/ PersistMessages(r) \/ DispatchText(r) \/ DispatchBuild(r) \/ RequestDies(r)
  \/ StopUnstarted(r) \/ StopRunning(r)
  \/ TextStart(r) \/ TextWrite(r) \/ TextFinish(r) \/ TextCancel(r)
  \/ TextFail(r) \/ TextSetFailed(r) \/ TextEmergency(r)

AdmissionNext(w, r) ==
  \/ TakeLock(w, r) \/ AdmitNothing(w, r) \/ AdmitLeftover(w, r) \/ AdmitBody(w, r)
  \/ FailOrphan(w, r) \/ Emergency(w, r)

BodyNext(w, r) ==
  \/ AcquireLease(w, r) \/ QueueForCapacity(w, r) \/ LoseCapacityClaim(w, r)
  \/ Promote(w, r) \/ RefuseAdmission(w, r)
  \/ RecordProductFailure(w, r) \/ Publish(w, r) \/ PublishNothing(w, r)
  \/ BodyReturns(w, r) \/ BodyRaises(w, r) \/ BodyRefused(w, r)
  \/ HandleBodyError(w, r) \/ MarkRunFailed(w, r) \/ MarkMessageFailed(w, r)
  \/ Deadline(w, r)
  \/ SignalStops(w, r) \/ MonitorStops(w, r) \/ OwnershipLossNoticed(w, r)

ReleaseNext(w, r) ==
  \/ StartRelease(w, r) \/ ReleaseSucceeds(w, r) \/ ReleaseFails(w, r)
  \/ ConfirmRelease(w, r) \/ ReleaseUnconfirmed(w, r)

SettleNext(w, r) ==
  \/ SettleDone(w, r) \/ SettleCancel(w, r) \/ SettleHandoff(w, r) \/ SettleError(w, r)
  \/ SetRunFailed(w, r) \/ SettleLost(w, r)
  \/ ResumeRelease(w, r) \/ ResumeFinished(w, r) \/ ResumeDefers(w, r)
  \/ SettleResumed(w, r) \/ ResumeInterrupted(w, r)

Reclaim(r) == ReclaimStaleLease(r) \/ ReclaimKeepsLease(r)

FaultNext ==
  \/ ApiStop \/ ApiStart
  \/ \E w \in Worker : WorkerCrash(w)
  \/ \E w \in Worker, r \in Run : LoseOwnership(w, r)

Next ==
  \/ \E r \in Run : ApiNext(r) \/ Reclaim(r)
  \/ \E w \in Worker, r \in Run :
       AdmissionNext(w, r) \/ BodyNext(w, r) \/ ReleaseNext(w, r) \/ SettleNext(w, r)
  \/ FaultNext

Spec == Init /\ [][Next]_vars

-----------------------------------------------------------------------------
\* Fairness.  The scheduler runs every coroutine, the dispatch scan repeats, the
\* body ends (its deadline bounds it), the controller answers, the API is restarted
\* and the scheduled cleanup reclaims a lease it has not left in place before.
\* Users, failures and waiting for capacity are not fair.

WorkerProgress(w, r) ==
  \/ AdmissionNext(w, r)
  \/ AcquireLease(w, r) \/ Promote(w, r) \/ RefuseAdmission(w, r) \/ BodyRefused(w, r)
  \/ Publish(w, r) \/ PublishNothing(w, r) \/ BodyReturns(w, r)
  \/ HandleBodyError(w, r) \/ MarkRunFailed(w, r) \/ MarkMessageFailed(w, r)
  \/ MonitorStops(w, r) \/ OwnershipLossNoticed(w, r)
  \/ StartRelease(w, r) \/ ReleaseSucceeds(w, r)
  \/ ConfirmRelease(w, r) \/ ReleaseUnconfirmed(w, r)
  \/ SettleNext(w, r)

TextProgress(r) ==
  TextStart(r) \/ TextWrite(r) \/ TextFinish(r) \/ TextSetFailed(r) \/ TextEmergency(r)

FairSpec ==
  /\ Spec
  /\ WF_vars(ApiStart)
  /\ \A r \in Run : WF_vars(TextProgress(r)) /\ WF_vars(r \notin kept /\ ReclaimStaleLease(r))
  /\ \A w \in Worker, r \in Run : WF_vars(WorkerProgress(w, r))

-----------------------------------------------------------------------------
\* Properties.

\* One project has one active run, whatever Stop, restarts, lazy completion of
\* the previous run and late tasks do (reserve_generation_run).
SingleFlight == \A p, q \in Run : Active(p) /\ Active(q) => p = q

\* A body is begun at most once: a claimed orphan is failed, never replayed,
\* although locks are lost and several workers scan (workers/generation.py:3-5).
NeverReplayed == \A r \in Run : attempts[r] <= 1

\* A completed run has released the Cell and no coroutine works on its behalf
\* any more (terminalize_generation_run_locked, generation_release_pending).
CompletedRunIsQuiet ==
  \A r \in Run : status[r] = "completed" =>
    lease # r /\ \A w \in Worker : pc[w][r] \notin BodyPcs

\* A build is completed by a committed snapshot and never over a recorded product
\* failure, whoever completes it (finalize_generation_run's contract).
CompletedBuildIsPublished ==
  \A r \in Run : status[r] = "completed" =>
    ~productFailed[r] /\ (mode[r] = "build" => snapshot[r])

\* Once the release intent of a finished build is kept, no orphan handling, API
\* restart or error path fails the run: only Stop may keep it from completing.
SavedBuildNeverFailed == \A r \in Run : relMark[r] => status[r] # "failed"

\* Losing a worker, its lock or the API never reads as a cancellation by the
\* owner (_fail_orphan: "never a fabricated user cancellation").
NoFabricatedCancel == \A r \in Run : status[r] = "cancelled" => userStop[r]

\* While a body works for a run that is not over, that run holds the Cell: no
\* reclaim, resumed release or next run takes the lease from under it
\* (project_cell_capacity.claim_stale_generation_lease and its callers).
WorkingRunHoldsCell ==
  \A w \in Worker, r \in Run :
    pc[w][r] \in {"building", "concluding", "published"} /\ ~Terminal(r) => lease = r

\* A candidate is published by the run that holds the Cell, even when the body
\* has lost its executor lock and the next run is already waiting for the lease.
OnlyLeaseHolderPublishes ==
  [][\A r \in Run : snapshot'[r] # snapshot[r] => lease = r]_vars

\* The run lifecycle implements the abstract turns: a Stop is never undone, a
\* terminal status is final, one turn is open at a time.
Phase(r) ==
  IF status[r] = "none" THEN "absent"
  ELSE IF status[r] = "cancel_requested" THEN "stopping"
  ELSE IF Active(r) THEN "active" ELSE status[r]

Turns == INSTANCE ProjectTurns WITH Turn <- Run, phase <- [r \in Run |-> Phase(r)]
ImplementsTurns == Turns!Spec

\* A release whose effect is unknown or rejected is not replayed: the run waits
\* for Stop.
StuckRelease(r) == relMark[r] /\ relOp[r] \in {"unknown", "failed"}

\* Every delivered turn ends, through crashes, restarts, lost locks and refused
\* publication, unless its completion release is stuck.
DeliveredTurnEnds ==
  \A r \in Run :
    (backend[r] = "worker" \/ textPc[r] # "idle") ~> (Terminal(r) \/ StuckRelease(r))

\* A requested Stop takes effect although the Redis signal may be lost with the
\* coroutine that watched it.
StopTakesEffect == \A r \in Run : status[r] = "cancel_requested" ~> Terminal(r)

\* The lease of a finished run is given back, unless a reclaim has left it in place:
\* the release a dead executor left running, which bars the reclaim, is always found
\* again and abandoned (_maintenance_candidates_query, advance_terminal_generation_cleanup).
LeaseIsReturned ==
  \A r \in Run : lease = r /\ Terminal(r) ~> lease # r \/ r \in kept

\* What apply_cancelled_generation_locked says: the run and its assistant row are
\* terminalized together.
CancelledRunClosesMessage ==
  \A r \in Run : status[r] = "cancelled" => message[r] # "open"
=============================================================================
