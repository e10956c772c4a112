--------------------------- MODULE CellOperations ---------------------------
(***************************************************************************)
(* The fenced operations of one Project Cell.                              *)
(*                                                                         *)
(* The API keeps a durable queue of operations and a workspace row: at most *)
(* one operation of the workspace is active, a claim takes the next fence,  *)
(* and the answer of the controller decides how the row ends.  The          *)
(* controller keeps a journal of the workspace and applies an operation     *)
(* under the workspace lock.  Between them is HTTP: a client may stop       *)
(* waiting while its request is still on its way or being served, so an     *)
(* effect may come after its operation was written down as indeterminate.   *)
(* Recovery observes at a higher fence, repairs, or replays the envelope.   *)
(*                                                                         *)
(* Operations are numbered in the order they are reserved.                  *)
(***************************************************************************)
EXTENDS Naturals, FiniteSets

CONSTANTS Run,        \* generation runs of the project
          NoRun,      \* generation_run_id IS NULL
          MaxOps,     \* bound: operations the workspace ever reserves
          MaxTries,   \* bound: dispatches of one operation
          Failures,   \* the kinds of failure that may happen
          MaxFaults,  \* bound: failures altogether
          Wakes       \* whether the owner may wake the Cell for a preview

ASSUME NoRunIsNoRun == NoRun \notin Run
ASSUME OperationBounds == MaxOps \in Nat /\ MaxTries \in Nat /\ MaxFaults \in Nat
ASSUME KnownFailures == Failures \subseteq {"timeout", "write", "takeover", "crash",
                                            "effect", "conflict", "host", "capacity"}
ASSUME WakesIsBoolean == Wakes \in BOOLEAN

VARIABLES
  op,        \* project_cell_operations rows; kind "none" before the row exists
  wsFence,   \* project_cell_workspaces.fencing_epoch
  lease,     \* project_cell_workspaces.generation_run_id
  runState,  \* "new", "active" or "ended" generation runs
  callers,   \* API coroutines awaiting the controller for an operation
  inbox,     \* requests the controller has not begun to serve
  journal,   \* the controller's state of the workspace
  rec,       \* the controller's record of each operation
  reserved,  \* host capacity reservation of the workspace; op 0 when none
  busy,      \* the request served under the workspace lock; op 0 when none
  compute,   \* what containers really exist: "none", "partial" or "ready"
  faults     \* failures so far

apiVars  == <<op, wsFence, lease, runState>>
ctrlVars == <<journal, rec, reserved, busy, compute>>
vars == <<apiVars, callers, inbox, ctrlVars, faults>>

Ops == 1..MaxOps
NoOp == 0

Kinds    == {"ensure", "release", "reconcile", "status", "wake"}
Statuses == {"none", "pending", "waiting_capacity", "running", "completed",
             "failed", "cancelled", "indeterminate"}
Bundles  == {"none", "running", "ready", "partial", "retained", "degraded", "indeterminate"}

\* What the controller says: the outcome, the bundle, the lease it observed.
NoAnswer == [is |-> "none", state |-> "none", proof |-> FALSE, active |-> NoRun, quiet |-> FALSE]
Answer(is, state) == [NoAnswer EXCEPT !.is = is, !.state = state]
Observed(state, active, quiet) ==
  [is |-> "ok", state |-> state, proof |-> TRUE, active |-> active, quiet |-> quiet]
Rejected == Answer("rejected", "none")
Failure  == Answer("error", "none")

Answers == [is : {"none", "ok", "wait", "rejected", "error"}, state : Bundles,
            proof : BOOLEAN, active : Run \cup {NoRun}, quiet : BOOLEAN]
Requests == [op : Ops, fence : Nat, try : Nat, ready : BOOLEAN]

TypeOK ==
  /\ op \in [Ops -> [kind : Kinds \cup {"none"}, run : Run \cup {NoRun}, target : Ops \cup {NoOp},
                     status : Statuses, fence : Nat, try : Nat, ans : Answers]]
  /\ wsFence \in Nat
  /\ lease \in Run \cup {NoRun}
  /\ runState \in [Run -> {"new", "active", "ended"}]
  /\ callers \subseteq [op : Ops, fence : Nat, try : Nat, replay : BOOLEAN, ans : Answers]
  /\ inbox \subseteq Requests
  /\ journal \in [there : BOOLEAN, fence : Nat, phase : {"completed", "open", "indeterminate"},
                  bundle : Bundles, last : Ops \cup {NoOp},
                  active : Run \cup {NoRun}, activeFence : Nat]
  /\ rec \in [Ops -> [kind : Kinds \cup {"none"}, fence : Nat, run : Run \cup {NoRun},
                      status : {"none", "running", "completed", "indeterminate"}]]
  /\ reserved \in [op : Ops \cup {NoOp}, fence : Nat, confirmed : BOOLEAN]
  /\ busy \in [op : Ops \cup {NoOp}, fence : Nat, try : Nat, was : Bundles, run : Run \cup {NoRun}]
  /\ compute \in {"none", "partial", "ready"}
  /\ faults \in 0..MaxFaults

NoRow == [kind |-> "none", run |-> NoRun, target |-> NoOp, status |-> "none",
          fence |-> 0, try |-> 0, ans |-> NoAnswer]
NoRecord == [kind |-> "none", fence |-> 0, run |-> NoRun, status |-> "none"]
Idle == [op |-> NoOp, fence |-> 0, try |-> 0, was |-> "none", run |-> NoRun]
Unreserved == [op |-> NoOp, fence |-> 0, confirmed |-> FALSE]

Init ==
  /\ op = [o \in Ops |-> NoRow]
  /\ wsFence = 0
  /\ lease = NoRun
  /\ runState = [r \in Run |-> "new"]
  /\ callers = {}
  /\ inbox = {}
  /\ journal = [there |-> FALSE, fence |-> 0, phase |-> "completed", bundle |-> "none",
                last |-> NoOp, active |-> NoRun, activeFence |-> 0]
  /\ rec = [o \in Ops |-> NoRecord]
  /\ reserved = Unreserved
  /\ busy = Idle
  /\ compute = "none"
  /\ faults = 0

Fault(kind) == kind \in Failures /\ faults < MaxFaults /\ faults' = faults + 1

-----------------------------------------------------------------------------
\* The queue, as a transaction of the API reads it.

Active  == {"pending", "waiting_capacity", "running"}
Refused == {"failed", "cancelled"}

NoneActive == \A o \in Ops : op[o].status \notin Active
OpsOf(r, kinds) == {o \in Ops : op[o].run = r /\ op[o].kind \in kinds}
LastOf(S) == IF S = {} THEN NoOp ELSE CHOOSE o \in S : \A x \in S : x <= o
FenceOf(o) == IF o = NoOp THEN 0 ELSE op[o].fence
TopFence(S) == LET F == {FenceOf(o) : o \in S} \cup {0} IN CHOOSE f \in F : \A g \in F : g <= f

\* The tail of a run's ensure/reconcile chain: the highest fence, then the
\* newest; only read when no operation is active.
Tail(r) ==
  LET chain == OpsOf(r, {"ensure", "reconcile"})
      fenced == {o \in chain : op[o].fence > 0}
  IN IF fenced # {} THEN CHOOSE o \in fenced : op[o].fence = TopFence(fenced)
     ELSE LastOf(chain)

Next_ == LastOf({o \in Ops : op[o].kind # "none"}) + 1

\* reserve_cell_operation: one active operation per workspace.
Reserve(kind, r, target) ==
  /\ NoneActive
  /\ Next_ \in Ops
  /\ op' = [op EXCEPT ![Next_] = [NoRow EXCEPT !.kind = kind, !.run = r, !.target = target,
                                               !.status = "pending"]]

StartRun(r) ==
  /\ runState[r] = "new"
  /\ \A p \in Run : runState[p] # "active"
  /\ runState' = [runState EXCEPT ![r] = "active"]
  /\ UNCHANGED <<op, wsFence, lease, callers, inbox, ctrlVars, faults>>

EndRun(r) ==
  /\ runState[r] = "active"
  /\ runState' = [runState EXCEPT ![r] = "ended"]
  /\ UNCHANGED <<op, wsFence, lease, callers, inbox, ctrlVars, faults>>

\* Regression: a new run takes the Cell over as soon as the earlier one ended.
TakeOverAnyEnded(r) ==
  /\ runState[r] = "active"
  /\ lease \notin {NoRun, r} => runState[lease] = "ended"
  /\ OpsOf(r, {"ensure"}) = {}
  /\ Reserve("ensure", r, NoOp)
  /\ lease' = r
  /\ UNCHANGED <<wsFence, runState, callers, inbox, ctrlVars, faults>>

\* Admission of a run: an earlier lease is taken over only if no ensure of its
\* run may have had an effect.
ReserveAdmission(r) ==
  /\ runState[r] = "active"
  /\ lease \notin {NoRun, r} =>
       /\ runState[lease] = "ended"
       /\ \A o \in OpsOf(lease, {"ensure"}) : op[o].status \in Refused
  /\ OpsOf(r, {"ensure"}) = {}
  /\ Reserve("ensure", r, NoOp)
  /\ lease' = r
  /\ UNCHANGED <<wsFence, runState, callers, inbox, ctrlVars, faults>>

\* The owner's preview asks for compute that is not running.
ReserveWake ==
  /\ Wakes
  /\ lease = NoRun
  /\ \A r \in Run : runState[r] # "active"
  /\ journal.there /\ compute = "none"
  /\ LET latest == Next_ - 1
     IN latest # NoOp => ~(op[latest].kind = "wake" /\ op[latest].status = "indeterminate")
  /\ Reserve("wake", NoRun, NoOp)
  /\ UNCHANGED <<wsFence, lease, runState, callers, inbox, ctrlVars, faults>>

Dispatch(o, fence, replay) ==
  LET try == op[o].try + 1
  IN /\ op[o].try < MaxTries
     /\ op' = [op EXCEPT ![o].status = "running", ![o].fence = fence, ![o].try = try]
     /\ callers' = callers \cup {[op |-> o, fence |-> fence, try |-> try,
                                  replay |-> replay, ans |-> NoAnswer]}
     /\ inbox' = inbox \cup {[op |-> o, fence |-> fence, try |-> try,
                              ready |-> op[o].kind # "wake"]}

\* claim_cell_operation_committed, and the call it is claimed for.  A reconcile
\* whose target was resolved meanwhile is failed before it is sent.
Claim(o) ==
  /\ op[o].status \in {"pending", "waiting_capacity"}
  /\ op[o].kind = "wake" =>
       /\ lease = NoRun
       /\ op[o].status = "waiting_capacity" => wsFence = op[o].fence
  /\ wsFence' = wsFence + 1
  /\ IF op[o].kind = "reconcile" /\ op[op[o].target].status # "indeterminate"
     THEN /\ op' = [op EXCEPT ![o].status = "failed", ![o].fence = wsFence', ![o].try = @ + 1]
          /\ UNCHANGED <<callers, inbox>>
     ELSE Dispatch(o, wsFence', FALSE)
  /\ UNCHANGED <<lease, runState, ctrlVars, faults>>

\* Regression: an unknown release is not redriven.
ReplayWakesOnly(o) ==
  /\ op[o].status = "indeterminate" /\ op[o].kind = "wake"
  /\ NoneActive
  /\ lease = NoRun /\ wsFence = op[o].fence
  /\ Dispatch(o, op[o].fence, TRUE)
  /\ UNCHANGED <<wsFence, lease, runState, ctrlVars, faults>>

\* reclaim_indeterminate_cell_operation_committed: the same fence again.  A
\* release is redriven by the cleanup of its run, a wake by the wake queue.
Replay(o) ==
  /\ op[o].status = "indeterminate"
  /\ NoneActive
  /\ \/ /\ op[o].kind = "release"
        /\ lease = op[o].run
        /\ op[o].fence > TopFence({e \in Ops : op[e].kind = "ensure"
                                               /\ op[e].status \notin Refused})
     \/ /\ op[o].kind = "wake"
        /\ lease = NoRun
        /\ wsFence = op[o].fence
  /\ Dispatch(o, op[o].fence, TRUE)
  /\ UNCHANGED <<wsFence, lease, runState, ctrlVars, faults>>

-----------------------------------------------------------------------------
\* How an operation ends.

\* Regression: the refusal of a replayed envelope fails the operation.
FailRefusedReplay(c) ==
  CASE c.ans.is = "ok" -> "completed"
    [] c.ans.is = "wait" -> "waiting_capacity"
    [] c.ans.is = "rejected" -> "failed"
    [] OTHER -> "indeterminate"

\* Regression: the refusal of a replayed envelope means it was done before.
CompleteRefusedReplay(c) ==
  IF c.replay /\ c.ans.is = "rejected" THEN "completed" ELSE FailRefusedReplay(c)

\* The status an answer gives its row.  A replayed envelope is never failed.
Outcome(c) ==
  CASE c.ans.is = "ok" -> "completed"
    [] c.ans.is = "wait" -> "waiting_capacity"
    [] c.ans.is = "rejected" /\ ~c.replay -> "failed"
    [] OTHER -> "indeterminate"

\* The coroutine stores its answer if the row is still running, whichever
\* claim made it run; otherwise the row stays as it is.
Persist(c) ==
  /\ c.ans.is # "none"
  /\ callers' = callers \ {c}
  /\ op' = IF op[c.op].status = "running"
           THEN [op EXCEPT ![c.op].status = Outcome(c),
                           ![c.op].ans = IF c.ans.is = "ok" THEN c.ans ELSE @]
           ELSE op
  /\ UNCHANGED <<wsFence, lease, runState, inbox, ctrlVars, faults>>

GiveUp(c) ==
  /\ callers' = callers \ {c}
  /\ op' = IF op[c.op].status = "running"
           THEN [op EXCEPT ![c.op].status = "indeterminate"] ELSE op
  /\ UNCHANGED <<wsFence, lease, runState, inbox, ctrlVars>>

\* A timeout or a cancelled task, which does not withdraw the request; or an
\* answer that could not be stored.
LoseAnswer(c) == Fault(IF c.ans.is = "none" THEN "timeout" ELSE "write") /\ GiveUp(c)

\* The controller is gone and so is the request.
ConnectionLost(c) ==
  /\ c.ans.is = "none"
  /\ ~\E m \in inbox : m.op = c.op /\ m.try = c.try
  /\ ~(busy.op = c.op /\ busy.try = c.try)
  /\ GiveUp(c)
  /\ UNCHANGED faults

\* Another process takes the run over and abandons what its worker had in
\* flight; the old coroutine may live on and come back with an answer.
Interrupt(o) ==
  /\ op[o].status = "running" /\ op[o].kind # "wake"
  /\ Fault("takeover")
  /\ op' = [op EXCEPT ![o].status = "indeterminate"]
  /\ UNCHANGED <<wsFence, lease, runState, callers, inbox, ctrlVars>>

\* An ensure nobody dispatches any more, once its run is over.
CancelWaiting(o) ==
  /\ op[o].kind = "ensure" /\ op[o].status \in {"pending", "waiting_capacity"}
  /\ runState[op[o].run] = "ended"
  /\ op' = [op EXCEPT ![o].status = "cancelled"]
  /\ UNCHANGED <<wsFence, lease, runState, callers, inbox, ctrlVars, faults>>

-----------------------------------------------------------------------------
\* Recovery and release, reserved by the executor of a run that is active and
\* by the stale-lease cleanup of one that has ended.

Repairable == {"ready", "partial", "degraded", "retained"}
Completed(o) == o # NoOp /\ op[o].status = "completed"
ObservedRun(o) == IF Completed(o) /\ op[o].ans.proof THEN op[o].ans.active ELSE NoRun

EnsureFence == TopFence({o \in Ops : op[o].kind = "ensure" /\ op[o].status \notin Refused})

Unknown ==
  {o \in Ops : /\ op[o].kind \in {"ensure", "reconcile", "status"}
               /\ op[o].status = "indeterminate"
               /\ op[o].fence > TopFence({x \in Ops : op[x].status = "completed"})}

ReleasedAt(r) == {o \in OpsOf(r, {"release"}) : Completed(o) /\ op[o].fence > EnsureFence}

\* The chain tail of an ended run that does not show a finished bundle.  An
\* ensure other than the first, and every reconcile, is a recovery operation.
NeedsRepair(r) ==
  LET t == Tail(r)
      first == CHOOSE o \in OpsOf(r, {"ensure"}) : \A x \in OpsOf(r, {"ensure"}) : o <= x
  IN /\ t # NoOp
     /\ \/ op[t].status = "indeterminate"
        \/ t # first /\ op[t].status # "completed"
        \/ op[t].kind = "reconcile" /\ Completed(t) /\ op[t].ans.state # "ready"

StaleNeedsRecovery(r) == Unknown # {} \/ (ReleasedAt(r) = {} /\ NeedsRepair(r))

\* Whose effect a reconcile of the run looks for.
ReconcileTarget(r, t) ==
  LET tail == Tail(r)
      statuses == {o \in Unknown : op[o].kind = "status"}
  IN \/ /\ runState[r] = "ended" /\ statuses # {} /\ t = LastOf(Unknown) /\ t \in statuses
     \/ /\ runState[r] = "ended" => StaleNeedsRecovery(r) /\ LastOf(Unknown) \notin statuses
        /\ tail # NoOp
        /\ \/ op[tail].status = "indeterminate" /\ t = tail
           \/ /\ op[tail].kind = "reconcile" /\ op[tail].status \in Refused
              /\ t = op[tail].target /\ op[t].status = "indeterminate"

ReserveReconcile(r, t) ==
  /\ lease = r
  /\ ReconcileTarget(r, t)
  /\ Reserve("reconcile", r, t)
  /\ UNCHANGED <<wsFence, lease, runState, callers, inbox, ctrlVars, faults>>

\* A run that is still active repairs what was observed by ensuring again.
ReserveRepair(r) ==
  /\ lease = r /\ runState[r] = "active"
  /\ LET t == Tail(r)
         seen == LastOf({o \in OpsOf(r, {"reconcile"}) : Completed(o)})
     IN /\ t # NoOp
        /\ \/ t = seen /\ ObservedRun(t) \in {NoRun, r}
           \/ op[t].kind = "ensure" /\ op[t].status \in Refused
        /\ seen # NoOp /\ op[seen].ans.state \in Repairable
  /\ Reserve("ensure", r, NoOp)
  /\ UNCHANGED <<wsFence, lease, runState, callers, inbox, ctrlVars, faults>>

\* An ended run the controller does not hold the Cell for: look, do not release.
OnlyObserve(r) ==
  /\ {o \in OpsOf(r, {"release"}) : op[o].status \notin Refused /\
                                     (Completed(o) => op[o].fence > EnsureFence)} = {}
  /\ \/ \E o \in OpsOf(r, {"release"}) : op[o].status \in Refused
     \/ LET t == Tail(r)
        IN t # NoOp /\ op[t].kind = "reconcile" /\ Completed(t) /\ ObservedRun(t) # r

\* The observation made at the present fence, if there is one.
ObservedNow(r) == {o \in OpsOf(r, {"status"}) : op[o].fence = wsFence}
ShowsActive(r) == \E o \in ObservedNow(r) : Completed(o) /\ ObservedRun(o) = r

ReserveObserve(r) ==
  /\ lease = r /\ runState[r] = "ended"
  /\ ~StaleNeedsRecovery(r)
  /\ OnlyObserve(r) /\ ~ShowsActive(r)
  /\ Reserve("status", r, NoOp)
  /\ UNCHANGED <<wsFence, lease, runState, callers, inbox, ctrlVars, faults>>

ReserveRelease(r) ==
  LET releases == OpsOf(r, {"release"})
  IN /\ lease = r
     /\ \/ releases = {} /\ Completed(Tail(r)) /\ op[Tail(r)].kind = "ensure"
        \/ /\ runState[r] = "ended"
           /\ ~StaleNeedsRecovery(r)
           /\ OnlyObserve(r) => ShowsActive(r)
           /\ \A o \in releases : \/ op[o].status \in Refused
                                  \/ op[o].fence <= EnsureFence
     /\ Reserve("release", r, NoOp)
     /\ UNCHANGED <<wsFence, lease, runState, callers, inbox, ctrlVars, faults>>

\* The lease is given back on the stored receipt of a release, unless a later
\* operation may have had an effect.
ConfirmRelease(o) ==
  /\ op[o].kind = "release" /\ Completed(o) /\ op[o].ans.state = "ready"
  /\ lease = op[o].run
  /\ \/ wsFence = op[o].fence
     \/ /\ runState[op[o].run] = "ended"
        /\ wsFence >= op[o].fence
        /\ \A x \in Ops : op[x].fence > op[o].fence =>
              \/ op[x].status \in Refused
              \/ op[x].kind \in {"status", "reconcile"} /\ Completed(x)
  /\ lease' = NoRun
  /\ UNCHANGED <<op, wsFence, runState, callers, inbox, ctrlVars, faults>>

\* The lease is given back on a proof that the controller holds none.
ClearObserved(o) ==
  /\ op[o].kind \in {"status", "reconcile"} /\ Completed(o)
  /\ op[o].ans.state = "ready" /\ op[o].ans.proof /\ op[o].ans.quiet
  /\ op[o].ans.active = NoRun
  /\ wsFence = op[o].fence
  /\ lease = op[o].run /\ runState[lease] = "ended"
  /\ NoneActive
  /\ lease' = NoRun
  /\ UNCHANGED <<op, wsFence, runState, callers, inbox, ctrlVars, faults>>

-----------------------------------------------------------------------------
\* The controller.  A request is served under the workspace lock; what it finds
\* there it reads through _prepared_state, which turns another operation that
\* was left running into an indeterminate one.

LeftRunning(me) == journal.last # NoOp /\ journal.last # me /\ rec[journal.last].status = "running"

Prepared(me) == IF LeftRunning(me)
                THEN [journal EXCEPT !.phase = "indeterminate", !.bundle = "indeterminate"]
                ELSE journal
PreparedRec(me) == IF LeftRunning(me)
                   THEN [rec EXCEPT ![journal.last].status = "indeterminate"] ELSE rec

\* Regression: an older fence is not refused.
AllowedAtAnyFence(j, m, reconciling) ==
  /\ j.phase = "indeterminate" => reconciling /\ m.fence > j.fence
  /\ m.fence = j.fence /\ j.last # NoOp => m.op = j.last

\* _reject_unless_allowed
Allowed(j, m, reconciling) ==
  /\ m.fence >= j.fence
  /\ j.phase = "indeterminate" => reconciling /\ m.fence > j.fence
  /\ m.fence = j.fence /\ j.last # NoOp => m.op = j.last

SameEnvelope(m) == rec[m.op].status = "completed" /\ rec[m.op].fence = m.fence

\* The answer reaches the coroutine that sent the request, if it still waits.
Reply(m, a) ==
  callers' = {IF c.op = m.op /\ c.try = m.try THEN [c EXCEPT !.ans = a] ELSE c : c \in callers}

Settle(m, a) == /\ inbox' = inbox \ {m}
                /\ Reply(m, a)
                /\ UNCHANGED <<apiVars, busy, compute>>

Serve(m, j, run) ==
  /\ inbox' = inbox \ {m}
  /\ busy' = [op |-> m.op, fence |-> m.fence, try |-> m.try, was |-> j.bundle, run |-> run]
  /\ UNCHANGED <<apiVars, callers, compute>>

\* CellStateStore.begin
Begun(j, m) == [j EXCEPT !.there = TRUE, !.fence = m.fence, !.phase = "open",
                         !.bundle = "running", !.last = m.op]
BegunRec(rs, m, kind, run) ==
  [rs EXCEPT ![m.op] = [kind |-> kind, fence |-> m.fence, run |-> run, status |-> "running"]]

\* A wake reads, and may mark, the journal before it waits for the lock.
ArriveWake(m) ==
  /\ op[m.op].kind = "wake" /\ ~m.ready
  /\ IF ~journal.there \/ Prepared(m.op).bundle = "degraded"
     THEN /\ journal' = Prepared(m.op) /\ rec' = PreparedRec(m.op)
          /\ Settle(m, Failure)
     ELSE /\ journal' = Prepared(m.op) /\ rec' = PreparedRec(m.op)
          /\ inbox' = (inbox \ {m}) \cup {[m EXCEPT !.ready = TRUE]}
          /\ UNCHANGED <<apiVars, callers, busy, compute>>
  /\ UNCHANGED <<reserved, faults>>

\* A run's first ensure needs every earlier operation resolved.
StartupBlocked(j, rs, run) ==
  /\ run # NoRun
  /\ \A o \in Ops : rs[o].run # run
  /\ \/ j.active # NoRun
     \/ \E o \in Ops : rs[o].status \in {"running", "indeterminate"}

\* A repair after a reconcile that recovered a partial bundle keeps its capacity.
RecoveredCapacity(j, rs, run) ==
  /\ run # NoRun /\ j.phase = "completed" /\ j.bundle \in {"partial", "degraded"}
  /\ rs[j.last].kind = "reconcile" /\ rs[j.last].fence = j.fence /\ rs[j.last].run = run
  /\ reserved.confirmed /\ reserved.fence = j.fence

Mine(m) == reserved.op = m.op /\ reserved.fence = m.fence
StaleReservation(m) == reserved.op # NoOp /\ ~Mine(m) /\
                       (m.fence <= reserved.fence \/ m.op = reserved.op)
Bound(m, confirmed) == [op |-> m.op, fence |-> m.fence, confirmed |-> confirmed]

\* Ensure and wake: envelope, fence and capacity are decided before anything is
\* touched; a completed envelope is answered again only after its capacity.
TakeEnsure(m) ==
  LET kind == op[m.op].kind
      run == op[m.op].run
      j == Prepared(m.op)
      rs == PreparedRec(m.op)
      done == rs[m.op].status = "completed"
      refused == \/ kind = "ensure" /\ StartupBlocked(j, rs, run)
                 \/ done /\ rs[m.op].fence # m.fence
                 \/ ~done /\ j.there /\ ~Allowed(j, m, FALSE)
                 \/ StaleReservation(m)
      kept == Mine(m) \/ RecoveredCapacity(j, rs, run)
  IN /\ busy = Idle /\ m.ready /\ kind \in {"ensure", "wake"}
     /\ \/ /\ refused
           /\ journal' = j /\ rec' = rs
           /\ Settle(m, Rejected)
           /\ UNCHANGED <<reserved, faults>>
        \/ \* the host has no room
           /\ ~refused /\ ~kept /\ compute # "ready"
           /\ Fault("capacity")
           /\ journal' = j /\ rec' = rs
           /\ Settle(m, Answer("wait", "none"))
           /\ UNCHANGED reserved
        \/ /\ ~refused
           /\ reserved' = IF Mine(m) THEN reserved
                          ELSE Bound(m, RecoveredCapacity(j, rs, run) \/ compute = "ready")
           /\ IF done
              THEN /\ journal' = j /\ rec' = rs
                   /\ Settle(m, Answer("ok", IF kind = "ensure" THEN "ready" ELSE j.bundle))
              ELSE /\ journal' = Begun(j, m) /\ rec' = BegunRec(rs, m, kind, run)
                   /\ Serve(m, j, run)
           /\ UNCHANGED faults

\* Every container came up: the run of an ensure now holds the Cell.
FinishEnsure ==
  /\ busy # Idle /\ rec[busy.op].kind \in {"ensure", "wake"}
  /\ rec' = [rec EXCEPT ![busy.op].status = "completed"]
  /\ journal' = [journal EXCEPT
       !.phase = "completed", !.bundle = "ready", !.fence = busy.fence, !.last = busy.op,
       !.active = IF busy.run = NoRun THEN @ ELSE busy.run,
       !.activeFence = IF busy.run = NoRun THEN @ ELSE busy.fence]
  /\ reserved' = [reserved EXCEPT !.confirmed = TRUE]
  /\ compute' = "ready"
  /\ Reply(busy, Answer("ok", "ready"))
  /\ busy' = Idle
  /\ UNCHANGED <<apiVars, inbox, faults>>

\* What a request that fails after it was begun is answered.  A resource that is
\* not the one that was expected is answered like a refusal before any effect.
Breaks == \/ Fault("effect") /\ Reply(busy, Failure)
          \/ Fault("conflict") /\ Reply(busy, Rejected)

\* It failed half-way: the journal does not know what was applied.
FailEnsure ==
  /\ busy # Idle /\ rec[busy.op].kind \in {"ensure", "wake"}
  /\ Breaks
  /\ rec' = [rec EXCEPT ![busy.op].status = "indeterminate"]
  /\ journal' = [journal EXCEPT !.phase = "indeterminate", !.bundle = "indeterminate",
                                !.fence = busy.fence, !.last = busy.op]
  /\ compute' \in {compute, "partial", "ready"}
  /\ busy' = Idle
  /\ UNCHANGED <<apiVars, inbox, reserved>>

\* A release names no run: it is for the run the journal shows, or for the run
\* its own record was begun for.
TakeRelease(m) ==
  LET run == IF journal.active # NoRun THEN journal.active ELSE rec[m.op].run
      j == Prepared(NoOp)
      rs == PreparedRec(NoOp)
  IN /\ busy = Idle /\ op[m.op].kind = "release"
     /\ IF ~journal.there \/ run = NoRun
        THEN Settle(m, Rejected) /\ UNCHANGED <<journal, rec>>
        ELSE IF SameEnvelope(m)
        THEN journal' = j /\ rec' = rs /\ Settle(m, Answer("ok", j.bundle))
        ELSE IF ~Allowed(j, m, FALSE) \/ j.active # run
        THEN journal' = j /\ rec' = rs /\ Settle(m, Rejected)
        ELSE /\ journal' = Begun(j, m) /\ rec' = BegunRec(rs, m, "release", run)
             /\ Serve(m, j, run)
     /\ UNCHANGED <<reserved, faults>>

\* CellStateStore.release_generation: the bundle of the ensure is retained.
FinishRelease ==
  /\ busy # Idle /\ rec[busy.op].kind = "release"
  /\ rec' = [rec EXCEPT ![busy.op].status = "completed"]
  /\ journal' = [journal EXCEPT !.phase = "completed", !.bundle = "ready",
                                !.active = NoRun, !.activeFence = 0]
  /\ Reply(busy, Answer("ok", "ready"))
  /\ busy' = Idle
  /\ UNCHANGED <<apiVars, inbox, reserved, compute, faults>>

\* Regression: the interrupted operation stands for its run.
OperationToReconcile(j, rs) == IF j.active # NoRun THEN j.active ELSE j.last

\* A reconcile observes for the run that holds the Cell, or that was ensuring it.
RunToReconcile(j, rs) ==
  IF j.active # NoRun THEN j.active
  ELSE IF j.phase = "indeterminate" /\ j.last # NoOp /\ rs[j.last].status = "indeterminate"
          /\ rs[j.last].kind \in {"ensure", "reconcile"}
  THEN rs[j.last].run ELSE NoRun

\* Without a state the answer is "retained" and the fence is not recorded.
TakeObserve(m) ==
  LET j == Prepared(NoOp)
      rs == PreparedRec(NoOp)
      run == RunToReconcile(j, rs)
  IN /\ busy = Idle /\ op[m.op].kind \in {"status", "reconcile"}
     /\ IF ~journal.there
        THEN Settle(m, Answer("ok", "retained")) /\ UNCHANGED <<journal, rec, reserved>>
        ELSE IF ~Allowed(j, m, TRUE) \/ (reserved.op # NoOp /\ StaleReservation(m))
        THEN journal' = j /\ rec' = rs /\ Settle(m, Rejected) /\ UNCHANGED reserved
        ELSE /\ reserved' = IF reserved.op # NoOp THEN Bound(m, reserved.confirmed)
                            ELSE IF j.bundle = "ready" THEN Bound(m, TRUE) ELSE reserved
             /\ journal' = Begun(j, m) /\ rec' = BegunRec(rs, m, "reconcile", run)
             /\ Serve(m, j, run)
     /\ UNCHANGED faults

Material == compute # "none"
Seen == CASE compute = "ready" -> "ready" [] compute = "partial" -> "partial" [] OTHER -> "retained"

\* A bundle believed ready whose compute is missing is degraded and proves no
\* lease; any other observation is recorded, and a ready one renews the lease.
FinishObserve ==
  LET o == busy.op
      degraded == busy.was = "ready" /\ Seen # "ready"
      renewed == ~degraded /\ Seen = "ready" /\ busy.run # NoRun
      quiet == /\ journal'.active = NoRun
               /\ \A x \in Ops : rec'[x].status \in {"none", "completed"}
  IN /\ busy # Idle /\ rec[o].kind = "reconcile"
     /\ rec' = [rec EXCEPT ![o].status = IF degraded THEN "indeterminate" ELSE "completed"]
     /\ journal' = [journal EXCEPT
          !.phase = "completed", !.bundle = IF degraded THEN "degraded" ELSE Seen,
          !.active = IF renewed THEN busy.run ELSE @,
          !.activeFence = IF renewed THEN busy.fence ELSE @]
     /\ reserved' = IF Material THEN Bound(busy, TRUE) ELSE Unreserved
     /\ Reply(busy, IF degraded THEN Answer("ok", "degraded")
                    ELSE Observed(Seen, journal'.active, quiet))
     /\ busy' = Idle
     /\ UNCHANGED <<apiVars, inbox, compute, faults>>

\* Docker did not answer: the journal keeps the reconcile as running.
FailObserve ==
  /\ busy # Idle /\ rec[busy.op].kind = "reconcile"
  /\ Breaks
  /\ busy' = Idle
  /\ UNCHANGED <<apiVars, inbox, journal, rec, reserved, compute>>

\* The process dies; the journal, the reservation and the containers stay.
ControllerCrash ==
  /\ Fault("crash")
  /\ busy' = Idle /\ inbox' = {}
  /\ UNCHANGED <<apiVars, callers, journal, rec, reserved, compute>>

\* The host reboots, or the containers are stopped.
ContainersDie ==
  /\ compute # "none" /\ busy = Idle
  /\ Fault("host")
  /\ compute' = "none"
  /\ UNCHANGED <<apiVars, callers, inbox, journal, rec, reserved, busy>>

\* The capacity of a Cell without a live container goes back to the host.
ReleaseIdleReservation ==
  /\ reserved.confirmed /\ compute = "none"
  /\ journal.phase = "completed" /\ busy = Idle
  /\ reserved' = Unreserved
  /\ UNCHANGED <<apiVars, callers, inbox, journal, rec, busy, compute, faults>>

-----------------------------------------------------------------------------
Queue(o) == Claim(o) \/ Replay(o) \/ Interrupt(o) \/ CancelWaiting(o)
            \/ ConfirmRelease(o) \/ ClearObserved(o)
Recovery(r) == ReserveRepair(r) \/ ReserveObserve(r) \/ ReserveRelease(r)
               \/ \E t \in Ops : ReserveReconcile(r, t)
Caller(c) == Persist(c) \/ LoseAnswer(c) \/ ConnectionLost(c)
Serving(m) == ArriveWake(m) \/ TakeEnsure(m) \/ TakeRelease(m) \/ TakeObserve(m)
Finish == FinishEnsure \/ FinishRelease \/ FinishObserve
Host == FailEnsure \/ FailObserve \/ ControllerCrash \/ ContainersDie \/ ReleaseIdleReservation

Next ==
  \/ \E r \in Run : StartRun(r) \/ EndRun(r) \/ ReserveAdmission(r) \/ Recovery(r)
  \/ ReserveWake
  \/ \E o \in Ops : Queue(o)
  \/ \E c \in callers : Caller(c)
  \/ \E m \in inbox : Serving(m)
  \/ Finish
  \/ Host

Spec == Init /\ [][Next]_vars

\* The maintenance loops dispatch what is reserved, clean up ended runs and
\* confirm receipts; a coroutine stores its answer; the controller serves what
\* arrives and its operations end.
Fairness ==
  /\ \A o \in Ops : /\ WF_vars(Claim(o)) /\ WF_vars(Replay(o))
                    /\ WF_vars(ConfirmRelease(o)) /\ WF_vars(ClearObserved(o))
  /\ \A r \in Run : WF_vars(Recovery(r))
  /\ WF_vars(\E c \in callers : Persist(c) \/ ConnectionLost(c))
  /\ WF_vars(\E m \in inbox : Serving(m))
  /\ WF_vars(Finish)

FairSpec == Spec /\ Fairness

-----------------------------------------------------------------------------
\* Properties.

\* docs/superpowers/plans/2026-09-01-project-cell-fencing-hardening.md:248:
\* "`failed` only for a confirmed pre-side-effect 4xx rejection".  An ensure that
\* ended failed was never begun, which is what lets the next run take the Cell
\* over without a release (project_cell_executor.py:1012).
FailedEnsureHadNoEffect ==
  \A o \in Ops : op[o].kind = "ensure" /\ op[o].status = "failed" => rec[o].status = "none"

\* The controller holds the Cell for nobody but the run the workspace row is
\* leased to, until an ensure that was begun is written down as failed: neither a
\* late effect nor a renewal by a reconcile may leave the Cell held for a run
\* whose lease was given back (project_cell_capacity.py's release receipt and
\* quiescence proof, against cell_state.py's journal).
LeaseAgreement == FailedEnsureHadNoEffect => journal.active \in {NoRun, lease}

\* An ensure, release or wake stored as completed was applied by the controller
\* at the fence of the row: an answer to an earlier claim, or one that comes
\* after the row was abandoned, never passes for it (project_cells.py:514).
ReceiptsAreTrue ==
  \A o \in Ops : Completed(o) /\ op[o].kind \in {"ensure", "release", "wake"} =>
    rec[o].status = "completed" /\ rec[o].fence = op[o].fence

\* A release that ended failed was never begun, although it is sent again while
\* its fate is unknown and its first refusal may come late: only the refusal of
\* its one first request fails it (project_cell_lifecycle.py:259 and :148).
FailedReleaseHadNoEffect ==
  \A o \in Ops : op[o].kind = "release" /\ op[o].status = "failed" => rec[o].status = "none"

\* A release clears the lease of the run it was reserved for, although its request
\* names no run and may be delivered after the API has moved on; with the same
\* exception as LeaseAgreement.
ReleaseClearsOwnLease ==
  [][FailedEnsureHadNoEffect /\ journal.active # NoRun /\ journal'.active # journal.active =>
       op[busy.op].kind = "release" /\ op[busy.op].run = journal.active]_vars

\* A run that has ended gives back the Cell the controller holds for it, though
\* answers be lost on their way into the queue: an unknown ensure is reconciled
\* at a higher fence and an unknown release replayed until its receipt is stored.
HeldCellIsGivenBack ==
  \A r \in Run : runState[r] = "ended" /\ journal.active = r ~> lease # r

\* docs/superpowers/plans/2026-09-01-project-cell-fencing-hardening.md:248:
\* "`failed` only for a confirmed pre-side-effect 4xx rejection".
FailedHadNoEffect ==
  \A o \in Ops : op[o].status = "failed" => rec[o].status # "completed"
=============================================================================
