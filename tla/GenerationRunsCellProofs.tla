----------------------- MODULE GenerationRunsCellProofs -----------------------
(***************************************************************************)
(* Whose body works and which run holds the Cell: proved of GenerationRuns *)
(* for any number of runs, workers, failures and Stops.                    *)
(*                                                                         *)
(* One inductive invariant, stated of each run by itself.  A step has to    *)
(* show, of the run it is for, that it is a RowMoved or a CoroutineMoved,   *)
(* and of every other run that it is Alike.                                *)
(***************************************************************************)
EXTENDS GenerationRunsProofs

\* The coroutine of a body, from its admission until the tracker has settled it; a
\* resumed release uses two of its places under why = "resume".
Working(w, r) ==
  \/ pc[w][r] \in BodyPcs \cup {"releasing", "erroring"}
  \/ pc[w][r] \in {"confirming", "settling"} /\ why[w][r] # "resume"

\* A run has one body, and only once.
OneBody(r) ==
  \A w \in Worker : Working(w, r) => started[r] /\ \A v \in Worker : Working(v, r) => v = w

\* A release is resumed only on behalf of a retained intent.
Resumes(r) ==
  \A w \in Worker :
    /\ why[w][r] = "resume" => pc[w][r] \in CleanPcs \cup {"settling"}
    /\ why[w][r] = "resume" \/ pc[w][r] = "resuming" => relMark[r]

\* An intent is retained when the body is over and its build complete.
Retained(r) ==
  relMark[r] =>
    /\ ~CompletionError(r) /\ status[r] # "failed"
    /\ \A w \in Worker : pc[w][r] \notin BodyPcs \cup {"releasing", "erroring"}

\* The API executes its own runs and no worker does.
OwnRuns(r) ==
  /\ backend[r] = "api" => ~relMark[r] /\ \A w \in Worker : pc[w][r] = "idle"
  /\ request[r] # "none" \/ textPc[r] # "idle" => backend[r] = "api"
  /\ textPc[r] # "idle" => request[r] = "none"

\* The tracker closes the message on its own only once the run is over.
Emergencies(r) ==
  \A w \in Worker : pc[w][r] \in {"emergency", "marked"} => Terminal(r)

\* A body works on the lease of its run, and before it has the lease it has not
\* written the message.
LeasedPcs == {"waiting", "building", "concluding", "published"}
Holds(r) ==
  \A w \in Worker : ~Terminal(r) =>
    /\ pc[w][r] \in LeasedPcs => lease = r
    /\ pc[w][r] \in BodyPcs => lease = r \/ message[r] # "final"

\* A completed run has neither the lease nor a body.
Quiet(r) == status[r] = "completed" => lease # r /\ \A w \in Worker : pc[w][r] \notin BodyPcs

\* Nothing is written for a dispatched run before its body begins.
Unwritten(r) ==
  ~Terminal(r) /\ ~started[r] /\ (backend[r] # "api" \/ request[r] # "none") => message[r] # "final"

RunInv(r) ==
  /\ OneBody(r) /\ Resumes(r) /\ Retained(r) /\ OwnRuns(r) /\ Unwritten(r)
  /\ Emergencies(r) /\ Holds(r) /\ Quiet(r)

HInv == TypeOK /\ AcceptedInOrder /\ \A r \in Run : RunInv(r)

-----------------------------------------------------------------------------
\* What a step has to show of a run.

\* It leaves the run alone.
Alike(q) ==
  /\ status'[q] = status[q] /\ message'[q] = message[q] /\ backend'[q] = backend[q]
  /\ mode'[q] = mode[q] /\ snapshot'[q] = snapshot[q] /\ productFailed'[q] = productFailed[q]
  /\ started'[q] = started[q] /\ relMark'[q] = relMark[q]
  /\ request'[q] = request[q] /\ textPc'[q] = textPc[q]
  /\ lease' = q <=> lease = q
  /\ \A w \in Worker : pc'[w][q] = pc[w][q] /\ why'[w][q] = why[w][q]

\* It moves the row and not the executors.
RowMoved(r) ==
  /\ \A w \in Worker : pc'[w][r] = pc[w][r] /\ why'[w][r] = why[w][r]
  /\ started'[r] = started[r] /\ relMark'[r] = relMark[r]
  /\ lease' = r => lease = r
  /\ lease = r => lease' = r \/ Terminal(r)'
  /\ backend'[r] = "api" => backend[r] = "api"
  /\ request'[r] # "none" \/ textPc'[r] # "idle" => backend'[r] = "api"
  /\ textPc'[r] # "idle" => request'[r] = "none"
  /\ relMark[r] => ~CompletionError(r)' /\ status'[r] # "failed"
  /\ Terminal(r) => Terminal(r)'
  /\ message'[r] = "final" => \/ message[r] = "final" \/ Terminal(r)'
                              \/ backend'[r] = "api" /\ request'[r] = "none"
  /\ backend'[r] # "api" \/ request'[r] # "none" =>
       backend[r] # "api" \/ request[r] # "none" \/ message'[r] # "final"
  /\ status'[r] = "completed" =>
       status[r] = "completed" \/ (lease' # r /\ \A w \in Worker : pc[w][r] \notin BodyPcs)

\* It is a step of the coroutine of w for r.
CoroutineMoved(w, r) ==
  /\ \A v \in Worker \ {w} : pc'[v][r] = pc[v][r] /\ why'[v][r] = why[v][r]
  /\ backend'[r] = backend[r] /\ request'[r] = request[r] /\ textPc'[r] = textPc[r]
  /\ backend[r] = "api" => pc'[w][r] = "idle" /\ ~relMark'[r]
  /\ started[r] => started'[r]
  /\ Working(w, r)' => Working(w, r) \/ (~started[r] /\ started'[r])
  /\ why'[w][r] = "resume" => pc'[w][r] \in CleanPcs \cup {"settling"}
  /\ why'[w][r] = "resume" \/ pc'[w][r] = "resuming" => relMark'[r]
  /\ relMark[r] =>
       /\ relMark'[r] /\ ~CompletionError(r)' /\ status'[r] # "failed"
       /\ pc'[w][r] \notin BodyPcs \cup {"releasing", "erroring"}
  /\ relMark'[r] => relMark[r] \/ (~CompletionError(r)' /\ status'[r] # "failed" /\ Working(w, r)
                                   /\ pc'[w][r] \notin BodyPcs \cup {"releasing", "erroring"})
  /\ Terminal(r) => Terminal(r)'
  /\ pc'[w][r] \in {"emergency", "marked"} => Terminal(r)'
  /\ ~Terminal(r)' =>
       /\ pc'[w][r] \in LeasedPcs => lease' = r
       /\ pc'[w][r] \in BodyPcs => lease' = r \/ message'[r] # "final"
       /\ lease = r => lease' = r \/ \A v \in Worker : pc[v][r] \notin BodyPcs
       /\ message'[r] = "final" => message[r] = "final" \/ (lease' = r /\ started[r])
  /\ status'[r] = "completed" => lease' # r /\ \A v \in Worker : pc'[v][r] \notin BodyPcs

\* A run that is left alone keeps its invariant.
LEMMA AlikeKeeps ==
  ASSUME NEW q \in Run, RunInv(q), Alike(q)
  PROVE  RunInv(q)'
BY DEF RunInv, Alike, OneBody, Resumes, Retained, OwnRuns, Emergencies, Holds, Quiet, Unwritten, Working,
       CompletionError, Terminal

\* So does one whose row is moved past idle executors.
LEMMA RowKeeps ==
  ASSUME NEW r \in Run, RunInv(r), RowMoved(r)
  PROVE  RunInv(r)'
<1> USE DEF RunInv, RowMoved
<1>1. OneBody(r)' /\ Resumes(r)'
  BY DEF OneBody, Resumes, Working
<1>2. Retained(r)' /\ OwnRuns(r)'
  BY DEF Retained, OwnRuns
<1>3. Emergencies(r)'
  BY DEF Emergencies
<1>4. Holds(r)'
  BY DEF Holds, OwnRuns, BodyPcs, LeasedPcs
<1>5. Quiet(r)'
  BY DEF Quiet
<1>6. Unwritten(r)'
  BY DEF Unwritten
<1> QED
  BY <1>1, <1>2, <1>3, <1>4, <1>5, <1>6

\* And one for which a coroutine takes a step.
LEMMA CoroutineKeeps ==
  ASSUME NEW w \in Worker, NEW r \in Run, RunInv(r), CoroutineMoved(w, r)
  PROVE  RunInv(r)'
<1> USE DEF RunInv, CoroutineMoved
<1>1. OneBody(r)'
  BY DEF OneBody, Working
<1>2. Resumes(r)'
  BY DEF Resumes
<1>3. Retained(r)'
  BY DEF Retained, OneBody, Working
<1>4. OwnRuns(r)'
  BY DEF OwnRuns
<1>5. Emergencies(r)'
  BY DEF Emergencies
<1>6. Holds(r)'
  BY DEF Holds, BodyPcs, LeasedPcs
<1>7. Quiet(r)'
  BY DEF Quiet
<1>8. Unwritten(r)'
  BY DEF Unwritten
<1> QED
  BY <1>1, <1>2, <1>3, <1>4, <1>5, <1>6, <1>7, <1>8

-----------------------------------------------------------------------------
\* What the shared steps write, cell by cell.

\* Only the coroutine of w for r moves.
Mover(w, r) ==
  /\ \A v \in Worker \ {w}, q \in Run : pc'[v][q] = pc[v][q] /\ why'[v][q] = why[v][q]
  /\ \A q \in Run \ {r} : pc'[w][q] = pc[w][q] /\ why'[w][q] = why[w][q]

\* A step that leaves the ending of the coroutine alone.
LEMMA StepMover ==
  ASSUME TypeOK, NEW w \in Worker, NEW r \in Run, NEW from, NEW to, Step(w, r, from, to), why' = why
  PROVE  pc[w][r] = from /\ pc'[w][r] = to /\ why'[w][r] = why[w][r] /\ Mover(w, r)
BY DEF TypeOK, Step, Mover

\* A step that records an ending.
LEMMA EndingMover ==
  ASSUME TypeOK, NEW w \in Worker, NEW r \in Run, NEW from, NEW to, NEW e, Step(w, r, from, to),
         why' = [why EXCEPT ![w][r] = e]
  PROVE  pc[w][r] = from /\ pc'[w][r] = to /\ why'[w][r] = e /\ Mover(w, r)
BY DEF TypeOK, Step, Mover

\* The return from execute_dispatch.
LEMMA ReturnMover ==
  ASSUME TypeOK, NEW w \in Worker, NEW r \in Run, NEW from, Return(w, r, from)
  PROVE  pc[w][r] = from /\ pc'[w][r] = "idle" /\ why'[w][r] = "none" /\ Mover(w, r)
BY EndingMover DEF Return

\* Leaving the body, for cleanup or for settlement.
LEMMA EndBodyMover ==
  ASSUME TypeOK, NEW w \in Worker, NEW r \in Run, NEW from, NEW e, EndBody(w, r, from, e)
  PROVE  pc[w][r] = from /\ pc'[w][r] \in {"releasing", "settling"} /\ why'[w][r] = e /\ Mover(w, r)
<1>1. why' = [why EXCEPT ![w][r] = e]
  BY DEF EndBody
<1>2. Step(w, r, from, "releasing") \/ Step(w, r, from, "settling")
  BY DEF EndBody
<1> QED
  BY <1>1, <1>2, EndingMover

\* Writers of the row touch no other run, and no status that is final.
RowOf(r) ==
  /\ \A q \in Run \ {r} : status'[q] = status[q] /\ message'[q] = message[q]
  /\ Terminal(r) => Terminal(r)'
  /\ message'[r] = "final" => message[r] = "final" \/ Terminal(r)'

\* finalize_generation_run fails a run for a missing completion only, and completes it
\* without the lease only.
LEMMA FinalizeRow ==
  ASSUME TypeOK, NEW r \in Run, Finalize(r)
  PROVE  /\ RowOf(r)
         /\ status'[r] = "failed" => status[r] = "failed" \/ CompletionError(r)
         /\ status'[r] = "completed" => status[r] = "completed" \/ lease # r
BY DEF TypeOK, Finalize, ApplyCancelled, SetStatus, CloseMessage, RowOf, Terminal, Active,
       ReleasePending, TerminalStatuses, ActiveStatuses

\* A cancellation neither fails nor completes.
LEMMA CancelledRow ==
  ASSUME TypeOK, NEW r \in Run, FinalizeCancelled(r) \/ (Active(r) /\ ApplyCancelled(r))
  PROVE  /\ RowOf(r)
         /\ status'[r] = "failed" => status[r] = "failed"
         /\ status'[r] = "completed" => status[r] = "completed"
BY DEF TypeOK, FinalizeCancelled, ApplyCancelled, SetStatus, CloseMessage, RowOf, Terminal, Active,
       TerminalStatuses, ActiveStatuses

\* set_generation_run_status decides a run that exists.
LEMMA FailedRow ==
  ASSUME TypeOK, NEW r \in Run, SetFailed(r), UNCHANGED message
  PROVE  /\ RowOf(r)
         /\ status[r] # "none" => Terminal(r)'
         /\ status'[r] = "completed" => status[r] = "completed"
BY DEF TypeOK, SetFailed, SetStatus, RowOf, Terminal, Active, TerminalStatuses, ActiveStatuses, Statuses

\* A coroutine that is under way executes a run the API has handed over.
LEMMA HandedOver ==
  ASSUME HInv, NEW w \in Worker, NEW r \in Run, pc[w][r] # "idle"
  PROVE  RunInv(r) /\ backend[r] # "api" /\ status[r] # "none" /\ request[r] = "none" /\ textPc[r] = "idle"
<1>1. RunInv(r)
  BY DEF HInv
<1>2. backend[r] # "api"
  BY <1>1 DEF RunInv, OwnRuns
<1>3. request[r] = "none" /\ textPc[r] = "idle"
  BY <1>1, <1>2 DEF RunInv, OwnRuns
<1>4. status[r] # "none"
  BY DEF HInv, AcceptedInOrder, Untouched
<1> QED
  BY <1>1, <1>2, <1>3, <1>4

\* A step of a coroutine that moves itself, the status and the message of its run.
LEMMA RowAndSelf ==
  ASSUME HInv, NEW w \in Worker, NEW r \in Run, Mover(w, r), RowOf(r),
         UNCHANGED <<backend, mode, snapshot, productFailed, started, relMark, lease, apiVars>>,
         pc[w][r] # "idle" \/ backend[r] # "api",
         Working(w, r)' => Working(w, r),
         why'[w][r] = "resume" => pc'[w][r] \in CleanPcs \cup {"settling"},
         why'[w][r] = "resume" \/ pc'[w][r] = "resuming" => relMark[r],
         pc'[w][r] \in {"releasing", "erroring"} =>
           pc[w][r] \in BodyPcs \cup {"releasing", "erroring"} \/ ~relMark[r],
         pc'[w][r] \in {"emergency", "marked"} => Terminal(r)',
         pc'[w][r] \in LeasedPcs => pc[w][r] \in LeasedPcs,
         pc'[w][r] \in BodyPcs => pc[w][r] \in BodyPcs,
         status'[r] = "failed" => status[r] = "failed" \/ CompletionError(r) \/ ~relMark[r],
         status'[r] = "completed" =>
           \/ status[r] = "completed"
           \/ lease # r /\ (Working(w, r) \/ relMark[r]) /\ pc'[w][r] \notin BodyPcs
  PROVE  \A q \in Run : RunInv(q)'
<1>1. \A q \in Run : RunInv(q)
  BY DEF HInv
<1>2. \A q \in Run \ {r} : Alike(q)
  BY DEF Mover, Alike, RowOf, apiVars
<1>3. CoroutineMoved(w, r)
  <2>1. backend[r] # "api"
    BY HandedOver
  <2>2. OneBody(r) /\ Resumes(r) /\ Retained(r) /\ Emergencies(r) /\ Holds(r) /\ Quiet(r)
    BY <1>1 DEF RunInv
  <2>3. CompletionError(r)' <=> CompletionError(r)
    BY DEF CompletionError
  <2>4. relMark[r] => /\ pc'[w][r] \notin BodyPcs \cup {"releasing", "erroring"}
                      /\ ~CompletionError(r)' /\ status'[r] # "failed"
    BY <2>2, <2>3 DEF Retained
  <2>5. ~Terminal(r)' => /\ pc'[w][r] \in LeasedPcs => lease' = r
                         /\ pc'[w][r] \in BodyPcs => lease' = r \/ message'[r] # "final"
    BY <2>2 DEF Holds, RowOf
  <2>6. status'[r] = "completed" => lease' # r /\ \A v \in Worker : pc'[v][r] \notin BodyPcs
    <3>1. CASE status[r] = "completed"
      BY <2>2, <3>1 DEF Quiet, Mover
    <3>2. CASE status[r] # "completed" /\ Working(w, r)
      BY <2>2, <3>2 DEF OneBody, Working, Mover
    <3>3. CASE status[r] # "completed" /\ relMark[r]
      BY <2>2, <2>4, <3>3 DEF Retained, Mover
    <3> QED
      BY <3>1, <3>2, <3>3
  <2> QED
    BY <2>1, <2>3, <2>4, <2>5, <2>6 DEF CoroutineMoved, Mover, RowOf, apiVars
<1> QED
  BY <1>1, <1>2, <1>3, AlikeKeeps, CoroutineKeeps

\* A step of a coroutine that moves nothing but itself.
LEMMA OnlySelf ==
  ASSUME HInv, NEW w \in Worker, NEW r \in Run, Mover(w, r),
         UNCHANGED <<status, message, rowVars, relMark, lease, apiVars>>,
         pc[w][r] # "idle" \/ backend[r] # "api",
         Working(w, r)' => Working(w, r),
         why'[w][r] = "resume" => pc'[w][r] \in CleanPcs \cup {"settling"},
         why'[w][r] = "resume" \/ pc'[w][r] = "resuming" => relMark[r],
         pc'[w][r] \in {"releasing", "erroring"} =>
           pc[w][r] \in BodyPcs \cup {"releasing", "erroring"} \/ ~relMark[r],
         pc'[w][r] \notin {"emergency", "marked"},
         pc'[w][r] \in LeasedPcs => pc[w][r] \in LeasedPcs,
         pc'[w][r] \in BodyPcs => pc[w][r] \in BodyPcs
  PROVE  \A q \in Run : RunInv(q)'
<1>1. RowOf(r)
  BY DEF RowOf, Terminal
<1>2. UNCHANGED <<backend, mode, snapshot, productFailed, started, relMark, lease, apiVars>>
  BY DEF rowVars
<1> QED
  BY <1>1, <1>2, RowAndSelf

-----------------------------------------------------------------------------
\* The steps of the coroutines.

\* execute_dispatch, up to the body or the emergency.
LEMMA AdmissionKeeps ==
  ASSUME HInv, NEW w \in Worker, NEW r \in Run, AdmissionNext(w, r)
  PROVE  \A q \in Run : RunInv(q)'
<1>0. TypeOK /\ OneBody(r) /\ Resumes(r) /\ Retained(r) /\ OwnRuns(r) /\ Unwritten(r)
      /\ Emergencies(r) /\ Holds(r) /\ Quiet(r)
  BY DEF HInv, RunInv
<1> USE DEF Working, BodyPcs, CleanPcs, LeasedPcs
<1>1. CASE TakeLock(w, r)
  <2>1. /\ pc[w][r] = "idle" /\ pc'[w][r] = "owned" /\ why'[w][r] = why[w][r] /\ Mover(w, r)
        /\ UNCHANGED <<status, message, rowVars, relMark, lease, apiVars>>
    BY <1>0, <1>1, StepMover DEF TakeLock, cellVars
  <2>2. why[w][r] # "resume" /\ backend[r] # "api"
    BY <1>0, <1>1, <2>1 DEF TakeLock, Unstarted, Maintenance, Resumes, OwnRuns
  <2> QED
    BY <2>1, <2>2, OnlySelf
<1>2. CASE AdmitNothing(w, r)
  <2>1. /\ pc[w][r] = "owned" /\ pc'[w][r] = "idle" /\ why'[w][r] = "none" /\ Mover(w, r)
        /\ UNCHANGED <<backend, mode, snapshot, productFailed, started, relMark, lease, apiVars>>
    BY <1>0, <1>2, ReturnMover DEF AdmitNothing, rowVars
  <2>2. /\ RowOf(r)
        /\ status'[r] = "failed" => status[r] = "failed"
        /\ status'[r] = "completed" => status[r] = "completed"
    <3>1. CASE UNCHANGED <<status, message>>
      BY <3>1 DEF RowOf, Terminal
    <3>2. CASE Active(r) /\ ApplyCancelled(r)
      BY <1>0, <3>2, CancelledRow
    <3> QED
      BY <1>2, <3>1, <3>2 DEF AdmitNothing, Active, ActiveStatuses
  <2> QED
    BY <2>1, <2>2, RowAndSelf
<1>3. CASE AdmitLeftover(w, r)
  <2>1. UNCHANGED <<status, message, rowVars, relMark, lease, apiVars>>
    BY <1>3 DEF AdmitLeftover, cellVars
  <2>2. /\ pc[w][r] = "owned" /\ why'[w][r] = why[w][r] /\ Mover(w, r)
        /\ pc'[w][r] = "orphan" \/ (relMark[r] /\ pc'[w][r] = "resuming")
    BY <1>0, <1>3, StepMover DEF AdmitLeftover
  <2>3. why[w][r] # "resume"
    BY <1>0, <2>2 DEF Resumes
  <2> QED
    BY <2>1, <2>2, <2>3, OnlySelf
<1>4. CASE AdmitBody(w, r)
  <2>1. /\ pc[w][r] = "owned" /\ pc'[w][r] = "preparing" /\ why'[w][r] = why[w][r] /\ Mover(w, r)
        /\ UNCHANGED <<status, message, backend, mode, snapshot, productFailed, relMark, lease, apiVars>>
        /\ ~relMark[r] /\ ~started[r] /\ started' = [started EXCEPT ![r] = TRUE] /\ MayContinue(r)
    BY <1>0, <1>4, StepMover DEF AdmitBody, cellVars
  <2>2. why[w][r] # "resume"
    BY <1>0, <2>1 DEF Resumes
  <2>3. started'[r] /\ \A q \in Run \ {r} : started'[q] = started[q]
    BY <1>0, <2>1 DEF TypeOK
  <2>4. message[r] # "final" /\ status[r] # "completed" /\ backend[r] # "api"
    <3>1. backend[r] # "api"
      BY <2>1, HandedOver
    <3> QED
      BY <1>0, <2>1, <3>1 DEF Unwritten, MayContinue, Active, Terminal, TerminalStatuses, ActiveStatuses
  <2>5. CoroutineMoved(w, r)
    <3>1. \A v \in Worker : ~Working(v, r)
      BY <1>0, <2>1 DEF OneBody
    <3> QED
      BY <1>0, <2>1, <2>2, <2>3, <2>4, <3>1 DEF CoroutineMoved, Mover, Quiet, Terminal, apiVars
  <2>6. \A q \in Run \ {r} : Alike(q)
    BY <2>1, <2>3 DEF Mover, Alike, apiVars
  <2> QED
    BY <2>5, <2>6, AlikeKeeps, CoroutineKeeps DEF HInv
<1>5. CASE FailOrphan(w, r)
  <2>1. /\ pc[w][r] = "orphan" /\ Mover(w, r) /\ why'[w][r] # "resume"
        /\ UNCHANGED <<backend, mode, snapshot, productFailed, started, relMark, lease, apiVars>>
        /\ \/ pc'[w][r] = "idle" /\ UNCHANGED <<status, message>>
           \/ pc'[w][r] = "idle" /\ Active(r) /\ ApplyCancelled(r)
           \/ pc'[w][r] = "emergency" /\ MayContinue(r) /\ ~relMark[r] /\ SetStatus(r, "failed") /\ UNCHANGED message
    <3>1. UNCHANGED <<backend, mode, snapshot, productFailed, started, relMark, lease, apiVars>>
      BY <1>5 DEF FailOrphan, rowVars
    <3>2. CASE Return(w, r, "orphan") /\ UNCHANGED <<status, message>>
      BY <1>0, <3>1, <3>2, ReturnMover
    <3>3. CASE Return(w, r, "orphan") /\ Active(r) /\ ApplyCancelled(r)
      BY <1>0, <3>1, <3>3, ReturnMover
    <3>4. CASE Step(w, r, "orphan", "emergency") /\ why' = why /\ MayContinue(r) /\ ~relMark[r]
               /\ SetStatus(r, "failed") /\ UNCHANGED message
      BY <1>0, <3>1, <3>4, StepMover DEF Resumes
    <3> QED
      BY <1>5, <3>2, <3>3, <3>4 DEF FailOrphan, Active, ActiveStatuses
  <2>2. CASE pc'[w][r] = "idle" /\ UNCHANGED <<status, message>>
    <3>1. RowOf(r)
      BY <2>2 DEF RowOf, Terminal
    <3> QED
      BY <2>1, <2>2, <3>1, RowAndSelf
  <2>3. CASE pc'[w][r] = "idle" /\ Active(r) /\ ApplyCancelled(r)
    BY <1>0, <2>1, <2>3, CancelledRow, RowAndSelf
  <2>4. CASE /\ pc'[w][r] = "emergency" /\ MayContinue(r) /\ ~relMark[r]
             /\ SetStatus(r, "failed") /\ UNCHANGED message
    <3>1. SetFailed(r) /\ status'[r] = "failed"
      BY <1>0, <2>4 DEF SetFailed, SetStatus, MayContinue, TypeOK
    <3>2. RowOf(r) /\ Terminal(r)'
      BY <1>0, <2>4, <3>1, FailedRow DEF Terminal, TerminalStatuses
    <3> QED
      BY <2>1, <2>4, <3>1, <3>2, RowAndSelf
  <2> QED
    BY <2>1, <2>2, <2>3, <2>4
<1>6. CASE Emergency(w, r)
  <2>1. /\ pc[w][r] = "emergency" /\ pc'[w][r] = "idle" /\ why'[w][r] = "none" /\ Mover(w, r)
        /\ UNCHANGED <<status, backend, mode, snapshot, productFailed, started, relMark, lease, apiVars>>
    BY <1>0, <1>6, ReturnMover DEF Emergency, rowVars, cellVars
  <2>2. RowOf(r)
    <3>1. Terminal(r)
      BY <1>0, <2>1 DEF Emergencies
    <3> QED
      BY <1>0, <1>6, <2>1, <3>1 DEF Emergency, CloseMessage, RowOf, Terminal, TypeOK
  <2> QED
    BY <2>1, <2>2, RowAndSelf
<1> QED
  BY <1>1, <1>2, <1>3, <1>4, <1>5, <1>6 DEF AdmissionNext

\* An interruption leaves a release that is under way alone.
LEMMA InterruptKeeps ==
  ASSUME HInv, NEW w \in Worker, NEW r \in Run, NEW e \in {"cancel", "lost"}, Interrupt(w, r, e)
  PROVE  \A q \in Run : RunInv(q)'
<1>0. TypeOK /\ Resumes(r)
  BY DEF HInv, RunInv
<1>1. /\ why[w][r] \notin {"cancel", "lost", "resume"}
      /\ why' = [why EXCEPT ![w][r] = e]
      /\ UNCHANGED <<status, message, rowVars, relMark, lease, apiVars>>
  BY DEF Interrupt, cellVars
<1>2. \/ \E to \in {"releasing", "settling"} :
           pc[w][r] \in BodyPcs /\ pc' = [pc EXCEPT ![w][r] = to]
      \/ pc[w][r] \in CleanPcs \cup {"settling"} /\ pc' = pc
  BY DEF Interrupt
<1>3. CASE pc[w][r] \in CleanPcs \cup {"settling"} /\ pc' = pc
  <2>1. Mover(w, r) /\ why'[w][r] = e /\ pc'[w][r] = pc[w][r]
    BY <1>0, <1>1, <1>3 DEF TypeOK, Mover
  <2> QED
    BY <1>1, <1>3, <2>1, OnlySelf DEF Working, CleanPcs, BodyPcs, LeasedPcs
<1>4. ASSUME NEW to \in {"releasing", "settling"}, pc[w][r] \in BodyPcs, pc' = [pc EXCEPT ![w][r] = to]
      PROVE  \A q \in Run : RunInv(q)'
  <2>1. Mover(w, r) /\ why'[w][r] = e /\ pc'[w][r] = to
    <3>1. Step(w, r, pc[w][r], to)
      BY <1>4 DEF Step
    <3> QED
      BY <1>0, <1>1, <3>1, EndingMover
  <2> QED
    BY <1>1, <1>4, <2>1, OnlySelf DEF Working, CleanPcs, BodyPcs, LeasedPcs
<1> QED
  BY <1>2, <1>3, <1>4

\* The body: the lease is taken under an open message, and before the message is written.
LEMMA BodyKeeps ==
  ASSUME HInv, NEW w \in Worker, NEW r \in Run, BodyNext(w, r)
  PROVE  \A q \in Run : RunInv(q)'
<1>0. /\ TypeOK /\ OneBody(r) /\ Resumes(r) /\ Retained(r) /\ OwnRuns(r) /\ Unwritten(r)
      /\ Emergencies(r) /\ Holds(r) /\ Quiet(r)
      /\ \A q \in Run : RunInv(q)
  BY DEF HInv, RunInv
<1> USE DEF Working, BodyPcs, CleanPcs, LeasedPcs
<1>1. CASE AcquireLease(w, r)
  <2>1. /\ pc[w][r] = "preparing" /\ pc'[w][r] = "waiting" /\ why'[w][r] = why[w][r] /\ Mover(w, r)
        /\ UNCHANGED <<status, message, backend, mode, snapshot, productFailed, started, relMark, apiVars>>
        /\ MayContinue(r) /\ lease \in {NoRun, r} /\ lease' = r
    BY <1>0, <1>1, StepMover DEF AcquireLease, rowVars
  <2>2. backend[r] # "api" /\ why[w][r] # "resume" /\ ~relMark[r] /\ status[r] # "completed"
    BY <1>0, <2>1, HandedOver DEF Resumes, Retained, MayContinue, Active, ActiveStatuses
  <2>3. CoroutineMoved(w, r)
    BY <1>0, <2>1, <2>2 DEF CoroutineMoved, Mover, OneBody, Terminal, apiVars
  <2>4. \A q \in Run \ {r} : Alike(q)
    BY <2>1, NullsAreNotValues DEF Mover, Alike, apiVars
  <2> QED
    BY <1>0, <2>3, <2>4, AlikeKeeps, CoroutineKeeps
<1>2. CASE QueueForCapacity(w, r)
  <2>1. /\ pc[w][r] = "waiting" /\ pc' = pc /\ why' = why /\ MayContinue(r)
        /\ UNCHANGED <<message, backend, mode, snapshot, productFailed, started, relMark, lease, apiVars>>
    BY <1>2 DEF QueueForCapacity, rowVars, cellVars, execVars
  <2>2. RowOf(r) /\ status'[r] = "queued_for_capacity"
    BY <1>0, <1>2, <2>1 DEF QueueForCapacity, SetStatus, RowOf, TypeOK, MayContinue, Active, Terminal,
       ActiveStatuses, TerminalStatuses
  <2>3. Mover(w, r) /\ why[w][r] # "resume"
    BY <1>0, <2>1 DEF Mover, Resumes
  <2> QED
    BY <2>1, <2>2, <2>3, RowAndSelf
<1>3. CASE LoseCapacityClaim(w, r)
  <2>1. /\ pc[w][r] = "waiting" /\ pc'[w][r] = "idle" /\ why'[w][r] = "none" /\ Mover(w, r)
        /\ UNCHANGED <<status, message, rowVars, relMark, lease, apiVars>>
    BY <1>0, <1>3, ReturnMover DEF LoseCapacityClaim, cellVars
  <2> QED
    BY <2>1, OnlySelf
<1>4. CASE Promote(w, r)
  <2>1. /\ pc[w][r] = "waiting" /\ pc'[w][r] = "building" /\ why'[w][r] = why[w][r] /\ Mover(w, r)
        /\ MayContinue(r)
        /\ UNCHANGED <<message, backend, mode, snapshot, productFailed, started, relMark, lease, apiVars>>
    BY <1>0, <1>4, StepMover DEF Promote, rowVars, cellVars
  <2>2. RowOf(r) /\ status'[r] = "running"
    BY <1>0, <1>4, <2>1 DEF Promote, SetStatus, RowOf, TypeOK, MayContinue, Active, Terminal,
       ActiveStatuses, TerminalStatuses
  <2>3. why[w][r] # "resume"
    BY <1>0, <2>1 DEF Resumes
  <2> QED
    BY <2>1, <2>2, <2>3, RowAndSelf
<1>5. CASE RefuseAdmission(w, r)
  <2>1. /\ pc[w][r] = "waiting" /\ pc'[w][r] = "releasing" /\ why'[w][r] = "error" /\ Mover(w, r)
        /\ UNCHANGED <<status, message, rowVars, relMark, lease, apiVars>>
    <3>1. Step(w, r, "waiting", "releasing") /\ why' = [why EXCEPT ![w][r] = "error"]
      BY <1>5 DEF RefuseAdmission
    <3>2. UNCHANGED <<status, message, rowVars, relMark, lease, apiVars>>
      BY <1>5 DEF RefuseAdmission, cellVars
    <3> QED
      BY <1>0, <3>1, <3>2, EndingMover
  <2> QED
    BY <2>1, OnlySelf
<1>6. CASE RecordProductFailure(w, r)
  <2>1. /\ pc[w][r] = "building" /\ pc'[w][r] = "concluding" /\ why'[w][r] = why[w][r] /\ Mover(w, r)
        /\ UNCHANGED <<status, message, backend, mode, snapshot, started, relMark, lease, apiVars>>
    BY <1>0, <1>6, StepMover DEF RecordProductFailure, cellVars
  <2>2. \A q \in Run \ {r} : productFailed'[q] = productFailed[q]
    BY <1>0, <1>6 DEF RecordProductFailure, TypeOK
  <2>3. backend[r] # "api" /\ why[w][r] # "resume" /\ ~relMark[r] /\ status[r] # "completed"
    BY <1>0, <2>1, HandedOver DEF Resumes, Retained, Quiet
  <2>4. CoroutineMoved(w, r)
    BY <1>0, <2>1, <2>3 DEF CoroutineMoved, Mover, Holds, Terminal, apiVars
  <2>5. \A q \in Run \ {r} : Alike(q)
    BY <2>1, <2>2 DEF Mover, Alike, apiVars
  <2> QED
    BY <1>0, <2>4, <2>5, AlikeKeeps, CoroutineKeeps
<1>7. CASE Publish(w, r)
  <2>1. /\ pc[w][r] \in {"building", "concluding"} /\ pc'[w][r] = "published"
        /\ why'[w][r] = why[w][r] /\ Mover(w, r) /\ MayPublish(r)
        /\ UNCHANGED <<status, backend, mode, productFailed, started, relMark, lease, apiVars>>
    BY <1>0, <1>7, StepMover DEF Publish, cellVars
  <2>2. \A q \in Run \ {r} : snapshot'[q] = snapshot[q] /\ message'[q] = message[q]
    BY <1>0, <1>7 DEF Publish, TypeOK
  <2>3. /\ backend[r] # "api" /\ why[w][r] # "resume" /\ ~relMark[r] /\ status[r] # "completed"
        /\ started[r] /\ (~Terminal(r) => lease = r)
    BY <1>0, <2>1, HandedOver DEF Resumes, Retained, Quiet, Holds, OneBody
  <2>4. CoroutineMoved(w, r)
    BY <1>0, <2>1, <2>3 DEF CoroutineMoved, Mover, Terminal, apiVars
  <2>5. \A q \in Run \ {r} : Alike(q)
    BY <2>1, <2>2 DEF Mover, Alike, apiVars
  <2> QED
    BY <1>0, <2>4, <2>5, AlikeKeeps, CoroutineKeeps
<1>8. CASE PublishNothing(w, r)
  <2>1. /\ pc[w][r] \in {"building", "concluding"} /\ pc'[w][r] = "published"
        /\ why'[w][r] = why[w][r] /\ Mover(w, r)
        /\ UNCHANGED <<status, backend, mode, snapshot, productFailed, started, relMark, lease, apiVars>>
    BY <1>0, <1>8, StepMover DEF PublishNothing, rowVars, cellVars
  <2>2. \A q \in Run \ {r} : message'[q] = message[q]
    BY <1>0, <1>8 DEF PublishNothing, TypeOK
  <2>3. /\ backend[r] # "api" /\ why[w][r] # "resume" /\ ~relMark[r] /\ status[r] # "completed"
        /\ started[r] /\ (~Terminal(r) => lease = r)
    BY <1>0, <2>1, HandedOver DEF Resumes, Retained, Quiet, Holds, OneBody
  <2>4. CoroutineMoved(w, r)
    BY <1>0, <2>1, <2>3 DEF CoroutineMoved, Mover, Terminal, apiVars
  <2>5. \A q \in Run \ {r} : Alike(q)
    BY <2>1, <2>2 DEF Mover, Alike, apiVars
  <2> QED
    BY <1>0, <2>4, <2>5, AlikeKeeps, CoroutineKeeps
<1>9. CASE BodyReturns(w, r)
  <2>1. /\ pc[w][r] = "published" /\ pc'[w][r] \in {"releasing", "settling"} /\ why'[w][r] = "done"
        /\ Mover(w, r) /\ UNCHANGED <<status, message, rowVars, relMark, lease, apiVars>>
    BY <1>0, <1>9, EndBodyMover DEF BodyReturns, cellVars
  <2> QED
    BY <2>1, OnlySelf
<1>10. CASE BodyRaises(w, r) \/ BodyRefused(w, r)
  <2>1. PICK from \in {"preparing", "waiting", "building", "concluding", "published"} :
          Step(w, r, from, "failing") /\ why' = why
    BY <1>10 DEF BodyRaises, BodyRefused
  <2>2. UNCHANGED <<status, message, rowVars, relMark, lease, apiVars>>
    BY <1>10 DEF BodyRaises, BodyRefused, cellVars
  <2>3. pc[w][r] = from /\ pc'[w][r] = "failing" /\ why'[w][r] = why[w][r] /\ Mover(w, r)
    BY <1>0, <2>1, StepMover
  <2>4. why[w][r] # "resume"
    BY <1>0, <2>3 DEF Resumes
  <2> QED
    BY <2>2, <2>3, <2>4, OnlySelf
<1>11. CASE HandleBodyError(w, r)
  <2>1. UNCHANGED <<status, message, rowVars, relMark, lease, apiVars>>
    BY <1>11 DEF HandleBodyError, cellVars
  <2>2. CASE EndBody(w, r, "failing", "error")
    <3>1. /\ pc[w][r] = "failing" /\ pc'[w][r] \in {"releasing", "settling"} /\ why'[w][r] = "error"
          /\ Mover(w, r)
      BY <1>0, <2>2, EndBodyMover
    <3> QED
      BY <2>1, <3>1, OnlySelf
  <2>3. CASE Step(w, r, "failing", "marking") /\ why' = why
    <3>1. pc[w][r] = "failing" /\ pc'[w][r] = "marking" /\ why'[w][r] = why[w][r] /\ Mover(w, r)
      BY <1>0, <2>3, StepMover
    <3>2. why[w][r] # "resume"
      BY <1>0, <3>1 DEF Resumes
    <3> QED
      BY <2>1, <3>1, <3>2, OnlySelf
  <2> QED
    BY <1>11, <2>2, <2>3 DEF HandleBodyError
<1>12. CASE MarkRunFailed(w, r)
  <2>1. /\ pc[w][r] = "marking" /\ pc'[w][r] = "marked" /\ why'[w][r] = why[w][r] /\ Mover(w, r)
        /\ UNCHANGED <<message, backend, mode, snapshot, productFailed, started, relMark, lease, apiVars>>
        /\ SetFailed(r)
    BY <1>0, <1>12, StepMover DEF MarkRunFailed, rowVars, cellVars
  <2>2. /\ RowOf(r) /\ Terminal(r)' /\ ~relMark[r] /\ why[w][r] # "resume"
        /\ status'[r] = "completed" => status[r] = "completed"
    BY <1>0, <2>1, FailedRow, HandedOver DEF Resumes, Retained
  <2> QED
    BY <2>1, <2>2, RowAndSelf
<1>13. CASE MarkMessageFailed(w, r)
  <2>1. /\ pc[w][r] = "marked" /\ pc'[w][r] \in {"releasing", "settling"} /\ why'[w][r] = "done"
        /\ Mover(w, r) /\ CloseMessage(r)
        /\ UNCHANGED <<status, backend, mode, snapshot, productFailed, started, relMark, lease, apiVars>>
    BY <1>0, <1>13, EndBodyMover DEF MarkMessageFailed, rowVars, cellVars
  <2>2. RowOf(r)
    <3>1. Terminal(r)
      BY <1>0, <2>1 DEF Emergencies
    <3> QED
      BY <1>0, <2>1, <3>1 DEF CloseMessage, RowOf, Terminal, TypeOK
  <2> QED
    BY <2>1, <2>2, RowAndSelf
<1>14. CASE Deadline(w, r)
  <2>1. /\ pc[w][r] \in {"building", "concluding", "published"} /\ pc' = pc /\ why' = why
        /\ UNCHANGED <<message, backend, mode, snapshot, productFailed, started, relMark, lease, apiVars>>
    BY <1>14 DEF Deadline, cellVars, execVars
  <2>2. RowOf(r) /\ status'[r] \in {"cancelled", "failed"}
    BY <1>0, <1>14, <2>1 DEF Deadline, SetStatus, RowOf, TypeOK, Terminal, TerminalStatuses
  <2>3. Mover(w, r) /\ why[w][r] # "resume" /\ ~relMark[r]
    BY <1>0, <2>1 DEF Mover, Resumes, Retained
  <2> QED
    BY <2>1, <2>2, <2>3, RowAndSelf
<1>15. CASE SignalStops(w, r) \/ MonitorStops(w, r) \/ OwnershipLossNoticed(w, r)
  BY <1>15, InterruptKeeps DEF SignalStops, MonitorStops, OwnershipLossNoticed
<1> QED
  BY <1>1, <1>2, <1>3, <1>4, <1>5, <1>6, <1>7, <1>8, <1>9, <1>10, <1>11, <1>12, <1>13, <1>14, <1>15
     DEF BodyNext

\* Cleanup: an intent is kept for a complete build, a lease is given up after the body.
LEMMA ReleaseKeeps ==
  ASSUME HInv, NEW w \in Worker, NEW r \in Run, ReleaseNext(w, r)
  PROVE  \A q \in Run : RunInv(q)'
<1>0. /\ TypeOK /\ OneBody(r) /\ Resumes(r) /\ Retained(r) /\ OwnRuns(r) /\ Unwritten(r)
      /\ Emergencies(r) /\ Holds(r) /\ Quiet(r)
      /\ \A q \in Run : RunInv(q)
  BY DEF HInv, RunInv
<1> USE DEF Working, BodyPcs, CleanPcs, LeasedPcs
<1>1. CASE StartRelease(w, r)
  <2>1. /\ pc[w][r] = "releasing" /\ pc'[w][r] \in {"confirming", "settling"} /\ Mover(w, r)
        /\ why'[w][r] \in {why[w][r], "error"}
    <3>1. PICK to \in {"confirming", "settling"} : Step(w, r, "releasing", to)
      BY <1>1 DEF StartRelease
    <3> DEFINE e == IF why[w][r] = "done" THEN "error" ELSE why[w][r]
    <3>2. why' = why \/ why' = [why EXCEPT ![w][r] = e]
      BY <1>0, <1>1 DEF StartRelease, ReleaseRaises
    <3> HIDE DEF e
    <3>3. CASE why' = why
      BY <1>0, <3>1, <3>3, StepMover
    <3>4. CASE why' = [why EXCEPT ![w][r] = e]
      <4>1. why'[w][r] = e /\ pc[w][r] = "releasing" /\ pc'[w][r] = to /\ Mover(w, r)
        BY <1>0, <3>1, <3>4 DEF TypeOK, Step, Mover
      <4> QED
        BY <3>1, <4>1 DEF e
    <3> QED
      BY <3>2, <3>3, <3>4
  <2>2. /\ UNCHANGED <<status, message, rowVars, lease, apiVars>>
        /\ \/ relMark' = relMark
           \/ MayRetain(w, r) /\ relMark' = [relMark EXCEPT ![r] = TRUE]
    BY <1>1 DEF StartRelease
  <2>3. why[w][r] # "resume" /\ ~relMark[r] /\ backend[r] # "api"
    BY <1>0, <2>1, HandedOver DEF Resumes, Retained
  <2>4. CASE relMark' = relMark
    BY <2>1, <2>2, <2>3, <2>4, OnlySelf
  <2>5. CASE MayRetain(w, r) /\ relMark' = [relMark EXCEPT ![r] = TRUE]
    <3>1. \A q \in Run \ {r} : Alike(q)
      BY <1>0, <2>1, <2>2, <2>5 DEF TypeOK, Mover, Alike, rowVars, apiVars
    <3>2. ~CompletionError(r)' /\ status'[r] = "running"
      BY <2>2, <2>5 DEF MayRetain, CompletionError, rowVars
    <3>3. CoroutineMoved(w, r)
      BY <1>0, <2>1, <2>2, <2>3, <3>2 DEF CoroutineMoved, Mover, Terminal, rowVars, apiVars
    <3> QED
      BY <1>0, <3>1, <3>3, AlikeKeeps, CoroutineKeeps
  <2> QED
    BY <2>2, <2>4, <2>5
<1>2. CASE ReleaseSucceeds(w, r) \/ ReleaseFails(w, r)
  <2>1. UNCHANGED <<status, message, rowVars, relMark, lease, apiVars, pc, why>>
    BY <1>2 DEF ReleaseSucceeds, ReleaseFails, ControllerAnswers, execVars
  <2>2. \A q \in Run : Alike(q)
    BY <2>1 DEF Alike, rowVars, apiVars
  <2> QED
    BY <1>0, <2>2, AlikeKeeps
<1>3. CASE ConfirmRelease(w, r)
  <2>1. /\ pc[w][r] = "confirming" /\ pc'[w][r] = "settling" /\ why'[w][r] = why[w][r] /\ Mover(w, r)
        /\ UNCHANGED <<status, message, backend, mode, snapshot, productFailed, started, relMark, apiVars>>
        /\ lease = r /\ lease' = NoRun
    BY <1>0, <1>3, StepMover DEF ConfirmRelease, rowVars
  <2>2. \A q \in Run \ {r} : Alike(q)
    BY <2>1, NullsAreNotValues DEF Mover, Alike, apiVars
  <2>3. \A v \in Worker : pc[v][r] \notin BodyPcs
    <3>1. CASE why[w][r] = "resume"
      BY <1>0, <3>1 DEF Resumes, Retained
    <3>2. CASE why[w][r] # "resume"
      BY <1>0, <2>1, <3>2 DEF OneBody
    <3> QED
      BY <3>1, <3>2
  <2>4. backend[r] # "api" /\ (CompletionError(r)' <=> CompletionError(r)) /\ lease' # r
    BY <2>1, HandedOver, NullsAreNotValues DEF CompletionError
  <2>5. relMark[r] => ~CompletionError(r)' /\ status'[r] # "failed"
    BY <1>0, <2>1, <2>4 DEF Retained
  <2>6. why[w][r] = "resume" => relMark[r]
    BY <1>0 DEF Resumes
  <2>7. CoroutineMoved(w, r)
    BY <2>1, <2>3, <2>4, <2>5, <2>6 DEF CoroutineMoved, Mover, Terminal, apiVars
  <2> QED
    BY <1>0, <2>2, <2>7, AlikeKeeps, CoroutineKeeps
<1>4. CASE ReleaseUnconfirmed(w, r)
  <2>1. UNCHANGED <<status, message, rowVars, relMark, lease, apiVars>>
    BY <1>4 DEF ReleaseUnconfirmed, cellVars
  <2>2. CASE Return(w, r, "confirming")
    <3>1. pc[w][r] = "confirming" /\ pc'[w][r] = "idle" /\ why'[w][r] = "none" /\ Mover(w, r)
      BY <1>0, <2>2, ReturnMover
    <3> QED
      BY <2>1, <3>1, OnlySelf
  <2>3. ASSUME NEW e, why[w][r] # "resume", e # "resume", Step(w, r, "confirming", "settling"),
               why' = [why EXCEPT ![w][r] = e]
        PROVE  \A q \in Run : RunInv(q)'
    <3>1. pc[w][r] = "confirming" /\ pc'[w][r] = "settling" /\ why'[w][r] = e /\ Mover(w, r)
      BY <1>0, <2>3, EndingMover
    <3> QED
      BY <2>1, <2>3, <3>1, OnlySelf
  <2>4. \/ Return(w, r, "confirming")
        \/ /\ why[w][r] # "resume" /\ Step(w, r, "confirming", "settling")
           /\ \/ why' = [why EXCEPT ![w][r] = "handoff"]
              \/ why' = [why EXCEPT ![w][r] = IF why[w][r] = "done" THEN "error" ELSE why[w][r]]
    BY <1>0, <1>4 DEF ReleaseUnconfirmed, ReleaseRaises, TypeOK
  <2> QED
    BY <2>2, <2>3, <2>4
<1> QED
  BY <1>1, <1>2, <1>3, <1>4 DEF ReleaseNext

\* Settlement and the resumed release, which has a retained intent and no body beside it.
LEMMA SettleKeeps ==
  ASSUME HInv, NEW w \in Worker, NEW r \in Run, SettleNext(w, r)
  PROVE  \A q \in Run : RunInv(q)'
<1>0. /\ TypeOK /\ OneBody(r) /\ Resumes(r) /\ Retained(r) /\ OwnRuns(r) /\ Unwritten(r)
      /\ Emergencies(r) /\ Holds(r) /\ Quiet(r)
      /\ \A q \in Run : RunInv(q)
  BY DEF HInv, RunInv
<1> USE DEF Working, BodyPcs, CleanPcs, LeasedPcs
<1>1. CASE SettleDone(w, r)
  <2>1. /\ pc[w][r] = "settling" /\ pc'[w][r] = "idle" /\ why'[w][r] = "none" /\ Mover(w, r)
        /\ UNCHANGED <<backend, mode, snapshot, productFailed, started, relMark, lease, apiVars>>
        /\ why[w][r] = "done" /\ Finalize(r)
    <3>1. /\ Return(w, r, "settling") /\ why[w][r] = "done" /\ Finalize(r)
          /\ UNCHANGED <<backend, mode, snapshot, productFailed, started, relMark, lease, apiVars>>
      BY <1>1 DEF SettleDone, rowVars, cellVars
    <3> QED
      BY <1>0, <3>1, ReturnMover
  <2>2. /\ RowOf(r)
        /\ status'[r] = "failed" => status[r] = "failed" \/ CompletionError(r)
        /\ status'[r] = "completed" => status[r] = "completed" \/ lease # r
    BY <1>0, <2>1, FinalizeRow
  <2> QED
    BY <2>1, <2>2, RowAndSelf
<1>2. CASE SettleCancel(w, r)
  <2>1. /\ pc[w][r] = "settling" /\ pc'[w][r] = "idle" /\ why'[w][r] = "none" /\ Mover(w, r)
        /\ UNCHANGED <<backend, mode, snapshot, productFailed, started, relMark, lease, apiVars>>
        /\ FinalizeCancelled(r)
    <3>1. /\ Return(w, r, "settling") /\ FinalizeCancelled(r)
          /\ UNCHANGED <<backend, mode, snapshot, productFailed, started, relMark, lease, apiVars>>
      BY <1>2 DEF SettleCancel, rowVars, cellVars
    <3> QED
      BY <1>0, <3>1, ReturnMover
  <2>2. /\ RowOf(r)
        /\ status'[r] = "failed" => status[r] = "failed"
        /\ status'[r] = "completed" => status[r] = "completed"
    BY <1>0, <2>1, CancelledRow
  <2> QED
    BY <2>1, <2>2, RowAndSelf
<1>3. CASE SettleHandoff(w, r) \/ ResumeDefers(w, r)
  <2>1. /\ UNCHANGED <<status, message, rowVars, relMark, lease, apiVars>>
        /\ Return(w, r, "settling") \/ Return(w, r, "resuming")
    BY <1>3 DEF SettleHandoff, ResumeDefers, cellVars
  <2>2. /\ pc[w][r] \in {"settling", "resuming"} /\ pc'[w][r] = "idle" /\ why'[w][r] = "none"
        /\ Mover(w, r)
    BY <1>0, <2>1, ReturnMover
  <2> QED
    BY <2>1, <2>2, OnlySelf
<1>4. CASE SettleError(w, r)
  <2>1. /\ Step(w, r, "settling", "erroring") /\ why' = why /\ why[w][r] = "error" /\ ~relMark[r]
        /\ UNCHANGED <<status, message, rowVars, relMark, lease, apiVars>>
    BY <1>4 DEF SettleError, cellVars
  <2>2. pc[w][r] = "settling" /\ pc'[w][r] = "erroring" /\ why'[w][r] = why[w][r] /\ Mover(w, r)
    BY <1>0, <2>1, StepMover
  <2> QED
    BY <2>1, <2>2, OnlySelf
<1>5. CASE SetRunFailed(w, r)
  <2>1. /\ Step(w, r, "erroring", "emergency") /\ why' = why /\ SetFailed(r) /\ UNCHANGED message
        /\ UNCHANGED <<backend, mode, snapshot, productFailed, started, relMark, lease, apiVars>>
    BY <1>5 DEF SetRunFailed, rowVars, cellVars
  <2>2. pc[w][r] = "erroring" /\ pc'[w][r] = "emergency" /\ why'[w][r] = why[w][r] /\ Mover(w, r)
    BY <1>0, <2>1, StepMover
  <2>3. /\ RowOf(r) /\ Terminal(r)' /\ ~relMark[r] /\ why[w][r] # "resume"
        /\ status'[r] = "completed" => status[r] = "completed"
    BY <1>0, <2>1, <2>2, FailedRow, HandedOver DEF Resumes, Retained
  <2> QED
    BY <2>1, <2>2, <2>3, RowAndSelf
<1>6. CASE SettleLost(w, r)
  <2>1. /\ Step(w, r, "settling", "orphan") /\ why' = why /\ why[w][r] = "lost"
        /\ UNCHANGED <<status, message, rowVars, relMark, lease, apiVars>>
    BY <1>6 DEF SettleLost, cellVars
  <2>2. pc[w][r] = "settling" /\ pc'[w][r] = "orphan" /\ why'[w][r] = why[w][r] /\ Mover(w, r)
    BY <1>0, <2>1, StepMover
  <2> QED
    BY <2>1, <2>2, OnlySelf
<1>7. CASE ResumeRelease(w, r) \/ ResumeFinished(w, r)
  <2>1. /\ Step(w, r, "resuming", "confirming") \/ Step(w, r, "resuming", "settling")
        /\ why' = [why EXCEPT ![w][r] = "resume"]
        /\ UNCHANGED <<status, message, rowVars, relMark, lease, apiVars>>
    BY <1>7 DEF ResumeRelease, ResumeFinished, cellVars
  <2>2. /\ pc[w][r] = "resuming" /\ pc'[w][r] \in {"confirming", "settling"}
        /\ why'[w][r] = "resume" /\ Mover(w, r)
    BY <1>0, <2>1, EndingMover
  <2>3. relMark[r]
    BY <1>0, <2>2 DEF Resumes
  <2> QED
    BY <2>1, <2>2, <2>3, OnlySelf
<1>8. CASE SettleResumed(w, r)
  <2>1. /\ Return(w, r, "settling") /\ why[w][r] = "resume"
        /\ Finalize(r) \/ UNCHANGED <<status, message>>
        /\ UNCHANGED <<backend, mode, snapshot, productFailed, started, relMark, lease, apiVars>>
    BY <1>8 DEF SettleResumed, rowVars, cellVars
  <2>2. /\ pc[w][r] = "settling" /\ pc'[w][r] = "idle" /\ why'[w][r] = "none" /\ Mover(w, r)
        /\ relMark[r]
    BY <1>0, <2>1, ReturnMover DEF Resumes
  <2>3. /\ RowOf(r)
        /\ status'[r] = "failed" => status[r] = "failed" \/ CompletionError(r)
        /\ status'[r] = "completed" => status[r] = "completed" \/ lease # r
    <3>1. CASE Finalize(r)
      BY <1>0, <3>1, FinalizeRow
    <3>2. CASE UNCHANGED <<status, message>>
      BY <3>2 DEF RowOf, Terminal
    <3> QED
      BY <2>1, <3>1, <3>2
  <2> QED
    BY <2>1, <2>2, <2>3, RowAndSelf
<1>9. CASE ResumeInterrupted(w, r)
  <2>1. /\ UNCHANGED <<status, message, rowVars, relMark, lease, apiVars>>
        /\ why[w][r] = "resume" /\ pc[w][r] \in {"confirming", "settling"}
    BY <1>9 DEF ResumeInterrupted
  <2>2. PICK to \in {"idle", "orphan"}, e \in {"none", "lost"} :
          pc' = [pc EXCEPT ![w][r] = to] /\ why' = [why EXCEPT ![w][r] = e]
    BY <1>9 DEF ResumeInterrupted
  <2>3. pc'[w][r] = to /\ why'[w][r] = e /\ Mover(w, r)
    BY <1>0, <2>2 DEF TypeOK, Mover
  <2> QED
    BY <2>1, <2>2, <2>3, OnlySelf
<1> QED
  BY <1>1, <1>2, <1>3, <1>4, <1>5, <1>6, <1>7, <1>8, <1>9 DEF SettleNext

-----------------------------------------------------------------------------
\* The steps that move no coroutine.

\* A step on behalf of r that moves no coroutine.
LEMMA RowStepKeeps ==
  ASSUME HInv, NEW r \in Run, RowMoved(r), \A q \in Run \ {r} : Alike(q)
  PROVE  \A q \in Run : RunInv(q)'
BY AlikeKeeps, RowKeeps DEF HInv

\* Stop moves the row of its run alone.
LEMMA StopKeeps ==
  ASSUME HInv, NEW r \in Run, StopUnstarted(r) \/ StopRunning(r)
  PROVE  \A q \in Run : RunInv(q)'
<1>0. TypeOK /\ RunInv(r)
  BY DEF HInv
<1>1. UNCHANGED <<rowVars, cellVars, execVars, apiVars>>
  BY DEF StopUnstarted, StopRunning
<1>2. /\ RowOf(r) /\ ~Terminal(r)
      /\ status'[r] \in {"cancelled", "cancel_requested", status[r]}
  BY <1>0 DEF StopUnstarted, StopRunning, ApplyCancelled, SetStatus, CloseMessage, RowOf, Terminal,
     TerminalStatuses, TypeOK
<1>3. \A q \in Run \ {r} : Alike(q)
  BY <1>1, <1>2 DEF Alike, RowOf, rowVars, cellVars, execVars, apiVars
<1>4. RowMoved(r)
  BY <1>0, <1>1, <1>2 DEF RowMoved, RowOf, RunInv, Retained, OwnRuns, Unwritten, CompletionError, Terminal,
     TerminalStatuses, rowVars, cellVars, execVars, apiVars
<1> QED
  BY <1>3, <1>4, RowStepKeeps

\* A text turn is the API's own: no worker has a coroutine for it.
LEMMA TextKeeps ==
  ASSUME HInv, NEW r \in Run,
         \/ TextStart(r) \/ TextWrite(r) \/ TextFinish(r) \/ TextCancel(r)
         \/ TextFail(r) \/ TextSetFailed(r) \/ TextEmergency(r)
  PROVE  \A q \in Run : RunInv(q)'
<1>0. TypeOK /\ RunInv(r)
  BY DEF HInv
<1>1. PICK from \in TextPcs \ {"idle"}, to \in TextPcs : TextStep(r, from, to)
  BY DEF TextStart, TextWrite, TextFinish, TextCancel, TextFail, TextSetFailed, TextEmergency, TextPcs
<1>2. /\ textPc[r] # "idle" /\ UNCHANGED <<rowVars, cellVars, execVars, request>>
      /\ \A q \in Run \ {r} : textPc'[q] = textPc[q]
  BY <1>0, <1>1 DEF TextStep, TypeOK
<1>3. backend[r] = "api" /\ request[r] = "none" /\ ~relMark[r] /\ \A w \in Worker : pc[w][r] = "idle"
  BY <1>0, <1>2 DEF RunInv, OwnRuns
<1>4. /\ \A q \in Run \ {r} : status'[q] = status[q] /\ message'[q] = message[q]
      /\ Terminal(r) => Terminal(r)'
      /\ status'[r] = "completed" => status[r] = "completed" \/ lease # r
  <2>1. CASE TextStart(r) \/ TextWrite(r)
    BY <1>0, <2>1 DEF TextStart, TextWrite, SetStatus, TypeOK, Terminal, TerminalStatuses
  <2>2. CASE TextFinish(r)
    BY <1>0, <2>2, FinalizeRow DEF TextFinish, RowOf
  <2>3. CASE TextCancel(r)
    BY <1>0, <2>3, CancelledRow DEF TextCancel, RowOf
  <2>4. CASE TextFail(r)
    <3>1. FinalizeCancelled(r) \/ UNCHANGED <<status, message>>
      BY <2>4 DEF TextFail
    <3> QED
      BY <1>0, <3>1, CancelledRow DEF RowOf, Terminal
  <2>5. CASE TextSetFailed(r)
    BY <1>0, <2>5, FailedRow DEF TextSetFailed, RowOf
  <2>6. CASE TextEmergency(r)
    BY <1>0, <2>6 DEF TextEmergency, CloseMessage, TypeOK, Terminal
  <2> QED
    BY <2>1, <2>2, <2>3, <2>4, <2>5, <2>6
<1>5. \A q \in Run \ {r} : Alike(q)
  BY <1>2, <1>4 DEF Alike, rowVars, cellVars, execVars
<1>6. RowMoved(r)
  BY <1>2, <1>3, <1>4 DEF RowMoved, BodyPcs, rowVars, cellVars, execVars
<1> QED
  BY <1>5, <1>6, RowStepKeeps

\* The lazy completion of a previous run finds its Cell released and its body gone.
LEMMA ReserveKeeps ==
  ASSUME HInv, NEW r \in Run, Reserve(r)
  PROVE  \A q \in Run : RunInv(q)'
<1>0. TypeOK /\ \A q \in Run : RunInv(q)
  BY DEF HInv
<1>1. /\ UNCHANGED <<message, rowVars, cellVars, execVars, textPc>>
      /\ status[r] = "none" /\ status'[r] = "pending" /\ request'[r] = "accepting"
      /\ \A q \in Run \ {r} : request'[q] = request[q]
  BY <1>0 DEF Reserve, SetStatus, TypeOK, Active, ActiveStatuses
<1>2. Untouched(r)
  BY <1>1 DEF HInv, AcceptedInOrder
<1>3. RowMoved(r)
  BY <1>1, <1>2 DEF Untouched, RowMoved, Terminal, TerminalStatuses, rowVars, cellVars, execVars
<1>4. ASSUME NEW q \in Run \ {r}, status'[q] = status[q]
      PROVE  Alike(q)
  BY <1>1, <1>4 DEF Alike, rowVars, cellVars, execVars
<1>5. ASSUME NEW q \in Run \ {r}, status'[q] # status[q]
      PROVE  RowMoved(q)
  <2>1. /\ Active(q) /\ Closable(q)
        /\ status'[q] = IF CompletionError(q) THEN "failed" ELSE "completed"
    BY <1>0, <1>1, <1>5 DEF Reserve, SetStatus, TypeOK
  <2>2. message[q] = "final" /\ lease # q /\ ~Terminal(q)
    BY <2>1 DEF Closable, ReleasePending, Active, Terminal, ActiveStatuses, TerminalStatuses
  <2>3. \A w \in Worker : pc[w][q] \notin BodyPcs
    BY <1>0, <2>2 DEF RunInv, Holds
  <2>4. (CompletionError(q)' <=> CompletionError(q)) /\ (relMark[q] => ~CompletionError(q))
    BY <1>0, <1>1 DEF RunInv, Retained, CompletionError, rowVars
  <2> QED
    BY <1>0, <1>1, <2>1, <2>2, <2>3, <2>4
       DEF RunInv, OwnRuns, RowMoved, Terminal, TerminalStatuses, rowVars, cellVars, execVars
<1> QED
  BY <1>0, <1>3, <1>4, <1>5, AlikeKeeps, RowKeeps

\* The rest of an acceptance precedes the executors of the run.
LEMMA AcceptanceKeeps ==
  ASSUME HInv, NEW r \in Run,
         PersistMessages(r) \/ DispatchText(r) \/ DispatchBuild(r) \/ RequestDies(r)
  PROVE  \A q \in Run : RunInv(q)'
<1>0. TypeOK /\ OwnRuns(r) /\ Retained(r) /\ Unwritten(r)
  BY DEF HInv, RunInv
<1>1. /\ UNCHANGED <<status, snapshot, productFailed, started, cellVars, execVars>>
      /\ request[r] # "none" /\ request'[r] \in {"persisted", "none"}
      /\ \A q \in Run \ {r} : /\ request'[q] = request[q] /\ message'[q] = message[q]
                              /\ mode'[q] = mode[q] /\ backend'[q] = backend[q] /\ textPc'[q] = textPc[q]
  BY <1>0 DEF PersistMessages, DispatchText, DispatchBuild, RequestDies, TypeOK, rowVars
<1>2. \A q \in Run \ {r} : Alike(q)
  BY <1>1 DEF Alike, cellVars, execVars
<1>3. /\ backend[r] = "api" /\ textPc[r] = "idle" /\ ~relMark[r] /\ (Terminal(r) <=> Terminal(r)')
  BY <1>0, <1>1 DEF OwnRuns, Terminal
<1>4. CASE PersistMessages(r)
  <2>1. message'[r] = "open" /\ request'[r] = "persisted" /\ UNCHANGED <<backend, textPc>>
    BY <1>0, <1>4 DEF PersistMessages, TypeOK
  <2>2. RowMoved(r)
    BY <1>1, <1>3, <2>1 DEF RowMoved, cellVars, execVars
  <2> QED
    BY <1>2, <2>2, RowStepKeeps
<1>5. CASE DispatchText(r) \/ DispatchBuild(r) \/ RequestDies(r)
  <2>1. /\ message' = message /\ request'[r] = "none"
        /\ backend'[r] = "api" \/ textPc'[r] = "idle"
    BY <1>0, <1>3, <1>5 DEF DispatchText, DispatchBuild, RequestDies, TypeOK, rowVars
  <2>2. RowMoved(r)
    BY <1>1, <1>3, <2>1 DEF RowMoved, cellVars, execVars
  <2> QED
    BY <1>2, <2>2, RowStepKeeps
<1> QED
  BY <1>4, <1>5

\* A lease is reclaimed from a run that is over, or left where it is.
LEMMA ReclaimKeeps ==
  ASSUME HInv, NEW r \in Run, Reclaim(r)
  PROVE  \A q \in Run : RunInv(q)'
<1>0. TypeOK /\ \A q \in Run : RunInv(q)
  BY DEF HInv
<1>1. CASE ReclaimStaleLease(r)
  <2>1. /\ UNCHANGED <<status, message, rowVars, relMark, execVars, apiVars>>
        /\ lease = r /\ lease' = NoRun /\ Terminal(r)
    BY <1>1 DEF ReclaimStaleLease, Stale
  <2>2. \A q \in Run \ {r} : Alike(q)
    BY <2>1, NullsAreNotValues DEF Alike, rowVars, execVars, apiVars
  <2>3. RowMoved(r)
    BY <1>0, <2>1, NullsAreNotValues
       DEF RowMoved, RunInv, Retained, OwnRuns, Quiet, CompletionError, Terminal, rowVars, execVars, apiVars
  <2> QED
    BY <2>2, <2>3, RowStepKeeps
<1>2. CASE ReclaimKeepsLease(r)
  <2>1. \A q \in Run : Alike(q)
    BY <1>2 DEF ReclaimKeepsLease, Alike, rowVars, execVars, apiVars
  <2> QED
    BY <1>0, <2>1, AlikeKeeps
<1> QED
  BY <1>1, <1>2 DEF Reclaim

\* A crash, a lost connection and a restart of the API.
LEMMA FaultKeeps ==
  ASSUME HInv, FaultNext
  PROVE  \A q \in Run : RunInv(q)'
<1>0. TypeOK /\ \A q \in Run : RunInv(q)
  BY DEF HInv
<1>1. ASSUME ApiStop \/ ApiStart, NEW q \in Run
      PROVE  RunInv(q)'
  <2>1. /\ UNCHANGED <<rowVars, cellVars, execVars>>
        /\ request'[q] \in {"none", request[q]} /\ textPc'[q] \in {"idle", textPc[q]}
        /\ textPc'[q] # "idle" => request'[q] = request[q]
        /\ status'[q] = status[q] \/ (status'[q] = "failed" /\ ~relMark[q] /\ ~Terminal(q))
        /\ message'[q] = message[q] \/ status'[q] = "failed"
    BY <1>0, <1>1 DEF ApiStop, ApiStart, Interrupted, InterruptedStatuses, TypeOK, Terminal, TerminalStatuses
  <2>2. RowMoved(q)
    BY <1>0, <2>1 DEF RowMoved, RunInv, Retained, OwnRuns, CompletionError, Terminal,
       TerminalStatuses, rowVars, cellVars, execVars
  <2> QED
    BY <1>0, <2>2, RowKeeps
<1>2. ASSUME NEW w \in Worker, WorkerCrash(w), NEW q \in Run
      PROVE  RunInv(q)'
  <2>1. UNCHANGED <<status, message, rowVars, relMark, lease, apiVars>>
    BY <1>2 DEF WorkerCrash, cellVars
  <2>2. /\ pc'[w][q] = "idle" /\ why'[w][q] = "none"
        /\ \A v \in Worker \ {w} : pc'[v][q] = pc[v][q] /\ why'[v][q] = why[v][q]
    BY <1>0, <1>2 DEF WorkerCrash, TypeOK
  <2>3. CoroutineMoved(w, q)
    BY <1>0, <2>1, <2>2 DEF CoroutineMoved, RunInv, Retained, OwnRuns, Quiet, Working, BodyPcs, CleanPcs,
       LeasedPcs, CompletionError, Terminal, rowVars, apiVars
  <2> QED
    BY <1>0, <2>3, CoroutineKeeps
<1>3. ASSUME NEW w \in Worker, NEW r \in Run, LoseOwnership(w, r), NEW q \in Run
      PROVE  RunInv(q)'
  <2>1. Alike(q)
    BY <1>3 DEF LoseOwnership, Alike, rowVars, cellVars, apiVars
  <2> QED
    BY <1>0, <2>1, AlikeKeeps
<1> QED
  BY <1>1, <1>2, <1>3 DEF FaultNext

\* Every step of every process preserves the invariant of every run.
LEMMA RunInvStep == HInv /\ [Next]_vars => \A q \in Run : RunInv(q)'
<1> SUFFICES ASSUME HInv, [Next]_vars PROVE \A q \in Run : RunInv(q)'
  OBVIOUS
<1>1. ASSUME NEW r \in Run, ApiNext(r)
      PROVE  \A q \in Run : RunInv(q)'
  <2>1. CASE Reserve(r)
    BY <2>1, ReserveKeeps
  <2>2. CASE PersistMessages(r) \/ DispatchText(r) \/ DispatchBuild(r) \/ RequestDies(r)
    BY <2>2, AcceptanceKeeps
  <2>3. CASE StopUnstarted(r) \/ StopRunning(r)
    BY <2>3, StopKeeps
  <2>4. CASE \/ TextStart(r) \/ TextWrite(r) \/ TextFinish(r) \/ TextCancel(r)
             \/ TextFail(r) \/ TextSetFailed(r) \/ TextEmergency(r)
    BY <2>4, TextKeeps
  <2> QED
    BY <1>1, <2>1, <2>2, <2>3, <2>4 DEF ApiNext
<1>2. ASSUME NEW w \in Worker, NEW r \in Run,
             AdmissionNext(w, r) \/ BodyNext(w, r) \/ ReleaseNext(w, r) \/ SettleNext(w, r)
      PROVE  \A q \in Run : RunInv(q)'
  BY <1>2, AdmissionKeeps, BodyKeeps, ReleaseKeeps, SettleKeeps
<1>3. CASE UNCHANGED vars
  <2>1. \A q \in Run : Alike(q)
    BY <1>3 DEF vars, Alike, rowVars, cellVars, execVars, apiVars
  <2> QED
    BY <2>1, AlikeKeeps DEF HInv
<1> QED
  BY <1>1, <1>2, <1>3, ReclaimKeeps, FaultKeeps DEF Next

\* The invariant holds initially, when nothing has been accepted.
LEMMA RunInvInit == Init => AcceptedInOrder /\ \A r \in Run : RunInv(r)
BY NullsAreNotValues DEF Init, AcceptedInOrder, Untouched, RunInv, OneBody, Resumes, Retained, OwnRuns,
   Unwritten, Emergencies, Holds, Quiet, Working, BodyPcs, CleanPcs, LeasedPcs, Terminal, TerminalStatuses

\* The invariant is one of the specification.
LEMMA HInvAlways == Spec => []HInv
<1>1. Init /\ TypeOK => HInv
  BY RunInvInit DEF HInv
<1>2. HInv /\ TypeOK' /\ [Next]_vars => HInv'
  BY RunInvStep, AcceptanceStep DEF HInv
<1> QED
  BY <1>1, <1>2, TypeCorrect, PTL DEF Spec

-----------------------------------------------------------------------------
\* The theorems.

\* While a body works for a run that is not over, that run holds the Cell: the
\* lease leaves a run only by its own cleanup, by the resumed release of an intent
\* kept after the body, or when the run is over (project_cell_capacity.py).
THEOREM CellIsHeld == Spec => []WorkingRunHoldsCell
<1>1. HInv => WorkingRunHoldsCell
  BY DEF HInv, RunInv, Holds, LeasedPcs, WorkingRunHoldsCell
<1> QED
  BY <1>1, HInvAlways, PTL

\* A completed run has released the Cell and no body works on its behalf, whoever
\* completed it: the tracker, a resumed release, the API's text task or the
\* acceptance of the next request (terminalize_generation_run_locked).
THEOREM CompletedIsQuiet == Spec => []CompletedRunIsQuiet
<1>1. HInv => CompletedRunIsQuiet
  BY DEF HInv, RunInv, Quiet, CompletedRunIsQuiet
<1> QED
  BY <1>1, HInvAlways, PTL

\* Once the release intent of a finished build is kept, nothing fails the run: no
\* orphan handling, no restart of the API, no late error path (_fail_orphan,
\* _recover_interrupted_generation_runs, generation_tracking.py).
THEOREM SavedNeverFailed == Spec => []SavedBuildNeverFailed
<1>1. HInv => SavedBuildNeverFailed
  BY DEF HInv, RunInv, Retained, SavedBuildNeverFailed
<1> QED
  BY <1>1, HInvAlways, PTL

\* A candidate is published by the run that holds the Cell, whatever its body has
\* lost meanwhile (record_accepted_candidate).
THEOREM HolderPublishes == Spec => OnlyLeaseHolderPublishes
<1> DEFINE Held == \A r \in Run : snapshot'[r] # snapshot[r] => lease = r
<1>1. HInv /\ [Next]_vars => Held
  <2> SUFFICES ASSUME HInv, [Next]_vars, NEW r \in Run, snapshot'[r] # snapshot[r]
               PROVE  lease = r
    OBVIOUS
  <2>1. PICK w \in Worker, q \in Run : Publish(w, q)
    BY RowStep DEF RowMoves, PersistMessages, AdmitBody, RecordProductFailure
  <2>2. q = r /\ MayPublish(r) /\ pc[w][r] \in {"building", "concluding"}
    BY <2>1 DEF Publish, Step, HInv, TypeOK
  <2> QED
    BY <2>2 DEF HInv, RunInv, Holds, LeasedPcs, MayPublish, Terminal, TerminalStatuses
<1>2. HInv /\ [Next]_vars => [Held]_vars
  BY <1>1
<1> QED
  BY <1>2, HInvAlways, PTL DEF Spec, OnlyLeaseHolderPublishes
=============================================================================
