------------------------ MODULE GenerationRunsProofs ------------------------
(***************************************************************************)
(* Theorems about GenerationRuns, for any number of runs, workers, failures *)
(* and Stops.                                                              *)
(*                                                                         *)
(* The helpers of the actions are typed once, by the lemmas of the first    *)
(* section; a step of the type proof then cites the helpers its action is   *)
(* made of.  The last section is about who asked for a cancellation.       *)
(***************************************************************************)
EXTENDS GenerationRuns, TLAPS

-----------------------------------------------------------------------------
\* Typing of the helpers the actions share.

\* A step of one coroutine changes one cell of the table of coroutines.
LEMMA StepType ==
  ASSUME TypeOK, NEW w \in Worker, NEW r \in Run, NEW from, NEW to \in ExecPcs,
         Step(w, r, from, to)
  PROVE  pc' \in [Worker -> [Run -> ExecPcs]]
BY DEF TypeOK, Step

\* Recording how a body ends changes one cell of the table of endings.
LEMMA EndingType ==
  ASSUME TypeOK, NEW w \in Worker, NEW r \in Run, NEW ending \in Endings,
         why' = [why EXCEPT ![w][r] = ending]
  PROVE  why' \in [Worker -> [Run -> Endings]]
BY DEF TypeOK

\* Returning from execute_dispatch leaves the executor's variables typed.
LEMMA ReturnType ==
  ASSUME TypeOK, NEW w \in Worker, NEW r \in Run, NEW from, Return(w, r, from)
  PROVE  /\ pc' \in [Worker -> [Run -> ExecPcs]]
         /\ why' \in [Worker -> [Run -> Endings]]
         /\ owner' \in [Run -> Worker \cup {NoWorker}]
         /\ handle' \subseteq Worker \X Run
<1>1. pc' \in [Worker -> [Run -> ExecPcs]]
  <2>1. Step(w, r, from, "idle") /\ "idle" \in ExecPcs
    BY DEF Return, ExecPcs
  <2> QED
    BY <2>1, StepType
<1>2. why' \in [Worker -> [Run -> Endings]]
  <2>1. why' = [why EXCEPT ![w][r] = "none"] /\ "none" \in Endings
    BY DEF Return, Endings
  <2> QED
    BY <2>1, EndingType
<1>3. owner' \in [Run -> Worker \cup {NoWorker}] /\ handle' \subseteq Worker \X Run
  BY DEF TypeOK, Return
<1> QED
  BY <1>1, <1>2, <1>3

\* Leaving the body for cleanup or settlement.
LEMMA EndBodyType ==
  ASSUME TypeOK, NEW w \in Worker, NEW r \in Run, NEW from, NEW ending \in Endings,
         EndBody(w, r, from, ending)
  PROVE  pc' \in [Worker -> [Run -> ExecPcs]] /\ why' \in [Worker -> [Run -> Endings]]
<1>1. PICK to \in ExecPcs : Step(w, r, from, to)
  BY DEF EndBody, ExecPcs, CleanPcs
<1> QED
  BY <1>1, StepType, EndingType DEF EndBody

\* Every writer of the status column writes one of its statuses.
LEMMA StatusType ==
  ASSUME TypeOK, NEW r \in Run
  PROVE  /\ \A s \in Statuses : SetStatus(r, s) => status' \in [Run -> Statuses]
         /\ CloseMessage(r) => message' \in [Run -> {"none", "open", "final"}]
         /\ ApplyCancelled(r) => /\ status' \in [Run -> Statuses]
                                 /\ message' \in [Run -> {"none", "open", "final"}]
         /\ SetFailed(r) => status' \in [Run -> Statuses]
         /\ FinalizeCancelled(r) => /\ status' \in [Run -> Statuses]
                                    /\ message' \in [Run -> {"none", "open", "final"}]
         /\ Finalize(r) => /\ status' \in [Run -> Statuses]
                           /\ message' \in [Run -> {"none", "open", "final"}]
<1>1. \A s \in Statuses : SetStatus(r, s) => status' \in [Run -> Statuses]
  BY DEF TypeOK, SetStatus
<1>2. CloseMessage(r) => message' \in [Run -> {"none", "open", "final"}]
  BY DEF TypeOK, CloseMessage
<1>3. {"failed", "completed", "cancelled"} \subseteq Statuses
  BY DEF Statuses, TerminalStatuses
<1>4. UNCHANGED status => status' \in [Run -> Statuses]
  BY DEF TypeOK
<1>5. UNCHANGED message => message' \in [Run -> {"none", "open", "final"}]
  BY DEF TypeOK
<1>6. ApplyCancelled(r) => /\ status' \in [Run -> Statuses]
                           /\ message' \in [Run -> {"none", "open", "final"}]
  BY <1>1, <1>2, <1>3 DEF ApplyCancelled
<1>7. SetFailed(r) => status' \in [Run -> Statuses]
  BY <1>1, <1>3, <1>4 DEF SetFailed
<1>8. FinalizeCancelled(r) => /\ status' \in [Run -> Statuses]
                              /\ message' \in [Run -> {"none", "open", "final"}]
  BY <1>4, <1>5, <1>6 DEF FinalizeCancelled
<1>9. Finalize(r) => /\ status' \in [Run -> Statuses]
                     /\ message' \in [Run -> {"none", "open", "final"}]
  BY <1>1, <1>3, <1>4, <1>5, <1>6 DEF Finalize
<1> QED
  BY <1>1, <1>2, <1>6, <1>7, <1>8, <1>9
\* The release operation and the Redis key.
LEMMA CellType ==
  ASSUME TypeOK, NEW r \in Run
  PROVE  /\ Abandon(r) => relOp' \in [Run -> ReleaseOpStatuses]
         /\ \A s \in ReleaseOpStatuses :
              relOp' = [relOp EXCEPT ![r] = s] => relOp' \in [Run -> ReleaseOpStatuses]
         /\ ClearSignal(r) => signal' \in [Run -> BOOLEAN]
<1>1. Abandon(r) => relOp' \in [Run -> ReleaseOpStatuses]
  BY DEF TypeOK, Abandon, ReleaseOpStatuses
<1>2. \A s \in ReleaseOpStatuses :
        relOp' = [relOp EXCEPT ![r] = s] => relOp' \in [Run -> ReleaseOpStatuses]
  BY DEF TypeOK
<1>3. ClearSignal(r) => signal' \in [Run -> BOOLEAN]
  BY DEF TypeOK, ClearSignal
<1> QED
  BY <1>1, <1>2, <1>3

\* The budget of failures is never overdrawn.
LEMMA FaultType == TypeOK /\ Fault => faults' \in 0..MaxFaults
BY FaultBound DEF TypeOK, Fault

\* A release that raises turns a finished body into a failed one.
LEMMA ReleaseRaisesType ==
  ASSUME TypeOK, NEW w \in Worker, NEW r \in Run
  PROVE  UNCHANGED why \/ ReleaseRaises(w, r) => why' \in [Worker -> [Run -> Endings]]
<1>1. why[w][r] \in Endings /\ "error" \in Endings
  BY DEF TypeOK, Endings
<1>2. ReleaseRaises(w, r) => \E e \in Endings : why' = [why EXCEPT ![w][r] = e]
  BY <1>1 DEF ReleaseRaises
<1> QED
  BY <1>2, EndingType DEF TypeOK

\* An interruption moves the coroutine towards cleanup or settlement.
LEMMA InterruptType ==
  ASSUME TypeOK, NEW w \in Worker, NEW r \in Run, NEW ending \in Endings,
         Interrupt(w, r, ending)
  PROVE  TypeOK'
<1>1. why' \in [Worker -> [Run -> Endings]]
  BY EndingType DEF Interrupt
<1>2. pc' \in [Worker -> [Run -> ExecPcs]]
  <2>1. \/ UNCHANGED pc
        \/ \E to \in ExecPcs : Step(w, r, pc[w][r], to)
    BY DEF Interrupt, ExecPcs, CleanPcs, Step
  <2> QED
    BY <2>1, StepType DEF TypeOK
<1> QED
  BY <1>1, <1>2 DEF Interrupt, TypeOK, rowVars, cellVars, apiVars, stopVars

\* A step of a text turn's task.
LEMMA TextStepType ==
  ASSUME TypeOK, NEW r \in Run, NEW from, NEW to \in TextPcs, TextStep(r, from, to)
  PROVE  textPc' \in [Run -> TextPcs]
BY DEF TypeOK, TextStep

-----------------------------------------------------------------------------
\* Type correctness: every variable keeps its type through every step, whatever
\* the number of runs, workers, failures and Stops.
THEOREM TypeCorrect == Spec => []TypeOK
<1> USE FaultBound DEF TypeOK, Statuses, ActiveStatuses, TerminalStatuses, ExecPcs,
                       BodyPcs, CleanPcs, Endings, ReleaseOpStatuses, TextPcs
<1>1. Init => TypeOK
  BY DEF Init
<1>2. TypeOK /\ [Next]_vars => TypeOK'
  <2> SUFFICES ASSUME TypeOK, [Next]_vars PROVE TypeOK'
    OBVIOUS
  <2>1. ASSUME NEW r \in Run, ApiNext(r)
       PROVE  TypeOK'
    <3>1. CASE Reserve(r)
      BY <3>1, StatusType DEF Reserve, rowVars, cellVars, execVars, stopVars
    <3>2. CASE PersistMessages(r)
      BY <3>2, KnownModes DEF PersistMessages, cellVars, execVars, stopVars
    <3>3. CASE DispatchText(r)
      BY <3>3 DEF DispatchText, rowVars, cellVars, execVars, stopVars
    <3>4. CASE DispatchBuild(r)
      BY <3>4 DEF DispatchBuild, cellVars, execVars, stopVars
    <3>5. CASE RequestDies(r)
      BY <3>5 DEF RequestDies, Fault, rowVars, cellVars, execVars, stopVars
    <3>6. CASE StopUnstarted(r)
      BY <3>6, StatusType DEF StopUnstarted, rowVars, cellVars, execVars, apiVars
    <3>7. CASE StopRunning(r)
      BY <3>7, StatusType DEF StopRunning, rowVars, cellVars, execVars, apiVars
    <3>8. CASE TextStart(r)
      BY <3>8, StatusType DEF TextStart, TextStep, rowVars, cellVars, execVars
    <3>9. CASE TextWrite(r)
      BY <3>9 DEF TextWrite, TextStep, rowVars, cellVars, execVars
    <3>10. CASE TextFinish(r)
      BY <3>10, StatusType DEF TextFinish, TextStep, rowVars, cellVars, execVars,
         ClearSignal
    <3>11. CASE TextCancel(r)
      <4>1. textPc' \in [Run -> TextPcs]
        BY <3>11, TextStepType DEF TextCancel
      <4> QED
        BY <3>11, <4>1, StatusType, CellType
           DEF TextCancel, TextStep, rowVars, cellVars, execVars
    <3>12. CASE TextFail(r)
      <4>1. textPc' \in [Run -> TextPcs]
        BY <3>12, TextStepType DEF TextFail
      <4> QED
        BY <3>12, <4>1, StatusType, CellType, FaultType
           DEF TextFail, TextStep, rowVars, cellVars, execVars
    <3>13. CASE TextSetFailed(r)
      BY <3>13, StatusType DEF TextSetFailed, TextStep, rowVars, cellVars, execVars
    <3>14. CASE TextEmergency(r)
      BY <3>14, StatusType DEF TextEmergency, TextStep, rowVars, cellVars, execVars,
         ClearSignal
    <3> QED
      BY <2>1, <3>1, <3>2, <3>3, <3>4, <3>5, <3>6, <3>7, <3>8, <3>9, <3>10, <3>11, <3>12,
           <3>13, <3>14 DEF ApiNext
  <2>2. ASSUME NEW w \in Worker, NEW r \in Run, AdmissionNext(w, r)
       PROVE  TypeOK'
    <3>1. CASE TakeLock(w, r)
      BY <3>1, StepType DEF TakeLock, rowVars, cellVars, apiVars, stopVars
    <3>2. CASE AdmitNothing(w, r)
      BY <3>2, ReturnType, StatusType, CellType
         DEF AdmitNothing, rowVars, apiVars, stopVars
    <3>3. CASE AdmitLeftover(w, r)
      BY <3>3, StepType DEF AdmitLeftover, rowVars, cellVars, apiVars, stopVars
    <3>4. CASE AdmitBody(w, r)
      BY <3>4, StepType DEF AdmitBody, cellVars, apiVars, stopVars
    <3>5. CASE FailOrphan(w, r)
      <4>1. CASE Return(w, r, "orphan")
        BY <3>5, <4>1, ReturnType, StatusType, CellType
           DEF FailOrphan, rowVars, apiVars, stopVars
      <4>2. CASE /\ Step(w, r, "orphan", "emergency") /\ SetStatus(r, "failed") /\ Abandon(r)
                 /\ UNCHANGED <<message, why, owner, handle>>
        <5>1. pc' \in [Worker -> [Run -> ExecPcs]]
          BY <4>2, StepType
        <5> QED
          BY <3>5, <4>2, <5>1, StatusType, CellType DEF FailOrphan, rowVars, apiVars, stopVars
      <4> QED
        BY <3>5, <4>1, <4>2 DEF FailOrphan
    <3>6. CASE Emergency(w, r)
      BY <3>6, ReturnType, StatusType, CellType
         DEF Emergency, rowVars, cellVars, apiVars, stopVars
    <3> QED
      BY <2>2, <3>1, <3>2, <3>3, <3>4, <3>5, <3>6 DEF AdmissionNext
  <2>3. ASSUME NEW w \in Worker, NEW r \in Run, BodyNext(w, r)
       PROVE  TypeOK'
    <3>1. CASE AcquireLease(w, r)
      BY <3>1, StepType DEF AcquireLease, rowVars, apiVars, stopVars
    <3>2. CASE QueueForCapacity(w, r)
      BY <3>2, StatusType DEF QueueForCapacity, rowVars, cellVars, execVars, apiVars,
         stopVars
    <3>3. CASE LoseCapacityClaim(w, r)
      BY <3>3, ReturnType DEF LoseCapacityClaim, Fault, ClearSignal, rowVars, cellVars,
         apiVars
    <3>4. CASE Promote(w, r)
      BY <3>4, StepType, StatusType DEF Promote, rowVars, cellVars, apiVars, stopVars
    <3>5. CASE RefuseAdmission(w, r)
      BY <3>5, StepType DEF RefuseAdmission, rowVars, cellVars, apiVars, stopVars
    <3>6. CASE RecordProductFailure(w, r)
      BY <3>6, StepType DEF RecordProductFailure, cellVars, apiVars, stopVars
    <3>7. CASE Publish(w, r)
      BY <3>7, StepType DEF Publish, cellVars, apiVars, stopVars
    <3>8. CASE PublishNothing(w, r)
      BY <3>8, StepType DEF PublishNothing, rowVars, cellVars, apiVars, stopVars
    <3>9. CASE BodyReturns(w, r)
      BY <3>9, EndBodyType DEF BodyReturns, rowVars, cellVars, apiVars, stopVars
    <3>10. CASE BodyRaises(w, r)
      BY <3>10, StepType DEF BodyRaises, Fault, rowVars, cellVars, apiVars, stopVars
    <3>11. CASE BodyRefused(w, r)
      BY <3>11, StepType DEF BodyRefused, rowVars, cellVars, apiVars, stopVars
    <3>12. CASE HandleBodyError(w, r)
      BY <3>12, EndBodyType, StepType DEF HandleBodyError, rowVars, cellVars, apiVars,
         stopVars
    <3>13. CASE MarkRunFailed(w, r)
      BY <3>13, StepType, StatusType DEF MarkRunFailed, rowVars, cellVars, apiVars, stopVars
    <3>14. CASE MarkMessageFailed(w, r)
      BY <3>14, EndBodyType, StatusType DEF MarkMessageFailed, rowVars, cellVars, apiVars,
         stopVars
    <3>15. CASE Deadline(w, r)
      BY <3>15, StatusType DEF Deadline, cellVars, execVars, apiVars, stopVars
    <3>16. CASE SignalStops(w, r)
      BY <3>16, InterruptType DEF SignalStops
    <3>17. CASE MonitorStops(w, r)
      BY <3>17, InterruptType DEF MonitorStops
    <3>18. CASE OwnershipLossNoticed(w, r)
      BY <3>18, InterruptType DEF OwnershipLossNoticed
    <3> QED
      BY <2>3, <3>1, <3>2, <3>3, <3>4, <3>5, <3>6, <3>7, <3>8, <3>9, <3>10, <3>11, <3>12,
           <3>13, <3>14, <3>15, <3>16, <3>17, <3>18 DEF BodyNext
  <2>4. ASSUME NEW w \in Worker, NEW r \in Run, ReleaseNext(w, r)
       PROVE  TypeOK'
    <3>1. CASE StartRelease(w, r)
      <4>1. pc' \in [Worker -> [Run -> ExecPcs]]
        BY <3>1, StepType DEF StartRelease
      <4>2. why' \in [Worker -> [Run -> Endings]]
        BY <3>1, ReleaseRaisesType DEF StartRelease
      <4>3. relOp' \in [Run -> ReleaseOpStatuses]
        <5>1. relOp[r] \in ReleaseOpStatuses /\ "running" \in ReleaseOpStatuses
          OBVIOUS
        <5>2. \/ UNCHANGED relOp
              \/ \E s \in ReleaseOpStatuses : relOp' = [relOp EXCEPT ![r] = s]
          BY <3>1, <5>1 DEF StartRelease
        <5> QED
          BY <5>2, CellType
      <4>4. relMark' \in [Run -> BOOLEAN]
        BY <3>1 DEF StartRelease
      <4> QED
        BY <3>1, <4>1, <4>2, <4>3, <4>4 DEF StartRelease, rowVars, apiVars, stopVars
    <3>2. CASE ReleaseSucceeds(w, r)
      BY <3>2 DEF ReleaseSucceeds, ControllerAnswers, rowVars, execVars, apiVars, stopVars
    <3>3. CASE ReleaseFails(w, r)
      <4>1. PICK outcome \in ReleaseOpStatuses : ControllerAnswers(w, r, outcome)
        BY <3>3 DEF ReleaseFails
      <4>2. faults' \in 0..MaxFaults
        BY <3>3, FaultType DEF ReleaseFails
      <4> QED
        BY <4>1, <4>2, CellType
           DEF ControllerAnswers, rowVars, execVars, apiVars, stopVars
    <3>4. CASE ConfirmRelease(w, r)
      BY <3>4, StepType DEF ConfirmRelease, rowVars, apiVars, stopVars
    <3>5. CASE ReleaseUnconfirmed(w, r)
      <4>1. CASE Return(w, r, "confirming")
        BY <3>5, <4>1, ReturnType DEF ReleaseUnconfirmed, rowVars, cellVars, apiVars, stopVars
      <4>2. CASE Step(w, r, "confirming", "settling") /\ UNCHANGED <<owner, handle>>
        <5>1. pc' \in [Worker -> [Run -> ExecPcs]]
          BY <4>2, StepType
        <5>2. why' \in [Worker -> [Run -> Endings]]
          <6>1. \/ why' = [why EXCEPT ![w][r] = "handoff"]
                \/ UNCHANGED why \/ ReleaseRaises(w, r)
            BY <3>5, <4>2 DEF ReleaseUnconfirmed, Return, Step
          <6> QED
            BY <6>1, EndingType, ReleaseRaisesType
        <5> QED
          BY <3>5, <4>2, <5>1, <5>2
             DEF ReleaseUnconfirmed, rowVars, cellVars, apiVars, stopVars
      <4> QED
        BY <3>5, <4>1, <4>2 DEF ReleaseUnconfirmed
    <3> QED
      BY <2>4, <3>1, <3>2, <3>3, <3>4, <3>5 DEF ReleaseNext
  <2>5. ASSUME NEW w \in Worker, NEW r \in Run, SettleNext(w, r)
       PROVE  TypeOK'
    <3>1. CASE SettleDone(w, r)
      BY <3>1, ReturnType, StatusType DEF SettleDone, ClearSignal, rowVars, cellVars,
         apiVars
    <3>2. CASE SettleCancel(w, r)
      BY <3>2, ReturnType, StatusType DEF SettleCancel, ClearSignal, rowVars, cellVars,
         apiVars
    <3>3. CASE SettleHandoff(w, r)
      BY <3>3, ReturnType DEF SettleHandoff, rowVars, cellVars, apiVars, stopVars
    <3>4. CASE SettleError(w, r)
      BY <3>4, StepType DEF SettleError, rowVars, cellVars, apiVars, stopVars
    <3>5. CASE SetRunFailed(w, r)
      BY <3>5, StepType, StatusType DEF SetRunFailed, rowVars, cellVars, apiVars, stopVars
    <3>6. CASE SettleLost(w, r)
      BY <3>6, StepType DEF SettleLost, ClearSignal, rowVars, cellVars, apiVars
    <3>7. CASE ResumeRelease(w, r)
      BY <3>7, StepType DEF ResumeRelease, rowVars, apiVars, stopVars
    <3>8. CASE ResumeFinished(w, r)
      BY <3>8, StepType DEF ResumeFinished, rowVars, cellVars, apiVars, stopVars
    <3>9. CASE ResumeDefers(w, r)
      BY <3>9, ReturnType DEF ResumeDefers, rowVars, cellVars, apiVars, stopVars
    <3>10. CASE SettleResumed(w, r)
      BY <3>10, ReturnType, StatusType DEF SettleResumed, rowVars, cellVars, apiVars,
         stopVars
    <3>11. CASE ResumeInterrupted(w, r)
      BY <3>11 DEF ResumeInterrupted, rowVars, apiVars, stopVars
    <3> QED
      BY <2>5, <3>1, <3>2, <3>3, <3>4, <3>5, <3>6, <3>7, <3>8, <3>9, <3>10, <3>11 DEF SettleNext
  <2>6. ASSUME NEW r \in Run, Reclaim(r) PROVE TypeOK'
    <3>1. CASE ReclaimStaleLease(r)
      BY <3>1 DEF ReclaimStaleLease, rowVars, execVars, apiVars, stopVars
    <3>2. CASE ReclaimKeepsLease(r)
      BY <3>2, FaultType DEF ReclaimKeepsLease, rowVars, execVars, apiVars, stopVars
    <3> QED
      BY <2>6, <3>1, <3>2 DEF Reclaim
  <2>7. ASSUME NEW w \in Worker, WorkerCrash(w) PROVE TypeOK'
    BY <2>7 DEF WorkerCrash, Fault, rowVars, cellVars, apiVars, stopVars
  <2>8. ASSUME NEW w \in Worker, NEW r \in Run, LoseOwnership(w, r) PROVE TypeOK'
    BY <2>8 DEF LoseOwnership, Fault, rowVars, cellVars, apiVars, stopVars
  <2>9. CASE ApiStop
    BY <2>9, FaultType DEF ApiStop, rowVars, cellVars, execVars, stopVars
  <2>10. CASE ApiStart
    BY <2>10 DEF ApiStart, rowVars, cellVars, execVars, stopVars
  <2>11. CASE UNCHANGED vars
    BY <2>11 DEF vars, rowVars, cellVars, execVars, apiVars, stopVars
  <2> HIDE DEF TypeOK
  <2> QED
    BY <2>1, <2>2, <2>3, <2>4, <2>5, <2>6, <2>7, <2>8, <2>9, <2>10, <2>11 DEF Next, FaultNext
<1> QED
  BY <1>1, <1>2, PTL DEF Spec
-----------------------------------------------------------------------------
\* How the status of a run may change.

\* An active run changes its status; a stopping one only ends, and never as
\* completed; a completion needs the snapshot and the released Cell.
Move(r, s) ==
  /\ Active(r) /\ s \in ActiveStatuses \cup TerminalStatuses
  /\ status[r] = "cancel_requested" => s \in {"failed", "cancelled"}
  /\ s = "completed" => ~CompletionError(r) /\ ~ReleasePending(r)
  /\ SetStatus(r, s)

StatusMoves ==
  \/ UNCHANGED status
  \/ \E r \in Run : Reserve(r)
  \/ \E r \in Run, s \in Statuses : Move(r, s)
  \/ ApiStart

LEMMA MoveIsStatusMove ==
  \A r \in Run, s \in Statuses : Move(r, s) => StatusMoves
BY DEF StatusMoves

LEMMA SetFailedMove ==
  ASSUME TypeOK, NEW r \in Run, SetFailed(r)
  PROVE  StatusMoves
BY DEF TypeOK, StatusMoves, Move, SetFailed, Active, Statuses, ActiveStatuses, TerminalStatuses

LEMMA FinalizeCancelledMove ==
  ASSUME TypeOK, NEW r \in Run, FinalizeCancelled(r)
  PROVE  StatusMoves
BY DEF TypeOK, StatusMoves, Move, FinalizeCancelled, ApplyCancelled, Active, Statuses,
       ActiveStatuses, TerminalStatuses

LEMMA FinalizeMove ==
  ASSUME TypeOK, NEW r \in Run, Finalize(r)
  PROVE  StatusMoves
BY DEF TypeOK, StatusMoves, Move, Finalize, ApplyCancelled, Active, Statuses,
       ActiveStatuses, TerminalStatuses

\* Every step of every process changes at most one status, along a Move, except
\* that a reservation may close the run before it and a restart fails a set.
LEMMA StatusStep == TypeOK /\ [Next]_vars => StatusMoves
<1> SUFFICES ASSUME TypeOK, [Next]_vars PROVE StatusMoves
  OBVIOUS
<1>1. ASSUME NEW r \in Run, ApiNext(r)
     PROVE  StatusMoves
  <2>1. CASE Reserve(r)
    BY <2>1 DEF StatusMoves
  <2>2. CASE PersistMessages(r)
    BY <2>2 DEF StatusMoves, PersistMessages
  <2>3. CASE DispatchText(r)
    BY <2>3 DEF StatusMoves, DispatchText
  <2>4. CASE DispatchBuild(r)
    BY <2>4 DEF StatusMoves, DispatchBuild
  <2>5. CASE RequestDies(r)
    BY <2>5 DEF StatusMoves, RequestDies
  <2>6. CASE StopUnstarted(r)
    <3>1. Move(r, "cancelled")
      BY <2>6 DEF StopUnstarted, ApplyCancelled, Move, SetStatus, Active, Statuses,
         ActiveStatuses, TerminalStatuses
    <3> QED
      BY <3>1, MoveIsStatusMove DEF Statuses, ActiveStatuses, TerminalStatuses, StatusMoves
  <2>7. CASE StopRunning(r)
    <3>1. Move(r, "cancel_requested") \/ UNCHANGED status
      BY <2>7 DEF StopRunning, Move, SetStatus, Active, Statuses, ActiveStatuses,
         TerminalStatuses
    <3> QED
      BY <3>1, MoveIsStatusMove DEF Statuses, ActiveStatuses, TerminalStatuses, StatusMoves
  <2>8. CASE TextStart(r)
    <3>1. Move(r, "running") \/ UNCHANGED status
      BY <2>8 DEF TextStart, Move, SetStatus, Active, Statuses, ActiveStatuses,
         TerminalStatuses
    <3> QED
      BY <3>1, MoveIsStatusMove DEF Statuses, ActiveStatuses, TerminalStatuses, StatusMoves
  <2>9. CASE TextWrite(r)
    BY <2>9 DEF StatusMoves, TextWrite, TextStep
  <2>10. CASE TextFinish(r)
    BY <2>10, FinalizeMove DEF StatusMoves, TextFinish, TextStep
  <2>11. CASE TextCancel(r)
    BY <2>11, FinalizeCancelledMove DEF StatusMoves, TextCancel, TextStep
  <2>12. CASE TextFail(r)
    BY <2>12, FinalizeCancelledMove DEF StatusMoves, TextFail, TextStep
  <2>13. CASE TextSetFailed(r)
    BY <2>13, SetFailedMove DEF StatusMoves, TextSetFailed, TextStep
  <2>14. CASE TextEmergency(r)
    BY <2>14 DEF StatusMoves, TextEmergency, TextStep
  <2> QED
    BY <1>1, <2>1, <2>2, <2>3, <2>4, <2>5, <2>6, <2>7, <2>8, <2>9, <2>10, <2>11, <2>12,
       <2>13, <2>14 DEF ApiNext
<1>2. ASSUME NEW w \in Worker, NEW r \in Run, AdmissionNext(w, r)
     PROVE  StatusMoves
  <2>1. CASE TakeLock(w, r)
    BY <2>1 DEF StatusMoves, TakeLock
  <2>2. CASE AdmitNothing(w, r)
    <3>1. Move(r, "cancelled") \/ UNCHANGED status
      BY <2>2 DEF AdmitNothing, ApplyCancelled, Move, SetStatus, Active, Statuses,
         ActiveStatuses, TerminalStatuses
    <3> QED
      BY <3>1, MoveIsStatusMove DEF Statuses, ActiveStatuses, TerminalStatuses, StatusMoves
  <2>3. CASE AdmitLeftover(w, r)
    BY <2>3 DEF StatusMoves, AdmitLeftover, MayContinue, Active, ActiveStatuses
  <2>4. CASE AdmitBody(w, r)
    BY <2>4 DEF StatusMoves, AdmitBody, MayContinue, Active, ActiveStatuses
  <2>5. CASE FailOrphan(w, r)
    <3>1. Move(r, "cancelled") \/ Move(r, "failed") \/ UNCHANGED status
      BY <2>5 DEF FailOrphan, MayContinue, ApplyCancelled, Move, SetStatus, Active,
         Statuses, ActiveStatuses, TerminalStatuses
    <3> QED
      BY <3>1, MoveIsStatusMove DEF Statuses, ActiveStatuses, TerminalStatuses, StatusMoves
  <2>6. CASE Emergency(w, r)
    BY <2>6 DEF StatusMoves, Emergency
  <2> QED
    BY <1>2, <2>1, <2>2, <2>3, <2>4, <2>5, <2>6 DEF AdmissionNext
<1>3. ASSUME NEW w \in Worker, NEW r \in Run, BodyNext(w, r)
     PROVE  StatusMoves
  <2>1. CASE AcquireLease(w, r)
    BY <2>1 DEF StatusMoves, AcquireLease, MayContinue, Active, ActiveStatuses
  <2>2. CASE QueueForCapacity(w, r)
    <3>1. Move(r, "queued_for_capacity")
      BY <2>2 DEF QueueForCapacity, MayContinue, Move, SetStatus, Active, Statuses,
         ActiveStatuses, TerminalStatuses
    <3> QED
      BY <3>1, MoveIsStatusMove DEF Statuses, ActiveStatuses, TerminalStatuses, StatusMoves
  <2>3. CASE LoseCapacityClaim(w, r)
    BY <2>3 DEF StatusMoves, LoseCapacityClaim
  <2>4. CASE Promote(w, r)
    <3>1. Move(r, "running")
      BY <2>4 DEF Promote, MayContinue, Move, SetStatus, Active, Statuses, ActiveStatuses,
         TerminalStatuses
    <3> QED
      BY <3>1, MoveIsStatusMove DEF Statuses, ActiveStatuses, TerminalStatuses, StatusMoves
  <2>5. CASE RefuseAdmission(w, r)
    BY <2>5 DEF StatusMoves, RefuseAdmission
  <2>6. CASE RecordProductFailure(w, r)
    BY <2>6 DEF StatusMoves, RecordProductFailure, Terminal, TerminalStatuses
  <2>7. CASE Publish(w, r)
    BY <2>7 DEF StatusMoves, Publish
  <2>8. CASE PublishNothing(w, r)
    BY <2>8 DEF StatusMoves, PublishNothing
  <2>9. CASE BodyReturns(w, r)
    BY <2>9 DEF StatusMoves, BodyReturns
  <2>10. CASE BodyRaises(w, r)
    BY <2>10 DEF StatusMoves, BodyRaises
  <2>11. CASE BodyRefused(w, r)
    BY <2>11 DEF StatusMoves, BodyRefused, MayContinue, Active, ActiveStatuses
  <2>12. CASE HandleBodyError(w, r)
    BY <2>12 DEF StatusMoves, HandleBodyError
  <2>13. CASE MarkRunFailed(w, r)
    BY <2>13, SetFailedMove DEF StatusMoves, MarkRunFailed
  <2>14. CASE MarkMessageFailed(w, r)
    BY <2>14 DEF StatusMoves, MarkMessageFailed
  <2>15. CASE Deadline(w, r)
    <3>1. Move(r, "cancelled") \/ Move(r, "failed")
      BY <2>15 DEF Deadline, Move, SetStatus, Active, Statuses, ActiveStatuses,
         TerminalStatuses
    <3> QED
      BY <3>1, MoveIsStatusMove DEF Statuses, ActiveStatuses, TerminalStatuses, StatusMoves
  <2>16. CASE SignalStops(w, r)
    BY <2>16 DEF StatusMoves, SignalStops, Interrupt, BodyPcs, CleanPcs
  <2>17. CASE MonitorStops(w, r)
    BY <2>17 DEF StatusMoves, MonitorStops, Interrupt, BodyPcs, CleanPcs
  <2>18. CASE OwnershipLossNoticed(w, r)
    BY <2>18 DEF StatusMoves, OwnershipLossNoticed, Interrupt, BodyPcs, CleanPcs
  <2> QED
    BY <1>3, <2>1, <2>2, <2>3, <2>4, <2>5, <2>6, <2>7, <2>8, <2>9, <2>10, <2>11, <2>12,
       <2>13, <2>14, <2>15, <2>16, <2>17, <2>18 DEF BodyNext
<1>4. ASSUME NEW w \in Worker, NEW r \in Run, ReleaseNext(w, r)
     PROVE  StatusMoves
  <2>1. CASE StartRelease(w, r)
    BY <2>1 DEF StatusMoves, StartRelease
  <2>2. CASE ReleaseSucceeds(w, r)
    BY <2>2 DEF StatusMoves, ReleaseSucceeds, ControllerAnswers
  <2>3. CASE ReleaseFails(w, r)
    BY <2>3 DEF StatusMoves, ReleaseFails, ControllerAnswers
  <2>4. CASE ConfirmRelease(w, r)
    BY <2>4 DEF StatusMoves, ConfirmRelease
  <2>5. CASE ReleaseUnconfirmed(w, r)
    BY <2>5 DEF StatusMoves, ReleaseUnconfirmed
  <2> QED
    BY <1>4, <2>1, <2>2, <2>3, <2>4, <2>5 DEF ReleaseNext
<1>5. ASSUME NEW w \in Worker, NEW r \in Run, SettleNext(w, r)
     PROVE  StatusMoves
  <2>1. CASE SettleDone(w, r)
    BY <2>1, FinalizeMove DEF StatusMoves, SettleDone
  <2>2. CASE SettleCancel(w, r)
    BY <2>2, FinalizeCancelledMove DEF StatusMoves, SettleCancel
  <2>3. CASE SettleHandoff(w, r)
    BY <2>3 DEF StatusMoves, SettleHandoff
  <2>4. CASE SettleError(w, r)
    BY <2>4 DEF StatusMoves, SettleError
  <2>5. CASE SetRunFailed(w, r)
    BY <2>5, SetFailedMove DEF StatusMoves, SetRunFailed
  <2>6. CASE SettleLost(w, r)
    BY <2>6 DEF StatusMoves, SettleLost
  <2>7. CASE ResumeRelease(w, r)
    BY <2>7 DEF StatusMoves, ResumeRelease
  <2>8. CASE ResumeFinished(w, r)
    BY <2>8 DEF StatusMoves, ResumeFinished
  <2>9. CASE ResumeDefers(w, r)
    BY <2>9 DEF StatusMoves, ResumeDefers
  <2>10. CASE SettleResumed(w, r)
    BY <2>10, FinalizeMove DEF StatusMoves, SettleResumed
  <2>11. CASE ResumeInterrupted(w, r)
    BY <2>11 DEF StatusMoves, ResumeInterrupted
  <2> QED
    BY <1>5, <2>1, <2>2, <2>3, <2>4, <2>5, <2>6, <2>7, <2>8, <2>9, <2>10, <2>11 DEF
       SettleNext
<1>6. ASSUME NEW r \in Run, Reclaim(r) PROVE StatusMoves
  BY <1>6 DEF StatusMoves, Reclaim, ReclaimStaleLease, ReclaimKeepsLease, Stale, Terminal, TerminalStatuses
<1>7. ASSUME NEW w \in Worker, WorkerCrash(w) PROVE StatusMoves
  BY <1>7 DEF StatusMoves, WorkerCrash
<1>8. ASSUME NEW w \in Worker, NEW r \in Run, LoseOwnership(w, r) PROVE StatusMoves
  BY <1>8 DEF StatusMoves, LoseOwnership
<1>9. CASE ApiStop
  BY <1>9 DEF StatusMoves, ApiStop
<1>10. CASE ApiStart
  BY <1>10 DEF StatusMoves
<1>11. CASE UNCHANGED vars
  BY <1>11 DEF StatusMoves, vars
<1> QED
  BY <1>1, <1>2, <1>3, <1>4, <1>5, <1>6, <1>7, <1>8, <1>9, <1>10, <1>11 DEF Next, FaultNext

\* One project has one active run: a reservation meets no active run or closes
\* the only one, and no other step makes a run active that was not, however late
\* the task, worker or request that takes it (reserve_generation_run).
THEOREM OneActiveRun == Spec => []SingleFlight
<1>1. Init => SingleFlight
  BY DEF Init, SingleFlight, Active, ActiveStatuses
<1>2. TypeOK /\ SingleFlight /\ [Next]_vars => SingleFlight'
  <2> SUFFICES ASSUME TypeOK, SingleFlight, StatusMoves PROVE SingleFlight'
    BY StatusStep
  <2>1. CASE UNCHANGED status
    BY <2>1 DEF SingleFlight, Active
  <2>2. ASSUME NEW r \in Run, Reserve(r)
        PROVE  SingleFlight'
    <3>1. CASE (\A q \in Run : ~Active(q)) /\ SetStatus(r, "pending")
      BY <3>1 DEF SingleFlight, Active, SetStatus, TypeOK
    <3>2. ASSUME NEW q \in Run, Active(q),
                 status' = [status EXCEPT ![q] = IF CompletionError(q) THEN "failed"
                                                 ELSE "completed",
                                          ![r] = "pending"]
          PROVE  SingleFlight'
      <4>1. \A p \in Run : p # r => ~Active(p)'
        BY <3>2 DEF SingleFlight, Active, ActiveStatuses, TypeOK
      <4> QED
        BY <4>1 DEF SingleFlight
    <3> QED
      BY <2>2, <3>1, <3>2 DEF Reserve
  <2>3. ASSUME NEW r \in Run, NEW s \in Statuses, Move(r, s)
        PROVE  SingleFlight'
    BY <2>3 DEF SingleFlight, Move, SetStatus, Active, TypeOK
  <2>4. CASE ApiStart
    BY <2>4 DEF ApiStart, SingleFlight, Active, ActiveStatuses, TypeOK
  <2> QED
    BY <2>1, <2>2, <2>3, <2>4 DEF StatusMoves
<1> QED
  BY <1>1, <1>2, TypeCorrect, PTL DEF Spec
-----------------------------------------------------------------------------
\* Which steps write what completion and admission look at.

RowMoves ==
  \/ UNCHANGED <<mode, snapshot, productFailed, started, attempts>>
  \/ \E r \in Run : PersistMessages(r)
  \/ \E w \in Worker, r \in Run : AdmitBody(w, r) \/ RecordProductFailure(w, r) \/ Publish(w, r)

\* Only the acceptance of a request, the admission of a body, a product failure
\* and a publication write these columns.
LEMMA RowStep == [Next]_vars => RowMoves
<1> SUFFICES ASSUME [Next]_vars PROVE RowMoves
  OBVIOUS
<1>1. ASSUME NEW r \in Run, ApiNext(r)
     PROVE  RowMoves
  <2>1. CASE Reserve(r)
    BY <2>1 DEF RowMoves, Reserve, rowVars, execVars
  <2>2. CASE PersistMessages(r)
    BY <2>2 DEF RowMoves
  <2>3. CASE DispatchText(r)
    BY <2>3 DEF RowMoves, DispatchText, rowVars, execVars
  <2>4. CASE DispatchBuild(r)
    BY <2>4 DEF RowMoves, DispatchBuild, execVars
  <2>5. CASE RequestDies(r)
    BY <2>5 DEF RowMoves, RequestDies, rowVars, execVars
  <2>6. CASE StopUnstarted(r)
    BY <2>6 DEF RowMoves, StopUnstarted, rowVars, execVars
  <2>7. CASE StopRunning(r)
    BY <2>7 DEF RowMoves, StopRunning, rowVars, execVars
  <2>8. CASE TextStart(r)
    BY <2>8 DEF RowMoves, TextStart, TextStep, rowVars, execVars
  <2>9. CASE TextWrite(r)
    BY <2>9 DEF RowMoves, TextWrite, TextStep, rowVars, execVars
  <2>10. CASE TextFinish(r)
    BY <2>10 DEF RowMoves, TextFinish, TextStep, rowVars, execVars
  <2>11. CASE TextCancel(r)
    BY <2>11 DEF RowMoves, TextCancel, TextStep, rowVars, execVars
  <2>12. CASE TextFail(r)
    BY <2>12 DEF RowMoves, TextFail, TextStep, rowVars, execVars
  <2>13. CASE TextSetFailed(r)
    BY <2>13 DEF RowMoves, TextSetFailed, TextStep, rowVars, execVars
  <2>14. CASE TextEmergency(r)
    BY <2>14 DEF RowMoves, TextEmergency, TextStep, rowVars, execVars
  <2> QED
    BY <1>1, <2>1, <2>2, <2>3, <2>4, <2>5, <2>6, <2>7, <2>8, <2>9, <2>10, <2>11, <2>12,
       <2>13, <2>14 DEF ApiNext
<1>2. ASSUME NEW w \in Worker, NEW r \in Run, AdmissionNext(w, r)
     PROVE  RowMoves
  <2>1. CASE TakeLock(w, r)
    BY <2>1 DEF RowMoves, TakeLock, rowVars
  <2>2. CASE AdmitNothing(w, r)
    BY <2>2 DEF RowMoves, AdmitNothing, rowVars
  <2>3. CASE AdmitLeftover(w, r)
    BY <2>3 DEF RowMoves, AdmitLeftover, rowVars
  <2>4. CASE AdmitBody(w, r)
    BY <2>4 DEF RowMoves
  <2>5. CASE FailOrphan(w, r)
    BY <2>5 DEF RowMoves, FailOrphan, rowVars
  <2>6. CASE Emergency(w, r)
    BY <2>6 DEF RowMoves, Emergency, rowVars
  <2> QED
    BY <1>2, <2>1, <2>2, <2>3, <2>4, <2>5, <2>6 DEF AdmissionNext
<1>3. ASSUME NEW w \in Worker, NEW r \in Run, BodyNext(w, r)
     PROVE  RowMoves
  <2>1. CASE AcquireLease(w, r)
    BY <2>1 DEF RowMoves, AcquireLease, rowVars
  <2>2. CASE QueueForCapacity(w, r)
    BY <2>2 DEF RowMoves, QueueForCapacity, rowVars, execVars
  <2>3. CASE LoseCapacityClaim(w, r)
    BY <2>3 DEF RowMoves, LoseCapacityClaim, rowVars
  <2>4. CASE Promote(w, r)
    BY <2>4 DEF RowMoves, Promote, rowVars
  <2>5. CASE RefuseAdmission(w, r)
    BY <2>5 DEF RowMoves, RefuseAdmission, rowVars
  <2>6. CASE RecordProductFailure(w, r)
    BY <2>6 DEF RowMoves
  <2>7. CASE Publish(w, r)
    BY <2>7 DEF RowMoves
  <2>8. CASE PublishNothing(w, r)
    BY <2>8 DEF RowMoves, PublishNothing, rowVars
  <2>9. CASE BodyReturns(w, r)
    BY <2>9 DEF RowMoves, BodyReturns, rowVars
  <2>10. CASE BodyRaises(w, r)
    BY <2>10 DEF RowMoves, BodyRaises, rowVars
  <2>11. CASE BodyRefused(w, r)
    BY <2>11 DEF RowMoves, BodyRefused, rowVars
  <2>12. CASE HandleBodyError(w, r)
    BY <2>12 DEF RowMoves, HandleBodyError, rowVars
  <2>13. CASE MarkRunFailed(w, r)
    BY <2>13 DEF RowMoves, MarkRunFailed, rowVars
  <2>14. CASE MarkMessageFailed(w, r)
    BY <2>14 DEF RowMoves, MarkMessageFailed, rowVars
  <2>15. CASE Deadline(w, r)
    BY <2>15 DEF RowMoves, Deadline, execVars
  <2>16. CASE SignalStops(w, r)
    BY <2>16 DEF RowMoves, SignalStops, Interrupt, rowVars
  <2>17. CASE MonitorStops(w, r)
    BY <2>17 DEF RowMoves, MonitorStops, Interrupt, rowVars
  <2>18. CASE OwnershipLossNoticed(w, r)
    BY <2>18 DEF RowMoves, OwnershipLossNoticed, Interrupt, rowVars
  <2> QED
    BY <1>3, <2>1, <2>2, <2>3, <2>4, <2>5, <2>6, <2>7, <2>8, <2>9, <2>10, <2>11, <2>12,
       <2>13, <2>14, <2>15, <2>16, <2>17, <2>18 DEF BodyNext
<1>4. ASSUME NEW w \in Worker, NEW r \in Run, ReleaseNext(w, r)
     PROVE  RowMoves
  <2>1. CASE StartRelease(w, r)
    BY <2>1 DEF RowMoves, StartRelease, rowVars
  <2>2. CASE ReleaseSucceeds(w, r)
    BY <2>2 DEF RowMoves, ReleaseSucceeds, ControllerAnswers, rowVars, execVars
  <2>3. CASE ReleaseFails(w, r)
    BY <2>3 DEF RowMoves, ReleaseFails, ControllerAnswers, rowVars, execVars
  <2>4. CASE ConfirmRelease(w, r)
    BY <2>4 DEF RowMoves, ConfirmRelease, rowVars
  <2>5. CASE ReleaseUnconfirmed(w, r)
    BY <2>5 DEF RowMoves, ReleaseUnconfirmed, rowVars
  <2> QED
    BY <1>4, <2>1, <2>2, <2>3, <2>4, <2>5 DEF ReleaseNext
<1>5. ASSUME NEW w \in Worker, NEW r \in Run, SettleNext(w, r)
     PROVE  RowMoves
  <2>1. CASE SettleDone(w, r)
    BY <2>1 DEF RowMoves, SettleDone, rowVars
  <2>2. CASE SettleCancel(w, r)
    BY <2>2 DEF RowMoves, SettleCancel, rowVars
  <2>3. CASE SettleHandoff(w, r)
    BY <2>3 DEF RowMoves, SettleHandoff, rowVars
  <2>4. CASE SettleError(w, r)
    BY <2>4 DEF RowMoves, SettleError, rowVars
  <2>5. CASE SetRunFailed(w, r)
    BY <2>5 DEF RowMoves, SetRunFailed, rowVars
  <2>6. CASE SettleLost(w, r)
    BY <2>6 DEF RowMoves, SettleLost, rowVars
  <2>7. CASE ResumeRelease(w, r)
    BY <2>7 DEF RowMoves, ResumeRelease, rowVars
  <2>8. CASE ResumeFinished(w, r)
    BY <2>8 DEF RowMoves, ResumeFinished, rowVars
  <2>9. CASE ResumeDefers(w, r)
    BY <2>9 DEF RowMoves, ResumeDefers, rowVars
  <2>10. CASE SettleResumed(w, r)
    BY <2>10 DEF RowMoves, SettleResumed, rowVars
  <2>11. CASE ResumeInterrupted(w, r)
    BY <2>11 DEF RowMoves, ResumeInterrupted, rowVars
  <2> QED
    BY <1>5, <2>1, <2>2, <2>3, <2>4, <2>5, <2>6, <2>7, <2>8, <2>9, <2>10, <2>11 DEF
       SettleNext
<1>6. ASSUME NEW r \in Run, Reclaim(r) PROVE RowMoves
  BY <1>6 DEF RowMoves, Reclaim, ReclaimStaleLease, ReclaimKeepsLease, rowVars, execVars
<1>7. ASSUME NEW w \in Worker, WorkerCrash(w) PROVE RowMoves
  BY <1>7 DEF RowMoves, WorkerCrash, rowVars
<1>8. ASSUME NEW w \in Worker, NEW r \in Run, LoseOwnership(w, r) PROVE RowMoves
  BY <1>8 DEF RowMoves, LoseOwnership, rowVars
<1>9. CASE ApiStop
  BY <1>9 DEF RowMoves, ApiStop, rowVars, execVars
<1>10. CASE ApiStart
  BY <1>10 DEF RowMoves, ApiStart, rowVars, execVars
<1>11. CASE UNCHANGED vars
  BY <1>11 DEF RowMoves, vars, rowVars, execVars
<1> QED
  BY <1>1, <1>2, <1>3, <1>4, <1>5, <1>6, <1>7, <1>8, <1>9, <1>10, <1>11 DEF Next, FaultNext

\* A body is begun at most once: the count of bodies is the claim in the row, and
\* the only step that begins a body reads the claim under the row's lock.
THEOREM BodyBegunOnce == Spec => []NeverReplayed
<1> DEFINE ClaimCounts == \A r \in Run : attempts[r] = IF started[r] THEN 1 ELSE 0
<1>1. Init => ClaimCounts
  BY DEF Init
<1>2. TypeOK /\ ClaimCounts /\ [Next]_vars => ClaimCounts'
  <2> SUFFICES ASSUME TypeOK, ClaimCounts, RowMoves PROVE ClaimCounts'
    BY RowStep
  <2>1. CASE UNCHANGED <<started, attempts>>
    BY <2>1
  <2>2. ASSUME NEW w \in Worker, NEW r \in Run, AdmitBody(w, r)
        PROVE  ClaimCounts'
    BY <2>2 DEF AdmitBody, TypeOK
  <2> QED
    BY <2>1, <2>2 DEF RowMoves, PersistMessages, RecordProductFailure, Publish, execVars
<1>3. ClaimCounts => NeverReplayed
  BY DEF NeverReplayed
<1> QED
  BY <1>1, <1>2, <1>3, TypeCorrect, PTL DEF Spec
-----------------------------------------------------------------------------
\* A request that is still being accepted: nothing of its run exists but the row.

Untouched(r) ==
  /\ message[r] = "none" /\ mode[r] = "none" /\ backend[r] = "api" /\ ~relMark[r]
  /\ textPc[r] = "idle" /\ \A w \in Worker : pc[w][r] = "idle"

AcceptedInOrder ==
  \A r \in Run :
    /\ status[r] = "none" => request[r] = "none"
    /\ status[r] = "none" \/ request[r] = "accepting" => Untouched(r)
    /\ request[r] = "accepting" => status[r] # "completed"

\* A step on behalf of r leaves every other run alone.
OnlyRun(r) ==
  \A q \in Run \ {r} :
    /\ status'[q] = status[q] /\ request'[q] = request[q] /\ message'[q] = message[q]
    /\ mode'[q] = mode[q] /\ backend'[q] = backend[q] /\ relMark'[q] = relMark[q]
    /\ textPc'[q] = textPc[q] /\ \A w \in Worker : pc'[w][q] = pc[w][q]

\* A coroutine that is under way belongs to a run that was dispatched.
LEMMA StepLocal ==
  ASSUME TypeOK, NEW w \in Worker, NEW r \in Run, NEW from, NEW to, Step(w, r, from, to)
  PROVE  /\ from # "idle" => ~Untouched(r)
         /\ \A v \in Worker, q \in Run \ {r} : pc'[v][q] = pc[v][q]
BY DEF TypeOK, Step, Untouched

LEMMA Busy ==
  ASSUME NEW w \in Worker, NEW r \in Run, pc[w][r] # "idle"
  PROVE  ~Untouched(r)
BY DEF Untouched

LEMMA InterruptLocal ==
  ASSUME TypeOK, NEW w \in Worker, NEW r \in Run, NEW ending, Interrupt(w, r, ending)
  PROVE  ~Untouched(r) /\ UNCHANGED request /\ OnlyRun(r)
<1>1. pc[w][r] # "idle"
  BY DEF Interrupt, BodyPcs, CleanPcs
<1>2. \A v \in Worker, q \in Run \ {r} : pc'[v][q] = pc[v][q]
  BY DEF Interrupt, TypeOK
<1> QED
  BY <1>1, <1>2, Busy DEF Interrupt, OnlyRun, rowVars, cellVars, apiVars

LEMMA StatusLocal ==
  ASSUME TypeOK, NEW r \in Run
  PROVE  \A q \in Run \ {r} :
           /\ \A s : SetStatus(r, s) => status'[q] = status[q]
           /\ CloseMessage(r) => message'[q] = message[q]
           /\ ApplyCancelled(r) => status'[q] = status[q] /\ message'[q] = message[q]
           /\ SetFailed(r) => status'[q] = status[q]
           /\ FinalizeCancelled(r) => status'[q] = status[q] /\ message'[q] = message[q]
           /\ Finalize(r) => status'[q] = status[q] /\ message'[q] = message[q]
<1> TAKE q \in Run \ {r}
<1>1. \A s : SetStatus(r, s) => status'[q] = status[q]
  BY DEF TypeOK, SetStatus
<1>2. CloseMessage(r) => message'[q] = message[q]
  BY DEF TypeOK, CloseMessage
<1>3. ApplyCancelled(r) => status'[q] = status[q] /\ message'[q] = message[q]
  BY <1>1, <1>2 DEF ApplyCancelled
<1> QED
  BY <1>1, <1>2, <1>3 DEF SetFailed, FinalizeCancelled, Finalize

\* What a worker does, it does for a run whose request has been dispatched.
LEMMA WorkerStep ==
  ASSUME TypeOK, NEW w \in Worker, NEW r \in Run,
         AdmissionNext(w, r) \/ BodyNext(w, r) \/ ReleaseNext(w, r) \/ SettleNext(w, r)
  PROVE  ~Untouched(r) /\ UNCHANGED request /\ OnlyRun(r)
<1> USE DEF OnlyRun
<1>0. /\ mode \in [Run -> {"none", "build", "edit", "clarify"}]
      /\ message \in [Run -> {"none", "open", "final"}]
      /\ status \in [Run -> Statuses] /\ relMark \in [Run -> BOOLEAN]
  BY DEF TypeOK
<1>1. CASE AdmissionNext(w, r)
  <2>1. CASE TakeLock(w, r)
    <3>1. ~Untouched(r)
      BY <2>1 DEF TakeLock, Unstarted, Maintenance, Untouched
    <3> QED
      BY <2>1, <3>1, StepLocal DEF TakeLock, rowVars, cellVars, apiVars
  <2>2. CASE AdmitNothing(w, r)
    BY <1>0, <2>2, StepLocal, StatusLocal DEF AdmitNothing, Return, Abandon, rowVars,
       apiVars, stopVars
  <2>3. CASE AdmitLeftover(w, r)
    BY <1>0, <2>3, StepLocal DEF AdmitLeftover, rowVars, cellVars, apiVars, stopVars
  <2>4. CASE AdmitBody(w, r)
    BY <1>0, <2>4, StepLocal DEF AdmitBody, cellVars, apiVars, stopVars
  <2>5. CASE FailOrphan(w, r)
    BY <1>0, <2>5, StepLocal, StatusLocal DEF FailOrphan, Return, Abandon, rowVars, apiVars,
       stopVars
  <2>6. CASE Emergency(w, r)
    BY <1>0, <2>6, StepLocal, StatusLocal DEF Emergency, Return, rowVars, cellVars, apiVars
  <2> QED
    BY <1>1, <2>1, <2>2, <2>3, <2>4, <2>5, <2>6 DEF AdmissionNext
<1>2. CASE BodyNext(w, r)
  <2>1. CASE AcquireLease(w, r)
    BY <1>0, <2>1, StepLocal DEF AcquireLease, rowVars, apiVars, stopVars
  <2>2. CASE QueueForCapacity(w, r)
    BY <1>0, <2>2, Busy DEF QueueForCapacity, SetStatus, rowVars, cellVars, execVars,
       apiVars
  <2>3. CASE LoseCapacityClaim(w, r)
    BY <1>0, <2>3, StepLocal DEF LoseCapacityClaim, Return, rowVars, cellVars, apiVars
  <2>4. CASE Promote(w, r)
    BY <1>0, <2>4, StepLocal, StatusLocal DEF Promote, rowVars, cellVars, apiVars, stopVars
  <2>5. CASE RefuseAdmission(w, r)
    BY <1>0, <2>5, StepLocal DEF RefuseAdmission, rowVars, cellVars, apiVars, stopVars
  <2>6. CASE RecordProductFailure(w, r)
    BY <1>0, <2>6, StepLocal DEF RecordProductFailure, cellVars, apiVars, stopVars
  <2>7. CASE Publish(w, r)
    BY <1>0, <2>7, StepLocal DEF Publish, cellVars, apiVars, stopVars
  <2>8. CASE PublishNothing(w, r)
    BY <1>0, <2>8, StepLocal DEF PublishNothing, rowVars, cellVars, apiVars, stopVars
  <2>9. CASE BodyReturns(w, r)
    BY <1>0, <2>9, StepLocal DEF BodyReturns, EndBody, rowVars, cellVars, apiVars, stopVars
  <2>10. CASE BodyRaises(w, r)
    BY <1>0, <2>10, StepLocal DEF BodyRaises, rowVars, cellVars, apiVars, stopVars
  <2>11. CASE BodyRefused(w, r)
    BY <1>0, <2>11, StepLocal DEF BodyRefused, rowVars, cellVars, apiVars, stopVars
  <2>12. CASE HandleBodyError(w, r)
    BY <1>0, <2>12, StepLocal DEF HandleBodyError, EndBody, rowVars, cellVars, apiVars,
       stopVars
  <2>13. CASE MarkRunFailed(w, r)
    BY <1>0, <2>13, StepLocal, StatusLocal DEF MarkRunFailed, rowVars, cellVars, apiVars,
       stopVars
  <2>14. CASE MarkMessageFailed(w, r)
    BY <1>0, <2>14, StepLocal, StatusLocal DEF MarkMessageFailed, EndBody, rowVars,
       cellVars, apiVars, stopVars
  <2>15. CASE Deadline(w, r)
    BY <1>0, <2>15, Busy DEF Deadline, SetStatus, rowVars, cellVars, execVars, apiVars
  <2>16. CASE SignalStops(w, r)
    BY <2>16, InterruptLocal DEF SignalStops
  <2>17. CASE MonitorStops(w, r)
    BY <2>17, InterruptLocal DEF MonitorStops
  <2>18. CASE OwnershipLossNoticed(w, r)
    BY <2>18, InterruptLocal DEF OwnershipLossNoticed
  <2> QED
    BY <1>2, <2>1, <2>2, <2>3, <2>4, <2>5, <2>6, <2>7, <2>8, <2>9, <2>10, <2>11, <2>12,
       <2>13, <2>14, <2>15, <2>16, <2>17, <2>18 DEF BodyNext
<1>3. CASE ReleaseNext(w, r)
  <2>1. CASE StartRelease(w, r)
    BY <1>0, <2>1, StepLocal DEF StartRelease, rowVars, apiVars, stopVars
  <2>2. CASE ReleaseSucceeds(w, r)
    BY <2>2, Busy DEF ReleaseSucceeds, ControllerAnswers, rowVars, execVars, apiVars
  <2>3. CASE ReleaseFails(w, r)
    BY <2>3, Busy DEF ReleaseFails, ControllerAnswers, rowVars, execVars, apiVars
  <2>4. CASE ConfirmRelease(w, r)
    BY <1>0, <2>4, StepLocal DEF ConfirmRelease, rowVars, apiVars, stopVars
  <2>5. CASE ReleaseUnconfirmed(w, r)
    BY <1>0, <2>5, StepLocal DEF ReleaseUnconfirmed, Return, rowVars, cellVars, apiVars,
       stopVars
  <2> QED
    BY <1>3, <2>1, <2>2, <2>3, <2>4, <2>5 DEF ReleaseNext
<1>4. CASE SettleNext(w, r)
  <2>1. CASE SettleDone(w, r)
    BY <1>0, <2>1, StepLocal, StatusLocal DEF SettleDone, Return, rowVars, cellVars, apiVars
  <2>2. CASE SettleCancel(w, r)
    BY <1>0, <2>2, StepLocal, StatusLocal DEF SettleCancel, Return, rowVars, cellVars,
       apiVars
  <2>3. CASE SettleHandoff(w, r)
    BY <1>0, <2>3, StepLocal DEF SettleHandoff, Return, rowVars, cellVars, apiVars, stopVars
  <2>4. CASE SettleError(w, r)
    BY <1>0, <2>4, StepLocal DEF SettleError, rowVars, cellVars, apiVars, stopVars
  <2>5. CASE SetRunFailed(w, r)
    BY <1>0, <2>5, StepLocal, StatusLocal DEF SetRunFailed, rowVars, cellVars, apiVars,
       stopVars
  <2>6. CASE SettleLost(w, r)
    BY <1>0, <2>6, StepLocal DEF SettleLost, rowVars, cellVars, apiVars
  <2>7. CASE ResumeRelease(w, r)
    BY <1>0, <2>7, StepLocal DEF ResumeRelease, rowVars, apiVars, stopVars
  <2>8. CASE ResumeFinished(w, r)
    BY <1>0, <2>8, StepLocal DEF ResumeFinished, rowVars, cellVars, apiVars, stopVars
  <2>9. CASE ResumeDefers(w, r)
    BY <1>0, <2>9, StepLocal DEF ResumeDefers, Return, rowVars, cellVars, apiVars, stopVars
  <2>10. CASE SettleResumed(w, r)
    BY <1>0, <2>10, StepLocal, StatusLocal DEF SettleResumed, Return, rowVars, cellVars,
       apiVars, stopVars
  <2>11. CASE ResumeInterrupted(w, r)
    <3>1. pc[w][r] # "idle" /\ \A v \in Worker, q \in Run \ {r} : pc'[v][q] = pc[v][q]
      BY <2>11 DEF ResumeInterrupted, TypeOK
    <3> QED
      BY <2>11, <3>1, Busy DEF ResumeInterrupted, rowVars, apiVars
  <2> QED
    BY <1>4, <2>1, <2>2, <2>3, <2>4, <2>5, <2>6, <2>7, <2>8, <2>9, <2>10, <2>11 DEF
       SettleNext
<1> QED
  BY <1>1, <1>2, <1>3, <1>4

\* A task of a text turn runs for a run whose request has been dispatched.
LEMMA TextLocal ==
  ASSUME TypeOK, NEW r \in Run, NEW from, NEW to, from # "idle", TextStep(r, from, to)
  PROVE  /\ ~Untouched(r) /\ UNCHANGED <<request, mode, backend, relMark, pc>>
         /\ \A q \in Run \ {r} : textPc'[q] = textPc[q]
BY DEF TypeOK, TextStep, Untouched, rowVars, cellVars, execVars

LEMMA TextTurnStep ==
  ASSUME TypeOK, NEW r \in Run,
         \/ TextStart(r) \/ TextWrite(r) \/ TextFinish(r) \/ TextCancel(r)
         \/ TextFail(r) \/ TextSetFailed(r) \/ TextEmergency(r)
  PROVE  ~Untouched(r) /\ UNCHANGED request /\ OnlyRun(r)
<1>0. message \in [Run -> {"none", "open", "final"}] /\ status \in [Run -> Statuses]
  BY DEF TypeOK
<1>1. CASE TextStart(r)
  BY <1>0, <1>1, TextLocal, StatusLocal DEF TextStart, OnlyRun
<1>2. CASE TextWrite(r)
  BY <1>0, <1>2, TextLocal DEF TextWrite, OnlyRun
<1>3. CASE TextFinish(r)
  BY <1>3, TextLocal, StatusLocal DEF TextFinish, OnlyRun
<1>4. CASE TextCancel(r)
  BY <1>4, TextLocal, StatusLocal DEF TextCancel, OnlyRun
<1>5. CASE TextFail(r)
  BY <1>5, TextLocal, StatusLocal DEF TextFail, OnlyRun
<1>6. CASE TextSetFailed(r)
  BY <1>6, TextLocal, StatusLocal DEF TextSetFailed, OnlyRun
<1>7. CASE TextEmergency(r)
  BY <1>7, TextLocal, StatusLocal DEF TextEmergency, OnlyRun
<1> QED
  BY <1>1, <1>2, <1>3, <1>4, <1>5, <1>6, <1>7

\* A row, once inserted, stays.
LEMMA RowStays ==
  ASSUME TypeOK, StatusMoves, NEW r \in Run, status[r] # "none"
  PROVE  status'[r] # "none"
BY DEF TypeOK, StatusMoves, Reserve, Move, SetStatus, ApiStart, ActiveStatuses, TerminalStatuses

\* Between the two commits of its acceptance a run has no message, no mode and no
\* executor, so nothing can complete it.
LEMMA AcceptanceStep == TypeOK /\ AcceptedInOrder /\ [Next]_vars => AcceptedInOrder'
<1> SUFFICES ASSUME TypeOK, AcceptedInOrder, [Next]_vars PROVE AcceptedInOrder'
  OBVIOUS
<1> USE DEF AcceptedInOrder
<1>1. \A r \in Run : status[r] # "none" => status'[r] # "none"
  BY StatusStep, RowStays
<1>2. ASSUME NEW r \in Run, ~Untouched(r), UNCHANGED request, OnlyRun(r)
      PROVE  AcceptedInOrder'
  <2>1. status[r] # "none" /\ request[r] # "accepting"
    BY <1>2
  <2>2. \A q \in Run \ {r} : Untouched(q) => Untouched(q)'
    BY <1>2 DEF OnlyRun, Untouched
  <2>3. \A q \in Run \ {r} : status'[q] = status[q] /\ request'[q] = request[q]
    BY <1>2 DEF OnlyRun
  <2> QED
    BY <1>1, <1>2, <2>1, <2>2, <2>3
<1>3. ASSUME NEW w \in Worker, NEW r \in Run,
             AdmissionNext(w, r) \/ BodyNext(w, r) \/ ReleaseNext(w, r) \/ SettleNext(w, r)
      PROVE  AcceptedInOrder'
  BY <1>2, <1>3, WorkerStep
<1>4. ASSUME NEW r \in Run, ApiNext(r)
      PROVE  AcceptedInOrder'
  <2>1. CASE Reserve(r)
    <3>1. \A q \in Run : Untouched(q) => Untouched(q)'
      BY <2>1 DEF Reserve, Untouched, rowVars, cellVars, execVars
    <3>2. /\ status[r] = "none" /\ status'[r] = "pending" /\ request'[r] = "accepting"
          /\ \A q \in Run \ {r} : request'[q] = request[q]
      BY <2>1 DEF Reserve, SetStatus, TypeOK, Active, ActiveStatuses
    <3>3. ASSUME NEW q \in Run \ {r}, request[q] = "accepting"
          PROVE  status'[q] = status[q]
      <4>1. message[q] # "final"
        BY <3>3 DEF Untouched
      <4> QED
        BY <2>1, <4>1 DEF Reserve, SetStatus, Closable, TypeOK
    <3>4. ASSUME NEW q \in Run \ {r}, status'[q] = "none"
          PROVE  status[q] = "none"
      BY <1>1, <3>4
    <3> QED
      BY <3>1, <3>2, <3>3, <3>4
  <2>2. CASE PersistMessages(r)
    <3>1. /\ request[r] = "accepting" /\ request'[r] = "persisted" /\ UNCHANGED status
          /\ \A q \in Run \ {r} : request'[q] = request[q]
      BY <2>2 DEF PersistMessages, TypeOK
    <3>2. \A q \in Run \ {r} : Untouched(q) => Untouched(q)'
      BY <2>2 DEF PersistMessages, Untouched, TypeOK, cellVars, execVars
    <3> QED
      BY <3>1, <3>2
  <2>3. CASE DispatchText(r) \/ DispatchBuild(r)
    <3>1. /\ request[r] = "persisted" /\ request'[r] = "none" /\ UNCHANGED status
          /\ \A q \in Run \ {r} : request'[q] = request[q]
      BY <2>3 DEF DispatchText, DispatchBuild, TypeOK
    <3>2. \A q \in Run \ {r} : Untouched(q) => Untouched(q)'
      BY <2>3 DEF DispatchText, DispatchBuild, Untouched, TypeOK, rowVars, cellVars, execVars
    <3> QED
      BY <3>1, <3>2
  <2>4. CASE RequestDies(r)
    <3>1. /\ request'[r] = "none" /\ UNCHANGED status
          /\ \A q \in Run \ {r} : request'[q] = request[q]
      BY <2>4 DEF RequestDies, TypeOK
    <3>2. \A q \in Run : Untouched(q) => Untouched(q)'
      BY <2>4 DEF RequestDies, Untouched, rowVars, cellVars, execVars
    <3> QED
      BY <3>1, <3>2
  <2>5. CASE StopUnstarted(r) \/ StopRunning(r)
    <3>1. \A q \in Run : Untouched(q) => Untouched(q)'
      BY <2>5 DEF StopUnstarted, StopRunning, ApplyCancelled, CloseMessage, Untouched, TypeOK,
                  rowVars, cellVars, execVars, apiVars
    <3>2. UNCHANGED request /\ \A q \in Run : status'[q] = "completed" => status[q] = "completed"
      BY <2>5 DEF StopUnstarted, StopRunning, ApplyCancelled, SetStatus, TypeOK, apiVars
    <3> QED
      BY <1>1, <3>1, <3>2
  <2>6. CASE \/ TextStart(r) \/ TextWrite(r) \/ TextFinish(r) \/ TextCancel(r)
             \/ TextFail(r) \/ TextSetFailed(r) \/ TextEmergency(r)
    BY <1>2, <2>6, TextTurnStep
  <2> QED
    BY <1>4, <2>1, <2>2, <2>3, <2>4, <2>5, <2>6 DEF ApiNext
<1>5. CASE FaultNext
  <2>1. \A q \in Run : Untouched(q) => Untouched(q)'
    <3>1. CASE ApiStop \/ ApiStart
      BY <3>1 DEF ApiStop, ApiStart, Untouched, rowVars, cellVars, execVars
    <3>2. ASSUME NEW w \in Worker, WorkerCrash(w)
          PROVE  \A q \in Run : Untouched(q) => Untouched(q)'
      BY <3>2 DEF WorkerCrash, Untouched, TypeOK, rowVars, cellVars, apiVars
    <3>3. ASSUME NEW w \in Worker, NEW r \in Run, LoseOwnership(w, r)
          PROVE  \A q \in Run : Untouched(q) => Untouched(q)'
      BY <3>3 DEF LoseOwnership, Untouched, rowVars, cellVars, apiVars
    <3> QED
      BY <1>5, <3>1, <3>2, <3>3 DEF FaultNext
  <2>2. \A q \in Run : request'[q] \in {"none", request[q]}
    BY <1>5 DEF FaultNext, ApiStop, ApiStart, WorkerCrash, LoseOwnership, apiVars
  <2>3. \A q \in Run : status'[q] = "completed" => status[q] = "completed"
    BY <1>5 DEF FaultNext, ApiStop, ApiStart, WorkerCrash, LoseOwnership
  <2> QED
    BY <1>1, <2>1, <2>2, <2>3
<1>6. CASE UNCHANGED vars \/ \E r \in Run : Reclaim(r)
  BY <1>6 DEF vars, Reclaim, ReclaimStaleLease, ReclaimKeepsLease, Untouched, rowVars, cellVars, execVars, apiVars
<1> QED
  BY <1>3, <1>4, <1>5, <1>6 DEF Next

\* A build is completed by a committed snapshot and never over a recorded product
\* failure: every completion rereads both in its own transaction, and no later
\* step of any process takes the snapshot back, records a failure or rebinds the
\* mode (finalize_generation_run and the lazy completion of reserve_generation_run).
THEOREM CompletionIsPublished == Spec => []CompletedBuildIsPublished
<1> DEFINE Sound == \A r \in Run : status[r] = "completed" => ~CompletionError(r)
<1>1. Init => AcceptedInOrder /\ Sound
  BY DEF Init, AcceptedInOrder, Untouched
<1>2. TypeOK /\ AcceptedInOrder /\ Sound /\ [Next]_vars => AcceptedInOrder' /\ Sound'
  <2> SUFFICES ASSUME TypeOK, AcceptedInOrder, Sound, StatusMoves, RowMoves PROVE Sound'
    BY AcceptanceStep, StatusStep, RowStep
  <2> SUFFICES ASSUME NEW r \in Run, status'[r] = "completed" PROVE ~CompletionError(r)'
    OBVIOUS
  <2>1. CASE status[r] = "completed"
    <3>1. ~CompletionError(r) /\ request[r] # "accepting" /\ Terminal(r)
      BY <2>1 DEF AcceptedInOrder, Terminal, TerminalStatuses
    <3>2. ASSUME NEW q \in Run, PersistMessages(q)
          PROVE  ~CompletionError(r)'
      BY <3>1, <3>2 DEF PersistMessages, CompletionError, TypeOK
    <3>3. ASSUME NEW w \in Worker, NEW q \in Run,
                 AdmitBody(w, q) \/ RecordProductFailure(w, q) \/ Publish(w, q)
          PROVE  ~CompletionError(r)'
      BY <3>1, <3>3
         DEF AdmitBody, RecordProductFailure, Publish, CompletionError, TypeOK
    <3> QED
      BY <3>1, <3>2, <3>3 DEF RowMoves, CompletionError
  <2>2. CASE status[r] # "completed"
    <3>1. ~CompletionError(r)
      BY <2>2 DEF StatusMoves, Reserve, Move, SetStatus, ApiStart, TypeOK
    <3>2. status' # status
      BY <2>2
    <3>3. UNCHANGED <<mode, snapshot, productFailed>>
      BY <3>2 DEF RowMoves, PersistMessages, AdmitBody, RecordProductFailure, Publish
    <3> QED
      BY <3>1, <3>3 DEF CompletionError
  <2> QED
    BY <2>1, <2>2
<1>3. Sound => CompletedBuildIsPublished
  BY DEF CompletedBuildIsPublished, CompletionError
<1> QED
  BY <1>1, <1>2, <1>3, TypeCorrect, PTL DEF Spec

-----------------------------------------------------------------------------
\* The statuses of the runs implement the abstract turns.

\* A Stop that is under way is never undone, an outcome is decided once, and one
\* turn is open at a time: what the owner of the project can rely on, for every
\* step of every process (the transactions of generation_runs.py).
THEOREM TurnsAreImplemented == Spec => ImplementsTurns
<1> DEFINE phase == [r \in Run |-> Phase(r)]
<1> USE DEF Phase, Active, ActiveStatuses, Turns!Open, Turns!Outcomes
<1>1. Init => Turns!Init
  BY DEF Init, Turns!Init
<1>2. TypeOK /\ SingleFlight /\ [Next]_vars => [Turns!Next]_phase
  <2> SUFFICES ASSUME TypeOK, SingleFlight, StatusMoves PROVE [Turns!Next]_phase
    BY StatusStep
  <2>1. CASE UNCHANGED status
    BY <2>1
  <2>2. ASSUME NEW r \in Run, Reserve(r)
        PROVE  Turns!Next
    <3>1. phase[r] = "absent"
      BY <2>2 DEF Reserve
    <3>2. CASE (\A q \in Run : ~Active(q)) /\ SetStatus(r, "pending")
      <4>1. (\A q \in Run : phase[q] \notin Turns!Open) /\ Turns!Enter(r, "active")
        BY <3>2 DEF SetStatus, TypeOK, Statuses, TerminalStatuses, Turns!Enter
      <4> QED
        BY <3>1, <4>1 DEF Turns!Next, Turns!Accept
    <3>3. ASSUME NEW q \in Run, Active(q), Closable(q), NEW o \in {"failed", "completed"},
                 status' = [status EXCEPT ![q] = o, ![r] = "pending"]
          PROVE  Turns!Next
      <4>1. phase[q] = "active" /\ \A v \in Run \ {q} : phase[v] \notin Turns!Open
        BY <3>3 DEF Closable, SingleFlight, TypeOK, Statuses, TerminalStatuses
      <4>2. phase' = [phase EXCEPT ![q] = o, ![r] = "active"]
        BY <3>3 DEF TypeOK
      <4> QED
        BY <3>1, <4>1, <4>2 DEF Turns!Next, Turns!Accept
    <3> QED
      BY <2>2, <3>2, <3>3 DEF Reserve
  <2>3. ASSUME NEW r \in Run, NEW s \in Statuses, Move(r, s)
        PROVE  [Turns!Next]_phase
    <3>1. /\ phase[r] \in {"active", "stopping"} /\ s # "none"
          /\ phase[r] = "stopping" => s \in {"failed", "cancelled"}
      BY <2>3 DEF Move, TerminalStatuses
    <3>2. CASE s \in {"pending", "queued_for_capacity", "running"}
      <4>1. phase' = phase
        BY <2>3, <3>1, <3>2 DEF Move, SetStatus, TypeOK
      <4> QED
        BY <4>1
    <3>3. CASE s = "cancel_requested"
      <4>1. phase[r] = "active" /\ phase' = [phase EXCEPT ![r] = "stopping"]
        BY <2>3, <3>1, <3>3 DEF Move, SetStatus, TypeOK
      <4> QED
        BY <4>1 DEF Turns!Next, Turns!RequestStop, Turns!Enter
    <3>4. CASE s \in TerminalStatuses
      <4>1. phase' = [phase EXCEPT ![r] = s]
        BY <2>3, <3>4 DEF Move, SetStatus, TypeOK, TerminalStatuses
      <4> QED
        BY <3>1, <3>4, <4>1 DEF Turns!Next, Turns!Conclude, Turns!Enter, TerminalStatuses
    <3> QED
      BY <3>1, <3>2, <3>3, <3>4 DEF Statuses
  <2>4. CASE ApiStart
    <3> DEFINE S == {r \in Run : Interrupted(r)}
    <3>1. S \in SUBSET Run /\ \A t \in S : phase[t] \in Turns!Open
      BY DEF Interrupted, InterruptedStatuses
    <3>2. phase' = [t \in Run |-> IF t \in S THEN "failed" ELSE phase[t]]
      BY <2>4 DEF ApiStart
    <3> QED
      BY <3>1, <3>2 DEF Turns!Next, Turns!Interrupt
  <2> QED
    BY <2>1, <2>2, <2>3, <2>4 DEF StatusMoves
<1> QED
  BY <1>1, <1>2, TypeCorrect, OneActiveRun, PTL DEF Spec, ImplementsTurns, Turns!Spec

-----------------------------------------------------------------------------
\* Who asked for a cancellation.  Every step is either calm (it asks for no Stop and
\* forwards none) or one of the seven that handle a Stop, which are looked at one by one.

Stopping == {"cancel_requested", "cancelled"}

\* A Stop in the row or in Redis was pressed by the owner; a deadline, which ends
\* a body the same way, has decided the run before.
StopsAreAsked ==
  /\ \A r \in Run : status[r] \in Stopping \/ signal[r] => userStop[r]
  /\ \A r \in Run : overdue[r] => Terminal(r)
  /\ \A w \in Worker, r \in Run : why[w][r] = "cancel" => userStop[r] \/ overdue[r]

\* No run is newly stopping, no coroutine newly cancelled, no signal newly set.
CalmStatus == \A r \in Run : status'[r] \in Stopping => status[r] \in Stopping
CalmWhy    == \A w \in Worker, r \in Run : why'[w][r] = "cancel" => why[w][r] = "cancel"
CalmSignal == \A r \in Run : signal'[r] => signal[r]
Calm == CalmStatus /\ CalmWhy /\ CalmSignal /\ UNCHANGED <<userStop, overdue>>

\* A decided run stays decided, by the moves a status may make.
LEMMA DecidedStays ==
  ASSUME TypeOK, StatusMoves, NEW r \in Run, Terminal(r)
  PROVE  Terminal(r)'
BY DEF TypeOK, StatusMoves, Reserve, Move, SetStatus, ApiStart, Active, Terminal,
       Interrupted, InterruptedStatuses, ActiveStatuses, TerminalStatuses

\* A calm step keeps what was asked.
LEMMA CalmKeeps ==
  ASSUME TypeOK, StopsAreAsked, StatusMoves, Calm
  PROVE  StopsAreAsked'
<1>1. \A r \in Run : Terminal(r) => Terminal(r)'
  BY DecidedStays
<1> QED
  BY <1>1 DEF StopsAreAsked, Calm, CalmStatus, CalmWhy, CalmSignal

\* The writers of the status stop no run that is not stopping.
LEMMA StatusCalm ==
  ASSUME TypeOK, NEW r \in Run
  PROVE  /\ UNCHANGED status \/ SetFailed(r) \/ Finalize(r) => CalmStatus
         /\ \A s \in Statuses \ Stopping : SetStatus(r, s) => CalmStatus
         /\ status[r] \in Stopping /\ (ApplyCancelled(r) \/ FinalizeCancelled(r)) => CalmStatus
BY DEF TypeOK, SetFailed, Finalize, FinalizeCancelled, ApplyCancelled, SetStatus, CalmStatus, Stopping

\* Only an interruption by a Stop or a deadline ends a coroutine as cancelled.
LEMMA WhyCalm ==
  ASSUME TypeOK, NEW w \in Worker, NEW r \in Run
  PROVE  /\ UNCHANGED why \/ ReleaseRaises(w, r) => CalmWhy
         /\ \A e \in Endings \ {"cancel"} : why' = [why EXCEPT ![w][r] = e] => CalmWhy
         /\ \A from : Return(w, r, from) => CalmWhy
         /\ \A from : \A e \in Endings \ {"cancel"} : EndBody(w, r, from, e) => CalmWhy
<1>1. UNCHANGED why \/ ReleaseRaises(w, r) => CalmWhy
  <2>1. CASE UNCHANGED why
    BY <2>1 DEF CalmWhy
  <2>2. CASE ReleaseRaises(w, r)
    <3>1. \A v \in Worker, q \in Run : why'[v][q] \in {why[v][q], "error"}
      BY <2>2 DEF TypeOK, ReleaseRaises
    <3> QED
      BY <3>1 DEF CalmWhy
  <2> QED
    BY <2>1, <2>2
<1>2. \A e \in Endings \ {"cancel"} : why' = [why EXCEPT ![w][r] = e] => CalmWhy
  BY DEF TypeOK, CalmWhy
<1>3. \A from : Return(w, r, from) => CalmWhy
  BY <1>2 DEF Return, Endings
<1>4. ASSUME NEW from, NEW e \in Endings \ {"cancel"}, EndBody(w, r, from, e)
      PROVE  CalmWhy
  BY <1>2, <1>4 DEF EndBody
<1> QED
  BY <1>1, <1>2, <1>3, <1>4

\* Clearing the Redis key, or leaving it alone.
LEMMA SignalCalm ==
  ASSUME TypeOK, NEW r \in Run, UNCHANGED signal \/ ClearSignal(r)
  PROVE  CalmSignal
BY DEF TypeOK, ClearSignal, CalmSignal

-----------------------------------------------------------------------------
\* The steps that handle no Stop, or one that is in the row already.

\* Acceptance, text turns and the reclaimed lease.
LEMMA ApiCalm ==
  ASSUME TypeOK, NEW r \in Run,
         \/ Reserve(r) \/ PersistMessages(r) \/ DispatchText(r) \/ DispatchBuild(r) \/ RequestDies(r)
         \/ TextStart(r) \/ TextWrite(r) \/ TextFinish(r)
         \/ TextFail(r) \/ TextSetFailed(r) \/ TextEmergency(r) \/ Reclaim(r)
  PROVE  Calm
<1>1. UNCHANGED <<why, userStop, overdue>> /\ (UNCHANGED signal \/ ClearSignal(r))
  BY DEF Reserve, PersistMessages, DispatchText, DispatchBuild, RequestDies, TextStart, TextWrite,
         TextFinish, TextFail, TextSetFailed, TextEmergency, Reclaim, ReclaimStaleLease, ReclaimKeepsLease, TextStep,
         rowVars, execVars, stopVars
<1>2. CalmStatus
  <2>1. CASE Reserve(r)
    BY <2>1 DEF Reserve, SetStatus, TypeOK, CalmStatus, Stopping
  <2>2. CASE \/ PersistMessages(r) \/ DispatchText(r) \/ DispatchBuild(r) \/ RequestDies(r)
             \/ TextWrite(r) \/ TextEmergency(r) \/ Reclaim(r)
    BY <2>2, StatusCalm DEF PersistMessages, DispatchText, DispatchBuild, RequestDies, TextWrite,
       TextEmergency, Reclaim, ReclaimStaleLease, ReclaimKeepsLease
  <2>3. CASE TextStart(r)
    BY <2>3, StatusCalm DEF TextStart, Statuses, ActiveStatuses, Stopping
  <2>4. CASE TextFinish(r) \/ TextSetFailed(r)
    BY <2>4, StatusCalm DEF TextFinish, TextSetFailed
  <2>5. CASE TextFail(r)
    BY <2>5, StatusCalm DEF TextFail, Stopping
  <2> QED
    BY <2>1, <2>2, <2>3, <2>4, <2>5
<1> QED
  BY <1>1, <1>2, SignalCalm DEF Calm, CalmWhy

\* Ownership and admission.
LEMMA AdmissionCalm ==
  ASSUME TypeOK, NEW w \in Worker, NEW r \in Run, AdmissionNext(w, r)
  PROVE  Calm
<1>1. UNCHANGED <<userStop, overdue>> /\ (UNCHANGED signal \/ ClearSignal(r))
  BY DEF AdmissionNext, TakeLock, AdmitNothing, AdmitLeftover, AdmitBody, FailOrphan, Emergency,
         rowVars, stopVars
<1>2. CalmWhy
  <2>1. UNCHANGED why \/ \E from \in {"owned", "orphan", "emergency"} : Return(w, r, from)
    BY DEF AdmissionNext, TakeLock, AdmitNothing, AdmitLeftover, AdmitBody, FailOrphan, Emergency
  <2> QED
    BY <2>1, WhyCalm
<1>3. CalmStatus
  <2>1. \/ UNCHANGED status
        \/ status[r] = "cancel_requested" /\ ApplyCancelled(r)
        \/ SetStatus(r, "failed")
    BY DEF AdmissionNext, TakeLock, AdmitNothing, AdmitLeftover, AdmitBody, FailOrphan, Emergency
  <2> QED
    BY <2>1, StatusCalm DEF Statuses, TerminalStatuses, Stopping
<1> QED
  BY <1>1, <1>2, <1>3, SignalCalm DEF Calm

\* The body, when neither a Stop nor the deadline ends it.
LEMMA BodyCalm ==
  ASSUME TypeOK, NEW w \in Worker, NEW r \in Run, BodyNext(w, r),
         ~Deadline(w, r), ~SignalStops(w, r), ~MonitorStops(w, r)
  PROVE  Calm
<1>1. CASE OwnershipLossNoticed(w, r)
  <2>1. /\ UNCHANGED <<userStop, overdue, signal, status>>
        /\ why' = [why EXCEPT ![w][r] = "lost"]
    BY <1>1 DEF OwnershipLossNoticed, Interrupt, rowVars, stopVars
  <2> QED
    BY <2>1, StatusCalm, WhyCalm, SignalCalm DEF Calm, Endings
<1>2. CASE RefuseAdmission(w, r)
  <2>1. /\ UNCHANGED <<userStop, overdue, signal, status>>
        /\ why' = [why EXCEPT ![w][r] = "error"]
    BY <1>2 DEF RefuseAdmission, rowVars, stopVars
  <2> QED
    BY <2>1, StatusCalm, WhyCalm, SignalCalm DEF Calm, Endings
<1>3. CASE ~OwnershipLossNoticed(w, r) /\ ~RefuseAdmission(w, r)
  <2> USE <1>3 DEF BodyNext
  <2>1. UNCHANGED <<userStop, overdue>> /\ (UNCHANGED signal \/ ClearSignal(r))
    BY DEF AcquireLease, QueueForCapacity, LoseCapacityClaim, Promote, RecordProductFailure, Publish,
           PublishNothing, BodyReturns, BodyRaises, BodyRefused, HandleBodyError, MarkRunFailed,
           MarkMessageFailed, rowVars, stopVars
  <2>2. \/ UNCHANGED why \/ Return(w, r, "waiting")
        \/ \E e \in {"done", "error"}, from \in {"published", "failing", "marked"} : EndBody(w, r, from, e)
    BY DEF AcquireLease, QueueForCapacity, LoseCapacityClaim, Promote, RecordProductFailure, Publish,
           PublishNothing, BodyReturns, BodyRaises, BodyRefused, HandleBodyError, MarkRunFailed,
           MarkMessageFailed, execVars
  <2>3. \/ UNCHANGED status \/ SetFailed(r)
        \/ SetStatus(r, "queued_for_capacity") \/ SetStatus(r, "running")
    BY DEF AcquireLease, QueueForCapacity, LoseCapacityClaim, Promote, RecordProductFailure, Publish,
           PublishNothing, BodyReturns, BodyRaises, BodyRefused, HandleBodyError, MarkRunFailed,
           MarkMessageFailed
  <2>4. CalmWhy
    BY <2>2, WhyCalm DEF Endings
  <2>5. CalmStatus
    BY <2>3, StatusCalm DEF Statuses, ActiveStatuses, Stopping
  <2> QED
    BY <2>1, <2>4, <2>5, SignalCalm DEF Calm
<1> QED
  BY <1>1, <1>2, <1>3

\* Cleanup.
LEMMA ReleaseCalm ==
  ASSUME TypeOK, NEW w \in Worker, NEW r \in Run, ReleaseNext(w, r)
  PROVE  Calm
<1>1. UNCHANGED <<userStop, overdue, signal, status>>
  BY DEF ReleaseNext, StartRelease, ReleaseSucceeds, ReleaseFails, ControllerAnswers, ConfirmRelease,
         ReleaseUnconfirmed, rowVars, stopVars
<1>2. \/ UNCHANGED why \/ ReleaseRaises(w, r) \/ Return(w, r, "confirming")
      \/ why' = [why EXCEPT ![w][r] = "handoff"]
  BY DEF ReleaseNext, StartRelease, ReleaseSucceeds, ReleaseFails, ControllerAnswers, ConfirmRelease,
         ReleaseUnconfirmed, execVars
<1> QED
  BY <1>1, <1>2, StatusCalm, WhyCalm, SignalCalm DEF Calm, Endings

\* Settlement of anything but a cancellation.
LEMMA SettleCalm ==
  ASSUME TypeOK, NEW w \in Worker, NEW r \in Run, SettleNext(w, r), ~SettleCancel(w, r)
  PROVE  Calm
<1>1. UNCHANGED <<userStop, overdue>> /\ (UNCHANGED signal \/ ClearSignal(r))
  BY DEF SettleNext, SettleDone, SettleHandoff, SettleError, SetRunFailed, SettleLost, ResumeRelease,
         ResumeFinished, ResumeDefers, SettleResumed, ResumeInterrupted, rowVars, stopVars
<1>2. \/ UNCHANGED why \/ \E from \in {"settling", "resuming"} : Return(w, r, from)
      \/ \E e \in {"resume", "none", "lost"} : why' = [why EXCEPT ![w][r] = e]
  BY DEF SettleNext, SettleDone, SettleHandoff, SettleError, SetRunFailed, SettleLost, ResumeRelease,
         ResumeFinished, ResumeDefers, SettleResumed, ResumeInterrupted
<1>3. UNCHANGED status \/ SetFailed(r) \/ Finalize(r)
  BY DEF SettleNext, SettleDone, SettleHandoff, SettleError, SetRunFailed, SettleLost, ResumeRelease,
         ResumeFinished, ResumeDefers, SettleResumed, ResumeInterrupted
<1> QED
  BY <1>1, <1>2, <1>3, StatusCalm, WhyCalm, SignalCalm DEF Calm, Endings

\* Crashes, lost connections and restarts.
LEMMA FaultCalm ==
  ASSUME TypeOK, FaultNext
  PROVE  Calm
<1>1. UNCHANGED <<userStop, overdue, signal>>
  BY DEF FaultNext, ApiStop, ApiStart, WorkerCrash, LoseOwnership, rowVars, stopVars
<1>2. CalmStatus
  BY DEF FaultNext, ApiStop, ApiStart, WorkerCrash, LoseOwnership, CalmStatus, Stopping
<1>3. CalmWhy
  <2>1. ASSUME NEW w \in Worker, WorkerCrash(w)
        PROVE  CalmWhy
    BY <2>1 DEF WorkerCrash, CalmWhy, TypeOK
  <2>2. UNCHANGED why \/ \E w \in Worker : WorkerCrash(w)
    BY DEF FaultNext, ApiStop, ApiStart, LoseOwnership, execVars
  <2> QED
    BY <2>1, <2>2 DEF CalmWhy
<1> QED
  BY <1>1, <1>2, <1>3 DEF Calm, CalmSignal

-----------------------------------------------------------------------------
\* The steps that handle a Stop.

\* The owner presses Stop, and the text turn that sees the signal is cancelled.
LEMMA StopStep ==
  ASSUME TypeOK, StopsAreAsked, StatusMoves, NEW r \in Run,
         StopUnstarted(r) \/ StopRunning(r) \/ TextCancel(r)
  PROVE  StopsAreAsked'
<1>0. /\ UNCHANGED <<overdue, why>> /\ \A q \in Run : Terminal(q) => Terminal(q)'
  BY DecidedStays DEF StopUnstarted, StopRunning, TextCancel, TextStep, rowVars, execVars
<1>1. CASE StopUnstarted(r) \/ StopRunning(r)
  <2>1. /\ userStop'[r] /\ \A q \in Run : userStop[q] => userStop'[q]
        /\ \A q \in Run \ {r} : status'[q] = status[q] /\ signal'[q] = signal[q]
    <3>1. /\ userStop \in [Run -> BOOLEAN] /\ signal \in [Run -> BOOLEAN]
          /\ DOMAIN status = Run
      BY DEF TypeOK
    <3>2. CASE StopUnstarted(r)
      BY <3>1, <3>2 DEF StopUnstarted, ApplyCancelled, SetStatus
    <3>3. CASE StopRunning(r)
      BY <3>1, <3>3 DEF StopRunning, SetStatus
    <3> QED
      BY <1>1, <3>2, <3>3
  <2> QED
    BY <1>0, <2>1 DEF StopsAreAsked
<1>2. CASE TextCancel(r)
  <2>1. UNCHANGED userStop /\ userStop[r] /\ CalmSignal
    BY <1>2, SignalCalm DEF TextCancel, TextStep, StopsAreAsked
  <2>2. \A q \in Run \ {r} : status'[q] = status[q]
    BY <1>2 DEF TextCancel, FinalizeCancelled, ApplyCancelled, SetStatus, TypeOK
  <2> QED
    BY <1>0, <2>1, <2>2 DEF StopsAreAsked, CalmSignal
<1> QED
  BY <1>1, <1>2

\* A deadline cancels only what was being stopped, and it decides the run at once.
LEMMA DeadlineStep ==
  ASSUME TypeOK, StopsAreAsked, StatusMoves, NEW w \in Worker, NEW r \in Run, Deadline(w, r)
  PROVE  StopsAreAsked'
<1>1. UNCHANGED <<userStop, signal, why>> /\ \A q \in Run : Terminal(q) => Terminal(q)'
  BY DecidedStays DEF Deadline, execVars, stopVars
<1>2. /\ CalmStatus /\ Terminal(r)' /\ overdue'[r]
      /\ \A q \in Run \ {r} : overdue'[q] = overdue[q]
  BY DEF Deadline, SetStatus, CalmStatus, Stopping, Terminal, TerminalStatuses, TypeOK
<1> QED
  BY <1>1, <1>2 DEF StopsAreAsked, CalmStatus

\* A body is cancelled by the signal, by the row or after the deadline.
LEMMA InterruptStep ==
  ASSUME TypeOK, StopsAreAsked, NEW w \in Worker, NEW r \in Run,
         SignalStops(w, r) \/ MonitorStops(w, r)
  PROVE  StopsAreAsked'
<1>1. userStop[r] \/ overdue[r]
  BY DEF SignalStops, MonitorStops, StopsAreAsked, Stopping
<1>2. /\ UNCHANGED <<status, signal, userStop, overdue>>
      /\ why' = [why EXCEPT ![w][r] = "cancel"]
  BY DEF SignalStops, MonitorStops, Interrupt, rowVars, stopVars
<1>3. \A v \in Worker, q \in Run : why'[v][q] = why[v][q] \/ (v = w /\ q = r)
  BY <1>2 DEF TypeOK
<1> QED
  BY <1>1, <1>2, <1>3 DEF StopsAreAsked, Terminal

\* The tracker cancels a run on behalf of a Stop, or leaves a decided run alone.
LEMMA SettleCancelStep ==
  ASSUME TypeOK, StopsAreAsked, StatusMoves, NEW w \in Worker, NEW r \in Run, SettleCancel(w, r)
  PROVE  StopsAreAsked'
<1>1. /\ UNCHANGED <<userStop, overdue>> /\ CalmSignal /\ CalmWhy
      /\ \A q \in Run : Terminal(q) => Terminal(q)'
  BY DecidedStays, SignalCalm, WhyCalm DEF SettleCancel, rowVars
<1>2. userStop[r] \/ Terminal(r)
  BY DEF SettleCancel, StopsAreAsked, Stopping
<1>3. /\ \A q \in Run \ {r} : status'[q] = status[q]
      /\ Terminal(r) => status'[r] = status[r]
  BY DEF SettleCancel, FinalizeCancelled, ApplyCancelled, SetStatus, Active, Terminal, ActiveStatuses,
         TerminalStatuses, TypeOK
<1> QED
  BY <1>1, <1>2, <1>3 DEF StopsAreAsked, CalmSignal, CalmWhy

\* Every step of every process keeps what was asked.
LEMMA StopsAreAskedStep == TypeOK /\ StopsAreAsked /\ [Next]_vars => StopsAreAsked'
<1> SUFFICES ASSUME TypeOK, StopsAreAsked, [Next]_vars PROVE StopsAreAsked'
  OBVIOUS
<1>0. StatusMoves
  BY StatusStep
<1>1. ASSUME NEW r \in Run, ApiNext(r) \/ Reclaim(r)
      PROVE  StopsAreAsked'
  BY <1>0, <1>1, ApiCalm, CalmKeeps, StopStep DEF ApiNext
<1>2. ASSUME NEW w \in Worker, NEW r \in Run,
             AdmissionNext(w, r) \/ ReleaseNext(w, r) \/ SettleNext(w, r)
      PROVE  StopsAreAsked'
  BY <1>0, <1>2, AdmissionCalm, ReleaseCalm, SettleCalm, CalmKeeps, SettleCancelStep
<1>3. ASSUME NEW w \in Worker, NEW r \in Run, BodyNext(w, r)
      PROVE  StopsAreAsked'
  BY <1>0, <1>3, BodyCalm, CalmKeeps, DeadlineStep, InterruptStep
<1>4. CASE FaultNext
  BY <1>0, <1>4, FaultCalm, CalmKeeps
<1>5. CASE UNCHANGED vars
  BY <1>5 DEF vars, StopsAreAsked, Terminal, rowVars, execVars, stopVars
<1> QED
  BY <1>1, <1>2, <1>3, <1>4, <1>5 DEF Next

\* Losing a worker, its lock, its capacity claim or the API never reads as a
\* cancellation by the owner: a cancelled run was stopped by its owner, and a body
\* the deadline has ended finds its run decided (_fail_orphan, generation_tracking.py).
THEOREM CancelIsAsked == Spec => []NoFabricatedCancel
<1>1. Init => StopsAreAsked
  BY DEF Init, StopsAreAsked, Stopping
<1>2. StopsAreAsked => NoFabricatedCancel
  BY DEF StopsAreAsked, Stopping, NoFabricatedCancel
<1> QED
  BY <1>1, <1>2, StopsAreAskedStep, TypeCorrect, PTL DEF Spec
=============================================================================
