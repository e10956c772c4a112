------------------------ MODULE CellOperationsProofs ------------------------
(***************************************************************************)
(* Proofs about the fenced operations of one Project Cell, for any number   *)
(* of runs, operations, dispatches and failures.                            *)
(*                                                                         *)
(* The actions are first reduced to what they do to the two journals: the   *)
(* API writes its queue in six moves (Writes), the controller its journal   *)
(* in six (Moves).  The invariant then says what each party knows of a row: *)
(* the queue (Queued), the coroutines that await an answer (Awaits), the    *)
(* requests on their way (OnItsWay), the controller's records (Recorded,    *)
(* JournalLast, Served), and the answers stored (Receipts).  One lemma per  *)
(* move shows that it keeps what the others know.                           *)
(***************************************************************************)
EXTENDS CellOperations, FiniteSums

-----------------------------------------------------------------------------
\* Typing.

RowSet == [kind : Kinds \cup {"none"}, run : Run \cup {NoRun}, target : Ops \cup {NoOp},
           status : Statuses, fence : Nat, try : Nat, ans : Answers]
CallerSet == [op : Ops, fence : Nat, try : Nat, replay : BOOLEAN, ans : Answers]
JournalSet == [there : BOOLEAN, fence : Nat, phase : {"completed", "open", "indeterminate"},
               bundle : Bundles, last : Ops \cup {NoOp}, active : Run \cup {NoRun}, activeFence : Nat]
RecordSet == [kind : Kinds \cup {"none"}, fence : Nat, run : Run \cup {NoRun},
              status : {"none", "running", "completed", "indeterminate"}]
BusySet == [op : Ops \cup {NoOp}, fence : Nat, try : Nat, was : Bundles, run : Run \cup {NoRun}]
ReservedSet == [op : Ops \cup {NoOp}, fence : Nat, confirmed : BOOLEAN]

ApiTypes == /\ op \in [Ops -> RowSet] /\ wsFence \in Nat /\ lease \in Run \cup {NoRun}
            /\ runState \in [Run -> {"new", "active", "ended"}]
WireTypes == callers \subseteq CallerSet /\ inbox \subseteq Requests
CtrlTypes == /\ journal \in JournalSet /\ rec \in [Ops -> RecordSet] /\ reserved \in ReservedSet
             /\ busy \in BusySet /\ compute \in {"none", "partial", "ready"}

\* The type invariant, by what its parts are written by.
LEMMA Types == /\ TypeOK <=> ApiTypes /\ WireTypes /\ CtrlTypes /\ faults \in 0..MaxFaults
               /\ TypeOK' <=> ApiTypes' /\ WireTypes' /\ CtrlTypes' /\ faults' \in 0..MaxFaults
BY DEF TypeOK, ApiTypes, WireTypes, CtrlTypes, RowSet, CallerSet, JournalSet, RecordSet, BusySet, ReservedSet

\* A failure is counted up to its bound.
LEMMA FaultType == ASSUME NEW kind, faults \in 0..MaxFaults, Fault(kind) PROVE faults' \in 0..MaxFaults
BY OperationBounds DEF Fault

\* The constants of the model are answers, rows and records.
LEMMA ConstantTypes ==
  /\ NoAnswer \in Answers /\ Rejected \in Answers /\ Failure \in Answers
  /\ \A b \in Bundles : Answer("ok", b) \in Answers /\ Answer("wait", b) \in Answers
  /\ \A b \in Bundles, r \in Run \cup {NoRun}, q \in BOOLEAN : Observed(b, r, q) \in Answers
  /\ NoRow \in RowSet /\ NoRecord \in RecordSet /\ Idle \in BusySet /\ Unreserved \in ReservedSet
BY DEF NoAnswer, Rejected, Failure, Answer, Observed, Answers, NoRow, NoRecord, Idle, Unreserved, RowSet,
       RecordSet, BusySet, ReservedSet, Bundles, Kinds, Statuses

\* A new row is typed.
LEMMA ReserveType ==
  ASSUME ApiTypes, NEW kind \in Kinds, NEW r \in Run \cup {NoRun}, NEW t \in Ops \cup {NoOp},
         Reserve(kind, r, t)
  PROVE  op' \in [Ops -> RowSet]
BY ConstantTypes DEF ApiTypes, Reserve, NoRow, RowSet, Statuses

\* A dispatch is typed.
LEMMA DispatchType ==
  ASSUME ApiTypes, WireTypes, NEW o \in Ops, NEW f \in Nat, NEW b \in BOOLEAN, Dispatch(o, f, b)
  PROVE  op' \in [Ops -> RowSet] /\ WireTypes'
<1>1. op' \in [Ops -> RowSet]
  BY DEF ApiTypes, Dispatch, RowSet, Statuses
<1>2. op[o].try + 1 \in Nat
  BY DEF ApiTypes, RowSet
<1>3. [op |-> o, fence |-> f, try |-> op[o].try + 1, replay |-> b, ans |-> NoAnswer] \in CallerSet
  BY <1>2, ConstantTypes DEF CallerSet
<1>4. [op |-> o, fence |-> f, try |-> op[o].try + 1, ready |-> op[o].kind # "wake"] \in Requests
  BY <1>2 DEF Requests
<1> QED
  BY <1>1, <1>3, <1>4 DEF WireTypes, Dispatch

\* A reply only changes answers.
LEMMA ReplyType ==
  ASSUME WireTypes, NEW m, NEW a \in Answers, Reply(m, a)
  PROVE  callers' \subseteq CallerSet
BY DEF WireTypes, Reply, CallerSet

\* What the controller reads before it serves is typed.
LEMMA PreparedType ==
  ASSUME CtrlTypes, NEW me
  PROVE  Prepared(me) \in JournalSet /\ PreparedRec(me) \in [Ops -> RecordSet]
<1>1. Prepared(me) \in JournalSet
  BY DEF CtrlTypes, Prepared, JournalSet, Bundles
<1>2. PreparedRec(me) \in [Ops -> RecordSet]
  BY DEF CtrlTypes, PreparedRec, RecordSet
<1> QED
  BY <1>1, <1>2

\* What it begins is typed.
LEMMA BegunType ==
  ASSUME NEW j \in JournalSet, NEW rs \in [Ops -> RecordSet], NEW m \in Requests,
         NEW kind \in Kinds, NEW run \in Run \cup {NoRun}
  PROVE  /\ Begun(j, m) \in JournalSet /\ BegunRec(rs, m, kind, run) \in [Ops -> RecordSet]
         /\ [op |-> m.op, fence |-> m.fence, try |-> m.try, was |-> j.bundle, run |-> run] \in BusySet
BY DEF Begun, BegunRec, JournalSet, RecordSet, Requests, Bundles, BusySet

\* Every action of the API keeps the types.
LEMMA ApiTyped ==
  ASSUME TypeOK,
         \/ \E r \in Run : StartRun(r) \/ EndRun(r) \/ ReserveAdmission(r) \/ Recovery(r)
         \/ ReserveWake
         \/ \E o \in Ops : Queue(o)
         \/ \E c \in callers : Caller(c)
  PROVE  TypeOK'
<1> USE Types
<1>1. ASSUME NEW r \in Run, StartRun(r) \/ EndRun(r)  PROVE TypeOK'
  BY <1>1 DEF StartRun, EndRun, ApiTypes, WireTypes, CtrlTypes, ctrlVars
<1>2. ASSUME NEW r \in Run, ReserveAdmission(r) \/ Recovery(r)  PROVE TypeOK'
  <2>1. \E kind \in Kinds, t \in Ops \cup {NoOp} : Reserve(kind, r, t)
    BY <1>2 DEF ReserveAdmission, Recovery, ReserveRepair, ReserveObserve, ReserveRelease, ReserveReconcile, Kinds
  <2>2. UNCHANGED <<wsFence, runState, callers, inbox, ctrlVars, faults>> /\ lease' \in {lease, r}
    BY <1>2 DEF ReserveAdmission, Recovery, ReserveRepair, ReserveObserve, ReserveRelease, ReserveReconcile
  <2> QED
    BY <2>1, <2>2, ReserveType DEF ApiTypes, WireTypes, CtrlTypes, ctrlVars
<1>3. ASSUME ReserveWake  PROVE TypeOK'
  <2>1. Reserve("wake", NoRun, NoOp)
    BY <1>3 DEF ReserveWake
  <2> QED
    BY <1>3, <2>1, ReserveType DEF ReserveWake, ApiTypes, WireTypes, CtrlTypes, ctrlVars, Kinds
<1>4. ASSUME NEW o \in Ops, Claim(o)  PROVE TypeOK'
  <2>1. wsFence' \in Nat
    BY <1>4 DEF Claim, ApiTypes
  <2>2. op' \in [Ops -> RowSet] /\ WireTypes'
    <3>1. CASE Dispatch(o, wsFence', FALSE)
      <4>1. PICK f \in Nat : f = wsFence'
        BY <2>1
      <4>2. Dispatch(o, f, FALSE)
        BY <3>1, <4>1 DEF Dispatch
      <4> QED
        BY <4>2, DispatchType
    <3>2. CASE ~Dispatch(o, wsFence', FALSE)
      <4>1. /\ op' = [op EXCEPT ![o].status = "failed", ![o].fence = wsFence', ![o].try = @ + 1]
            /\ UNCHANGED <<callers, inbox>>
        BY <1>4, <3>2 DEF Claim
      <4> QED
        BY <2>1, <4>1 DEF ApiTypes, WireTypes, RowSet, Statuses
    <3> QED BY <3>1, <3>2
  <2> QED
    BY <1>4, <2>1, <2>2 DEF Claim, ApiTypes, CtrlTypes, ctrlVars
<1>5. ASSUME NEW o \in Ops, Replay(o)  PROVE TypeOK'
  <2>1. op' \in [Ops -> RowSet] /\ WireTypes'
    <3>1. PICK f \in Nat : f = op[o].fence
      BY DEF ApiTypes, RowSet
    <3>2. Dispatch(o, f, TRUE)
      BY <1>5, <3>1 DEF Replay, Dispatch
    <3> QED
      BY <3>2, DispatchType
  <2> QED
    BY <1>5, <2>1 DEF Replay, ApiTypes, CtrlTypes, ctrlVars
<1>6. ASSUME NEW o \in Ops, Interrupt(o) \/ CancelWaiting(o)  PROVE TypeOK'
  <2>1. op' \in [Ops -> RowSet]
    BY <1>6 DEF Interrupt, CancelWaiting, ApiTypes, RowSet, Statuses
  <2>2. faults' \in 0..MaxFaults
    BY <1>6, FaultType DEF Interrupt, CancelWaiting
  <2> QED
    BY <1>6, <2>1, <2>2 DEF Interrupt, CancelWaiting, ApiTypes, WireTypes, CtrlTypes, ctrlVars
<1>7. ASSUME NEW o \in Ops, ConfirmRelease(o) \/ ClearObserved(o)  PROVE TypeOK'
  BY <1>7 DEF ConfirmRelease, ClearObserved, ApiTypes, WireTypes, CtrlTypes, ctrlVars
<1>8. ASSUME NEW c \in callers, Caller(c)  PROVE TypeOK'
  <2>1. op' \in [Ops -> RowSet]
    <3>1. c.op \in Ops /\ c.ans \in Answers /\ Outcome(c) \in Statuses
      BY DEF WireTypes, CallerSet, Outcome, Statuses
    <3>2. \/ op' = op
          \/ op' = [op EXCEPT ![c.op].status = Outcome(c), ![c.op].ans = IF c.ans.is = "ok" THEN c.ans ELSE @]
          \/ op' = [op EXCEPT ![c.op].status = "indeterminate"]
      BY <1>8 DEF Caller, Persist, LoseAnswer, ConnectionLost, GiveUp
    <3> QED
      BY <3>1, <3>2 DEF ApiTypes, RowSet, Statuses
  <2>2. faults' \in 0..MaxFaults
    BY <1>8, FaultType DEF Caller, Persist, LoseAnswer, ConnectionLost, GiveUp
  <2>3. callers' \subseteq callers /\ UNCHANGED <<wsFence, lease, runState, inbox, ctrlVars>>
    BY <1>8 DEF Caller, Persist, LoseAnswer, ConnectionLost, GiveUp
  <2> QED
    BY <2>1, <2>2, <2>3 DEF ApiTypes, WireTypes, CtrlTypes, ctrlVars
<1> QED
  BY <1>1, <1>2, <1>3, <1>4, <1>5, <1>6, <1>7, <1>8 DEF Queue

-----------------------------------------------------------------------------
\* What the controller does to its journal, in four moves.

\* What it reads under the lock: another operation that was left running is unknown.
Read(j, rs) ==
  \/ j = journal /\ rs = rec
  \/ /\ journal.last \in Ops /\ rec[journal.last].status = "running"
     /\ j = [journal EXCEPT !.phase = "indeterminate", !.bundle = "indeterminate"]
     /\ rs = [rec EXCEPT ![journal.last].status = "indeterminate"]

\* Why a release is refused.
Refuses(m, j) ==
  \/ ~journal.there
  \/ journal.active = NoRun /\ rec[m.op].run = NoRun
  \/ ~SameEnvelope(m) /\ (journal.active = NoRun \/ ~Allowed(j, m, FALSE))

\* A request is answered at once.
Settles(m, a, j, rs) ==
  /\ Read(j, rs) /\ journal' = j /\ rec' = rs
  /\ inbox' = inbox \ {m} /\ Reply(m, a) /\ UNCHANGED <<apiVars, busy>>
  /\ ~a.proof
  /\ a.is = "wait" => op[m.op].kind \in {"ensure", "wake"}
  /\ a.is = "ok" /\ op[m.op].kind \notin {"status", "reconcile"} =>
       rec[m.op].status = "completed" /\ rec[m.op].fence = m.fence
  /\ a.is = "ok" /\ op[m.op].kind \in {"status", "reconcile"} => ~journal.there /\ a.state # "ready"
  /\ a.is = "rejected" /\ op[m.op].kind = "release" => busy = Idle /\ Refuses(m, j)

\* A wake waits for the lock.
Queues(m, j, rs) ==
  /\ Read(j, rs) /\ journal' = j /\ rec' = rs
  /\ op[m.op].kind = "wake"
  /\ inbox' = (inbox \ {m}) \cup {[m EXCEPT !.ready = TRUE]}
  /\ UNCHANGED <<apiVars, callers, busy>>

\* What is recorded of an operation, and for which run.
RecKind(kind) == IF kind \in {"status", "reconcile"} THEN "reconcile" ELSE kind
BegunFor(m, j, rs, run) ==
  CASE op[m.op].kind = "release" -> j.there /\ run = j.active /\ run # NoRun
    [] op[m.op].kind \in {"status", "reconcile"} -> run = RunToReconcile(j, rs)
    [] OTHER -> run = op[m.op].run

\* A request is begun, at a fence that is not below the journal's.
Begins(m, j, rs, run) ==
  /\ busy = Idle /\ Read(j, rs)
  /\ journal' = Begun(j, m) /\ rec' = BegunRec(rs, m, RecKind(op[m.op].kind), run)
  /\ Serve(m, j, run) /\ BegunFor(m, j, rs, run)
  /\ j.there => m.fence >= j.fence /\ (m.fence = j.fence /\ j.last # NoOp => m.op = j.last)
  /\ op[m.op].kind \notin {"status", "reconcile"} /\ rec[m.op].status = "completed" =>
       rec[m.op].fence # m.fence
  /\ j.there /\ op[m.op].kind \notin {"status", "reconcile"} => j.phase # "indeterminate"

\* What is served comes to its end, with an answer or without one.
Ends(status, a) ==
  /\ busy # Idle
  /\ status \in {rec[busy.op].status, "completed", "indeterminate"}
  /\ rec' = [rec EXCEPT ![busy.op].status = status]
  /\ journal'.there = journal.there /\ journal'.fence \in {journal.fence, busy.fence}
  /\ journal'.last \in {journal.last, busy.op}
  /\ IF rec[busy.op].kind = "release" THEN status = "completed" /\ journal'.active = NoRun
     ELSE journal'.active \in {journal.active, busy.run} /\ (busy.run = NoRun => journal'.active = journal.active)
  /\ busy' = Idle /\ Reply(busy, a) /\ UNCHANGED <<apiVars, inbox>>
  /\ a.is \in {"ok", "error"} \/ (a.is = "rejected" /\ rec[busy.op].kind # "release")
  /\ a.is = "ok" /\ rec[busy.op].kind # "reconcile" => status = "completed"
  /\ a.proof => /\ rec[busy.op].kind = "reconcile"
                /\ a.active = journal'.active
                /\ a.quiet => \A x \in Ops : rec'[x].status \in {"none", "completed"}

\* The process dies with all it had received.
Crashes == /\ inbox' = {} /\ busy' = Idle
           /\ UNCHANGED <<apiVars, callers, journal, rec>>

\* Nothing of it is concerned.
Rests == UNCHANGED <<apiVars, callers, inbox, journal, rec, busy>>

RecordSets == [Ops -> RecordSet]

Moves ==
  \/ \E m \in inbox, j \in JournalSet, rs \in RecordSets :
       \/ \E a \in Answers : Settles(m, a, j, rs)
       \/ Queues(m, j, rs)
       \/ \E run \in Run \cup {NoRun} : Begins(m, j, rs, run)
  \/ \E a \in Answers, status \in {"running", "completed", "indeterminate", "none"} : Ends(status, a)
  \/ Crashes
  \/ Rests

\* What _prepared_state returns is what the moves call read.
LEMMA PreparedIsRead ==
  ASSUME CtrlTypes, NEW me
  PROVE  /\ Read(Prepared(me), PreparedRec(me))
         /\ Prepared(me) \in JournalSet /\ PreparedRec(me) \in RecordSets
         /\ Prepared(me).there = journal.there /\ Prepared(me).active = journal.active
         /\ \A o \in Ops : PreparedRec(me)[o].status = "completed" <=> rec[o].status = "completed"
         /\ \A o \in Ops : PreparedRec(me)[o].fence = rec[o].fence
<1>1. Read(Prepared(me), PreparedRec(me))
  BY DEF CtrlTypes, JournalSet, Read, Prepared, PreparedRec, LeftRunning
<1>2. Prepared(me) \in JournalSet /\ PreparedRec(me) \in RecordSets
  BY PreparedType DEF JournalSet, RecordSets
<1>3. Prepared(me).there = journal.there /\ Prepared(me).active = journal.active
  BY DEF CtrlTypes, JournalSet, Prepared
<1>4. \A o \in Ops : /\ PreparedRec(me)[o].status = "completed" <=> rec[o].status = "completed"
                     /\ PreparedRec(me)[o].fence = rec[o].fence
  BY DEF CtrlTypes, RecordSet, PreparedRec, LeftRunning
<1> QED
  BY <1>1, <1>2, <1>3, <1>4

\* A wake is answered or waits.
LEMMA ArriveMoves ==
  ASSUME TypeOK, NEW m \in inbox, ArriveWake(m)
  PROVE  Moves
<1> DEFINE j == Prepared(m.op)
           rs == PreparedRec(m.op)
<1>1. CtrlTypes /\ m \in Requests
  BY Types DEF WireTypes
<1>2. Read(j, rs) /\ j \in JournalSet /\ rs \in RecordSets
  BY <1>1, PreparedIsRead
<1>3. journal' = j /\ rec' = rs
  BY DEF ArriveWake
<1> HIDE DEF j, rs
<1>4. CASE Settle(m, Failure)
  <2>1. Failure \in Answers /\ Failure.is = "error" /\ ~Failure.proof
    BY ConstantTypes DEF Failure, Answer, NoAnswer
  <2>2. Settles(m, Failure, j, rs)
    BY <1>2, <1>3, <1>4, <2>1 DEF Settle, Settles
  <2> QED
    BY <1>2, <2>1, <2>2 DEF Moves
<1>5. CASE ~Settle(m, Failure)
  <2>1. Queues(m, j, rs)
    BY <1>2, <1>3, <1>5 DEF ArriveWake, Queues
  <2> QED
    BY <1>2, <2>1 DEF Moves
<1> QED
  BY <1>4, <1>5

\* An ensure or a wake is refused, waits for capacity, was done before, or begins.
LEMMA EnsureMoves ==
  ASSUME TypeOK, NEW m \in inbox, TakeEnsure(m)
  PROVE  Moves
<1> DEFINE j == Prepared(m.op)
           rs == PreparedRec(m.op)
           run == op[m.op].run
           kind == op[m.op].kind
           done == rs[m.op].status = "completed"
           refused == \/ kind = "ensure" /\ StartupBlocked(j, rs, run)
                      \/ done /\ rs[m.op].fence # m.fence
                      \/ ~done /\ j.there /\ ~Allowed(j, m, FALSE)
                      \/ StaleReservation(m)
<1>1. CtrlTypes /\ m \in Requests /\ m.op \in Ops /\ run \in Run \cup {NoRun} /\ kind \in {"ensure", "wake"}
  BY Types DEF WireTypes, ApiTypes, Requests, RowSet, TakeEnsure
<1>2. /\ Read(j, rs) /\ j \in JournalSet /\ rs \in RecordSets
      /\ rs[m.op].status = "completed" <=> rec[m.op].status = "completed"
      /\ rs[m.op].fence = rec[m.op].fence
  BY <1>1, PreparedIsRead
<1>3. busy = Idle /\ \/ refused /\ journal' = j /\ rec' = rs /\ Settle(m, Rejected)
                     \/ journal' = j /\ rec' = rs /\ Settle(m, Answer("wait", "none"))
                     \/ /\ ~refused
                        /\ IF done
                           THEN /\ journal' = j /\ rec' = rs
                                /\ Settle(m, Answer("ok", IF kind = "ensure" THEN "ready" ELSE j.bundle))
                           ELSE /\ journal' = Begun(j, m) /\ rec' = BegunRec(rs, m, kind, run)
                                /\ Serve(m, j, run)
  BY DEF TakeEnsure
<1> HIDE DEF j, rs
<1>4. \A b \in Bundles : /\ Answer("ok", b) \in Answers /\ Answer("wait", b) \in Answers /\ Rejected \in Answers
                         /\ ~Answer("ok", b).proof /\ ~Answer("wait", b).proof /\ ~Rejected.proof
                         /\ Answer("ok", b).is = "ok" /\ Answer("wait", b).is = "wait" /\ Rejected.is = "rejected"
  BY ConstantTypes DEF Rejected, Answer, NoAnswer
<1>5. "none" \in Bundles /\ "ready" \in Bundles /\ j.bundle \in Bundles
  BY <1>2 DEF Bundles, JournalSet
<1>6. CASE journal' = j /\ rec' = rs /\ Settle(m, Rejected)
  <2>1. Settles(m, Rejected, j, rs)
    BY <1>1, <1>2, <1>4, <1>5, <1>6 DEF Settle, Settles
  <2> QED
    BY <1>2, <1>4, <1>5, <2>1 DEF Moves
<1>7. CASE journal' = j /\ rec' = rs /\ Settle(m, Answer("wait", "none"))
  <2>1. Settles(m, Answer("wait", "none"), j, rs)
    BY <1>1, <1>2, <1>4, <1>5, <1>7 DEF Settle, Settles
  <2> QED
    BY <1>2, <1>4, <1>5, <2>1 DEF Moves
<1>8. CASE ~refused /\ done /\ journal' = j /\ rec' = rs
           /\ Settle(m, Answer("ok", IF kind = "ensure" THEN "ready" ELSE j.bundle))
  <2>1. PICK b \in Bundles : b = IF kind = "ensure" THEN "ready" ELSE j.bundle
    BY <1>5
  <2>2. Settle(m, Answer("ok", b))
    BY <1>8, <2>1 DEF Settle, Reply
  <2>3. Settles(m, Answer("ok", b), j, rs)
    BY <1>1, <1>2, <1>4, <1>8, <2>2 DEF Settle, Settles
  <2> QED
    BY <1>2, <1>4, <2>3 DEF Moves
<1>9. CASE /\ ~refused /\ ~done /\ journal' = Begun(j, m)
           /\ rec' = BegunRec(rs, m, kind, run) /\ Serve(m, j, run)
  <2>1. BegunFor(m, j, rs, run) /\ RecKind(kind) = kind
    BY <1>1 DEF BegunFor, RecKind
  <2>2. Begins(m, j, rs, run)
    BY <1>1, <1>2, <1>3, <1>9, <2>1 DEF Begins, Allowed
  <2> QED
    BY <1>1, <1>2, <2>2 DEF Moves
<1> QED
  BY <1>3, <1>6, <1>7, <1>8, <1>9

\* A release is refused, was done before, or begins for the run of the journal.
LEMMA ReleaseMoves ==
  ASSUME TypeOK, NEW m \in inbox, TakeRelease(m)
  PROVE  Moves
<1> DEFINE j == Prepared(NoOp)
           rs == PreparedRec(NoOp)
           run == IF journal.active # NoRun THEN journal.active ELSE rec[m.op].run
<1>1. CtrlTypes /\ m \in Requests /\ m.op \in Ops /\ op[m.op].kind = "release" /\ busy = Idle
  BY Types DEF WireTypes, Requests, TakeRelease
<1>2. /\ Read(j, rs) /\ j \in JournalSet /\ rs \in RecordSets /\ Read(journal, rec)
      /\ journal \in JournalSet /\ rec \in RecordSets /\ j.active = journal.active /\ j.there = journal.there
  BY <1>1, PreparedIsRead DEF CtrlTypes, JournalSet, RecordSets, Read
<1>3. \/ Settle(m, Rejected) /\ UNCHANGED <<journal, rec>> /\ (~journal.there \/ run = NoRun)
      \/ SameEnvelope(m) /\ journal' = j /\ rec' = rs /\ Settle(m, Answer("ok", j.bundle))
      \/ /\ journal' = j /\ rec' = rs /\ Settle(m, Rejected)
         /\ ~SameEnvelope(m) /\ (~Allowed(j, m, FALSE) \/ j.active # run)
      \/ /\ ~SameEnvelope(m) /\ Allowed(j, m, FALSE) /\ j.active = run /\ run # NoRun /\ journal.there
         /\ journal' = Begun(j, m) /\ rec' = BegunRec(rs, m, "release", run) /\ Serve(m, j, run)
  BY DEF TakeRelease
<1> HIDE DEF j, rs
<1>4. j.bundle \in Bundles
  BY <1>2 DEF JournalSet
<1>5. /\ Answer("ok", j.bundle) \in Answers /\ Rejected \in Answers
      /\ ~Answer("ok", j.bundle).proof /\ ~Rejected.proof
      /\ Answer("ok", j.bundle).is = "ok" /\ Rejected.is = "rejected"
  BY <1>4, ConstantTypes DEF Rejected, Answer, NoAnswer
<1>6. CASE Settle(m, Rejected) /\ UNCHANGED <<journal, rec>> /\ (~journal.there \/ run = NoRun)
  <2>0. Refuses(m, journal)
    BY <1>6 DEF Refuses
  <2>1. Settles(m, Rejected, journal, rec)
    BY <1>1, <1>2, <1>5, <1>6, <2>0 DEF Settle, Settles
  <2>2. \E j1 \in JournalSet, rs1 \in RecordSets : Settles(m, Rejected, j1, rs1)
    <3>1. PICK j1 \in JournalSet, rs1 \in RecordSets : j1 = journal /\ rs1 = rec
      BY <1>2
    <3>2. Settles(m, Rejected, j1, rs1)
      BY <2>1, <3>1 DEF Settles, Read
    <3> QED BY <3>2
  <2> QED
    BY <1>5, <2>2 DEF Moves
<1>7. CASE SameEnvelope(m) /\ journal' = j /\ rec' = rs /\ Settle(m, Answer("ok", j.bundle))
  <2>1. PICK a \in Answers : a = Answer("ok", j.bundle)
    BY <1>5
  <2>2. Settles(m, a, j, rs)
    BY <1>1, <1>2, <1>5, <1>7, <2>1 DEF Settle, Settles, SameEnvelope, Reply
  <2> QED
    BY <1>2, <2>2 DEF Moves
<1>8. CASE /\ journal' = j /\ rec' = rs /\ Settle(m, Rejected)
           /\ ~SameEnvelope(m) /\ (~Allowed(j, m, FALSE) \/ j.active # run)
  <2>0. Refuses(m, j)
    BY <1>2, <1>8 DEF Refuses
  <2>1. Settles(m, Rejected, j, rs)
    BY <1>1, <1>2, <1>5, <1>8, <2>0 DEF Settle, Settles
  <2> QED
    BY <1>2, <1>5, <2>1 DEF Moves
<1>9. CASE /\ ~SameEnvelope(m) /\ Allowed(j, m, FALSE) /\ j.active = run /\ run # NoRun /\ journal.there
           /\ journal' = Begun(j, m) /\ rec' = BegunRec(rs, m, "release", run) /\ Serve(m, j, run)
  <2>1. PICK r \in Run \cup {NoRun} : r = run
    BY <1>1, <1>2 DEF CtrlTypes, JournalSet, RecordSet
  <2>2. BegunFor(m, j, rs, r) /\ RecKind(op[m.op].kind) = "release"
    BY <1>1, <1>2, <1>9, <2>1 DEF BegunFor, RecKind
  <2>3. Begins(m, j, rs, r)
    BY <1>1, <1>2, <1>9, <2>1, <2>2 DEF Begins, Allowed, SameEnvelope, BegunRec, Serve
  <2> QED
    BY <1>2, <2>3 DEF Moves
<1> QED
  BY <1>3, <1>6, <1>7, <1>8, <1>9

\* An observation finds no state, is refused, or begins.
LEMMA ObserveMoves ==
  ASSUME TypeOK, NEW m \in inbox, TakeObserve(m)
  PROVE  Moves
<1> DEFINE j == Prepared(NoOp)
           rs == PreparedRec(NoOp)
           run == RunToReconcile(j, rs)
<1>1. CtrlTypes /\ m \in Requests /\ m.op \in Ops /\ op[m.op].kind \in {"status", "reconcile"} /\ busy = Idle
  BY Types DEF WireTypes, Requests, TakeObserve
<1>2. /\ Read(j, rs) /\ j \in JournalSet /\ rs \in RecordSets /\ Read(journal, rec)
      /\ journal \in JournalSet /\ rec \in RecordSets
  BY <1>1, PreparedIsRead DEF CtrlTypes, JournalSet, RecordSets, Read
<1>3. \/ Settle(m, Answer("ok", "retained")) /\ UNCHANGED <<journal, rec>> /\ ~journal.there
      \/ journal' = j /\ rec' = rs /\ Settle(m, Rejected)
      \/ /\ Allowed(j, m, TRUE)
         /\ journal' = Begun(j, m) /\ rec' = BegunRec(rs, m, "reconcile", run) /\ Serve(m, j, run)
  BY DEF TakeObserve
<1> HIDE DEF j, rs
<1>4. /\ Answer("ok", "retained") \in Answers /\ Rejected \in Answers
      /\ ~Answer("ok", "retained").proof /\ ~Rejected.proof
      /\ Answer("ok", "retained").is = "ok" /\ Rejected.is = "rejected"
      /\ Answer("ok", "retained").state = "retained"
  BY ConstantTypes DEF Rejected, Answer, NoAnswer, Bundles
<1>5. CASE Settle(m, Answer("ok", "retained")) /\ UNCHANGED <<journal, rec>> /\ ~journal.there
  <2>1. PICK j1 \in JournalSet, rs1 \in RecordSets : j1 = journal /\ rs1 = rec
    BY <1>2
  <2>2. Settles(m, Answer("ok", "retained"), j1, rs1)
    BY <1>1, <1>2, <1>4, <1>5, <2>1 DEF Settle, Settles, Read
  <2> QED
    BY <1>4, <2>2 DEF Moves
<1>6. CASE journal' = j /\ rec' = rs /\ Settle(m, Rejected)
  <2>1. Settles(m, Rejected, j, rs)
    BY <1>1, <1>2, <1>4, <1>6 DEF Settle, Settles
  <2> QED
    BY <1>2, <1>4, <2>1 DEF Moves
<1>7. CASE /\ Allowed(j, m, TRUE)
           /\ journal' = Begun(j, m) /\ rec' = BegunRec(rs, m, "reconcile", run) /\ Serve(m, j, run)
  <2>1. PICK r \in Run \cup {NoRun} : r = run
    BY <1>2 DEF RunToReconcile, JournalSet, RecordSets, JournalSet, RecordSet
  <2>2. BegunFor(m, j, rs, r) /\ RecKind(op[m.op].kind) = "reconcile"
    BY <1>1, <2>1 DEF BegunFor, RecKind
  <2>3. Begins(m, j, rs, r)
    BY <1>1, <1>2, <1>7, <2>1, <2>2 DEF Begins, Allowed, BegunRec, Serve
  <2> QED
    BY <1>2, <2>3 DEF Moves
<1> QED
  BY <1>3, <1>5, <1>6, <1>7

\* A record keeps its type when its status changes.
LEMMA StatusType ==
  ASSUME NEW rs \in [Ops -> RecordSet], NEW x,
         NEW status \in {"none", "running", "completed", "indeterminate"}
  PROVE  [rs EXCEPT ![x].status = status] \in [Ops -> RecordSet]
<1>1. ASSUME x \in Ops  PROVE [rs[x] EXCEPT !.status = status] \in RecordSet
  BY <1>1 DEF RecordSet
<1> QED
  BY <1>1

\* What is served ends, done or failed.
LEMMA FinishMoves ==
  ASSUME TypeOK, Finish \/ FailEnsure \/ FailObserve
  PROVE  Moves /\ CtrlTypes'
<1>1. CtrlTypes /\ busy.run \in Run \cup {NoRun}
  BY Types DEF CtrlTypes, BusySet
<1>2. /\ Answer("ok", "ready") \in Answers /\ Answer("ok", "degraded") \in Answers /\ Failure \in Answers
      /\ ~Answer("ok", "ready").proof /\ ~Answer("ok", "degraded").proof /\ ~Failure.proof
      /\ Rejected \in Answers /\ ~Rejected.proof /\ Rejected.is = "rejected"
      /\ Answer("ok", "ready").is = "ok" /\ Answer("ok", "degraded").is = "ok" /\ Failure.is = "error"
  BY ConstantTypes DEF Failure, Rejected, Answer, NoAnswer, Bundles
<1>3. CASE FinishEnsure
  <2>1. Ends("completed", Answer("ok", "ready"))
    BY <1>1, <1>2, <1>3 DEF FinishEnsure, Ends, CtrlTypes, JournalSet, RecordSet
  <2>2. CtrlTypes'
    <3>1. journal' \in JournalSet
      BY <1>1, <1>3 DEF FinishEnsure, CtrlTypes, JournalSet, BusySet, Bundles
    <3>2. rec' \in [Ops -> RecordSet]
      <4>1. rec' = [rec EXCEPT ![busy.op].status = "completed"] /\ rec \in [Ops -> RecordSet]
        BY <1>1, <1>3 DEF FinishEnsure, CtrlTypes
      <4> QED
        BY <4>1, StatusType
    <3>3. reserved' \in ReservedSet
      BY <1>1, <1>3 DEF FinishEnsure, CtrlTypes, ReservedSet
    <3>4. compute' \in {"none", "partial", "ready"}
      BY <1>1, <1>3 DEF FinishEnsure, CtrlTypes
    <3> QED
      BY <1>3, <3>1, <3>2, <3>3, <3>4, ConstantTypes DEF FinishEnsure, CtrlTypes
  <2> QED
    BY <1>2, <2>1, <2>2 DEF Moves
<1>4. CASE FailEnsure
  <2>0. PICK a \in {Failure, Rejected} : Reply(busy, a)
    BY <1>4 DEF FailEnsure, Breaks
  <2>1. Ends("indeterminate", a)
    BY <1>1, <1>2, <1>4, <2>0 DEF FailEnsure, Ends, CtrlTypes, JournalSet, RecordSet
  <2>2. CtrlTypes'
    <3>1. journal' \in JournalSet
      BY <1>1, <1>4 DEF FailEnsure, CtrlTypes, JournalSet, BusySet, Bundles
    <3>2. rec' \in [Ops -> RecordSet]
      <4>1. rec' = [rec EXCEPT ![busy.op].status = "indeterminate"] /\ rec \in [Ops -> RecordSet]
        BY <1>1, <1>4 DEF FailEnsure, CtrlTypes
      <4> QED
        BY <4>1, StatusType
    <3>3. reserved' \in ReservedSet
      BY <1>1, <1>4 DEF FailEnsure, CtrlTypes, ReservedSet
    <3>4. compute' \in {"none", "partial", "ready"}
      BY <1>1, <1>4 DEF FailEnsure, CtrlTypes
    <3> QED
      BY <1>4, <3>1, <3>2, <3>3, <3>4, ConstantTypes DEF FailEnsure, CtrlTypes
  <2> QED
    BY <1>2, <2>1, <2>2 DEF Moves
<1>5. CASE FinishRelease
  <2>1. Ends("completed", Answer("ok", "ready"))
    BY <1>1, <1>2, <1>5 DEF FinishRelease, Ends, CtrlTypes, JournalSet, RecordSet
  <2>2. CtrlTypes'
    <3>1. journal' \in JournalSet
      BY <1>1, <1>5 DEF FinishRelease, CtrlTypes, JournalSet, BusySet, Bundles
    <3>2. rec' \in [Ops -> RecordSet]
      <4>1. rec' = [rec EXCEPT ![busy.op].status = "completed"] /\ rec \in [Ops -> RecordSet]
        BY <1>1, <1>5 DEF FinishRelease, CtrlTypes
      <4> QED
        BY <4>1, StatusType
    <3>3. reserved' \in ReservedSet
      BY <1>1, <1>5 DEF FinishRelease, CtrlTypes, ReservedSet
    <3>4. compute' \in {"none", "partial", "ready"}
      BY <1>1, <1>5 DEF FinishRelease, CtrlTypes
    <3> QED
      BY <1>5, <3>1, <3>2, <3>3, <3>4, ConstantTypes DEF FinishRelease, CtrlTypes
  <2> QED
    BY <1>2, <2>1, <2>2 DEF Moves
<1>6. CASE FailObserve
  <2>1. PICK st \in {"running", "completed", "indeterminate", "none"} :
           st = IF busy.op \in Ops THEN rec[busy.op].status ELSE "completed"
    BY <1>1 DEF CtrlTypes, RecordSet
  <2>0. PICK a \in {Failure, Rejected} : Reply(busy, a)
    BY <1>6 DEF FailObserve, Breaks
  <2>2. Ends(st, a)
    BY <1>1, <1>2, <1>6, <2>0, <2>1 DEF FailObserve, Ends, CtrlTypes, JournalSet, RecordSet
  <2>3. CtrlTypes'
    BY <1>1, <1>6, ConstantTypes DEF FailObserve, CtrlTypes
  <2> QED
    BY <1>2, <2>2, <2>3 DEF Moves
<1>7. CASE FinishObserve
  <2> DEFINE degraded == busy.was = "ready" /\ Seen # "ready"
             renewed == ~degraded /\ Seen = "ready" /\ busy.run # NoRun
             quiet == /\ journal'.active = NoRun
                      /\ \A x \in Ops : rec'[x].status \in {"none", "completed"}
             answer == IF degraded THEN Answer("ok", "degraded") ELSE Observed(Seen, journal'.active, quiet)
             status == IF degraded THEN "indeterminate" ELSE "completed"
  <2>1. /\ busy # Idle /\ rec[busy.op].kind = "reconcile"
        /\ rec' = [rec EXCEPT ![busy.op].status = status]
        /\ journal' = [journal EXCEPT
             !.phase = "completed", !.bundle = IF degraded THEN "degraded" ELSE Seen,
             !.active = IF renewed THEN busy.run ELSE @,
             !.activeFence = IF renewed THEN busy.fence ELSE @]
        /\ reserved' = IF Material THEN Bound(busy, TRUE) ELSE Unreserved
        /\ Reply(busy, answer) /\ busy' = Idle
        /\ UNCHANGED <<apiVars, inbox, compute, faults>>
    BY <1>7 DEF FinishObserve
  <2>2. Seen \in Bundles
    BY DEF Seen, Bundles
  <2>3. CtrlTypes'
    <3>1. journal' \in JournalSet
      <4>1. PICK b \in Bundles, r \in {journal.active, busy.run}, f \in {journal.activeFence, busy.fence} :
              journal' = [journal EXCEPT !.phase = "completed", !.bundle = b, !.active = r, !.activeFence = f]
        <5>1. (IF degraded THEN "degraded" ELSE Seen) \in Bundles
          BY <2>2 DEF Bundles
        <5> QED
          BY <1>1, <2>1, <5>1 DEF CtrlTypes, JournalSet
      <4>2. r \in Run \cup {NoRun} /\ f \in Nat
        BY <1>1, <4>1 DEF CtrlTypes, JournalSet, BusySet
      <4> QED
        BY <1>1, <4>1, <4>2 DEF CtrlTypes, JournalSet
    <3>2. rec' \in [Ops -> RecordSet]
      <4>1. PICK st \in {"completed", "indeterminate"} : rec' = [rec EXCEPT ![busy.op].status = st]
        BY <2>1
      <4>2. rec \in [Ops -> RecordSet]
        BY <1>1 DEF CtrlTypes
      <4> QED
        BY <4>1, <4>2, StatusType
    <3>3. reserved' \in ReservedSet
      BY <1>1, <2>1, ConstantTypes DEF CtrlTypes, BusySet, ReservedSet, Bound
    <3> QED
      BY <1>1, <2>1, <3>1, <3>2, <3>3, ConstantTypes DEF CtrlTypes
  <2>4. journal'.active \in Run \cup {NoRun}
    BY <2>3 DEF CtrlTypes, JournalSet
  <2>5. /\ answer \in Answers /\ answer.is = "ok"
        /\ answer.proof => answer.active = journal'.active /\ (answer.quiet <=> quiet)
    BY <1>2, <2>2, <2>4, ConstantTypes DEF Observed
  <2>6. PICK a \in Answers : a = answer
    BY <2>5
  <2>7. PICK st \in {"completed", "indeterminate"} : st = status
    OBVIOUS
  <2>8. /\ journal'.there = journal.there /\ journal'.fence = journal.fence /\ journal'.last = journal.last
        /\ journal'.active \in {journal.active, busy.run} /\ (busy.run = NoRun => journal'.active = journal.active)
    BY <1>1, <2>1 DEF CtrlTypes, JournalSet
  <2> HIDE DEF answer, status, quiet
  <2>9. Reply(busy, a)
    BY <2>1, <2>6 DEF Reply
  <2>10. a.is = "ok" /\ (a.proof => a.active = journal'.active /\ (a.quiet => quiet))
    BY <2>5, <2>6
  <2>11. a.proof => a.active = journal'.active /\ (a.quiet => \A x \in Ops : rec'[x].status \in {"none", "completed"})
    BY <2>10 DEF quiet
  <2>12. Ends(st, a)
    BY <2>1, <2>7, <2>8, <2>9, <2>10, <2>11 DEF Ends
  <2> QED
    BY <2>3, <2>12 DEF Moves
<1> QED
  BY <1>3, <1>4, <1>5, <1>6, <1>7 DEF Finish

\* Every move keeps the types of what is on the wire, and every move but an end those
\* of the journal.
LEMMA MovesTyped ==
  ASSUME TypeOK, Moves
  PROVE  /\ ApiTypes' /\ WireTypes'
         /\ \/ \E a \in Answers, status \in {"running", "completed", "indeterminate", "none"} : Ends(status, a)
            \/ journal' \in JournalSet /\ rec' \in [Ops -> RecordSet] /\ busy' \in BusySet
<1> USE Types
<1>0. ApiTypes /\ WireTypes /\ CtrlTypes
  OBVIOUS
<1>1. ASSUME NEW m \in inbox, NEW j \in JournalSet, NEW rs \in RecordSets, NEW a \in Answers, Settles(m, a, j, rs)
      PROVE  WireTypes' /\ journal' \in JournalSet /\ rec' \in [Ops -> RecordSet] /\ busy' \in BusySet /\ ApiTypes'
  <2>1. callers' \subseteq CallerSet
    BY <1>0, <1>1, ReplyType DEF Settles
  <2> QED
    BY <1>0, <1>1, <2>1 DEF Settles, WireTypes, CtrlTypes, ApiTypes, apiVars, JournalSet, RecordSets
<1>2. ASSUME NEW m \in inbox, NEW j \in JournalSet, NEW rs \in RecordSets, Queues(m, j, rs)
      PROVE  WireTypes' /\ journal' \in JournalSet /\ rec' \in [Ops -> RecordSet] /\ busy' \in BusySet /\ ApiTypes'
  <2>1. [m EXCEPT !.ready = TRUE] \in Requests
    BY <1>0 DEF WireTypes, Requests
  <2> QED
    BY <1>0, <1>2, <2>1 DEF Queues, WireTypes, CtrlTypes, ApiTypes, apiVars, JournalSet, RecordSets
<1>3. ASSUME NEW m \in inbox, NEW j \in JournalSet, NEW rs \in RecordSets, NEW run \in Run \cup {NoRun},
             Begins(m, j, rs, run)
      PROVE  WireTypes' /\ journal' \in JournalSet /\ rec' \in [Ops -> RecordSet] /\ busy' \in BusySet /\ ApiTypes'
  <2>1. m \in Requests /\ op[m.op].kind \in Kinds \cup {"none"}
    BY <1>0 DEF WireTypes, Requests, ApiTypes, RowSet
  <2>2. RecKind(op[m.op].kind) \in Kinds \cup {"none"}
    BY <2>1 DEF RecKind, Kinds
  <2>3. Begun(j, m) \in JournalSet
    BY <2>1 DEF Begun, JournalSet, Requests, Bundles
  <2>4. rec' \in [Ops -> RecordSet]
    BY <1>3, <2>1, <2>2 DEF Begins, BegunRec, RecordSets, RecordSet, Requests
  <2>5. busy' \in BusySet
    BY <1>3, <2>1 DEF Begins, Serve, JournalSet, Requests, BusySet
  <2> QED
    BY <1>0, <1>3, <2>3, <2>4, <2>5 DEF Begins, Serve, WireTypes, ApiTypes, apiVars
<1>4. ASSUME NEW a \in Answers, NEW status, Ends(status, a)
      PROVE  WireTypes' /\ ApiTypes'
  <2>1. callers' \subseteq CallerSet
    BY <1>0, <1>4 DEF Ends, Reply, WireTypes, CallerSet
  <2> QED
    BY <1>0, <1>4, <2>1 DEF Ends, WireTypes, ApiTypes, apiVars
<1>5. ASSUME Crashes \/ Rests
      PROVE  WireTypes' /\ journal' \in JournalSet /\ rec' \in [Ops -> RecordSet] /\ busy' \in BusySet /\ ApiTypes'
  BY <1>0, <1>5, ConstantTypes DEF Crashes, Rests, WireTypes, CtrlTypes, ApiTypes, apiVars
<1> QED
  BY <1>1, <1>2, <1>3, <1>4, <1>5 DEF Moves

\* Every action of the controller is such a move, and keeps the types.
LEMMA ControllerMoves ==
  ASSUME TypeOK,
         \/ \E m \in inbox : Serving(m)
         \/ Finish
         \/ Host
  PROVE  Moves /\ TypeOK'
<1> USE Types
<1>0. ApiTypes /\ WireTypes /\ CtrlTypes /\ faults \in 0..MaxFaults
  OBVIOUS
<1>1. ASSUME NEW m \in inbox, Serving(m)
      PROVE  Moves /\ TypeOK'
  <2>1. Moves
    BY <1>1, ArriveMoves, EnsureMoves, ReleaseMoves, ObserveMoves DEF Serving
  <2>2. ~\E a \in Answers, status \in {"running", "completed", "indeterminate", "none"} : Ends(status, a)
    <3>1. CASE ArriveWake(m)
      <4>1. inbox' # inbox
        <5>1. CASE inbox' = inbox \ {m}
          BY <5>1
        <5>2. CASE inbox' = (inbox \ {m}) \cup {[m EXCEPT !.ready = TRUE]} /\ ~m.ready
          <6>1. [m EXCEPT !.ready = TRUE] # m
            BY <1>0, <5>2 DEF WireTypes, Requests
          <6> QED
            BY <5>2, <6>1
        <5> QED
          BY <3>1, <5>1, <5>2 DEF ArriveWake, Settle
      <4> QED
        BY <4>1 DEF Ends
    <3>2. CASE TakeEnsure(m) \/ TakeRelease(m) \/ TakeObserve(m)
      BY <3>2 DEF TakeEnsure, TakeRelease, TakeObserve, Ends
    <3> QED
      BY <1>1, <3>1, <3>2 DEF Serving
  <2>3. m.op \in Ops \cup {NoOp} /\ m.fence \in Nat
    BY <1>0 DEF WireTypes, Requests
  <2>4. reserved' \in ReservedSet /\ faults' \in 0..MaxFaults /\ compute' = compute
    <3>1. CASE ArriveWake(m)
      BY <1>0, <3>1 DEF ArriveWake, Settle, CtrlTypes
    <3>2. CASE TakeEnsure(m)
      <4>1. compute' = compute /\ (faults' = faults \/ Fault("capacity"))
        BY <3>2 DEF TakeEnsure, Settle, Serve
      <4>2. reserved' = reserved \/ \E b \in BOOLEAN : reserved' = Bound(m, b)
        <5>1. (RecoveredCapacity(Prepared(m.op), PreparedRec(m.op), op[m.op].run) \/ compute = "ready") \in BOOLEAN
          OBVIOUS
        <5> QED
          BY <3>2, <5>1 DEF TakeEnsure
      <4> QED
        BY <1>0, <2>3, <4>1, <4>2, FaultType DEF CtrlTypes, Bound, ReservedSet
    <3>3. CASE TakeRelease(m)
      BY <1>0, <3>3 DEF TakeRelease, Settle, Serve, CtrlTypes
    <3>4. CASE TakeObserve(m)
      <4>1. compute' = compute /\ faults' = faults
        BY <3>4 DEF TakeObserve, Settle, Serve
      <4>2. reserved' = reserved \/ \E b \in BOOLEAN : reserved' = Bound(m, b)
        BY <1>0, <3>4 DEF TakeObserve, CtrlTypes, ReservedSet
      <4> QED
        BY <1>0, <2>3, <4>1, <4>2 DEF CtrlTypes, Bound, ReservedSet
    <3> QED
      BY <1>1, <3>1, <3>2, <3>3, <3>4 DEF Serving
  <2> QED
    BY <1>0, <2>1, <2>2, <2>4, MovesTyped DEF CtrlTypes
<1>2. ASSUME Finish \/ FailEnsure \/ FailObserve
      PROVE  Moves /\ TypeOK'
  <2>1. faults' \in 0..MaxFaults
    BY <1>0, <1>2, FaultType DEF Finish, FinishEnsure, FinishRelease, FinishObserve, FailEnsure, FailObserve, Breaks
  <2> QED
    BY <1>0, <1>2, <2>1, FinishMoves, MovesTyped
<1>3. ASSUME ControllerCrash \/ ContainersDie \/ ReleaseIdleReservation
      PROVE  Moves /\ TypeOK'
  <2>1. Crashes \/ Rests
    BY <1>3 DEF ControllerCrash, ContainersDie, ReleaseIdleReservation, Crashes, Rests, apiVars
  <2>2. faults' \in 0..MaxFaults
    BY <1>0, <1>3, FaultType DEF ControllerCrash, ContainersDie, ReleaseIdleReservation
  <2>3. /\ journal' = journal /\ rec' = rec /\ busy' \in {busy, Idle}
        /\ reserved' \in {reserved, Unreserved} /\ compute' \in {compute, "none"}
    BY <1>3 DEF ControllerCrash, ContainersDie, ReleaseIdleReservation
  <2>4. CtrlTypes'
    BY <1>0, <2>3, ConstantTypes DEF CtrlTypes
  <2>5. Moves
    BY <2>1 DEF Moves
  <2> QED
    BY <1>0, <2>2, <2>4, <2>5, MovesTyped
<1> QED
  BY <1>1, <1>2, <1>3 DEF Host

\* Typing is inductive.
THEOREM TypeCorrect == Spec => []TypeOK
<1>1. Init => TypeOK
  <2> SUFFICES ASSUME Init PROVE TypeOK
    OBVIOUS
  <2>1. ApiTypes
    BY ConstantTypes DEF Init, ApiTypes
  <2>2. CtrlTypes
    BY ConstantTypes DEF Init, CtrlTypes, JournalSet, Bundles
  <2> QED
    BY <2>1, <2>2, Types, OperationBounds DEF Init, WireTypes
<1>2. TypeOK /\ [Next]_vars => TypeOK'
  <2> SUFFICES ASSUME TypeOK, [Next]_vars PROVE TypeOK'
    OBVIOUS
  <2>1. CASE Next
    BY <2>1, ApiTyped, ControllerMoves DEF Next
  <2>2. CASE UNCHANGED vars
    BY <2>2, Types DEF vars, apiVars, ctrlVars, ApiTypes, WireTypes, CtrlTypes
  <2> QED
    BY <2>1, <2>2
<1> QED
  BY <1>1, <1>2, PTL DEF Spec

-----------------------------------------------------------------------------
\* The invariant.

Exists(o) == op[o].kind # "none"
Begun_(o) == rec[o].status # "none"
NoMessage(o) == \A m \in inbox : m.op # o
Looks == {"status", "reconcile"}
Once  == {"ensure", "status", "reconcile"}
Waits == {"pending", "waiting_capacity"}

\* A row has a fence once it was claimed, none above the workspace's; only a wake is
\* for no run.
Row(o) ==
  /\ op[o].kind = "none" <=> op[o].status = "none"
  /\ op[o].kind \in {"none", "wake"} <=> op[o].run = NoRun
  /\ op[o].fence <= wsFence
  /\ op[o].status \in {"none", "pending"} => op[o].fence = 0 /\ op[o].try = 0
  /\ op[o].status \in {"waiting_capacity", "running", "completed", "indeterminate"} => op[o].fence > 0
  /\ op[o].status = "waiting_capacity" => op[o].kind \in {"ensure", "wake"}
  /\ op[o].status = "cancelled" => op[o].kind = "ensure"

OneActive == \A x, y \in Ops : op[x].status \in Active /\ op[y].status \in Active => x = y

\* Fences follow the order of the reservations, although a wake takes a second one: an
\* earlier operation is active again only by a replay.
Ordered(x, y) ==
  x < y /\ Exists(y) =>
    /\ Exists(x)
    /\ op[y].fence > 0 => op[x].fence < op[y].fence
    /\ op[x].status \in Active =>
         \/ op[x].kind = "wake" /\ op[y].fence = 0
         \/ op[x].kind = "release" /\ op[x].status = "running"

Queued == (\A o \in Ops : Row(o)) /\ OneActive /\ \A x, y \in Ops : Ordered(x, y)

\* An observation that found no lease and nothing open stays true until something else
\* is begun.
Calm(o) ==
  /\ Begun_(o) /\ rec[o].fence = op[o].fence /\ busy.op # o
  /\ journal.last = o => journal.active = NoRun /\ \A x \in Ops : rec[x].status \in {"none", "completed"}

TrueAnswer(o, a) ==
  IF op[o].kind \in Looks THEN a.proof /\ a.quiet /\ a.active = NoRun => Calm(o)
  ELSE rec[o].status = "completed" /\ rec[o].fence = op[o].fence

\* Only a release is awaited twice; an ensure or an observation that has its answer is
\* nowhere in the controller any more, and had no effect if it was not accepted.
Awaits(c) ==
  /\ c.fence = op[c.op].fence /\ c.try <= op[c.op].try
  /\ op[c.op].status \notin {"none", "pending", "waiting_capacity"}
  /\ op[c.op].kind # "release" => \A d \in callers : d.op = c.op => d = c
  /\ op[c.op].kind = "wake" => op[c.op].status = "running"
  /\ op[c.op].kind \in Once => op[c.op].status \in {"running", "indeterminate"}
  /\ c.ans.is = "wait" => op[c.op].kind \in {"ensure", "wake"}
  /\ op[c.op].kind \in Once /\ c.ans.is # "none" => NoMessage(c.op) /\ busy.op # c.op
  /\ op[c.op].kind \in Once /\ c.ans.is = "wait" => ~Begun_(c.op)
  /\ c.ans.is = "ok" => TrueAnswer(c.op, c.ans)

\* An ensure or an observation is on its way once, before it is begun.
OnItsWay(m) ==
  /\ m.fence > 0 /\ m.fence <= op[m.op].fence /\ m.try <= op[m.op].try
  /\ op[m.op].status \notin {"none", "pending"}
  /\ op[m.op].kind # "wake" => m.fence = op[m.op].fence
  /\ op[m.op].kind \in Once => /\ ~Begun_(m.op) /\ m.try = op[m.op].try /\ m.ready
                               /\ op[m.op].status \in {"running", "indeterminate"}
  /\ \A c \in callers : c.op = m.op /\ c.try = m.try => c.fence = m.fence

\* What the controller has begun it records at the fence of the row, the last at the
\* fence of the journal.
Recorded(o) ==
  /\ ~Begun_(o) => rec[o] = NoRecord
  /\ Begun_(o) =>
       /\ Exists(o) /\ rec[o].kind = RecKind(op[o].kind)
       /\ rec[o].fence > 0 /\ rec[o].fence <= op[o].fence
       /\ op[o].kind # "wake" => rec[o].fence = op[o].fence
       /\ op[o].kind \in Once => op[o].status \in {"running", "indeterminate", "completed", "failed"}
       /\ op[o].kind \in {"ensure", "wake"} => rec[o].run = op[o].run
       /\ rec[o].fence <= journal.fence /\ (rec[o].fence = journal.fence => journal.last = o)

JournalLast ==
  IF journal.there
  THEN journal.last \in Ops /\ Begun_(journal.last) /\ rec[journal.last].fence = journal.fence
  ELSE journal.fence = 0 /\ journal.last = NoOp /\ journal.active = NoRun /\ \A o \in Ops : ~Begun_(o)

Served ==
  IF busy.op = NoOp THEN busy = Idle
  ELSE /\ journal.there /\ journal.last = busy.op /\ journal.fence = busy.fence
       /\ rec[busy.op].status \in {"running", "indeterminate"}
       /\ rec[busy.op].fence = busy.fence /\ rec[busy.op].run = busy.run
       /\ busy.try <= op[busy.op].try
       /\ op[busy.op].kind \in Once => op[busy.op].status \in {"running", "indeterminate"} /\ NoMessage(busy.op)
       /\ \A c \in callers : c.op = busy.op /\ c.try = busy.try => c.fence = busy.fence

Receipts == \A o \in Ops : op[o].status = "completed" => TrueAnswer(o, op[o].ans)

\* The inductive invariant.
IInv == /\ TypeOK /\ Queued
        /\ \A c \in callers : Awaits(c)
        /\ \A m \in inbox : OnItsWay(m)
        /\ \A o \in Ops : Recorded(o)
        /\ JournalLast /\ Served /\ Receipts

-----------------------------------------------------------------------------
\* What the API does to the queue, in six moves.

\* A row is reserved while no operation is active.
Places(o, kind, r, t) ==
  /\ ~Exists(o) /\ NoneActive /\ \A x \in Ops : Exists(x) <=> x < o
  /\ kind = "wake" <=> r = NoRun
  /\ op' = [op EXCEPT ![o] = [NoRow EXCEPT !.kind = kind, !.run = r, !.target = t, !.status = "pending"]]
  /\ UNCHANGED <<wsFence, callers, inbox, journal, rec, busy>>

\* A claim takes the next fence, a replay keeps its own.
Sends(o, f, again) ==
  /\ Dispatch(o, f, again)
  /\ \/ op[o].status \in Waits /\ f = wsFence + 1 /\ wsFence' = f
     \/ /\ op[o].status = "indeterminate" /\ NoneActive /\ f = op[o].fence /\ wsFence' = wsFence
        /\ op[o].kind \in {"release", "wake"} /\ (op[o].kind = "wake" => wsFence = f)
  /\ UNCHANGED <<journal, rec, busy>>

\* A reconcile is failed before it is sent.
Drops(o) ==
  /\ op[o].kind = "reconcile" /\ op[o].status \in Waits /\ wsFence' = wsFence + 1
  /\ op' = [op EXCEPT ![o].status = "failed", ![o].fence = wsFence', ![o].try = @ + 1]
  /\ UNCHANGED <<callers, inbox, journal, rec, busy>>

\* A caller stores its answer, or gives up.
Returns(c) ==
  /\ callers' = callers \ {c}
  /\ \/ op' = op
     \/ /\ op[c.op].status = "running" /\ c.ans.is # "none"
        /\ op' = [op EXCEPT ![c.op].status = Outcome(c), ![c.op].ans = IF c.ans.is = "ok" THEN c.ans ELSE @]
     \/ /\ op[c.op].status = "running"
        /\ op' = [op EXCEPT ![c.op].status = "indeterminate"]
  /\ UNCHANGED <<wsFence, inbox, journal, rec, busy>>

\* A row is interrupted or cancelled, and nobody told.
Turns(o, status) ==
  /\ \/ op[o].status = "running" /\ op[o].kind # "wake" /\ status = "indeterminate"
     \/ op[o].kind = "ensure" /\ op[o].status \in Waits /\ status = "cancelled"
  /\ op' = [op EXCEPT ![o].status = status]
  /\ UNCHANGED <<wsFence, callers, inbox, journal, rec, busy>>

\* Only runs or the lease change.
Leases == UNCHANGED <<op, wsFence, callers, inbox, journal, rec, busy>>

Writes ==
  \/ \E o \in Ops : \/ \E kind \in Kinds, r \in Run \cup {NoRun}, t \in Ops \cup {NoOp} : Places(o, kind, r, t)
                    \/ \E f \in Nat, again \in BOOLEAN : Sends(o, f, again)
                    \/ Drops(o)
                    \/ \E status \in Statuses : Turns(o, status)
  \/ \E c \in callers : Returns(c)
  \/ Leases

\* A bounded set of numbers has a greatest, which the choices of the newest operation and
\* of the highest fence rest on.
LEMMA GreatestNumber ==
  ASSUME NEW S \in SUBSET Nat, S # {}, NEW b \in Nat, \A x \in S : x <= b
  PROVE  \E x \in S : \A y \in S : y <= x
<1> DEFINE U == {n \in Nat : \A x \in S : x <= n}
<1>1. PICK n \in U : \A k \in U : n <= k
  <2>1. U \in SUBSET Nat /\ b \in U
    OBVIOUS
  <2> QED
    BY <2>1, SmallestNumber, Zenon
<1>2. CASE n \in S
  BY <1>2
<1>3. CASE n \notin S
  <2>1. PICK x \in S : TRUE
    OBVIOUS
  <2>2. n \in Nat /\ x <= n /\ x # n /\ x \in Nat
    BY <1>3, <2>1
  <2>3. n - 1 \in Nat /\ \A y \in S : y <= n - 1
    BY <1>3, <2>2
  <2>4. n - 1 \in U
    BY <2>3
  <2> QED
    BY <1>1, <2>2, <2>4
<1> QED
  BY <1>2, <1>3

\* The newest of some operations.
LEMMA LastOfIsLast ==
  ASSUME NEW S \in SUBSET Ops, S # {}
  PROVE  LastOf(S) \in S /\ \A x \in S : x <= LastOf(S)
<1>1. \E o \in S : \A x \in S : x <= o
  <2>1. S \in SUBSET Nat /\ MaxOps \in Nat /\ \A x \in S : x <= MaxOps
    BY OperationBounds DEF Ops
  <2> QED
    BY <2>1, GreatestNumber, Zenon
<1> QED
  BY <1>1 DEF LastOf

\* The next operation is the first that does not exist yet.
LEMMA NextIsFresh ==
  ASSUME Queued, Next_ \in Ops
  PROVE  ~Exists(Next_) /\ \A x \in Ops : Exists(x) <=> x < Next_
<1> DEFINE S == {o \in Ops : op[o].kind # "none"}
<1>1. CASE S = {}
  BY <1>1 DEF Next_, LastOf, NoOp, Ops, Exists
<1>2. CASE S # {}
  <2>1. LastOf(S) \in S /\ \A x \in S : x <= LastOf(S)
    BY <1>2, LastOfIsLast
  <2>2. Next_ = LastOf(S) + 1
    BY DEF Next_
  <2>3. \A x \in Ops : x < Next_ <=> x <= LastOf(S)
    BY <2>1, <2>2 DEF Ops
  <2>4. \A x \in Ops : x <= LastOf(S) => Exists(x)
    BY <2>1 DEF Queued, Ordered, Exists, Ops
  <2> QED
    BY <2>1, <2>2, <2>3, <2>4 DEF Exists, Ops
<1> QED
  BY <1>1, <1>2

\* A reservation places a row.
LEMMA ReservePlaces ==
  ASSUME IInv, NEW kind \in Kinds, NEW r \in Run \cup {NoRun}, NEW t \in Ops \cup {NoOp},
         kind = "wake" <=> r = NoRun, Reserve(kind, r, t),
         UNCHANGED <<wsFence, callers, inbox, ctrlVars>>
  PROVE  \E o \in Ops : Places(o, kind, r, t)
<1>1. Next_ \in Ops
  BY DEF Reserve
<1>2. ~Exists(Next_) /\ \A x \in Ops : Exists(x) <=> x < Next_
  BY <1>1, NextIsFresh DEF IInv
<1>3. PICK o \in Ops : o = Next_
  BY <1>1
<1>4. Places(o, kind, r, t)
  BY <1>2, <1>3 DEF Places, Reserve, ctrlVars
<1> QED
  BY <1>4

\* Every action of the API is such a write.
LEMMA ApiWrites ==
  ASSUME IInv,
         \/ \E r \in Run : StartRun(r) \/ EndRun(r) \/ ReserveAdmission(r) \/ Recovery(r)
         \/ ReserveWake
         \/ \E o \in Ops : Queue(o)
         \/ \E c \in callers : Caller(c)
  PROVE  Writes
<1>0. ApiTypes /\ WireTypes
  BY Types DEF IInv
<1>1. ASSUME NEW r \in Run, StartRun(r) \/ EndRun(r)  PROVE Writes
  BY <1>1 DEF StartRun, EndRun, Writes, Leases, ctrlVars
<1>2. ASSUME NEW r \in Run, ReserveAdmission(r) \/ Recovery(r)  PROVE Writes
  <2>1. PICK kind \in Kinds \ {"wake"}, t \in Ops \cup {NoOp} : Reserve(kind, r, t)
    BY <1>2 DEF ReserveAdmission, Recovery, ReserveRepair, ReserveObserve, ReserveRelease, ReserveReconcile, Kinds
  <2>2. UNCHANGED <<wsFence, callers, inbox, ctrlVars>>
    BY <1>2 DEF ReserveAdmission, Recovery, ReserveRepair, ReserveObserve, ReserveRelease, ReserveReconcile
  <2> QED
    BY <2>1, <2>2, ReservePlaces, NoRunIsNoRun DEF Writes
<1>3. ASSUME ReserveWake  PROVE Writes
  <2>1. Reserve("wake", NoRun, NoOp) /\ UNCHANGED <<wsFence, callers, inbox, ctrlVars>>
    BY <1>3 DEF ReserveWake
  <2>2. "wake" \in Kinds /\ NoOp \in Ops \cup {NoOp} /\ NoRun \in Run \cup {NoRun}
    BY DEF Kinds
  <2>3. \E o \in Ops : Places(o, "wake", NoRun, NoOp)
    BY <2>1, <2>2, ReservePlaces
  <2> QED
    BY <2>2, <2>3 DEF Writes
<1>4. ASSUME NEW o \in Ops, Claim(o)  PROVE Writes
  <2>1. wsFence + 1 \in Nat /\ wsFence' = wsFence + 1
    BY <1>0, <1>4 DEF Claim, ApiTypes
  <2>2. CASE Dispatch(o, wsFence', FALSE)
    <3>1. PICK f \in Nat : f = wsFence + 1
      BY <2>1
    <3>2. Sends(o, f, FALSE)
      BY <1>4, <2>1, <2>2, <3>1 DEF Sends, Claim, Dispatch, Waits, ctrlVars
    <3> QED
      BY <3>2 DEF Writes
  <2>3. CASE ~Dispatch(o, wsFence', FALSE)
    <3>1. Drops(o)
      BY <1>4, <2>3 DEF Drops, Claim, Waits, ctrlVars
    <3> QED
      BY <3>1 DEF Writes
  <2> QED BY <2>2, <2>3
<1>5. ASSUME NEW o \in Ops, Replay(o)  PROVE Writes
  <2>1. PICK f \in Nat : f = op[o].fence
    BY <1>0 DEF ApiTypes, RowSet
  <2>2. Sends(o, f, TRUE)
    BY <1>5, <2>1 DEF Sends, Replay, Dispatch, ctrlVars
  <2> QED
    BY <2>2 DEF Writes
<1>6. ASSUME NEW o \in Ops, Interrupt(o) \/ CancelWaiting(o)  PROVE Writes
  <2>1. Turns(o, "indeterminate") \/ Turns(o, "cancelled")
    BY <1>6 DEF Interrupt, CancelWaiting, Turns, Waits, ctrlVars
  <2> QED
    BY <2>1 DEF Writes, Statuses
<1>7. ASSUME NEW o \in Ops, ConfirmRelease(o) \/ ClearObserved(o)  PROVE Writes
  BY <1>7 DEF ConfirmRelease, ClearObserved, Writes, Leases, ctrlVars
<1>8. ASSUME NEW c \in callers, Caller(c)  PROVE Writes
  <2>1. Returns(c)
    BY <1>8 DEF Caller, Persist, LoseAnswer, ConnectionLost, GiveUp, Returns, ctrlVars
  <2> QED
    BY <2>1 DEF Writes
<1> QED
  BY <1>1, <1>2, <1>3, <1>4, <1>5, <1>6, <1>7, <1>8 DEF Queue

-----------------------------------------------------------------------------
\* The queue.

\* A write to one row keeps the queue if the row stays a row, no second one becomes
\* active, and the fences stay in order.
LEMMA QueuedRow ==
  ASSUME IInv, TypeOK', NEW o \in Ops,
         op' = [op EXCEPT ![o] = op'[o]],
         wsFence' >= wsFence, Row(o)', op'[o].kind # "none",
         \A x \in Ops : Exists(x) => (x < o \/ Exists(o)),
         \A x \in Ops : x < o => Exists(x),
         op'[o].status \in Active => \/ NoneActive
                                     \/ op[o].status \in Active,
         \A x \in Ops : x < o /\ op'[o].fence > 0 => op[x].fence < op'[o].fence,
         \A y \in Ops : o < y /\ op[y].fence > 0 => op'[o].fence < op[y].fence,
         \A y \in Ops : o < y /\ Exists(y) /\ op'[o].status \in Active =>
           \/ op'[o].kind = "wake" /\ op[y].fence = 0
           \/ op'[o].kind = "release" /\ op'[o].status = "running",
         \A x \in Ops : x < o /\ op[x].status \in Active => op'[o].fence = op[o].fence /\ Exists(o)
  PROVE  Queued'
<1>0. Queued /\ ApiTypes /\ ApiTypes'
  BY Types DEF IInv
<1>1. /\ \A x \in Ops \ {o} : op'[x] = op[x]
      /\ wsFence \in Nat /\ wsFence' \in Nat /\ \A x \in Ops : op[x].fence \in Nat /\ op'[x].fence \in Nat
  BY <1>0 DEF ApiTypes, RowSet
<1>2. \A x \in Ops : Row(x)'
  BY <1>0, <1>1 DEF Queued, Row
<1>3. OneActive'
  <2> SUFFICES ASSUME NEW x \in Ops, NEW y \in Ops, op'[x].status \in Active, op'[y].status \in Active PROVE x = y
    BY DEF OneActive, Active
  <2>1. CASE x = o \/ y = o
    BY <1>0, <1>1, <2>1 DEF NoneActive, OneActive, Queued
  <2>2. CASE x # o /\ y # o
    BY <1>0, <1>1, <2>2 DEF OneActive, Queued
  <2> QED BY <2>1, <2>2
<1>4. ASSUME NEW x \in Ops, NEW y \in Ops  PROVE Ordered(x, y)'
  <2> SUFFICES ASSUME x < y, op'[y].kind # "none"
               PROVE  /\ op'[x].kind # "none"
                      /\ op'[y].fence > 0 => op'[x].fence < op'[y].fence
                      /\ op'[x].status \in Active =>
                           \/ op'[x].kind = "wake" /\ op'[y].fence = 0
                           \/ op'[x].kind = "release" /\ op'[x].status = "running"
    BY DEF Ordered, Exists, Active
  <2>1. CASE x # o /\ y # o
    BY <1>0, <1>1, <2>1 DEF Queued, Ordered, Exists
  <2>2. CASE x = o /\ y # o
    BY <1>0, <1>1, <2>2 DEF Exists, Ops
  <2>3. CASE x # o /\ y = o
    BY <1>0, <1>1, <2>3 DEF Queued, Ordered, Exists
  <2>4. CASE x = o /\ y = o
    BY <2>4 DEF Ops
  <2> QED BY <2>1, <2>2, <2>3, <2>4
<1> QED
  BY <1>2, <1>3, <1>4 DEF Queued

\* Every write keeps the queue.
LEMMA QueuedKept ==
  ASSUME IInv, TypeOK', Writes
  PROVE  Queued'
<1>0. Queued /\ ApiTypes /\ ApiTypes' /\ WireTypes
  BY Types DEF IInv
<1>a. /\ wsFence \in Nat /\ wsFence' \in Nat
      /\ \A x \in Ops : op[x].fence \in Nat /\ op[x].fence <= wsFence /\ op'[x].fence \in Nat /\ op[x].status \in Statuses
  BY <1>0 DEF ApiTypes, RowSet, Queued, Row
<1>1. ASSUME NEW o \in Ops, NEW kind \in Kinds, NEW r \in Run \cup {NoRun}, NEW t, Places(o, kind, r, t)
      PROVE  Queued'
  <2>1. /\ op'[o] = [NoRow EXCEPT !.kind = kind, !.run = r, !.target = t, !.status = "pending"]
        /\ op' = [op EXCEPT ![o] = op'[o]] /\ wsFence' = wsFence
    BY <1>0, <1>1 DEF Places, ApiTypes
  <2>2. /\ op'[o].kind = kind /\ op'[o].run = r /\ op'[o].status = "pending" /\ op'[o].fence = 0 /\ op'[o].try = 0
        /\ kind # "none"
    BY <2>1 DEF NoRow, Kinds
  <2>3. Row(o)'
    BY <1>a, <1>1, <2>1, <2>2 DEF Row, Places
  <2>4. op[o].fence = 0
    BY <1>0, <1>1 DEF Queued, Row, Places, Exists
  <2>5. NoneActive /\ \A x \in Ops : op[x].kind # "none" <=> x < o
    BY <1>1 DEF Places, Exists
  <2>6. \A y \in Ops : o < y => op[y].kind = "none" /\ op[y].fence = 0
    BY <1>0, <2>5 DEF Queued, Row, Ops
  <2>7. \A x \in Ops : op[x].status \notin Active
    BY <2>5 DEF NoneActive
  <2> QED
    <3>1. /\ wsFence' >= wsFence /\ op'[o].kind # "none"
          /\ \A x \in Ops : Exists(x) => (x < o \/ Exists(o))
          /\ \A x \in Ops : x < o => Exists(x)
          /\ \A x \in Ops : ~(x < o /\ op'[o].fence > 0)
          /\ \A y \in Ops : ~(o < y /\ op[y].fence > 0)
          /\ \A y \in Ops : ~(o < y /\ Exists(y))
          /\ \A x \in Ops : op[x].status \notin Active
      BY <1>a, <2>1, <2>2, <2>5, <2>6, <2>7 DEF Exists
    <3> QED
      BY <2>1, <2>3, <2>5, <3>1, QueuedRow
<1>2. ASSUME NEW o \in Ops, NEW f \in Nat, NEW again \in BOOLEAN, Sends(o, f, again)
      PROVE  Queued'
  <2>1. op'[o] = [op[o] EXCEPT !.status = "running", !.fence = f, !.try = op[o].try + 1]
    BY <1>0, <1>2 DEF Sends, Dispatch, ApiTypes, RowSet
  <2>2. op' = [op EXCEPT ![o] = op'[o]]
    BY <1>0, <1>2, <2>1 DEF Sends, Dispatch, ApiTypes
  <2>3. /\ op'[o].kind = op[o].kind /\ op'[o].run = op[o].run /\ op'[o].status = "running"
        /\ op'[o].fence = f
    BY <1>0, <2>1 DEF ApiTypes, RowSet
  <2>4. /\ op[o].status \in Waits \cup {"indeterminate"} /\ Exists(o) /\ f > 0 /\ wsFence' >= f /\ wsFence' >= wsFence
        /\ Row(o)
    BY <1>0, <1>a, <1>2 DEF Sends, Waits, Queued, Row, Exists
  <2>5. Row(o)'
    BY <1>a, <2>3, <2>4 DEF Row, Waits, Exists
  <2>6. CASE op[o].status \in Waits /\ f = wsFence + 1
    <3>1. op[o].status \in Active
      BY <2>6 DEF Waits, Active
    <3>2. \A x \in Ops : op[x].status \in Active => x = o
      BY <1>0, <3>1 DEF Queued, OneActive
    <3>3. \A y \in Ops : o < y /\ Exists(y) => op[o].kind = "wake" /\ op[y].fence = 0
      BY <1>0, <2>6, <3>1 DEF Queued, Ordered, Waits
    <3>4. \A y \in Ops : ~Exists(y) => op[y].fence = 0
      BY <1>0 DEF Queued, Row, Exists
    <3>5. \A x \in Ops : x < o => Exists(x)
      BY <1>0, <2>4 DEF Queued, Ordered
    <3>6. \A x \in Ops : op[x].fence < f
      BY <1>a, <2>6
    <3> QED
      BY <1>a, <2>2, <2>3, <2>4, <2>5, <3>1, <3>2, <3>3, <3>4, <3>5, <3>6, QueuedRow DEF Exists, Ops
  <2>7. CASE ~(op[o].status \in Waits /\ f = wsFence + 1)
    <3>1. /\ op[o].status = "indeterminate" /\ NoneActive /\ f = op[o].fence
          /\ op[o].kind \in {"release", "wake"} /\ (op[o].kind = "wake" => wsFence = f)
      BY <1>2, <2>7 DEF Sends
    <3>2. \A x \in Ops : x < o => Exists(x) /\ op[x].fence < f
      BY <1>0, <2>4, <3>1 DEF Queued, Ordered
    <3>3. \A y \in Ops : o < y /\ Exists(y) => op[y].fence = 0 \/ op[o].fence < op[y].fence
      BY <1>0, <1>a, <3>1 DEF Queued, Ordered
    <3>4. \A y \in Ops : ~Exists(y) => op[y].fence = 0
      BY <1>0 DEF Queued, Row, Exists
    <3> QED
      BY <1>a, <2>2, <2>3, <2>4, <2>5, <3>1, <3>2, <3>3, <3>4, QueuedRow DEF Exists, Ops, NoneActive
  <2> QED BY <2>6, <2>7
<1>3. ASSUME NEW o \in Ops, Drops(o)
      PROVE  Queued'
  <2>1. op'[o] = [op[o] EXCEPT !.status = "failed", !.fence = wsFence', !.try = op[o].try + 1]
    BY <1>0, <1>3 DEF Drops, ApiTypes, RowSet
  <2>2. op' = [op EXCEPT ![o] = op'[o]]
    BY <1>0, <1>3, <2>1 DEF Drops, ApiTypes
  <2>3. /\ op'[o].kind = "reconcile" /\ op'[o].run = op[o].run /\ op'[o].status = "failed"
        /\ op'[o].fence = wsFence + 1 /\ wsFence' = wsFence + 1 /\ op[o].status \in Active /\ op[o].kind = "reconcile"
    BY <1>0, <1>3, <2>1 DEF ApiTypes, RowSet, Drops, Waits, Active
  <2>4. Row(o)'
    BY <1>0, <1>a, <2>3 DEF Row, Queued
  <2>5. \A y \in Ops : o < y => ~Exists(y) /\ op[y].fence = 0
    BY <1>0, <2>3 DEF Queued, Ordered, Row, Exists
  <2>6. \A x \in Ops : op[x].status \in Active => x = o
    BY <1>0, <2>3 DEF Queued, OneActive
  <2>7. \A x \in Ops : x < o => Exists(x)
    BY <1>0, <2>3 DEF Queued, Ordered, Exists
  <2> QED
    BY <1>a, <2>2, <2>3, <2>4, <2>5, <2>6, <2>7, QueuedRow DEF Exists, Ops, Active
<1>4. ASSUME NEW o \in Ops, NEW status \in {"completed", "failed", "cancelled", "indeterminate", "waiting_capacity"},
             op[o].status \in Active,
             op'[o].kind = op[o].kind, op'[o].run = op[o].run, op'[o].fence = op[o].fence, op'[o].status = status,
             op' = [op EXCEPT ![o] = op'[o]], wsFence' = wsFence,
             status \in {"completed", "indeterminate"} => op[o].status = "running",
             status = "waiting_capacity" => op[o].kind \in {"ensure", "wake"} /\ op[o].status = "running",
             status = "cancelled" => op[o].kind = "ensure"
      PROVE  Queued'
  <2>1. Exists(o) /\ Row(o)
    BY <1>0, <1>4 DEF Queued, Row, Active, Exists
  <2>2. Row(o)'
    BY <1>0, <1>a, <1>4, <2>1 DEF Row, Exists
  <2>3. \A x \in Ops : x < o => Exists(x) /\ (op[o].fence > 0 => op[x].fence < op[o].fence)
    BY <1>0, <2>1 DEF Queued, Ordered
  <2>4. \A y \in Ops : o < y /\ Exists(y) => op[y].fence = 0 \/ op[o].fence < op[y].fence
    BY <1>0, <1>a DEF Queued, Ordered
  <2>5. \A y \in Ops : ~Exists(y) => op[y].fence = 0
    BY <1>0 DEF Queued, Row, Exists
  <2>6. \A y \in Ops : o < y /\ Exists(y) => \/ op[o].kind = "wake" /\ op[y].fence = 0
                                             \/ op[o].kind = "release" /\ op[o].status = "running"
    <3>1. op[o].status \in Active /\ \A y \in Ops : Ordered(o, y)
      BY <1>0, <1>4 DEF Queued
    <3> QED
      BY <3>1 DEF Ordered
  <2>7. status \in Active => op[o].kind \in {"ensure", "wake"}
    BY <1>4 DEF Active
  <2>8. \A y \in Ops : o < y /\ Exists(y) /\ op'[o].status \in Active => op'[o].kind = "wake" /\ op[y].fence = 0
    BY <1>4, <2>6, <2>7
  <2> QED
    BY <1>a, <1>4, <2>1, <2>2, <2>3, <2>4, <2>5, <2>8, QueuedRow DEF Exists, Ops
<1>5. ASSUME NEW o \in Ops, NEW status \in Statuses, Turns(o, status)
      PROVE  Queued'
  <2>1. op'[o] = [op[o] EXCEPT !.status = status] /\ op' = [op EXCEPT ![o] = op'[o]]
    BY <1>0, <1>5 DEF Turns, ApiTypes, RowSet
  <2>2. /\ op'[o].kind = op[o].kind /\ op'[o].run = op[o].run /\ op'[o].fence = op[o].fence /\ op'[o].status = status
    BY <1>0, <2>1 DEF ApiTypes, RowSet
  <2>3. /\ op[o].status \in Active /\ wsFence' = wsFence
        /\ \/ status = "indeterminate" /\ op[o].status = "running"
           \/ status = "cancelled" /\ op[o].kind = "ensure"
    BY <1>5 DEF Turns, Active, Waits
  <2> QED
    BY <1>4, <2>1, <2>2, <2>3
<1>6. ASSUME NEW c \in callers, Returns(c)
      PROVE  Queued'
  <2>1. CASE op' = op
    BY <1>0, <1>6, <2>1 DEF Returns, Queued, Row, OneActive, Ordered, Exists, Active
  <2>2. CASE op' # op
    <3>1. c.op \in Ops /\ Awaits(c)
      BY <1>0 DEF WireTypes, CallerSet, IInv
    <3>2. PICK status \in {Outcome(c), "indeterminate"}, ans \in {op[c.op].ans, c.ans} :
            /\ op[c.op].status = "running" /\ wsFence' = wsFence
            /\ op' = [op EXCEPT ![c.op].status = status, ![c.op].ans = ans]
      <4>1. CASE op' = [op EXCEPT ![c.op].status = "indeterminate"]
        <5>1. op' = [op EXCEPT ![c.op].status = "indeterminate", ![c.op].ans = op[c.op].ans]
          BY <1>0, <3>1, <4>1 DEF ApiTypes, RowSet
        <5> QED
          BY <1>6, <2>2, <5>1 DEF Returns
      <4>2. CASE op' = [op EXCEPT ![c.op].status = Outcome(c), ![c.op].ans = IF c.ans.is = "ok" THEN c.ans ELSE @]
        BY <1>0, <1>6, <2>2, <3>1, <4>2 DEF Returns, ApiTypes
      <4> QED
        BY <1>6, <2>2, <4>1, <4>2 DEF Returns
    <3>3. /\ op'[c.op] = [op[c.op] EXCEPT !.status = status, !.ans = ans] /\ op' = [op EXCEPT ![c.op] = op'[c.op]]
      BY <1>0, <3>1, <3>2 DEF ApiTypes, RowSet
    <3>4. /\ op'[c.op].kind = op[c.op].kind /\ op'[c.op].run = op[c.op].run /\ op'[c.op].fence = op[c.op].fence
          /\ op'[c.op].status = status
      BY <1>0, <3>1, <3>3 DEF ApiTypes, RowSet
    <3>5. /\ status \in {"completed", "failed", "indeterminate", "waiting_capacity"}
          /\ status = "waiting_capacity" => op[c.op].kind \in {"ensure", "wake"}
      BY <3>1, <3>2 DEF Outcome, Awaits
    <3> QED
      BY <1>4, <3>1, <3>2, <3>3, <3>4, <3>5 DEF Active
  <2> QED BY <2>1, <2>2
<1>7. ASSUME Leases  PROVE Queued'
  BY <1>0, <1>7 DEF Leases, Queued, Row, OneActive, Ordered, Exists, Active
<1> QED
  BY <1>1, <1>2, <1>3, <1>5, <1>6, <1>7 DEF Writes

-----------------------------------------------------------------------------
\* What the wire and the controller know of a row.

Told == /\ \A c \in callers : Awaits(c)
        /\ \A m \in inbox : OnItsWay(m)
        /\ \A o \in Ops : Recorded(o)
        /\ JournalLast /\ Served /\ Receipts

\* The types the proofs below use, field by field.
Fields ==
  /\ \A o \in Ops : /\ op[o].kind \in Kinds \cup {"none"} /\ op[o].status \in Statuses
                    /\ op[o].fence \in Nat /\ op[o].try \in Nat /\ op[o].run \in Run \cup {NoRun}
                    /\ rec[o].fence \in Nat /\ rec[o].run \in Run \cup {NoRun}
                    /\ rec[o].status \in {"none", "running", "completed", "indeterminate"}
  /\ \A c \in callers : c.op \in Ops /\ c.fence \in Nat /\ c.try \in Nat
  /\ \A m \in inbox : m.op \in Ops /\ m.fence \in Nat /\ m.try \in Nat
  /\ journal.fence \in Nat /\ journal.last \in Ops \cup {NoOp} /\ wsFence \in Nat
  /\ busy.op \in Ops \cup {NoOp} /\ busy.fence \in Nat /\ busy.try \in Nat

\* They follow from the type invariant.
LEMMA FieldTypes == (TypeOK => Fields) /\ (TypeOK' => Fields')
BY Types DEF ApiTypes, WireTypes, CtrlTypes, RowSet, CallerSet, Requests, JournalSet, RecordSet, BusySet, Fields

\* A write to one row is told to nobody: it suffices that what others know of the row
\* is not contradicted.
LEMMA ToldRow ==
  ASSUME IInv, TypeOK', NEW o \in Ops,
         op' = [op EXCEPT ![o] = op'[o]], callers' \subseteq callers,
         UNCHANGED <<inbox, journal, rec, busy>>,
         Exists(o) => op'[o].kind = op[o].kind /\ op'[o].run = op[o].run,
         op'[o].fence >= op[o].fence, op'[o].try >= op[o].try,
         \A c \in callers' : c.op = o =>
           /\ Exists(o) /\ op'[o].fence = op[o].fence /\ op'[o].status \notin {"none", "pending", "waiting_capacity"}
           /\ op[o].kind = "wake" => op'[o].status = "running"
           /\ op[o].kind \in Once => op'[o].status \in {"running", "indeterminate"},
         \A m \in inbox : m.op = o =>
           /\ Exists(o) /\ op'[o].status \notin {"none", "pending"}
           /\ op[o].kind # "wake" => op'[o].fence = op[o].fence
           /\ op[o].kind \in Once => op'[o].try = op[o].try /\ op'[o].status \in {"running", "indeterminate"},
         Begun_(o) => /\ op[o].kind # "wake" => op'[o].fence = op[o].fence
                      /\ op[o].kind \in Once => op'[o].status \in {"running", "indeterminate", "completed", "failed"},
         busy.op = o /\ op[o].kind \in Once => op'[o].status \in {"running", "indeterminate"},
         op'[o].status = "completed" => TrueAnswer(o, op[o].ans)'
  PROVE  Told'
<1>0. /\ \A x \in Ops \ {o} : op'[x] = op[x]
      /\ journal' = journal /\ rec' = rec /\ busy' = busy /\ inbox' = inbox
  BY Types DEF IInv, ApiTypes
<1>f. Fields /\ Fields' /\ Told /\ Queued
  BY FieldTypes DEF IInv, Told
<1>1. ASSUME NEW c \in callers'  PROVE Awaits(c)'
  <2>1. Awaits(c) /\ c.op \in Ops
    BY <1>f DEF Told, Fields
  <2>2. TrueAnswer(c.op, c.ans) => TrueAnswer(c.op, c.ans)'
    BY <1>0, <1>f, <2>1 DEF TrueAnswer, Calm, Begun_, Looks
  <2> QED
    BY <1>0, <1>f, <2>1, <2>2 DEF Awaits, NoMessage, Begun_, Fields
<1>2. ASSUME NEW m \in inbox'  PROVE OnItsWay(m)'
  <2>1. OnItsWay(m) /\ m.op \in Ops
    BY <1>0, <1>f DEF Told, Fields
  <2> QED
    BY <1>0, <1>f, <2>1 DEF OnItsWay, Begun_, Fields
<1>3. ASSUME NEW x \in Ops  PROVE Recorded(x)'
  BY <1>0, <1>f DEF Told, Recorded, Begun_, Exists, Fields
<1>4. JournalLast'
  BY <1>0, <1>f DEF Told, JournalLast, Begun_
<1>5. Served'
  <2>1. CASE busy.op = NoOp
    BY <1>0, <1>f, <2>1 DEF Told, Served
  <2>2. CASE busy.op \in Ops /\ busy.op # NoOp
    <3>1. Begun_(busy.op) /\ Exists(busy.op)
      BY <1>f, <2>2 DEF Told, Served, Recorded, Begun_
    <3> QED
      BY <1>0, <1>f, <2>2, <3>1 DEF Told, Served, NoMessage, Fields
  <2> QED BY <1>f, <2>1, <2>2 DEF Fields
<1>6. ASSUME NEW x \in Ops, op'[x].status = "completed"  PROVE TrueAnswer(x, op[x].ans)'
  <2>1. CASE x = o
    BY <1>6, <2>1
  <2>2. CASE x # o
    BY <1>0, <1>f, <1>6, <2>2 DEF Told, Receipts, TrueAnswer, Calm, Begun_, Looks
  <2> QED BY <2>1, <2>2
<1> QED
  BY <1>1, <1>2, <1>3, <1>4, <1>5, <1>6 DEF Told, Receipts

\* A dispatch is new to everybody: nothing with its number is awaited or on its way, and
\* an ensure or an observation is dispatched only when nothing of it is left.
LEMMA ToldSends ==
  ASSUME IInv, TypeOK', NEW o \in Ops, NEW f \in Nat, NEW again \in BOOLEAN, Sends(o, f, again)
  PROVE  Told'
<1> DEFINE c0 == [op |-> o, fence |-> f, try |-> op[o].try + 1, replay |-> again, ans |-> NoAnswer]
           m0 == [op |-> o, fence |-> f, try |-> op[o].try + 1, ready |-> op[o].kind # "wake"]
<1>f. Fields /\ Fields' /\ Told /\ Queued
  BY FieldTypes DEF IInv, Told
<1>0. /\ op' = [op EXCEPT ![o].status = "running", ![o].fence = f, ![o].try = op[o].try + 1]
      /\ callers' = callers \cup {c0} /\ inbox' = inbox \cup {m0}
      /\ journal' = journal /\ rec' = rec /\ busy' = busy
  BY DEF Sends, Dispatch
<1>1. /\ \A x \in Ops \ {o} : op'[x] = op[x]
      /\ op'[o].kind = op[o].kind /\ op'[o].run = op[o].run /\ op'[o].status = "running"
      /\ op'[o].fence = f /\ op'[o].try = op[o].try + 1
  BY <1>0, Types DEF IInv, ApiTypes, RowSet
<1>2. /\ c0.op = o /\ c0.fence = f /\ c0.try = op[o].try + 1 /\ c0.ans.is = "none"
      /\ m0.op = o /\ m0.fence = f /\ m0.try = op[o].try + 1 /\ (m0.ready <=> op[o].kind # "wake")
  BY DEF NoAnswer
<1> HIDE DEF c0, m0
<1>3. \/ op[o].status \in Waits /\ f = wsFence + 1
      \/ op[o].status = "indeterminate" /\ f = op[o].fence /\ op[o].kind \in {"release", "wake"}
  BY DEF Sends
<1>4. Row(o) /\ f > 0 /\ f >= op[o].fence /\ (op[o].kind \in Once => op[o].status \in Waits)
  BY <1>f, <1>3 DEF Queued, Row, Fields, Once
<1>k. op[o].kind \in Once \cup {"release", "wake"}
  BY <1>f, <1>3, <1>4 DEF Fields, Row, Kinds, Once, Waits
<1>5. \A c \in callers : c.op = o => op[o].kind = "release" /\ c.fence = f /\ c.try <= op[o].try
  BY <1>f, <1>3 DEF Told, Awaits, Waits
<1>6. \A m \in inbox : m.op = o => op[o].kind \notin Once /\ m.fence <= f /\ m.try <= op[o].try
                                   /\ (op[o].kind = "release" => m.fence = f)
  BY <1>f, <1>3, <1>4 DEF Told, OnItsWay, Waits, Fields, Row
<1>7. Begun_(o) => op[o].kind \notin Once /\ (op[o].kind = "release" => op[o].fence = f)
  BY <1>f, <1>3, <1>4 DEF Told, Recorded, Waits, Row
<1>8. /\ busy.op = o => op[o].kind \notin Once
      /\ busy.op = o => busy.try <= op[o].try
  BY <1>f, <1>4 DEF Told, Served, Waits, Ops, NoOp
<1>9. ASSUME NEW c \in callers'  PROVE Awaits(c)'
  <2>1. CASE c = c0
    <3>1. \A d \in callers' : op[o].kind # "release" /\ d.op = o => d = c
      BY <1>0, <1>5, <2>1
    <3>2. /\ c.op = o /\ c.fence = op'[o].fence /\ c.try = op'[o].try /\ c.ans.is = "none"
          /\ op'[o].try \in Nat /\ op'[o].kind = op[o].kind /\ op'[o].status = "running"
      BY <1>1, <1>2, <1>f, <2>1 DEF Fields
    <3> QED
      BY <3>1, <3>2 DEF Awaits
  <2>2. CASE c \in callers /\ c.op # o
    <3>1. Awaits(c) /\ c.op \in Ops
      BY <1>f, <2>2 DEF Told, Fields
    <3>2. TrueAnswer(c.op, c.ans) => TrueAnswer(c.op, c.ans)'
      BY <1>0, <1>1, <2>2, <3>1 DEF TrueAnswer, Calm, Begun_, Looks
    <3>3. NoMessage(c.op) => NoMessage(c.op)'
      BY <1>0, <1>2, <2>2 DEF NoMessage
    <3>4. \A d \in callers' : d.op = c.op => d \in callers
      BY <1>0, <1>2, <2>2
    <3> QED
      BY <1>0, <1>1, <1>f, <2>2, <3>1, <3>2, <3>3, <3>4 DEF Awaits, Begun_
  <2>3. CASE c \in callers /\ c.op = o
    <3>1. Awaits(c) /\ op[o].kind = "release"
      BY <1>f, <1>5, <2>3 DEF Told
    <3>2. TrueAnswer(c.op, c.ans) => TrueAnswer(c.op, c.ans)'
      BY <1>0, <1>1, <1>5, <2>3, <3>1 DEF TrueAnswer, Looks, Awaits
    <3> QED
      BY <1>0, <1>1, <1>f, <1>5, <2>3, <3>1, <3>2 DEF Awaits, Begun_, Once, Fields
  <2> QED BY <1>0, <2>1, <2>2, <2>3
<1>10. ASSUME NEW m \in inbox'  PROVE OnItsWay(m)'
  <2>1. CASE m = m0
    <3>1. \A c \in callers' : c.op = o /\ c.try = op[o].try + 1 => c.fence = f
      BY <1>0, <1>2, <1>5
    <3>2. op[o].kind \in Once => ~Begun_(o) /\ m0.ready
      BY <1>2, <1>7 DEF Once
    <3>3. /\ m.op = o /\ m.fence = op'[o].fence /\ m.fence = f /\ m.try = op'[o].try /\ m.try = op[o].try + 1
          /\ op'[o].try \in Nat /\ op'[o].fence \in Nat /\ op'[o].kind = op[o].kind /\ op'[o].status = "running"
      BY <1>1, <1>2, <1>f, <2>1 DEF Fields
    <3>4. Begun_(o)' <=> Begun_(o)
      BY <1>0 DEF Begun_
    <3> QED
      BY <1>4, <2>1, <3>1, <3>2, <3>3, <3>4 DEF OnItsWay
  <2>2. CASE m \in inbox
    <3>1. OnItsWay(m) /\ m.op \in Ops
      BY <1>f, <2>2 DEF Told, Fields
    <3>2. \A c \in callers' : c.op = m.op /\ c.try = m.try => c.fence = m.fence
      BY <1>0, <1>2, <1>6, <1>f, <2>2, <3>1 DEF OnItsWay, Fields
    <3>3. Begun_(m.op)' <=> Begun_(m.op)
      BY <1>0 DEF Begun_
    <3>4. CASE m.op # o
      BY <1>1, <3>1, <3>2, <3>3, <3>4 DEF OnItsWay
    <3>5. CASE m.op = o
      <4>1. /\ m.fence <= op'[o].fence /\ m.try <= op'[o].try /\ m.fence > 0
            /\ op'[o].kind = op[o].kind /\ op'[o].status = "running"
        BY <1>1, <1>6, <1>f, <2>2, <3>1, <3>5 DEF OnItsWay, Fields
      <4>2. op[o].kind \notin Once /\ (op[o].kind # "wake" => m.fence = op'[o].fence)
        BY <1>1, <1>6, <1>k, <2>2, <3>5
      <4> QED
        BY <3>2, <3>5, <4>1, <4>2 DEF OnItsWay
    <3> QED
      BY <3>4, <3>5
  <2> QED BY <1>0, <2>1, <2>2
<1>11. ASSUME NEW x \in Ops  PROVE Recorded(x)'
  <2>1. Recorded(x)
    BY <1>f DEF Told
  <2>2. CASE x # o
    BY <1>0, <1>1, <2>1, <2>2 DEF Recorded, Begun_, Exists
  <2>3. CASE x = o
    <3>1. Begun_(o) => /\ op'[o].kind = op[o].kind /\ op'[o].run = op[o].run /\ op'[o].fence >= op[o].fence
                       /\ op[o].kind \notin Once
                       /\ op[o].kind # "wake" => op'[o].fence = op[o].fence
      BY <1>1, <1>4, <1>7, <1>k
    <3>2. op'[o].fence \in Nat /\ op[o].fence \in Nat /\ rec[o].fence \in Nat
      BY <1>f DEF Fields
    <3> QED
      BY <1>0, <2>1, <2>3, <3>1, <3>2 DEF Recorded, Begun_, Exists
  <2> QED
    BY <2>2, <2>3
<1>12. JournalLast'
  BY <1>0, <1>f DEF Told, JournalLast, Begun_
<1>13. Served'
  <2>1. CASE busy.op = NoOp
    BY <1>0, <1>f, <2>1 DEF Told, Served
  <2>2. CASE busy.op # NoOp
    <3>1. busy.op \in Ops /\ Served
      BY <1>f, <2>2 DEF Fields, Told
    <3>2. \A c \in callers' : c.op = busy.op /\ c.try = busy.try => c.fence = busy.fence
      BY <1>0, <1>2, <1>8, <1>f, <2>2, <3>1 DEF Served, Fields
    <3>3. op[busy.op].kind \in Once => busy.op # o /\ NoMessage(busy.op)'
      BY <1>0, <1>2, <1>8, <2>2, <3>1 DEF Served, NoMessage
    <3>4. op'[busy.op].kind = op[busy.op].kind /\ busy.try <= op'[busy.op].try
      BY <1>1, <1>f, <2>2, <3>1 DEF Served, Fields
    <3>5. op[busy.op].kind \in Once => op'[busy.op] = op[busy.op]
      BY <1>1, <3>1, <3>3
    <3> QED
      BY <1>0, <2>2, <3>1, <3>2, <3>3, <3>4, <3>5 DEF Served
  <2> QED BY <2>1, <2>2
<1>14. ASSUME NEW x \in Ops, op'[x].status = "completed"  PROVE TrueAnswer(x, op[x].ans)'
  <2>1. x # o /\ op'[x] = op[x] /\ TrueAnswer(x, op[x].ans)
    BY <1>1, <1>14, <1>f DEF Told, Receipts
  <2>2. Calm(x)' <=> Calm(x)
    BY <1>0, <2>1 DEF Calm, Begun_
  <2> QED
    BY <1>0, <2>1, <2>2 DEF TrueAnswer
<1> QED
  BY <1>9, <1>10, <1>11, <1>12, <1>13, <1>14 DEF Told, Receipts

\* Every write keeps what is known.
LEMMA ToldByWrites ==
  ASSUME IInv, TypeOK', Writes
  PROVE  Told'
<1>f. Fields /\ Fields' /\ Told /\ Queued
  BY FieldTypes DEF IInv, Told
<1>t. op \in [Ops -> RowSet] /\ callers \subseteq CallerSet
  BY Types DEF IInv, ApiTypes, WireTypes
<1>0. ASSUME NEW o \in Ops, op[o].status \in {"none", "pending", "waiting_capacity"},
             op[o].kind \in Once \cup {"none"} \/ op[o].status \in {"none", "pending"}
      PROVE  /\ \A c \in callers : c.op # o
             /\ op[o].kind \in Once \cup {"none"} => \A m \in inbox : m.op # o
             /\ op[o].kind \in Once \cup {"none"} => ~Begun_(o) /\ busy.op # o
  <2>1. \A c \in callers : c.op # o
    BY <1>0, <1>f DEF Told, Awaits
  <2>2. Row(o) /\ (op[o].kind = "none" <=> op[o].status = "none")
    BY <1>f DEF Queued, Row
  <2>3. op[o].kind \in Once \cup {"none"} => \A m \in inbox : m.op # o
    BY <1>0, <1>f, <2>2 DEF Told, OnItsWay
  <2>4. op[o].kind \in Once \cup {"none"} => ~Begun_(o)
    BY <1>0, <1>f, <2>2 DEF Told, Recorded, Exists
  <2>5. Begun_(o) \/ busy.op # o
    BY <1>f DEF Told, Served, Begun_, NoOp, Ops
  <2> QED
    BY <2>1, <2>3, <2>4, <2>5
<1>1. ASSUME NEW o \in Ops, NEW kind \in Kinds, NEW r \in Run \cup {NoRun}, NEW t, Places(o, kind, r, t)
      PROVE  Told'
  <2>1. /\ op'[o] = [NoRow EXCEPT !.kind = kind, !.run = r, !.target = t, !.status = "pending"]
        /\ op' = [op EXCEPT ![o] = op'[o]]
    BY <1>t, <1>1 DEF Places
  <2>2. op'[o].status = "pending" /\ op'[o].fence = 0 /\ op'[o].try = 0
    BY <2>1 DEF NoRow
  <2>3. op[o].kind = "none" /\ op[o].status = "none" /\ op[o].fence = 0 /\ op[o].try = 0
    BY <1>f, <1>1 DEF Places, Exists, Queued, Row
  <2>4. (\A c \in callers : c.op # o) /\ (\A m \in inbox : m.op # o) /\ ~Begun_(o) /\ busy.op # o
    BY <1>0, <2>3
  <2>5. callers' = callers /\ UNCHANGED <<inbox, journal, rec, busy>> /\ ~Exists(o)
    BY <1>1 DEF Places
  <2>6. op'[o].fence >= op[o].fence /\ op'[o].try >= op[o].try /\ op'[o].status # "completed"
    BY <2>2, <2>3
  <2>7. callers' \subseteq callers /\ \A c \in callers' : c.op # o
    BY <2>4, <2>5
  <2> QED
    BY <2>1, <2>4, <2>5, <2>6, <2>7, ToldRow
<1>2. ASSUME NEW o \in Ops, Drops(o)
      PROVE  Told'
  <2>1. op'[o] = [op[o] EXCEPT !.status = "failed", !.fence = wsFence', !.try = op[o].try + 1]
    BY <1>t, <1>2 DEF Drops, RowSet
  <2>2. op' = [op EXCEPT ![o] = op'[o]]
    BY <1>t, <1>2, <2>1 DEF Drops
  <2>3. /\ op'[o].kind = op[o].kind /\ op'[o].run = op[o].run /\ op'[o].status = "failed"
        /\ op'[o].fence = wsFence + 1 /\ op'[o].try = op[o].try + 1
    BY <1>t, <1>2, <2>1 DEF RowSet, Drops
  <2>4. op'[o].fence >= op[o].fence /\ op'[o].try >= op[o].try
    BY <1>f, <2>3 DEF Queued, Row, Fields
  <2>5. (\A c \in callers : c.op # o) /\ (\A m \in inbox : m.op # o) /\ ~Begun_(o) /\ busy.op # o
    BY <1>0, <1>2 DEF Drops, Waits, Once
  <2>6. callers' = callers /\ UNCHANGED <<inbox, journal, rec, busy>>
    BY <1>2 DEF Drops
  <2> QED
    BY <2>2, <2>3, <2>4, <2>5, <2>6, ToldRow
<1>3. ASSUME NEW o \in Ops, NEW status \in Statuses, Turns(o, status)
      PROVE  Told'
  <2>1. op'[o] = [op[o] EXCEPT !.status = status] /\ op' = [op EXCEPT ![o] = op'[o]]
    BY <1>t, <1>3 DEF Turns, RowSet
  <2>2. /\ op'[o].kind = op[o].kind /\ op'[o].run = op[o].run /\ op'[o].fence = op[o].fence /\ op'[o].status = status
        /\ op'[o].try = op[o].try
    BY <1>t, <2>1 DEF RowSet
  <2>3. callers' = callers /\ UNCHANGED <<inbox, journal, rec, busy>>
    BY <1>3 DEF Turns
  <2>4. op'[o].fence >= op[o].fence /\ op'[o].try >= op[o].try
    BY <1>f, <2>2 DEF Fields
  <2>5. CASE op[o].status = "running" /\ op[o].kind # "wake" /\ status = "indeterminate"
    <3>1. Exists(o)
      BY <1>f, <2>5 DEF Queued, Row, Exists
    <3> QED
      BY <2>1, <2>2, <2>3, <2>4, <2>5, <3>1, ToldRow
  <2>6. CASE op[o].kind = "ensure" /\ op[o].status \in Waits /\ status = "cancelled"
    <3>1. (\A c \in callers : c.op # o) /\ (\A m \in inbox : m.op # o) /\ ~Begun_(o) /\ busy.op # o
      BY <1>0, <2>6 DEF Waits, Once
    <3> QED
      BY <2>1, <2>2, <2>3, <2>4, <2>6, <3>1, ToldRow
  <2> QED BY <1>3, <2>5, <2>6 DEF Turns
<1>4. ASSUME NEW c \in callers, Returns(c)
      PROVE  Told'
  <2>0. c.op \in Ops /\ Awaits(c) /\ callers' = callers \ {c} /\ callers' \subseteq callers
        /\ UNCHANGED <<inbox, journal, rec, busy>>
    BY <1>f, <1>4 DEF Fields, Told, Returns
  <2>1. CASE op' = op
    <3>1. op' = [op EXCEPT ![c.op] = op'[c.op]]
      BY <1>t, <2>1
    <3>2. op'[c.op].fence >= op[c.op].fence /\ op'[c.op].try >= op[c.op].try
      BY <1>f, <2>0, <2>1 DEF Fields
    <3>3. Row(c.op) /\ Exists(c.op)
      BY <1>f, <2>0 DEF Queued, Row, Awaits, Exists
    <3>4. \A d \in callers' : Awaits(d)
      BY <1>f, <2>0 DEF Told
    <3>5. \A m \in inbox : OnItsWay(m)
      BY <1>f DEF Told
    <3>6. Begun_(c.op) /\ op[c.op].kind \in Once => op[c.op].status \in {"running", "indeterminate", "completed", "failed"}
      BY <1>f, <2>0 DEF Told, Recorded
    <3>7. busy.op = c.op /\ op[c.op].kind \in Once => op[c.op].status \in {"running", "indeterminate"}
      BY <1>f, <2>0 DEF Told, Served, NoOp, Ops
    <3>8. op'[c.op].status = "completed" => TrueAnswer(c.op, op[c.op].ans)'
      BY <1>f, <2>0, <2>1 DEF Told, Receipts, TrueAnswer, Calm, Begun_
    <3> QED
      BY <2>0, <2>1, <3>1, <3>2, <3>3, <3>4, <3>5, <3>6, <3>7, <3>8, ToldRow DEF Awaits, OnItsWay
  <2>2. CASE op' # op
    <3>2. PICK status \in {Outcome(c), "indeterminate"}, ans \in {op[c.op].ans, c.ans} :
            /\ op[c.op].status = "running"
            /\ op' = [op EXCEPT ![c.op].status = status, ![c.op].ans = ans]
            /\ status # "indeterminate" => c.ans.is # "none" /\ (c.ans.is = "ok" => ans = c.ans)
      <4>1. CASE op' = [op EXCEPT ![c.op].status = "indeterminate"]
        <5>1. op' = [op EXCEPT ![c.op].status = "indeterminate", ![c.op].ans = op[c.op].ans]
          BY <1>t, <2>0, <4>1 DEF RowSet
        <5> QED
          BY <1>4, <2>2, <5>1 DEF Returns
      <4>2. CASE /\ op' = [op EXCEPT ![c.op].status = Outcome(c), ![c.op].ans = IF c.ans.is = "ok" THEN c.ans ELSE @]
                 /\ c.ans.is # "none"
        BY <1>t, <1>4, <2>0, <2>2, <4>2 DEF Returns
      <4> QED
        BY <1>4, <2>2, <4>1, <4>2 DEF Returns
    <3>3. /\ op'[c.op] = [op[c.op] EXCEPT !.status = status, !.ans = ans] /\ op' = [op EXCEPT ![c.op] = op'[c.op]]
      BY <1>t, <2>0, <3>2 DEF RowSet
    <3>4. /\ op'[c.op].kind = op[c.op].kind /\ op'[c.op].run = op[c.op].run /\ op'[c.op].fence = op[c.op].fence
          /\ op'[c.op].status = status /\ op'[c.op].try = op[c.op].try /\ op'[c.op].ans = ans
      BY <1>t, <2>0, <3>3 DEF RowSet
    <3>5. op'[c.op].fence >= op[c.op].fence /\ op'[c.op].try >= op[c.op].try
      BY <1>f, <2>0, <3>4 DEF Fields
    <3>6. Exists(c.op)
      BY <1>f, <2>0 DEF Queued, Row, Awaits, Exists
    <3>7. /\ status \in {"completed", "failed", "indeterminate", "waiting_capacity"}
          /\ status = "waiting_capacity" => c.ans.is = "wait"
          /\ status = "completed" => c.ans.is = "ok"
          /\ status = "failed" => c.ans.is = "rejected"
      BY <3>2 DEF Outcome
    <3>8. \A d \in callers' : d.op = c.op => op[c.op].kind = "release"
      BY <2>0 DEF Awaits
    <3>9. status # "indeterminate" /\ op[c.op].kind \in Once => NoMessage(c.op) /\ busy.op # c.op
      BY <2>0, <3>2 DEF Awaits
    <3>10. status = "waiting_capacity" /\ op[c.op].kind \in Once => ~Begun_(c.op)
      BY <2>0, <3>7 DEF Awaits
    <3>11. status = "waiting_capacity" => op[c.op].kind # "release"
      BY <2>0, <3>7 DEF Awaits
    <3>12. op'[c.op].status = "completed" => TrueAnswer(c.op, op[c.op].ans)'
      <4> SUFFICES ASSUME status = "completed" PROVE TrueAnswer(c.op, op[c.op].ans)'
        BY <3>4
      <4>1. ans = c.ans /\ TrueAnswer(c.op, c.ans)
        BY <2>0, <3>2, <3>7 DEF Awaits
      <4> QED
        BY <2>0, <3>4, <4>1 DEF TrueAnswer, Calm, Begun_
    <3>13. \A m \in inbox : m.op = c.op /\ op[c.op].kind \in Once => status = "indeterminate"
      BY <3>9 DEF NoMessage
    <3>14. \A d \in callers' : d.op = c.op =>
             /\ op'[c.op].status \notin {"none", "pending", "waiting_capacity"}
             /\ op[c.op].kind = "wake" => op'[c.op].status = "running"
             /\ op[c.op].kind \in Once => op'[c.op].status \in {"running", "indeterminate"}
      BY <3>4, <3>7, <3>8, <3>11 DEF Once
    <3>15. \A m \in inbox : m.op = c.op =>
             /\ op'[c.op].status \notin {"none", "pending"}
             /\ op[c.op].kind \in Once => op'[c.op].try = op[c.op].try /\ op'[c.op].status \in {"running", "indeterminate"}
      BY <3>4, <3>7, <3>13
    <3>16. Begun_(c.op) /\ op[c.op].kind \in Once => op'[c.op].status \in {"running", "indeterminate", "completed", "failed"}
      BY <3>4, <3>7, <3>10
    <3>17. busy.op = c.op /\ op[c.op].kind \in Once => op'[c.op].status \in {"running", "indeterminate"}
      BY <3>4, <3>9
    <3> QED
      <4>1. PICK o \in Ops : o = c.op
        BY <2>0
      <4>2. /\ op' = [op EXCEPT ![o] = op'[o]] /\ callers' \subseteq callers
            /\ UNCHANGED <<inbox, journal, rec, busy>>
        BY <2>0, <3>3, <4>1
      <4>3. TrueAnswer(o, op[o].ans)' \/ op'[o].status # "completed"
        BY <3>12, <4>1 DEF TrueAnswer, Calm, Begun_
      <4> QED
        BY <3>4, <3>5, <3>6, <3>14, <3>15, <3>16, <3>17, <4>1, <4>2, <4>3, ToldRow
  <2> QED BY <2>1, <2>2
<1>5. ASSUME Leases  PROVE Told'
  BY <1>f, <1>5 DEF Leases, Told, Awaits, OnItsWay, Recorded, JournalLast, Served, Receipts, TrueAnswer,
     Calm, Begun_, NoMessage, Exists
<1> QED
  BY <1>1, <1>2, <1>3, <1>4, <1>5, ToldSends DEF Writes

-----------------------------------------------------------------------------
\* What the controller's moves leave of what is known.

\* An ensure or an observation is on its way in one message only.
LEMMA OnlyMessage ==
  ASSUME IInv, NEW m \in inbox, NEW n \in inbox, n.op = m.op, op[m.op].kind \in Once
  PROVE  n = m
<1>1. OnItsWay(m) /\ OnItsWay(n) /\ m \in Requests /\ n \in Requests
  BY Types DEF IInv, WireTypes
<1> QED
  BY <1>1 DEF OnItsWay, Requests, Once

\* An answer that is true of a row the controller still has a request of is not the
\* answer of an ensure or an observation, and a request like it is not begun again.
LEMMA BegunAgain ==
  ASSUME IInv, NEW m \in inbox, NEW j \in JournalSet, NEW rs \in RecordSets,
         NEW run \in Run \cup {NoRun}, Begins(m, j, rs, run),
         op[m.op].kind \notin Once, NEW a, TrueAnswer(m.op, a)
  PROVE  FALSE
<1>1. Fields /\ OnItsWay(m) /\ Recorded(m.op) /\ JournalLast /\ Row(m.op) /\ m.op \in Ops
  BY FieldTypes DEF IInv, Queued, Fields
<1>2. op[m.op].kind \in {"release", "wake"}
  BY <1>1 DEF OnItsWay, Row, Once, Fields, Kinds
<1>3. rec[m.op].status = "completed" /\ rec[m.op].fence = op[m.op].fence /\ rec[m.op].fence # m.fence
  BY <1>2 DEF TrueAnswer, Looks, Begins
<1>4. j.there /\ j.fence = journal.fence
  BY <1>1, <1>3, Types DEF JournalLast, Begun_, Begins, Read, IInv, CtrlTypes, JournalSet
<1>5. m.fence >= journal.fence /\ rec[m.op].fence <= journal.fence /\ m.fence <= op[m.op].fence
  BY <1>1, <1>3, <1>4 DEF Begins, Recorded, Begun_, OnItsWay
<1> QED
  BY <1>1, <1>3, <1>5 DEF Fields

\* Reading under the lock changes nothing that was said.
LEMMA ReadKeeps ==
  ASSUME IInv, NEW j \in JournalSet, NEW rs \in RecordSets, Read(j, rs)
  PROVE  /\ j.there = journal.there /\ j.fence = journal.fence /\ j.last = journal.last /\ j.active = journal.active
         /\ \A o \in Ops : /\ rs[o].kind = rec[o].kind /\ rs[o].fence = rec[o].fence /\ rs[o].run = rec[o].run
                           /\ rs[o].status \in {rec[o].status, "indeterminate"}
                           /\ rs[o].status = "none" <=> rec[o].status = "none"
                           /\ rs[o].status = "completed" <=> rec[o].status = "completed"
                           /\ rs[o].status = "running" => rec[o].status = "running"
                           /\ rec[o].status = "none" => rs[o] = rec[o]
         /\ (\A x \in Ops : rec[x].status \in {"none", "completed"}) =>
              \A x \in Ops : rs[x].status \in {"none", "completed"}
<1>1. journal \in JournalSet /\ rec \in [Ops -> RecordSet] /\ journal.last \in Ops \cup {NoOp}
  BY Types DEF IInv, CtrlTypes, JournalSet
<1>2. CASE j = journal /\ rs = rec
  BY <1>1, <1>2
<1>3. CASE /\ journal.last \in Ops /\ rec[journal.last].status = "running"
           /\ j = [journal EXCEPT !.phase = "indeterminate", !.bundle = "indeterminate"]
           /\ rs = [rec EXCEPT ![journal.last].status = "indeterminate"]
  <2>1. j.there = journal.there /\ j.fence = journal.fence /\ j.last = journal.last /\ j.active = journal.active
    BY <1>1, <1>3 DEF JournalSet
  <2>2. \A o \in Ops : /\ o # journal.last => rs[o] = rec[o]
                       /\ rs[o].kind = rec[o].kind /\ rs[o].fence = rec[o].fence /\ rs[o].run = rec[o].run
                       /\ o = journal.last => rs[o].status = "indeterminate"
    BY <1>1, <1>3 DEF RecordSet
  <2> QED
    BY <1>3, <2>1, <2>2
<1> QED
  BY <1>2, <1>3 DEF Read

\* An answer stays true when the controller only reads.
LEMMA ReadTold ==
  ASSUME IInv, NEW j \in JournalSet, NEW rs \in RecordSets, Read(j, rs),
         journal' = j, rec' = rs, op' = op, busy' = busy
  PROVE  /\ \A o \in Ops : Begun_(o)' <=> Begun_(o)
         /\ \A o \in Ops, a \in Answers : TrueAnswer(o, a) => TrueAnswer(o, a)'
         /\ (\A o \in Ops : Recorded(o)') /\ JournalLast' /\ Receipts'
<1>0. /\ Fields /\ Told
      /\ \A o \in Ops : op[o].ans \in Answers
  BY FieldTypes, Types DEF IInv, Told, ApiTypes, RowSet
<1>1. \A o \in Ops : Begun_(o)' <=> Begun_(o)
  BY ReadKeeps DEF Begun_
<1>2. ASSUME NEW o \in Ops, NEW a \in Answers, TrueAnswer(o, a)  PROVE TrueAnswer(o, a)'
  <2>1. CASE op[o].kind \in Looks
    <3>1. Calm(o) => Calm(o)'
      BY <1>1, ReadKeeps DEF Calm
    <3> QED
      BY <1>2, <2>1, <3>1 DEF TrueAnswer
  <2>2. CASE op[o].kind \notin Looks
    BY <1>2, <2>2, ReadKeeps DEF TrueAnswer
  <2> QED BY <2>1, <2>2
<1>3. ASSUME NEW o \in Ops  PROVE Recorded(o)'
  BY <1>0, <1>1, ReadKeeps DEF Told, Recorded, Begun_, Exists
<1>4. JournalLast'
  BY <1>0, <1>1, ReadKeeps DEF Told, JournalLast
<1>5. Receipts'
  BY <1>0, <1>2 DEF Told, Receipts
<1> QED
  BY <1>1, <1>2, <1>3, <1>4, <1>5

\* A request that is answered at once, or waits, keeps what is known.
LEMMA ToldSettles ==
  ASSUME IInv, TypeOK', NEW m \in inbox, NEW j \in JournalSet, NEW rs \in RecordSets,
         NEW a \in Answers, Settles(m, a, j, rs)
  PROVE  Told'
<1>f. Fields /\ Fields' /\ Told /\ m.op \in Ops /\ OnItsWay(m)
  BY FieldTypes DEF IInv, Told, Fields
<1>0. op' = op /\ busy' = busy /\ inbox' = inbox \ {m} /\ journal' = j /\ rec' = rs /\ Read(j, rs)
  BY DEF Settles, apiVars
<1>1. /\ \A o \in Ops : Begun_(o)' <=> Begun_(o)
      /\ \A o \in Ops, b \in Answers : TrueAnswer(o, b) => TrueAnswer(o, b)'
      /\ (\A o \in Ops : Recorded(o)') /\ JournalLast' /\ Receipts'
  BY <1>0, ReadTold
<1>2. \A o \in Ops : NoMessage(o) => NoMessage(o)'
  BY <1>0 DEF NoMessage
<1>3. op[m.op].kind \in Once => NoMessage(m.op)' /\ busy.op # m.op /\ ~Begun_(m.op)
  <2>1. op[m.op].kind \in Once => NoMessage(m.op)'
    BY <1>0, OnlyMessage DEF NoMessage
  <2> QED
    BY <1>f, <2>1 DEF Told, Served, NoMessage, OnItsWay, Ops, NoOp
<1>4. \A d \in callers' : \E c \in callers :
        d = IF c.op = m.op /\ c.try = m.try THEN [c EXCEPT !.ans = a] ELSE c
  BY DEF Settles, Reply
<1>5. \A c \in callers : [c EXCEPT !.ans = a].op = c.op /\ [c EXCEPT !.ans = a].fence = c.fence
                         /\ [c EXCEPT !.ans = a].try = c.try /\ [c EXCEPT !.ans = a].ans = a
                         /\ c.ans \in Answers
  BY Types DEF IInv, WireTypes, CallerSet
<1>6. ASSUME NEW d \in callers'  PROVE Awaits(d)'
  <2>1. PICK c \in callers : d = IF c.op = m.op /\ c.try = m.try THEN [c EXCEPT !.ans = a] ELSE c
    BY <1>4
  <2>2. d.op = c.op /\ d.fence = c.fence /\ d.try = c.try /\ Awaits(c) /\ c.op \in Ops
    BY <1>f, <1>5, <2>1 DEF Told, Fields
  <2>3. op[d.op].kind # "release" => \A e \in callers' : e.op = d.op => e = d
    <3> SUFFICES ASSUME op[d.op].kind # "release", NEW e \in callers', e.op = d.op PROVE e = d
      OBVIOUS
    <3>1. PICK b \in callers : e = IF b.op = m.op /\ b.try = m.try THEN [b EXCEPT !.ans = a] ELSE b
      BY <1>4
    <3>2. b = c
      BY <1>5, <2>2, <3>1 DEF Awaits
    <3> QED
      BY <2>1, <3>1, <3>2
  <2>4. CASE ~(c.op = m.op /\ c.try = m.try)
    <3>1. d = c
      BY <2>1, <2>4
    <3> QED
      BY <1>0, <1>1, <1>2, <1>5, <2>2, <2>3, <3>1 DEF Awaits
  <2>5. CASE c.op = m.op /\ c.try = m.try
    <3>1. d.ans = a /\ d.op = m.op /\ c.fence = m.fence
      BY <1>5, <1>f, <2>1, <2>5 DEF OnItsWay
    <3>2. a.is = "ok" => TrueAnswer(m.op, a)
      BY <2>2, <2>5, <3>1 DEF Settles, TrueAnswer, Looks, Awaits
    <3>3. a.is = "wait" => op[m.op].kind \in {"ensure", "wake"}
      BY DEF Settles
    <3> QED
      BY <1>0, <1>1, <1>3, <1>f, <2>2, <2>3, <3>1, <3>2, <3>3 DEF Awaits
  <2> QED BY <2>4, <2>5
<1>7. \A d \in callers' : \E c \in callers : c.op = d.op /\ c.try = d.try /\ c.fence = d.fence
  <2> SUFFICES ASSUME NEW d \in callers'
               PROVE  \E c \in callers : c.op = d.op /\ c.try = d.try /\ c.fence = d.fence
    OBVIOUS
  <2>1. PICK c \in callers : d = IF c.op = m.op /\ c.try = m.try THEN [c EXCEPT !.ans = a] ELSE c
    BY <1>4
  <2>2. c.op = d.op /\ c.try = d.try /\ c.fence = d.fence
    BY <1>5, <2>1
  <2> QED
    BY <2>2
<1>8. ASSUME NEW n \in inbox'  PROVE OnItsWay(n)'
  BY <1>0, <1>1, <1>7, <1>f DEF Told, OnItsWay, Fields
<1>9. Served'
  <2>1. CASE busy.op = NoOp
    BY <1>0, <1>f, <2>1 DEF Told, Served
  <2>2. CASE busy.op # NoOp
    BY <1>0, <1>2, <1>7, <1>f, <2>2, ReadKeeps DEF Told, Served, Fields
  <2> QED BY <2>1, <2>2
<1> QED
  BY <1>1, <1>6, <1>8, <1>9 DEF Told

\* So does a wake that waits for the lock.
LEMMA ToldQueues ==
  ASSUME IInv, TypeOK', NEW m \in inbox, NEW j \in JournalSet, NEW rs \in RecordSets, Queues(m, j, rs)
  PROVE  Told'
<1>f. Fields /\ Fields' /\ Told /\ m.op \in Ops /\ OnItsWay(m) /\ op[m.op].kind = "wake"
  BY FieldTypes DEF IInv, Told, Fields, Queues
<1>0. op' = op /\ busy' = busy /\ callers' = callers /\ journal' = j /\ rec' = rs /\ Read(j, rs)
  BY DEF Queues, apiVars
<1>1. /\ \A o \in Ops : Begun_(o)' <=> Begun_(o)
      /\ \A o \in Ops, b \in Answers : TrueAnswer(o, b) => TrueAnswer(o, b)'
      /\ (\A o \in Ops : Recorded(o)') /\ JournalLast' /\ Receipts'
  BY <1>0, ReadTold
<1>2. \A n \in inbox' : \/ n \in inbox
                        \/ n.op = m.op /\ n.fence = m.fence /\ n.try = m.try
  BY Types DEF Queues, IInv, WireTypes, Requests
<1>3. \A o \in Ops : op[o].kind \in Once /\ NoMessage(o) => NoMessage(o)'
  BY <1>2, <1>f DEF NoMessage, Once
<1>4. ASSUME NEW c \in callers'  PROVE Awaits(c)'
  <2>1. c.ans \in Answers /\ c.op \in Ops /\ Awaits(c)
    BY <1>0, <1>f, Types DEF IInv, WireTypes, CallerSet, Told
  <2> QED
    BY <1>0, <1>1, <1>3, <2>1 DEF Awaits
<1>5. ASSUME NEW n \in inbox'  PROVE OnItsWay(n)'
  <2>1. CASE n \in inbox
    BY <1>0, <1>1, <1>f, <2>1 DEF Told, OnItsWay, Fields
  <2>2. CASE n.op = m.op /\ n.fence = m.fence /\ n.try = m.try
    BY <1>0, <1>f, <2>2 DEF OnItsWay, Once
  <2> QED BY <1>2, <2>1, <2>2
<1>6. Served'
  <2>1. CASE busy.op = NoOp
    BY <1>0, <1>f, <2>1 DEF Told, Served
  <2>2. CASE busy.op # NoOp
    BY <1>0, <1>3, <1>f, <2>2, ReadKeeps DEF Told, Served, Fields
  <2> QED BY <2>1, <2>2
<1> QED
  BY <1>1, <1>4, <1>5, <1>6 DEF Told


\* What is begun is known at the fence of its row, and so is nothing else of it.
LEMMA ToldBegins ==
  ASSUME IInv, TypeOK', NEW m \in inbox, NEW j \in JournalSet, NEW rs \in RecordSets,
         NEW run \in Run \cup {NoRun}, Begins(m, j, rs, run)
  PROVE  Told'
<1>f. Fields /\ Fields' /\ Told /\ m.op \in Ops /\ OnItsWay(m) /\ Row(m.op)
  BY FieldTypes DEF IInv, Told, Fields, Queued
<1>0. /\ op' = op /\ inbox' = inbox \ {m} /\ callers' = callers /\ Read(j, rs) /\ busy = Idle
      /\ busy' = [op |-> m.op, fence |-> m.fence, try |-> m.try, was |-> j.bundle, run |-> run]
  BY DEF Begins, Serve, apiVars
<1>1. /\ \A o \in Ops \ {m.op} : rec'[o] = rs[o]
      /\ rec'[m.op] = [kind |-> RecKind(op[m.op].kind), fence |-> m.fence, run |-> run, status |-> "running"]
  BY <1>f DEF Begins, BegunRec, RecordSets
<1>2. journal'.there /\ journal'.fence = m.fence /\ journal'.last = m.op /\ journal'.active = journal.active
  BY ReadKeeps DEF Begins, Begun, JournalSet
<1>3. \A o \in Ops : rec[o].status # "none" =>
        m.fence >= journal.fence /\ (m.fence = journal.fence => m.op = journal.last)
  <2> SUFFICES ASSUME NEW o \in Ops, Begun_(o)
               PROVE  m.fence >= journal.fence /\ (m.fence = journal.fence => m.op = journal.last)
    BY DEF Begun_
  <2>1. journal.there /\ journal.last \in Ops
    BY <1>f DEF Told, JournalLast
  <2>2. j.there = journal.there /\ j.fence = journal.fence /\ j.last = journal.last
    BY <1>0, ReadKeeps
  <2>3. j.there => m.fence >= j.fence /\ (m.fence = j.fence /\ j.last # NoOp => m.op = j.last)
    BY DEF Begins
  <2> QED
    BY <2>1, <2>2, <2>3 DEF NoOp, Ops
<1>4. /\ \A o \in Ops \ {m.op} : Begun_(o)' <=> Begun_(o)
      /\ Begun_(m.op)'
  BY <1>0, <1>1, ReadKeeps DEF Begun_
<1>5. op[m.op].kind \in Once => NoMessage(m.op)' /\ ~Begun_(m.op)
  <2>1. op[m.op].kind \in Once => NoMessage(m.op)'
    BY <1>0, OnlyMessage DEF NoMessage
  <2> QED
    BY <1>f, <2>1 DEF OnItsWay
<1>6. ASSUME NEW o \in Ops, NEW a \in Answers, TrueAnswer(o, a), o # m.op  PROVE TrueAnswer(o, a)'
  <2>1. CASE op[o].kind \in Looks
    <3>1. Calm(o) => Calm(o)'
      BY <1>0, <1>1, <1>2, <1>4, <1>6, ReadKeeps DEF Calm
    <3> QED
      BY <1>0, <1>6, <2>1, <3>1 DEF TrueAnswer
  <2>2. CASE op[o].kind \notin Looks
    BY <1>0, <1>1, <1>6, <2>2, ReadKeeps DEF TrueAnswer
  <2> QED BY <2>1, <2>2
<1>7. ASSUME NEW c \in callers'  PROVE Awaits(c)'
  <2>1. c \in callers /\ c.ans \in Answers /\ c.op \in Ops /\ Awaits(c)
    BY <1>0, <1>f, Types DEF IInv, WireTypes, CallerSet, Told
  <2>2. NoMessage(c.op) => NoMessage(c.op)'
    BY <1>0 DEF NoMessage
  <2>3. CASE c.op # m.op
    BY <1>0, <1>4, <1>6, <2>1, <2>2, <2>3 DEF Awaits
  <2>4. CASE c.op = m.op
    <3>1. op[m.op].kind \in Once => c.ans.is = "none"
      BY <2>1, <2>4 DEF Awaits, NoMessage
    <3>2. op[m.op].kind \notin Once => c.ans.is # "ok"
      BY <2>1, <2>4, BegunAgain DEF Awaits
    <3> QED
      BY <1>0, <2>1, <2>4, <3>1, <3>2 DEF Awaits
  <2> QED BY <2>3, <2>4
<1>8. ASSUME NEW n \in inbox'  PROVE OnItsWay(n)'
  <2>1. n \in inbox /\ n # m /\ OnItsWay(n) /\ n.op \in Ops
    BY <1>0, <1>f DEF Told, Fields
  <2>2. op[n.op].kind \in Once => n.op # m.op
    BY <2>1, OnlyMessage
  <2> QED
    BY <1>0, <1>4, <2>1, <2>2 DEF OnItsWay
<1>9. ASSUME NEW o \in Ops  PROVE Recorded(o)'
  <2>1. Recorded(o)
    BY <1>f DEF Told
  <2>2. CASE o # m.op
    <3>0. rec'[o] = rs[o] /\ (rec[o].status = "none" => rs[o] = rec[o])
      BY <1>0, <1>1, <2>2, ReadKeeps
    <3>1. ~Begun_(o) => rec'[o] = NoRecord
      BY <2>1, <3>0 DEF Recorded, Begun_
    <3>2. Begun_(o) => rec[o].fence <= m.fence /\ (rec[o].fence = m.fence => m.op = o)
      <4>1. rec[o].fence \in Nat /\ journal.fence \in Nat /\ m.fence \in Nat
        BY <1>f DEF Fields
      <4>2. Begun_(o) => m.fence >= journal.fence /\ (m.fence = journal.fence => m.op = journal.last)
        BY <1>3 DEF Begun_
      <4>3. Begun_(o) => rec[o].fence <= journal.fence /\ (rec[o].fence = journal.fence => journal.last = o)
        BY <2>1 DEF Recorded
      <4> QED
        BY <4>1, <4>2, <4>3
    <3> QED
      BY <1>0, <1>1, <1>2, <1>4, <2>1, <2>2, <3>1, <3>2, ReadKeeps DEF Recorded, Exists
  <2>3. CASE o = m.op
    <3>1. Exists(o) /\ op[o].kind \in Kinds
      BY <1>f, <2>3 DEF OnItsWay, Row, Exists, Fields
    <3>2. op[o].kind \in {"ensure", "wake"} => run = op[o].run
      BY <2>3 DEF Begins, BegunFor
    <3>3. m.fence > 0 /\ m.fence <= op[o].fence /\ (op[o].kind # "wake" => m.fence = op[o].fence)
          /\ (op[o].kind \in Once => op[o].status \in {"running", "indeterminate", "completed"})
      BY <1>f, <2>3 DEF OnItsWay
    <3> QED
      BY <1>0, <1>1, <1>2, <1>4, <1>f, <2>3, <3>1, <3>2, <3>3 DEF Recorded, Exists, Fields
  <2> QED BY <2>2, <2>3
<1>10. JournalLast'
  BY <1>1, <1>2, <1>4, <1>f DEF JournalLast
<1>11. Served'
  BY <1>0, <1>1, <1>2, <1>5, <1>f DEF Served, OnItsWay, NoOp, Ops
<1>12. ASSUME NEW o \in Ops, op[o].status = "completed"  PROVE TrueAnswer(o, op[o].ans)'
  <2>1. TrueAnswer(o, op[o].ans) /\ op[o].ans \in Answers
    BY <1>12, <1>f, Types DEF Told, Receipts, IInv, ApiTypes, RowSet
  <2>2. CASE o # m.op
    <3>1. PICK a \in Answers : a = op[o].ans
      BY <2>1
    <3>2. TrueAnswer(o, a)'
      BY <1>6, <2>1, <2>2, <3>1
    <3> QED
      BY <1>0, <3>1, <3>2
  <2>3. CASE o = m.op
    <3>1. op[m.op].kind \notin Once
      BY <1>12, <1>f, <2>3 DEF OnItsWay
    <3> QED
      BY <2>1, <2>3, <3>1, BegunAgain
  <2> QED BY <2>2, <2>3
<1> QED
  BY <1>0, <1>7, <1>8, <1>9, <1>10, <1>11, <1>12 DEF Told, Receipts

\* What ends was the last thing begun: its answer is true, and no other of it was given.
LEMMA ToldEnds ==
  ASSUME IInv, TypeOK', NEW a \in Answers, NEW status, Ends(status, a)
  PROVE  Told'
<1>f. Fields /\ Fields' /\ Told /\ Served
  BY FieldTypes DEF IInv, Told
<1>0. op' = op /\ inbox' = inbox /\ busy' = Idle /\ busy.op \in Ops /\ busy.op # NoOp
  BY <1>f DEF Ends, apiVars, Served, Fields
<1>x. PICK x \in Ops : x = busy.op
  BY <1>0
<1>1. /\ \A o \in Ops \ {busy.op} : rec'[o] = rec[o]
      /\ rec'[busy.op].kind = rec[busy.op].kind /\ rec'[busy.op].fence = rec[busy.op].fence
      /\ rec'[busy.op].run = rec[busy.op].run /\ rec'[busy.op].status = status
      /\ rec[busy.op].status \in {"running", "indeterminate"} /\ status # "none"
  BY <1>0, <1>f, Types DEF Ends, IInv, CtrlTypes, RecordSet, Served
<1>2. /\ journal.there /\ journal.last = busy.op /\ journal.fence = busy.fence /\ rec[busy.op].fence = busy.fence
      /\ journal'.there = journal.there /\ journal'.last = journal.last /\ journal'.fence = journal.fence
  BY <1>0, <1>f DEF Ends, Served
<1>3. \A o \in Ops : Begun_(o)' <=> Begun_(o)
  BY <1>0, <1>1 DEF Begun_
<1>4. \A o \in Ops : NoMessage(o) <=> NoMessage(o)'
  BY <1>0 DEF NoMessage
<1>5. Idle.op = NoOp
  BY DEF Idle
<1>6. ASSUME NEW o \in Ops, NEW b \in Answers, TrueAnswer(o, b), o # x  PROVE TrueAnswer(o, b)'
  <2>1. CASE op[o].kind \in Looks
    <3>1. Calm(o) => Calm(o)'
      BY <1>0, <1>1, <1>2, <1>3, <1>5, <1>6, <1>x DEF Calm, NoOp, Ops
    <3> QED
      BY <1>0, <1>6, <2>1, <3>1 DEF TrueAnswer
  <2>2. CASE op[o].kind \notin Looks
    BY <1>0, <1>1, <1>6, <1>x, <2>2 DEF TrueAnswer
  <2> QED BY <2>1, <2>2
<1>7. Recorded(x) /\ Exists(x) /\ op[x].kind \in Kinds /\ rec[x].kind = RecKind(op[x].kind)
  BY <1>0, <1>1, <1>f, <1>x DEF Told, Recorded, Begun_, Fields, Exists
<1>8. \A b : op[x].kind \notin Looks => ~TrueAnswer(x, b)
  BY <1>1, <1>x DEF TrueAnswer
<1>9. \A d \in callers' : \E c \in callers :
        d = IF c.op = x /\ c.try = busy.try THEN [c EXCEPT !.ans = a] ELSE c
  BY <1>x DEF Ends, Reply
<1>10. \A c \in callers : [c EXCEPT !.ans = a].op = c.op /\ [c EXCEPT !.ans = a].fence = c.fence
                          /\ [c EXCEPT !.ans = a].try = c.try /\ [c EXCEPT !.ans = a].ans = a
                          /\ c.ans \in Answers
  BY Types DEF IInv, WireTypes, CallerSet
<1>11. ASSUME NEW d \in callers'  PROVE Awaits(d)'
  <2>1. PICK c \in callers : d = IF c.op = x /\ c.try = busy.try THEN [c EXCEPT !.ans = a] ELSE c
    BY <1>9
  <2>2. d.op = c.op /\ d.fence = c.fence /\ d.try = c.try /\ Awaits(c) /\ c.op \in Ops
    BY <1>f, <1>10, <2>1 DEF Told, Fields
  <2>3. op[d.op].kind # "release" => \A e \in callers' : e.op = d.op => e = d
    <3> SUFFICES ASSUME op[d.op].kind # "release", NEW e \in callers', e.op = d.op PROVE e = d
      OBVIOUS
    <3>1. PICK b \in callers : e = IF b.op = x /\ b.try = busy.try THEN [b EXCEPT !.ans = a] ELSE b
      BY <1>9
    <3>2. b = c
      BY <1>10, <2>2, <3>1 DEF Awaits
    <3> QED
      BY <2>1, <3>1, <3>2
  <2>4. CASE c.op # x
    <3>1. d = c
      BY <2>1, <2>4
    <3> QED
      BY <1>0, <1>3, <1>4, <1>5, <1>6, <1>10, <2>2, <2>3, <2>4, <3>1 DEF Awaits, NoOp, Ops
  <2>5. CASE c.op = x /\ c.try # busy.try
    <3>1. d = c
      BY <2>1, <2>5
    <3>2. op[c.op].kind \in Once => c.ans.is = "none"
      BY <1>x, <2>2, <2>5 DEF Awaits
    <3>3. op[c.op].kind \notin Once => c.ans.is # "ok"
      BY <1>8, <2>2, <2>5 DEF Awaits, Once, Looks
    <3> QED
      BY <1>0, <2>2, <2>3, <3>1, <3>2, <3>3 DEF Awaits
  <2>6. CASE c.op = x /\ c.try = busy.try
    <3>0. d = [c EXCEPT !.ans = a] /\ c.op = busy.op
      BY <1>x, <2>1, <2>6
    <3>1. d.ans = a /\ d.op = x /\ c.fence = busy.fence /\ rec[x].fence = op[x].fence
      <4>1. c.fence = busy.fence
        BY <1>0, <1>f, <2>6, <3>0 DEF Served
      <4>2. c.fence = op[x].fence
        BY <2>2, <2>6 DEF Awaits
      <4> QED
        BY <1>2, <1>10, <1>x, <2>2, <2>6, <3>0, <4>1, <4>2
    <3>2. a.is \in {"ok", "error", "rejected"}
      BY DEF Ends
    <3>3. a.is = "ok" => TrueAnswer(x, a)'
      <4>1. CASE op[x].kind \in Looks
        <5> SUFFICES ASSUME a.proof, a.quiet, a.active = NoRun PROVE Calm(x)'
          BY <1>0, <4>1 DEF TrueAnswer
        <5> QED
          BY <1>0, <1>1, <1>5, <1>x, <3>1 DEF Ends, Calm, Begun_
      <4>2. CASE op[x].kind \notin Looks
        <5>1. rec[x].kind # "reconcile"
          BY <1>7, <4>2 DEF RecKind, Looks
        <5> QED
          BY <1>0, <1>1, <1>x, <3>1, <4>2, <5>1 DEF Ends, TrueAnswer
      <4> QED BY <4>1, <4>2
    <3>4. op[x].kind \in Once => NoMessage(x)'
      BY <1>0, <1>4, <1>f, <1>x DEF Served
    <3>5. busy'.op # x
      BY <1>0, <1>5, <1>x
    <3> QED
      BY <1>0, <2>2, <2>3, <2>6, <3>1, <3>2, <3>3, <3>4, <3>5 DEF Awaits
  <2> QED BY <2>4, <2>5, <2>6
<1>12. \A d \in callers' : \E c \in callers : c.op = d.op /\ c.try = d.try /\ c.fence = d.fence
  <2> SUFFICES ASSUME NEW d \in callers'
               PROVE  \E c \in callers : c.op = d.op /\ c.try = d.try /\ c.fence = d.fence
    OBVIOUS
  <2>1. PICK c \in callers : d = IF c.op = x /\ c.try = busy.try THEN [c EXCEPT !.ans = a] ELSE c
    BY <1>9
  <2>2. c.op = d.op /\ c.try = d.try /\ c.fence = d.fence
    BY <1>10, <2>1
  <2> QED
    BY <2>2
<1>13. ASSUME NEW n \in inbox'  PROVE OnItsWay(n)'
  BY <1>0, <1>3, <1>12, <1>f DEF Told, OnItsWay, Fields
<1>14. ASSUME NEW o \in Ops  PROVE Recorded(o)'
  BY <1>0, <1>1, <1>2, <1>3, <1>f DEF Told, Recorded, Begun_, Exists
<1>15. JournalLast'
  BY <1>0, <1>1, <1>2, <1>3, <1>f DEF Told, JournalLast
<1>16. Served'
  BY <1>0, <1>5 DEF Served
<1>17. ASSUME NEW o \in Ops, op[o].status = "completed"  PROVE TrueAnswer(o, op[o].ans)'
  <2>1. TrueAnswer(o, op[o].ans) /\ op[o].ans \in Answers
    BY <1>17, <1>f, Types DEF Told, Receipts, IInv, ApiTypes, RowSet
  <2>2. CASE o # x
    <3>1. PICK b \in Answers : b = op[o].ans
      BY <2>1
    <3>2. TrueAnswer(o, b)'
      BY <1>6, <2>1, <2>2, <3>1
    <3> QED
      BY <1>0, <3>1, <3>2
  <2>3. CASE o = x
    BY <1>0, <1>8, <1>17, <1>f, <1>x, <2>1, <2>3 DEF Served, Once, Looks
  <2> QED BY <2>2, <2>3
<1> QED
  BY <1>0, <1>11, <1>13, <1>14, <1>15, <1>16, <1>17 DEF Told, Receipts

\* Every move keeps what is known.
LEMMA ToldByMoves ==
  ASSUME IInv, TypeOK', Moves
  PROVE  Told'
<1>f. Fields /\ Told /\ Idle.op = NoOp
  BY FieldTypes DEF IInv, Told, Idle
<1>1. CASE Crashes
  <2>1. /\ op' = op /\ callers' = callers /\ journal' = journal /\ rec' = rec
        /\ inbox' = {} /\ busy' = Idle
    BY <1>1 DEF Crashes, apiVars
  <2>2. ASSUME NEW c \in callers  PROVE Awaits(c)'
    <3>1. Awaits(c) /\ c.op \in Ops
      BY <1>f DEF Told, Fields
    <3>2. TrueAnswer(c.op, c.ans) => TrueAnswer(c.op, c.ans)'
      BY <1>f, <2>1, <3>1 DEF TrueAnswer, Calm, Begun_, NoOp, Ops
    <3> QED
      BY <1>f, <2>1, <3>1, <3>2 DEF Awaits, NoMessage, Begun_, NoOp, Ops
  <2>3. \A o \in Ops : Recorded(o)'
    BY <1>f, <2>1 DEF Told, Recorded, Begun_, Exists
  <2>4. JournalLast' /\ Served'
    BY <1>f, <2>1 DEF Told, JournalLast, Begun_, Served
  <2>5. Receipts'
    BY <1>f, <2>1 DEF Told, Receipts, TrueAnswer, Calm, Begun_, NoOp, Ops
  <2> QED
    BY <2>1, <2>2, <2>3, <2>4, <2>5 DEF Told
<1>2. CASE Rests
  BY <1>2, <1>f DEF Rests, apiVars, Told, Awaits, OnItsWay, Recorded, JournalLast, Served, Receipts,
     TrueAnswer, Calm, Begun_, NoMessage, Exists
<1> QED
  BY <1>1, <1>2, ToldSettles, ToldQueues, ToldBegins, ToldEnds DEF Moves

-----------------------------------------------------------------------------
\* The invariant is inductive.

\* It holds initially: nothing was ever said.
LEMMA InitIInv == Init => IInv
<1> SUFFICES ASSUME Init PROVE IInv
  OBVIOUS
<1>1. TypeOK
  <2>1. ApiTypes
    BY ConstantTypes DEF Init, ApiTypes
  <2>2. CtrlTypes
    BY ConstantTypes DEF Init, CtrlTypes, JournalSet, Bundles
  <2> QED
    BY <2>1, <2>2, Types, OperationBounds DEF Init, WireTypes
<1>2. Queued
  BY DEF Init, Queued, Row, OneActive, Ordered, NoRow, Active, Exists
<1>3. /\ \A o \in Ops : Recorded(o)
      /\ JournalLast /\ Served
  BY DEF Init, Recorded, JournalLast, Served, NoRecord, Begun_, Idle
<1>4. Receipts
  BY DEF Init, Receipts, NoRow
<1> QED
  BY <1>1, <1>2, <1>3, <1>4 DEF IInv, Init

\* Every step keeps the invariant.
LEMMA NextIInv == IInv /\ [Next]_vars => IInv'
<1> SUFFICES ASSUME IInv, [Next]_vars PROVE IInv'
  OBVIOUS
<1>0. TypeOK
  BY DEF IInv
<1>1. ASSUME \/ \E r \in Run : StartRun(r) \/ EndRun(r) \/ ReserveAdmission(r) \/ Recovery(r)
             \/ ReserveWake
             \/ \E o \in Ops : Queue(o)
             \/ \E c \in callers : Caller(c)
      PROVE IInv'
  <2>1. Writes /\ TypeOK'
    BY <1>0, <1>1, ApiWrites, ApiTyped DEF IInv
  <2> QED
    BY <2>1, QueuedKept, ToldByWrites DEF IInv, Told
<1>2. ASSUME (\E m \in inbox : Serving(m)) \/ Finish \/ Host
      PROVE IInv'
  <2>1. Moves /\ TypeOK'
    BY <1>0, <1>2, ControllerMoves
  <2>2. UNCHANGED apiVars
    <3>1. ASSUME NEW m \in inbox, NEW j, NEW rs, NEW a, Settles(m, a, j, rs) \/ Queues(m, j, rs)
          PROVE  UNCHANGED apiVars
      BY <3>1 DEF Settles, Queues
    <3>2. ASSUME NEW m \in inbox, NEW j, NEW rs, NEW run, Begins(m, j, rs, run)
          PROVE  UNCHANGED apiVars
      BY <3>2 DEF Begins, Serve
    <3>3. ASSUME NEW a, NEW status, Ends(status, a)
          PROVE  UNCHANGED apiVars
      BY <3>3 DEF Ends
    <3>4. Crashes \/ Rests => UNCHANGED apiVars
      BY DEF Crashes, Rests
    <3> QED
      BY <2>1, <3>1, <3>2, <3>3, <3>4 DEF Moves
  <2>3. Queued'
    BY <2>2 DEF IInv, apiVars, Queued, Row, OneActive, Ordered, Exists
  <2> QED
    BY <2>1, <2>3, ToldByMoves DEF IInv, Told
<1>3. ASSUME UNCHANGED vars
      PROVE IInv'
  <2>1. Rests /\ TypeOK'
    BY <1>0, <1>3, Types DEF vars, apiVars, ctrlVars, Rests, ApiTypes, WireTypes, CtrlTypes
  <2>2. Queued'
    BY <2>1 DEF IInv, Rests, apiVars, Queued, Row, OneActive, Ordered, Exists
  <2> QED
    BY <2>1, <2>2, ToldByMoves DEF IInv, Told, Moves
<1> QED
  BY <1>1, <1>2, <1>3 DEF Next

\* A row says completed only of what the controller applied at the row's own fence: no
\* late, stale or repeated answer passes for it.
THEOREM ReceiptsHold == Spec => []ReceiptsAreTrue
<1>1. IInv => ReceiptsAreTrue
  BY DEF IInv, Receipts, TrueAnswer, ReceiptsAreTrue, Completed, Looks
<1> QED
  BY <1>1, InitIInv, NextIInv, PTL DEF Spec

=============================================================================
