------------------------ MODULE GenerationUnitsProofs ------------------------
(***************************************************************************)
(* What a run is billed: proved of GenerationUnits for any number of runs, *)
(* projects, grants and plans, any prices and any wallet.                  *)
(*                                                                         *)
(* The first part leaves the allocation of units over grants opaque (IInv): *)
(* what it proves holds whatever the inventory answers.  The second part   *)
(* is the ledger (LInv): what holds, debits and open admissions take of a  *)
(* grant is never more than it has.                                        *)
(***************************************************************************)
EXTENDS GenerationUnits, FiniteSums, SequenceTheorems

-----------------------------------------------------------------------------
\* The invariant.

\* The rows of the runs, their bills and their holds; the units of a hold stay opaque.
HoldStates == {"none", "held", "consumed", "released"}
Shape ==
  /\ run \in [Runs -> Run] /\ intent \in [Runs -> Intent] /\ DOMAIN tx = Runs
  /\ hold = [r \in Runs |-> [state |-> hold[r].state, kind |-> hold[r].kind, alloc |-> hold[r].alloc]]
  /\ \A r \in Runs : hold[r].state \in HoldStates

Open(r)    == run[r].status \in {"reserving", "active"}
Proven(r)  == run[r].status = "completed" /\ run[r].published = "proven"
Sealed(r)  == intent[r].outcome # "none"
Decided(r) == hold[r].state \in {"consumed", "released"}

\* The bill of a run: nothing is held before it is admitted, a hold is settled by the
\* transaction that seals the bill, and the run that ended unsealed was cancelled.
Bill(r) ==
  /\ hold[r].state # "none" <=> run[r].status \notin {"none", "reserving"} /\ run[r].funding = "units"
  /\ Decided(r) => Sealed(r)
  /\ Sealed(r) => run[r].status \in Terminal /\ hold[r].state # "held"
  /\ run[r].status \in Terminal /\ ~Sealed(r) => run[r].status = "cancelled"
  /\ hold[r].state = "consumed" \/ intent[r].outcome = "billable" => Proven(r)
  /\ hold[r].state = "released" => ~Proven(r)

\* A project is worked on by one run, and a first build is asked for or paid only
\* while the project has no version and has not paid for one.
HasVersion(r)  == run[r].status = "completed" /\ run[r].published # "none"
PaidInitial(r) == hold[r].state = "consumed" /\ hold[r].kind = "initial"
Fresh(p) == \A s \in Runs : run[s].project = p => ~HasVersion(s) /\ ~PaidInitial(s)
Pending(r) ==
  \/ run[r].status = "reserving" /\ run[r].funding = "units" /\ tx[r].kind = "initial"
  \/ run[r].status = "active" /\ hold[r].state = "held" /\ hold[r].kind = "initial"

SingleRun == \A r, s \in Runs : Open(r) /\ Open(s) /\ run[r].project = run[s].project => r = s
FirstOnly == \A r \in Runs : Pending(r) => Fresh(run[r].project)
PaidOnce  == \A r, s \in Runs :
  PaidInitial(r) /\ PaidInitial(s) /\ run[r].project = run[s].project => r = s

IInv == Shape /\ (\A r \in Runs : Bill(r)) /\ SingleRun /\ FirstOnly /\ PaidOnce

-----------------------------------------------------------------------------
\* What a step has to show.

\* Everything but r is left alone.
OnlyRun(r) ==
  \A s \in Runs \ {r} :
    run'[s] = run[s] /\ hold'[s] = hold[s] /\ intent'[s] = intent[s] /\ tx'[s] = tx[s]

\* The run moves on: it does not change its project, an ended run is only settled, and
\* a first build is asked for or paid only if it was asked for before.
MovesOn(r) ==
  /\ run'[r].project = run[r].project
  /\ Open(r)' => Open(r)
  /\ HasVersion(r)' => HasVersion(r) \/ Open(r)
  /\ Pending(r)' => Pending(r)
  /\ PaidInitial(r)' => PaidInitial(r) \/ Pending(r)

\* What a bill was found to be is final.
BillKept(r) ==
  /\ Decided(r) => hold'[r] = hold[r]
  /\ Sealed(r) => /\ intent'[r].outcome = intent[r].outcome /\ intent'[r].amount = intent[r].amount
                  /\ intent[r].settled => intent'[r].settled

\* The row before a run is admitted.
LEMMA NoRunType == NoRun \in Run
BY UnitBounds DEF NoRun, Run, NoProject, Modes

\* A write of the status changes nothing else of the row.
LEMMA StatusWritten ==
  ASSUME run \in [Runs -> Run], NEW r \in Runs, NEW s \in {"active"} \cup Terminal,
         run' = [run EXCEPT ![r].status = s]
  PROVE  /\ run' \in [Runs -> Run] /\ run'[r].status = s /\ run'[r].project = run[r].project
         /\ run'[r].funding = run[r].funding /\ run'[r].published = run[r].published
         /\ \A q \in Runs \ {r} : run'[q] = run[q]
<1>1. run[r] \in Run
  OBVIOUS
<1>2. [run[r] EXCEPT !.status = s] \in Run
  BY <1>1 DEF Run
<1> QED
  BY <1>1, <1>2 DEF Run

\* A request that is asking for a first build, or holds one, is open.
LEMMA PendingIsOpen ==
  \A r \in Runs : Pending(r) => Open(r)
BY DEF Pending, Open

\* One run moves on and the others are left alone: the invariant is kept.
LEMMA MoveKeeps ==
  ASSUME IInv, NEW r \in Runs, OnlyRun(r), MovesOn(r), Shape', Bill(r)'
  PROVE  IInv'
<1>1. \A s \in Runs : Bill(s)'
  BY DEF IInv, OnlyRun, Bill, Decided, Sealed, Proven
<1>2. SingleRun'
  BY DEF IInv, SingleRun, OnlyRun, MovesOn, Open
<1>3. FirstOnly'
  <2> SUFFICES ASSUME NEW s \in Runs, Pending(s)', NEW q \in Runs, run'[q].project = run'[s].project
               PROVE  ~HasVersion(q)' /\ ~PaidInitial(q)'
    BY DEF FirstOnly, Fresh
  <2>1. Pending(s) /\ Open(s) /\ run[q].project = run[s].project
    BY PendingIsOpen DEF OnlyRun, MovesOn, Pending
  <2>2. ~HasVersion(q) /\ ~PaidInitial(q)
    BY <2>1 DEF IInv, FirstOnly, Fresh
  <2>3. CASE q # r
    BY <2>2, <2>3 DEF OnlyRun, HasVersion, PaidInitial
  <2>4. CASE q = r /\ s # r
    <3>1. ~Open(r)
      BY <2>1, <2>4 DEF IInv, SingleRun
    <3> QED
      BY <2>2, <2>4, <3>1, PendingIsOpen DEF MovesOn
  <2>5. CASE q = r /\ s = r
    <3>1. Open(r)'
      BY <2>5 DEF Pending, Open
    <3>2. run'[r].status \notin Terminal
      BY <3>1 DEF Open, Terminal
    <3> QED
      BY <2>5, <3>2 DEF HasVersion, PaidInitial, Bill, Decided, Sealed, Terminal
  <2> QED
    BY <2>3, <2>4, <2>5
<1>4. PaidOnce'
  <2> SUFFICES ASSUME NEW s \in Runs \ {r}, PaidInitial(r)', PaidInitial(s)',
                      run'[r].project = run'[s].project
               PROVE  FALSE
    BY DEF IInv, PaidOnce, OnlyRun, PaidInitial
  <2>1. PaidInitial(s) /\ run[r].project = run[s].project /\ (PaidInitial(r) \/ Pending(r))
    BY DEF OnlyRun, MovesOn, PaidInitial
  <2> QED
    BY <2>1 DEF IInv, FirstOnly, Fresh, PaidOnce
<1> QED
  BY <1>1, <1>2, <1>3, <1>4 DEF IInv

-----------------------------------------------------------------------------
\* Admission.

\* An admission finds the project idle; a first build is asked for only if the
\* project has no version.
LEMMA BeginKeeps ==
  ASSUME IInv, NEW r \in Runs, NEW p \in Projects, NEW funding \in {"units", "rub", "free"},
         BeginAdmission(r, p, funding)
  PROVE  IInv' /\ \A s \in Runs : BillKept(s)
<1>1. /\ run[r].status = "none" /\ ~Busy(p) /\ UNCHANGED <<hold, intent>>
      /\ run' = [run EXCEPT ![r] = [NoRun EXCEPT !.status = "reserving", !.project = p,
                                                 !.funding = funding]]
  BY DEF BeginAdmission
<1>2. /\ DOMAIN tx' = Runs /\ \A s \in Runs \ {r} : tx'[s] = tx[s]
      /\ funding = "units" /\ tx'[r].kind = "initial" => IsInitial(p)
  <2>1. CASE UNCHANGED tx /\ funding # "units"
    BY <2>1 DEF IInv, Shape
  <2>2. ASSUME NEW alloc, tx' = [tx EXCEPT ![r] = [kind |-> IF IsInitial(p) THEN "initial" ELSE "edit",
                                                   alloc |-> alloc, adds |-> FreeGrants]]
        PROVE  /\ DOMAIN tx' = Runs /\ \A s \in Runs \ {r} : tx'[s] = tx[s]
               /\ tx'[r].kind = "initial" => IsInitial(p)
    BY <2>2 DEF IInv, Shape
  <2> QED
    BY <2>1, <2>2 DEF BeginAdmission
<1>3. /\ run'[r].status = "reserving" /\ run'[r].project = p /\ run'[r].funding = funding
      /\ \A s \in Runs \ {r} : run'[s] = run[s]
      /\ run' \in [Runs -> Run]
  <2>1. [NoRun EXCEPT !.status = "reserving", !.project = p, !.funding = funding] \in Run
    BY NoRunType DEF Run
  <2> QED
    BY <1>1, <2>1 DEF IInv, Shape, NoRun
<1>4. Shape' /\ \A s \in Runs : Bill(s)'
  BY <1>1, <1>2, <1>3 DEF IInv, Shape, Bill, Decided, Sealed, Proven, Terminal
<1>5. SingleRun'
  BY <1>1, <1>3 DEF IInv, SingleRun, Open, Busy
<1>6. FirstOnly'
  <2> SUFFICES ASSUME NEW s \in Runs, Pending(s)', NEW q \in Runs, run'[q].project = run'[s].project
               PROVE  ~HasVersion(q)' /\ ~PaidInitial(q)'
    BY DEF FirstOnly, Fresh
  <2>1. CASE q = r
    BY <1>1, <1>3, <2>1 DEF IInv, Bill, HasVersion, PaidInitial
  <2>2. CASE q # r /\ s # r
    BY <1>1, <1>2, <1>3, <2>2 DEF IInv, FirstOnly, Fresh, Pending, HasVersion, PaidInitial
  <2>3. CASE q # r /\ s = r
    <3>1. IsInitial(p) /\ run[q].project = p
      BY <1>2, <1>3, <2>3 DEF Pending
    <3>2. ~HasVersion(q) /\ ~PaidInitial(q)
      BY <3>1 DEF IsInitial, InitialUntilUnits, Delivered, HasVersion, PaidInitial
    <3> QED
      BY <1>1, <1>3, <2>3, <3>2 DEF HasVersion, PaidInitial
  <2> QED
    BY <2>1, <2>2, <2>3
<1>7. PaidOnce'
  BY <1>1, <1>3 DEF IInv, PaidOnce, PaidInitial, Bill
<1> QED
  BY <1>1, <1>4, <1>5, <1>6, <1>7 DEF IInv, BillKept

\* A hold is written with the run's admission; until then it has none.
LEMMA AdmitKeeps ==
  ASSUME IInv, NEW r \in Runs, Admit(r)
  PROVE  IInv' /\ \A s \in Runs : BillKept(s)
<1>1. /\ run[r].status = "reserving" /\ run' = [run EXCEPT ![r].status = "active"]
      /\ UNCHANGED intent /\ tx' = [tx EXCEPT ![r] = NoTx]
  BY DEF Admit
<1>2. \/ run[r].funding # "units" /\ hold' = hold
      \/ /\ run[r].funding = "units"
         /\ hold' = [hold EXCEPT ![r] = [state |-> "held", kind |-> tx[r].kind, alloc |-> tx[r].alloc]]
  BY DEF Admit
<1>3. hold[r].state = "none" /\ ~Sealed(r)
  BY <1>1 DEF IInv, Bill, Terminal
<1>4. /\ run' \in [Runs -> Run] /\ run'[r].status = "active" /\ run'[r].project = run[r].project
      /\ run'[r].funding = run[r].funding
  BY <1>1, StatusWritten DEF IInv, Shape
<1>5. OnlyRun(r) /\ Shape'
  BY <1>1, <1>2, <1>4 DEF IInv, Shape, OnlyRun, HoldStates
<1>6. \/ run[r].funding # "units" /\ hold'[r].state = "none"
      \/ run[r].funding = "units" /\ hold'[r].state = "held" /\ hold'[r].kind = tx[r].kind
  BY <1>2, <1>3 DEF IInv, Shape
<1>7. MovesOn(r) /\ Bill(r)'
  BY <1>1, <1>3, <1>4, <1>6 DEF MovesOn, Open, HasVersion, Pending, PaidInitial, Bill, Decided, Sealed, Proven, Terminal
<1> QED
  BY <1>1, <1>3, <1>5, <1>7, MoveKeeps DEF BillKept, OnlyRun, Decided, Sealed

\* A failed admission leaves nothing behind.
LEMMA AdmissionFailsKeeps ==
  ASSUME IInv, NEW r \in Runs, AdmissionFails(r)
  PROVE  IInv' /\ \A s \in Runs : BillKept(s)
<1>1. /\ run[r].status = "reserving" /\ run' = [run EXCEPT ![r] = NoRun]
      /\ UNCHANGED <<hold, intent>> /\ tx' = [tx EXCEPT ![r] = NoTx]
  BY DEF AdmissionFails
<1>2. hold[r].state = "none" /\ ~Sealed(r)
  BY <1>1 DEF IInv, Bill, Terminal
<1>3. run' \in [Runs -> Run] /\ run'[r].status = "none" /\ \A s \in Runs \ {r} : run'[s] = run[s]
  BY <1>1, NoRunType DEF IInv, Shape, NoRun
<1>4. Shape' /\ \A s \in Runs : Bill(s)'
  BY <1>1, <1>2, <1>3 DEF IInv, Shape, Bill, Decided, Sealed, Proven, Terminal
<1>5. SingleRun'
  BY <1>3 DEF IInv, SingleRun, Open
<1>6. FirstOnly'
  BY <1>1, <1>2, <1>3 DEF IInv, Shape, FirstOnly, Fresh, Pending, HasVersion, PaidInitial
<1>7. PaidOnce'
  BY <1>1, <1>2, <1>3 DEF IInv, PaidOnce, PaidInitial
<1> QED
  BY <1>1, <1>4, <1>5, <1>6, <1>7 DEF IInv, BillKept

-----------------------------------------------------------------------------
\* The run and its bill.

\* A receipt or a version leaves the bill alone: a sealed run gets no version.
LEMMA WorkKeeps ==
  ASSUME IInv, NEW r \in Runs,
         \/ RecordUsage(r)
         \/ \E published \in {"plain", "proven"}, mode \in Modes :
              record_accepted_candidate(r, published, mode)
  PROVE  IInv' /\ \A s \in Runs : BillKept(s)
<1>1. UNCHANGED <<hold, intent, tx>>
  BY DEF RecordUsage, record_accepted_candidate
<1>2. run[r] \in Run
  BY DEF IInv, Shape
<1>3. /\ run' \in [Runs -> Run] /\ run'[r].status = run[r].status /\ run'[r].project = run[r].project
      /\ run'[r].funding = run[r].funding
      /\ run'[r].published = run[r].published \/ run[r].status = "active"
      /\ \A q \in Runs \ {r} : run'[q] = run[q]
  <2>1. CASE RecordUsage(r)
    <3>1. run' = [run EXCEPT ![r].usage = @ + 1] /\ run[r].usage < MaxUsage
      BY <2>1 DEF RecordUsage
    <3>2. [run[r] EXCEPT !.usage = @ + 1] \in Run
      BY <1>2, <3>1, UnitBounds DEF Run
    <3> QED
      BY <1>2, <3>1, <3>2 DEF IInv, Shape, Run
  <2>2. CASE ~RecordUsage(r)
    <3>1. PICK published \in {"plain", "proven"}, mode \in Modes :
            record_accepted_candidate(r, published, mode)
      BY <2>2
    <3>2. run' = [run EXCEPT ![r].published = published, ![r].mode = mode] /\ run[r].status = "active"
      BY <3>1 DEF record_accepted_candidate
    <3>3. [[run[r] EXCEPT !.published = published] EXCEPT !.mode = mode] \in Run
      BY <1>2 DEF Run
    <3> QED
      BY <1>2, <3>2, <3>3 DEF IInv, Shape, Run
  <2> QED
    BY <2>1, <2>2
<1>4. Shape' /\ OnlyRun(r)
  BY <1>1, <1>3 DEF IInv, Shape, OnlyRun
<1>5. MovesOn(r) /\ Bill(r)'
  BY <1>1, <1>3 DEF IInv, MovesOn, Open, HasVersion, Pending, PaidInitial, Bill, Decided, Sealed, Proven, Terminal
<1> QED
  BY <1>1, <1>4, <1>5, MoveKeeps DEF BillKept

\* A bill is sealed once, and asks for roubles only of an eligible run.
LEMMA SealedBill ==
  ASSUME IInv, NEW r \in Runs, NEW status
  PROVE  LET sealed == SealedIntent(r, status)
         IN /\ sealed \in Intent /\ sealed.outcome # "none" /\ (Sealed(r) => sealed = intent[r])
            /\ sealed.outcome = "billable" => Sealed(r) \/ Eligible(r, status)
<1>1. intent[r] \in Intent /\ run[r].usage \in 0..MaxUsage
  BY DEF IInv, Shape, Run
<1>2. SealAgain(r, status) \in Intent /\ SealAgain(r, status).outcome # "none"
      /\ (SealAgain(r, status).outcome = "billable" => Eligible(r, status))
  <2>1. \A o \in {"billable", "waived"}, a \in 0..MaxUsage :
          LET i == [intent[r] EXCEPT !.outcome = o, !.amount = a] IN i \in Intent /\ i.outcome = o
    BY <1>1 DEF Intent
  <2>2. 0 \in 0..MaxUsage
    BY UnitBounds
  <2>3. CASE Eligible(r, status) /\ run[r].funding = "rub"
    BY <1>1, <2>1, <2>3 DEF SealAgain
  <2>4. CASE ~(Eligible(r, status) /\ run[r].funding = "rub")
    BY <2>1, <2>2, <2>4 DEF SealAgain
  <2> QED
    BY <2>3, <2>4
<1> QED
  BY <1>1, <1>2 DEF SealedIntent, Sealed

\* Sealing settles the hold of the run, if its bill was open.
LEMMA HoldSettled ==
  ASSUME IInv, NEW r \in Runs, NEW status, seal_terminal_locked(r, status)
  PROVE  /\ \A q \in Runs \ {r} : hold'[q] = hold[q]
         /\ hold' = [q \in Runs |-> [state |-> hold'[q].state, kind |-> hold'[q].kind, alloc |-> hold'[q].alloc]]
         /\ hold'[r].state \in HoldStates /\ hold'[r].kind = hold[r].kind
         /\ Sealed(r) \/ run[r].funding # "units" => hold' = hold
         /\ ~Sealed(r) /\ run[r].funding = "units" =>
              hold'[r].state = IF Eligible(r, status) THEN "consumed" ELSE "released"
BY DEF IInv, Shape, HoldStates, seal_terminal_locked, settle_generation_units, Sealed

\* The terminal transaction decides status, hold and bill together.
LEMMA TerminalizeKeeps ==
  ASSUME IInv, NEW r \in Runs, NEW status \in Endings, terminalize_generation_run_locked(r, status)
  PROVE  IInv' /\ \A s \in Runs : BillKept(s)
<1>1. /\ run[r].status = "active" /\ run' = [run EXCEPT ![r].status = status]
      /\ seal_terminal_locked(r, status)
      /\ intent' = [intent EXCEPT ![r] = SealedIntent(r, status)] /\ tx' = tx
      /\ status \in Terminal
  BY UnitBounds DEF terminalize_generation_run_locked, Terminal
<1>2. /\ run' \in [Runs -> Run] /\ run'[r].status = status /\ run'[r].project = run[r].project
      /\ run'[r].funding = run[r].funding /\ run'[r].published = run[r].published
      /\ \A q \in Runs \ {r} : run'[q] = run[q]
  BY <1>1, StatusWritten DEF IInv, Shape
<1>3. /\ intent' \in [Runs -> Intent] /\ \A q \in Runs \ {r} : intent'[q] = intent[q]
      /\ Sealed(r)' /\ (intent'[r].outcome = "billable" => Sealed(r) \/ Eligible(r, status))
  BY <1>1, SealedBill DEF IInv, Shape, Sealed
<1>4. /\ \A q \in Runs \ {r} : hold'[q] = hold[q]
      /\ hold' = [q \in Runs |-> [state |-> hold'[q].state, kind |-> hold'[q].kind, alloc |-> hold'[q].alloc]]
      /\ hold'[r].state \in HoldStates /\ hold'[r].kind = hold[r].kind
      /\ Sealed(r) \/ run[r].funding # "units" => hold' = hold
      /\ ~Sealed(r) /\ run[r].funding = "units" =>
           hold'[r].state = IF Eligible(r, status) THEN "consumed" ELSE "released"
  BY <1>1, HoldSettled
<1>5. ~Sealed(r) /\ ~Decided(r) /\ hold[r].state \in HoldStates
      /\ (run[r].funding # "units" <=> hold[r].state = "none")
  BY <1>1 DEF IInv, Shape, Bill, Terminal
<1>6. Shape' /\ OnlyRun(r)
  BY <1>1, <1>2, <1>3, <1>4 DEF IInv, Shape, OnlyRun
<1>7. Bill(r)'
  BY <1>1, <1>2, <1>3, <1>4, <1>5
     DEF Bill, Decided, Sealed, Proven, Terminal, Eligible, HoldStates
<1>8. MovesOn(r)
  BY <1>1, <1>2, <1>4, <1>5 DEF MovesOn, Open, HasVersion, Pending, PaidInitial, Terminal, Decided, HoldStates
<1> QED
  BY <1>5, <1>6, <1>7, <1>8, MoveKeeps DEF BillKept, OnlyRun

\* An activation is cancelled before its run has a version; its bill stays open.
LEMMA CancelActivationKeeps ==
  ASSUME IInv, NEW r \in Runs, CancelActivation(r)
  PROVE  IInv' /\ \A s \in Runs : BillKept(s)
<1>1. /\ run[r].status = "active" /\ run' = [run EXCEPT ![r].status = "cancelled"]
      /\ UNCHANGED <<hold, intent, tx>> /\ "cancelled" \in Terminal
  BY DEF CancelActivation, Terminal
<1>2. /\ run' \in [Runs -> Run] /\ run'[r].status = "cancelled" /\ run'[r].project = run[r].project
      /\ run'[r].funding = run[r].funding /\ run'[r].published = run[r].published
      /\ \A q \in Runs \ {r} : run'[q] = run[q]
  BY <1>1, StatusWritten DEF IInv, Shape
<1>3. Shape' /\ OnlyRun(r)
  BY <1>1, <1>2 DEF IInv, Shape, OnlyRun
<1>4. Bill(r)' /\ MovesOn(r)
  BY <1>1, <1>2 DEF IInv, Bill, Decided, Sealed, Proven, Terminal, MovesOn, Open, HasVersion, Pending, PaidInitial
<1> QED
  BY <1>1, <1>3, <1>4, MoveKeeps DEF BillKept

\* The tick seals what ended unsealed, which was cancelled, and debits what is owed.
LEMMA SettleKeeps ==
  ASSUME IInv, NEW r \in Runs, _settle_terminal_locked(r)
  PROVE  IInv' /\ \A s \in Runs : BillKept(s)
<1> DEFINE sealed == SealedIntent(r, run[r].status)
           pays   == sealed.outcome = "billable" /\ ~sealed.settled /\ Affordable(sealed.amount)
<1>1. /\ run[r].status \in Terminal /\ seal_terminal_locked(r, run[r].status)
      /\ intent' = [intent EXCEPT ![r] = [sealed EXCEPT !.settled = @ \/ pays]]
      /\ UNCHANGED <<run, tx>>
  BY DEF _settle_terminal_locked
<1>2. intent[r] \in Intent
  BY DEF IInv, Shape
<1>3. /\ sealed \in Intent /\ sealed.outcome # "none" /\ (Sealed(r) => sealed = intent[r])
      /\ sealed.outcome = "billable" => Sealed(r) \/ Eligible(r, run[r].status)
  BY <1>1, <1>2, SealedBill
<1> HIDE DEF sealed
<1>4. /\ intent' \in [Runs -> Intent] /\ \A q \in Runs \ {r} : intent'[q] = intent[q]
      /\ intent'[r].outcome = sealed.outcome /\ intent'[r].amount = sealed.amount
      /\ sealed.settled => intent'[r].settled
  <2>1. pays \in BOOLEAN /\ sealed.settled \in BOOLEAN
    BY <1>3 DEF Intent
  <2>2. [sealed EXCEPT !.settled = @ \/ pays] \in Intent
    BY <1>3, <2>1 DEF Intent
  <2> QED
    BY <1>1, <1>3, <2>1, <2>2 DEF IInv, Shape, Intent
<1>5. /\ \A q \in Runs \ {r} : hold'[q] = hold[q]
      /\ hold' = [q \in Runs |-> [state |-> hold'[q].state, kind |-> hold'[q].kind, alloc |-> hold'[q].alloc]]
      /\ hold'[r].state \in HoldStates /\ hold'[r].kind = hold[r].kind
      /\ Sealed(r) \/ run[r].funding # "units" => hold' = hold
      /\ ~Sealed(r) /\ run[r].funding = "units" =>
           hold'[r].state = IF Eligible(r, run[r].status) THEN "consumed" ELSE "released"
  BY <1>1, HoldSettled
<1>6. Shape' /\ OnlyRun(r)
  BY <1>1, <1>4, <1>5 DEF IInv, Shape, OnlyRun
<1>7. ~Sealed(r) => run[r].status = "cancelled" /\ ~Eligible(r, run[r].status) /\ ~Decided(r)
  BY <1>1 DEF IInv, Bill, Eligible
<1>8. Bill(r)'
  BY <1>1, <1>3, <1>4, <1>5, <1>7 DEF IInv, Bill, Decided, Sealed, Proven, Terminal, HoldStates
<1>9. MovesOn(r)
  BY <1>1, <1>3, <1>5, <1>7 DEF MovesOn, Open, HasVersion, Pending, PaidInitial, Terminal
<1>10. BillKept(r)
  BY <1>3, <1>4, <1>5, <1>7 DEF IInv, Bill, BillKept, Decided, Sealed
<1> QED
  BY <1>6, <1>8, <1>9, <1>10, MoveKeeps DEF BillKept, OnlyRun

-----------------------------------------------------------------------------
\* Every step.

\* Every step keeps the invariant and every bill that was sealed.
LEMMA UnitsStep == IInv /\ [Next]_vars => IInv' /\ \A r \in Runs : BillKept(r)
<1> SUFFICES ASSUME IInv, [Next]_vars PROVE IInv' /\ \A r \in Runs : BillKept(r)
  OBVIOUS
<1>1. CASE UNCHANGED <<run, tx, hold, intent>>
  BY <1>1 DEF IInv, Shape, Bill, Decided, Sealed, Proven, SingleRun, Open, FirstOnly, Fresh, Pending,
     HasVersion, PaidInitial, PaidOnce, BillKept
<1>2. CASE \/ UNCHANGED vars
           \/ \E package \in Packages : grant_payment_units(package)
           \/ \E metered \in BOOLEAN : grant_subscription_units(metered)
           \/ PeriodEnds \/ TopUp \/ exhaust_available_credits
           \/ \E d \in DOMAIN debits : restore_exhausted_credits(d)
  BY <1>1, <1>2 DEF vars, grant_payment_units, grant_subscription_units, PeriodEnds, TopUp,
     exhaust_available_credits, restore_exhausted_credits
<1>3. ASSUME NEW r \in Runs,
             Admit(r) \/ AdmissionFails(r) \/ RecordUsage(r) \/ CancelActivation(r)
             \/ _settle_terminal_locked(r)
      PROVE  IInv' /\ \A s \in Runs : BillKept(s)
  BY <1>3, AdmitKeeps, AdmissionFailsKeeps, WorkKeeps, CancelActivationKeeps, SettleKeeps
<1>4. ASSUME NEW r \in Runs, NEW published \in {"plain", "proven"}, NEW mode \in Modes,
             record_accepted_candidate(r, published, mode)
      PROVE  IInv' /\ \A s \in Runs : BillKept(s)
  BY <1>4, WorkKeeps
<1> QED
  BY <1>2, <1>3, <1>4, BeginKeeps, TerminalizeKeeps DEF Next

\* Nothing is billed before the first admission.
LEMMA UnitsInit == Init => IInv
BY NoRunType, UnitBounds
   DEF Init, IInv, Shape, NoRun, NoTx, NoHold, NoIntent, Intent, HoldStates, Bill, Decided, Sealed, Proven,
       Terminal, SingleRun, Open, FirstOnly, Pending, PaidOnce, PaidInitial

\* The invariant is one of the specification.
LEMMA UnitsAlways == Spec => []IInv
BY UnitsInit, UnitsStep, PTL DEF Spec

-----------------------------------------------------------------------------
\* The theorems.

\* Units are consumed and roubles asked for exactly for a completed run that published
\* a proven version; a run that was refused, stopped or failed gives its hold back,
\* also when the tick and not its own last transaction settles it
\* (generation_billing.py, settle_generation_units).
THEOREM ProvenIsPaid == Spec => []PaidForProvenOnly
<1>1. IInv => PaidForProvenOnly
  BY DEF IInv, Bill, Decided, Sealed, Proven, PaidForProvenOnly
<1> QED
  BY <1>1, UnitsAlways, PTL

\* The price of a first build is asked only while the project has no version, and it is
\* consumed at most once for a project: admissions of other runs, late settlements of
\* ended ones and changes of plan in between do not ask for it again
\* (generation_credits.py, _initial).
THEOREM FirstBuildPaidOnce == Spec => []InitialPaidOnce
<1>1. IInv => InitialPaidOnce
  BY DEF IInv, FirstOnly, Pending, Fresh, HasVersion, PaidInitial, PaidOnce, InitialPaidOnce, Delivered
<1> QED
  BY <1>1, UnitsAlways, PTL

\* A sealed bill is final: receipts that come late, a second look of the tick and a
\* changed plan alter neither its outcome nor its amount, a settled hold is not
\* settled otherwise and a debit is not forgotten (_settle_terminal_locked).
THEOREM SealedIsFinal == Spec => BillIsFinal
<1> DEFINE Final == \A r \in Runs :
       /\ hold[r].state \in {"consumed", "released"} => hold'[r] = hold[r]
       /\ intent[r].outcome # "none" =>
            /\ intent'[r].outcome = intent[r].outcome /\ intent'[r].amount = intent[r].amount
            /\ intent[r].settled => intent'[r].settled
<1>1. IInv /\ [Next]_vars => [Final]_vars
  BY UnitsStep DEF BillKept, Decided, Sealed
<1> QED
  BY <1>1, UnitsAlways, PTL DEF Spec, BillIsFinal

-----------------------------------------------------------------------------
\* The ledger.

\* What the holds take of a grant, what the debits do, and what it has to give.
Taken(g, h) == SumOf([r \in Runs |-> IF h[r].state \in {"held", "consumed"} THEN h[r].alloc[g] ELSE 0], Runs)
Debited(g, d) == SumOf([i \in DOMAIN d |-> IF d[i].reversed THEN 0 ELSE d[i].alloc[g]], DOMAIN d)
UnitsAt(g, stock) == IF g \in DOMAIN stock THEN stock[g].units ELSE 0

Debit == [alloc : Alloc, reversed : BOOLEAN]

\* The types IInv does not speak of.
Types ==
  /\ plan \in [period : 0..MaxPeriods, metered : BOOLEAN, over : BOOLEAN]
  /\ grants \in Seq(Grant) /\ debits \in Seq(Debit)
  /\ tx \in [Runs -> Tx] /\ hold \in [Runs -> Hold]
  /\ lock \subseteq Runs /\ wallet \in 0..MaxFunds

\* One admission at a time has the account.
Reserves(r) == run[r].status = "reserving"
Locked == /\ \A r \in Runs : Reserves(r) => r \in lock
          /\ \A r, s \in lock : r = s

\* The price of a run, in units of its bucket or in flexible ones, out of a stock.
Price(kind) == IF kind = "initial" THEN InitialUnits ELSE 1
Priced(kind, alloc, stock) ==
  LET from == {g \in Grants : alloc[g] > 0}
  IN /\ from \subseteq DOMAIN stock
     /\ IF \A g \in from : stock[g].bucket = "flexible"
        THEN SumOf(alloc, Grants) = Price(kind)
        ELSE /\ Cardinality(from) = 1 /\ SumOf(alloc, Grants) = 1
             /\ \A g \in from : stock[g].bucket \in {"edit_only", kind}
             /\ kind = "initial" => \A g \in from : stock[g].bucket = "initial"
Prices == \A r \in Runs : hold[r].state # "none" => Priced(hold[r].kind, hold[r].alloc, grants)

\* No grant is overspent, also counting what an open admission has been promised.
Solvent == \A g \in Grants : Taken(g, hold) + Debited(g, debits) <= UnitsAt(g, grants)
Promised(r) ==
  Reserves(r) /\ run[r].funding = "units" =>
    /\ \A g \in Grants : Taken(g, hold) + Debited(g, debits) + tx[r].alloc[g] <= UnitsAt(g, grants \o tx[r].adds)
    /\ Priced(tx[r].kind, tx[r].alloc, grants \o tx[r].adds)

Ledger == Locked /\ Solvent /\ (\A r \in Runs : Promised(r)) /\ Prices
LInv == IInv /\ Types /\ Ledger

\* A stock that only grows.
Extends(new, old) == \A g \in DOMAIN old : g \in DOMAIN new /\ new[g] = old[g]

-----------------------------------------------------------------------------
\* Sums of units.

\* What is summed over is finite.
LEMMA RunsAndGrantsFinite == IsFiniteSet(Runs) /\ IsFiniteSet(Grants)
BY FS_Interval, UnitBounds DEF Runs, Grants

\* The holds and debits that count are the others with nothing.
LEMMA TakenIs ==
  ASSUME hold \in [Runs -> Hold], NEW g \in Grants
  PROVE  MapThenSumSet(LAMBDA r : hold[r].alloc[g], {r \in Runs : hold[r].state \in {"held", "consumed"}})
         = Taken(g, hold)
<1> DEFINE T == {r \in Runs : hold[r].state \in {"held", "consumed"}}
           f == [r \in Runs |-> hold[r].alloc[g]]
           h == [r \in Runs |-> IF hold[r].state \in {"held", "consumed"} THEN hold[r].alloc[g] ELSE 0]
<1>1. \A S \in SUBSET Runs : MapThenSumSet(LAMBDA r : hold[r].alloc[g], S) = SumOf(f, S)
  BY DEF MapThenSumSet, MapThenFoldSet, SumOf, Sums, First
<1>2. T \in SUBSET Runs /\ (\A r \in T : f[r] = h[r] /\ f[r] \in Nat) /\ \A r \in Runs \ T : h[r] = 0
  BY DEF Hold, Alloc
<1> HIDE DEF T, f, h
<1>3. SumOf(f, T) = SumOf(h, Runs)
  BY <1>2, RunsAndGrantsFinite, SumFiltered
<1> QED
  BY <1>1, <1>2, <1>3 DEF Taken, T, h

\* The debits of the code are those that have not been reversed.
LEMMA DebitedIs ==
  ASSUME debits \in Seq(Debit), NEW g \in Grants
  PROVE  MapThenSumSet(LAMBDA d : debits[d].alloc[g], {d \in DOMAIN debits : ~debits[d].reversed})
         = Debited(g, debits)
<1> DEFINE D == DOMAIN debits
           T == {d \in D : ~debits[d].reversed}
           f == [d \in D |-> debits[d].alloc[g]]
           h == [d \in D |-> IF debits[d].reversed THEN 0 ELSE debits[d].alloc[g]]
<1>1. MapThenSumSet(LAMBDA d : debits[d].alloc[g], T) = SumOf(f, T)
  BY DEF MapThenSumSet, MapThenFoldSet, SumOf, Sums, First
<1>2. D = 1..Len(debits) /\ Len(debits) \in Nat /\ \A d \in D : debits[d] \in Debit
  OBVIOUS
<1>3. IsFiniteSet(D)
  BY <1>2, FS_Interval
<1>4. T \in SUBSET D /\ (\A d \in T : f[d] = h[d] /\ f[d] \in Nat) /\ \A d \in D \ T : h[d] = 0
  BY <1>2 DEF Debit, Alloc
<1> HIDE DEF T, f, h, D
<1>5. SumOf(f, T) = SumOf(h, D)
  BY <1>3, <1>4, SumFiltered
<1> QED
  BY <1>1, <1>5 DEF Debited, T, h, D

\* What is spent of a grant.
LEMMA SpentIs ==
  ASSUME Types, NEW g \in Grants
  PROVE  Spent(g) = Taken(g, hold) + Debited(g, debits)
BY TakenIs, DebitedIs DEF Spent, Types

\* Both are numbers.
LEMMA SpentTypes ==
  \A h \in [Runs -> Hold], d \in Seq(Debit), g \in Grants : Taken(g, h) \in Nat /\ Debited(g, d) \in Nat
<1> TAKE h \in [Runs -> Hold], d \in Seq(Debit), g \in Grants
<1> DEFINE D == DOMAIN d
           e == [r \in Runs |-> IF h[r].state \in {"held", "consumed"} THEN h[r].alloc[g] ELSE 0]
           f == [i \in D |-> IF d[i].reversed THEN 0 ELSE d[i].alloc[g]]
<1>1. \A r \in Runs : e[r] \in Nat
  BY DEF Hold, Alloc
<1>2. D = 1..Len(d) /\ Len(d) \in Nat /\ \A i \in D : d[i] \in Debit
  OBVIOUS
<1>3. \A i \in D : f[i] \in Nat
  BY <1>2 DEF Debit, Alloc
<1>4. IsFiniteSet(D)
  BY <1>2, FS_Interval
<1> HIDE DEF D, e, f
<1>5. SumOf(e, Runs) \in Nat /\ SumOf(f, D) \in Nat
  BY <1>1, <1>3, <1>4, RunsAndGrantsFinite, SumIsNat
<1> QED
  BY <1>5 DEF Taken, Debited, D, e, f

\* One hold changes.
LEMMA TakenChange ==
  \A h, k \in [Runs -> Hold] : \A r \in Runs, g \in Grants :
    (\A s \in Runs \ {r} : k[s] = h[s]) =>
      Taken(g, k) + (IF h[r].state \in {"held", "consumed"} THEN h[r].alloc[g] ELSE 0)
        = Taken(g, h) + (IF k[r].state \in {"held", "consumed"} THEN k[r].alloc[g] ELSE 0)
<1> TAKE h, k \in [Runs -> Hold]
<1> TAKE r \in Runs, g \in Grants
<1> HAVE \A s \in Runs \ {r} : k[s] = h[s]
<1> DEFINE e == [s \in Runs |-> IF h[s].state \in {"held", "consumed"} THEN h[s].alloc[g] ELSE 0]
           f == [s \in Runs |-> IF k[s].state \in {"held", "consumed"} THEN k[s].alloc[g] ELSE 0]
<1>1. \A s \in Runs : e[s] \in Nat /\ f[s] \in Nat
  BY DEF Hold, Alloc
<1>2. \A s \in Runs \ {r} : e[s] = f[s]
  OBVIOUS
<1>3. /\ e[r] = IF h[r].state \in {"held", "consumed"} THEN h[r].alloc[g] ELSE 0
      /\ f[r] = IF k[r].state \in {"held", "consumed"} THEN k[r].alloc[g] ELSE 0
  OBVIOUS
<1>4. Taken(g, h) = SumOf(e, Runs) /\ Taken(g, k) = SumOf(f, Runs)
  BY DEF Taken
<1> HIDE DEF e, f
<1>5. SumOf(e, Runs) + f[r] = SumOf(f, Runs) + e[r]
  BY <1>1, <1>2, RunsAndGrantsFinite, SumChanged
<1> QED
  BY <1>3, <1>4, <1>5

\* Another debit adds what it takes, and a reversed one gives it back.
LEMMA DebitedMore ==
  \A d \in Seq(Debit), e \in Debit, g \in Grants : ~e.reversed =>
    Debited(g, Append(d, e)) = Debited(g, d) + e.alloc[g]
<1> TAKE d \in Seq(Debit), e \in Debit, g \in Grants
<1> HAVE ~e.reversed
<1> DEFINE n == Len(d) + 1
           S == 1..Len(d)
           more == Append(d, e)
           f == [i \in DOMAIN d |-> IF d[i].reversed THEN 0 ELSE d[i].alloc[g]]
           h == [i \in DOMAIN more |-> IF more[i].reversed THEN 0 ELSE more[i].alloc[g]]
<1>1. Len(d) \in Nat /\ DOMAIN d = S /\ DOMAIN more = S \cup {n} /\ n \notin S /\ IsFiniteSet(S)
  <2>1. Len(d) \in Nat /\ DOMAIN d = 1..Len(d) /\ IsFiniteSet(1..Len(d))
    BY FS_Interval
  <2>2. DOMAIN more = 1..(Len(d) + 1)
    BY AppendProperties
  <2> QED
    BY <2>1, <2>2
<1>2. /\ \A i \in S : more[i] = d[i] /\ d[i] \in Debit
      /\ more[n] = e
  OBVIOUS
<1>3. (\A i \in S : f[i] = h[i] /\ f[i] \in Nat) /\ h[n] = e.alloc[g] /\ h[n] \in Nat
  BY <1>1, <1>2 DEF Debit, Alloc
<1>4. Debited(g, d) = SumOf(f, S) /\ Debited(g, more) = SumOf(h, S \cup {n})
  BY <1>1 DEF Debited
<1> HIDE DEF n, S, more, f, h
<1>5. SumOf(f, S) = SumOf(h, S) /\ SumOf(f, S) \in Nat
  BY <1>1, <1>3, SumSame, SumIsNat
<1>6. SumOf(h, S \cup {n}) = h[n] + SumOf(h, S)
  BY <1>1, <1>3, SumWith
<1> QED
  BY <1>3, <1>4, <1>5, <1>6 DEF more

\* A reversed debit is one still.
LEMMA ReversedType ==
  \A d \in Seq(Debit), i \in Nat : i \in DOMAIN d => [d EXCEPT ![i].reversed = TRUE] \in Seq(Debit)
<1> TAKE d \in Seq(Debit), i \in Nat
<1> HAVE i \in DOMAIN d
<1>1. Len(d) \in Nat /\ DOMAIN d = 1..Len(d) /\ \A j \in DOMAIN d : d[j] \in Debit
  OBVIOUS
<1>2. [d[i] EXCEPT !.reversed = TRUE] \in Debit
  BY <1>1 DEF Debit
<1>3. [d EXCEPT ![i].reversed = TRUE] \in [1..Len(d) -> Debit]
  BY <1>1, <1>2
<1> DEFINE u == [d EXCEPT ![i].reversed = TRUE]
<1> HIDE DEF u
<1>4. u \in [1..Len(d) -> Debit]
  BY <1>3 DEF u
<1>5. u \in Seq(Debit)
  BY <1>1, <1>4
<1> QED
  BY <1>5 DEF u

\* It takes nothing more.
LEMMA DebitedLess ==
  \A d \in Seq(Debit), i \in Nat, g \in Grants : i \in DOMAIN d =>
    /\ [d EXCEPT ![i].reversed = TRUE] \in Seq(Debit)
    /\ Debited(g, [d EXCEPT ![i].reversed = TRUE]) <= Debited(g, d)
<1> TAKE d \in Seq(Debit), i \in Nat, g \in Grants
<1> HAVE i \in DOMAIN d
<1> DEFINE D == DOMAIN d
           u == [d EXCEPT ![i].reversed = TRUE]
           e == [j \in D |-> IF d[j].reversed THEN 0 ELSE d[j].alloc[g]]
           f == [j \in D |-> IF u[j].reversed THEN 0 ELSE u[j].alloc[g]]
<1>1. D = 1..Len(d) /\ Len(d) \in Nat /\ i \in D /\ \A j \in D : d[j] \in Debit
  OBVIOUS
<1>2. [d[i] EXCEPT !.reversed = TRUE] \in Debit /\ [d[i] EXCEPT !.reversed = TRUE].reversed
  BY <1>1 DEF Debit
<1>3. DOMAIN u = D /\ u[i].reversed /\ (\A j \in D \ {i} : u[j] = d[j]) /\ \A j \in D : u[j] \in Debit
  BY <1>1, <1>2
<1>4. u \in Seq(Debit)
  <2>1. u \in [1..Len(d) -> Debit]
    BY <1>1, <1>3
  <2> HIDE DEF u
  <2> QED
    BY <1>1, <2>1
<1>5. (\A j \in D : e[j] \in Nat /\ f[j] \in Nat) /\ (\A j \in D \ {i} : e[j] = f[j]) /\ f[i] = 0
  BY <1>1, <1>3 DEF Debit, Alloc
<1>6. IsFiniteSet(D)
  BY <1>1, FS_Interval
<1>7. Debited(g, d) = SumOf(e, D) /\ Debited(g, u) = SumOf(f, D)
  BY <1>3 DEF Debited
<1> HIDE DEF D, u, e, f
<1>8. /\ SumOf(e, D) + f[i] = SumOf(f, D) + e[i]
      /\ SumOf(e, D) \in Nat /\ SumOf(f, D) \in Nat
  <2>1. i \in D
    BY <1>1
  <2>2. (\A j \in D : e[j] \in Nat /\ f[j] \in Nat) /\ \A j \in D \ {i} : e[j] = f[j]
    BY <1>5
  <2> QED
    BY <1>6, <2>1, <2>2, SumChanged
<1>9. SumOf(f, D) <= SumOf(e, D)
  <2>1. e[i] \in Nat /\ f[i] = 0
    BY <1>1, <1>5
  <2> QED
    BY <1>8, <2>1
<1> QED
  BY <1>4, <1>7, <1>9 DEF u

-----------------------------------------------------------------------------
\* The allocation.

\* The price spread over the grants of F, of which each has what a says.
Spread(F, need, a) ==
  [g \in Grants |-> IF g \in F THEN Takes(need, a[g], SumOf(a, {f \in F : f < g})) ELSE 0]

\* A price spread over grants, each giving what the earlier ones left of it, is paid
\* in full by grants that have enough together.
LEMMA SpreadIsExact ==
  ASSUME NEW F \in SUBSET Grants, NEW need \in Nat, NEW a, \A g \in F : a[g] \in Nat,
         need <= SumOf(a, F)
  PROVE  /\ Spread(F, need, a) \in Alloc
         /\ \A g \in F : Spread(F, need, a)[g] <= a[g]
         /\ \A g \in Grants \ F : Spread(F, need, a)[g] = 0
         /\ SumOf(Spread(F, need, a), Grants) = need
<1> DEFINE alloc == Spread(F, need, a)
           Below(n) == {f \in F : f < n}
           Least(m, n) == IF m < n THEN m ELSE n
           N == {n \in Nat : SumOf(alloc, Below(n)) = Least(need, SumOf(a, Below(n)))}
<1>0. MaxGrants \in Nat /\ \A g \in F : g \in Nat /\ 1 <= g /\ g <= MaxGrants
  BY UnitBounds DEF Grants
<1>1. \A n \in Nat : IsFiniteSet(Below(n)) /\ \A g \in Below(n) : a[g] \in Nat /\ g \in Grants /\ g \in F
  BY RunsAndGrantsFinite, FS_Subset
<1>2. \A n \in Nat : SumOf(a, Below(n)) \in Nat
  BY <1>1, SumIsNat
<1>3. \A g \in F : alloc[g] = Takes(need, a[g], SumOf(a, Below(g)))
  BY DEF Spread
<1> HIDE DEF alloc
<1>4. ASSUME NEW g \in F
      PROVE  alloc[g] \in Nat /\ alloc[g] <= a[g]
  <2> DEFINE S == SumOf(a, Below(g))
  <2>1. S \in Nat /\ alloc[g] = Takes(need, a[g], S) /\ a[g] \in Nat
    BY <1>0, <1>2, <1>3
  <2> HIDE DEF S
  <2> QED
    BY <2>1 DEF Takes
<1>5. alloc \in Alloc /\ \A g \in Grants \ F : alloc[g] = 0
  BY <1>4 DEF Alloc, Spread, alloc
<1>6. 0 \in N
  <2>1. Below(0) = {}
    BY <1>0
  <2>2. SumOf(alloc, Below(0)) = 0 /\ SumOf(a, Below(0)) = 0
    BY <2>1, SumEmpty
  <2> QED
    BY <2>2
<1>7. ASSUME NEW n \in N PROVE n + 1 \in N
  <2> DEFINE P == SumOf(alloc, Below(n))
             S == SumOf(a, Below(n))
  <2>1. n \in Nat /\ P = Least(need, S) /\ S \in Nat
    BY <1>2
  <2>2. CASE n \in F
    <3>1. Below(n + 1) = Below(n) \cup {n} /\ n \notin Below(n)
      <4>1. \A f \in F : f < n + 1 <=> f < n \/ f = n
        BY <1>0, <2>1
      <4>2. ~(n < n)
        BY <2>1
      <4> QED
        BY <2>2, <4>1, <4>2, Zenon
    <3>2. \A g \in Below(n) \cup {n} : a[g] \in Nat /\ alloc[g] \in Nat
      BY <1>1, <1>4, <2>1, <2>2
    <3> HIDE DEF Below
    <3>3. SumOf(a, Below(n + 1)) = a[n] + S /\ SumOf(alloc, Below(n + 1)) = alloc[n] + P
      BY <1>1, <2>1, <3>1, <3>2, SumWith
    <3>4. alloc[n] = Takes(need, a[n], S) /\ a[n] \in Nat
      BY <1>3, <2>2
    <3> HIDE DEF P, S
    <3>5. alloc[n] + P = Least(need, a[n] + S)
      BY <2>1, <3>4 DEF Takes
    <3> QED
      BY <2>1, <3>3, <3>5
  <2>3. CASE n \notin F
    <3>1. Below(n + 1) = Below(n)
      BY <1>0, <2>1, <2>3
    <3> HIDE DEF Below, Least
    <3>2. SumOf(alloc, Below(n + 1)) = Least(need, SumOf(a, Below(n + 1)))
      BY <2>1, <3>1
    <3> QED
      BY <2>1, <3>2
  <2> QED
    BY <2>2, <2>3
<1>8. N = Nat
  <2> HIDE DEF N
  <2>1. N \subseteq Nat
    BY DEF N
  <2> QED
    BY <1>6, <1>7, <2>1, Counting
<1>9. SumOf(alloc, F) = need
  <2>1. MaxGrants + 1 \in Nat /\ Below(MaxGrants + 1) = F
    BY <1>0
  <2>2. SumOf(alloc, Below(MaxGrants + 1)) = Least(need, SumOf(a, Below(MaxGrants + 1)))
           /\ SumOf(a, Below(MaxGrants + 1)) \in Nat
    BY <1>2, <1>8, <2>1
  <2> HIDE DEF Below
  <2>3. SumOf(alloc, F) = Least(need, SumOf(a, F)) /\ SumOf(a, F) \in Nat
    BY <2>1, <2>2
  <2> QED
    BY <2>3
<1>10. SumOf(alloc, Grants) = need
  <2>1. (\A g \in F : alloc[g] = alloc[g] /\ alloc[g] \in Nat) /\ \A g \in Grants \ F : alloc[g] = 0
    BY <1>4, <1>5
  <2>2. SumOf(alloc, F) = SumOf(alloc, Grants)
    BY <2>1, RunsAndGrantsFinite, SumFiltered
  <2> QED
    BY <1>9, <2>2
<1> QED
  BY <1>4, <1>5, <1>10 DEF alloc

\* One unit of one grant.
LEMMA OneIsOne ==
  ASSUME NEW g \in Grants
  PROVE  /\ One(g) \in Alloc /\ One(g)[g] = 1 /\ \A f \in Grants \ {g} : One(g)[f] = 0
         /\ SumOf(One(g), Grants) = 1
<1>1. One(g) \in Alloc /\ One(g)[g] = 1 /\ \A f \in Grants \ {g} : One(g)[f] = 0
  BY DEF One, NoUnits, Alloc
<1> DEFINE o == One(g)
<1> HIDE DEF o
<1>2. (\A f \in {g} : o[f] = o[f] /\ o[f] \in Nat) /\ (\A f \in Grants \ {g} : o[f] = 0) /\ {g} \in SUBSET Grants
  BY <1>1 DEF o
<1>3. SumOf(o, {g}) = SumOf(o, Grants)
  BY <1>2, RunsAndGrantsFinite, SumFiltered
<1>4. SumOf(o, {} \cup {g}) = o[g] + SumOf(o, {})
  <2>1. g \notin {} /\ \A f \in {} \cup {g} : o[f] \in Nat
    BY <1>2
  <2> QED
    BY <2>1, FS_EmptySet, SumWith
<1>5. {} \cup {g} = {g} /\ SumOf(o, {}) = 0
  BY SumEmpty
<1> QED
  BY <1>1, <1>3, <1>4, <1>5 DEF o

\* The grants with those that are granted when they are looked at.
LEMMA FreeGrantsType ==
  FreeGrants \in Seq(Grant)
<1>1. \A bucket \in {"initial", "edit"}, n \in {0, 1} :
        [bucket |-> bucket, scope |-> "free", period |-> 0, units |-> n] \in Grant
  BY UnitBounds DEF Grant
<1>2. \A x, y \in Grant : <<x, y>> \in Seq(Grant)
  OBVIOUS
<1>3. <<>> \in Seq(Grant)
  OBVIOUS
<1> QED
  BY <1>1, <1>2, <1>3 DEF FreeGrants

\* A longer stock keeps the grants it had, and has no fewer units anywhere.
LEMMA LongerStock ==
  \A old, more \in Seq(Grant) :
    /\ old \o more \in Seq(Grant) /\ Extends(old \o more, old)
    /\ \A g \in Grants : UnitsAt(g, old) \in Nat /\ UnitsAt(g, old) <= UnitsAt(g, old \o more)
<1> TAKE old, more \in Seq(Grant)
<1> DEFINE new == old \o more
<1>1. new \in Seq(Grant) /\ Len(new) = Len(old) + Len(more)
      /\ \A i \in 1..(Len(old) + Len(more)) : new[i] = IF i <= Len(old) THEN old[i] ELSE more[i - Len(old)]
  BY ConcatProperties
<1>2. Len(old) \in Nat /\ Len(more) \in Nat /\ DOMAIN old = 1..Len(old)
  OBVIOUS
<1> HIDE DEF new
<1>3. DOMAIN new = 1..(Len(old) + Len(more))
  BY <1>1
<1>4. Extends(new, old)
  BY <1>1, <1>2, <1>3 DEF Extends
<1>5. (\A g \in DOMAIN old : old[g] \in Grant) /\ \A g \in DOMAIN new : new[g] \in Grant
  BY <1>1, <1>2
<1>6. \A g \in Grants : UnitsAt(g, old) \in Nat /\ UnitsAt(g, old) <= UnitsAt(g, new)
  BY <1>4, <1>5 DEF Extends, UnitsAt, Grant
<1> QED
  BY <1>1, <1>4, <1>6 DEF new

\* A price that is paid stays paid.
LEMMA PricedStays ==
  \A kind \in Kinds, alloc \in Alloc : \A old, new :
    Priced(kind, alloc, old) /\ Extends(new, old) => Priced(kind, alloc, new)
BY DEF Priced, Extends

\* What a grant has left is a number: no grant of the stock is overspent.
LEMMA AvailableIs ==
  ASSUME Types, Solvent, Len(Stock) <= MaxGrants
  PROVE  /\ Stock \in Seq(Grant) /\ DOMAIN Stock \subseteq Grants /\ Extends(Stock, grants)
         /\ \A g \in DOMAIN Stock :
              /\ Available(g) \in Nat
              /\ Taken(g, hold) + Debited(g, debits) + Available(g) = UnitsAt(g, Stock)
<1>1. Stock \in Seq(Grant) /\ Extends(Stock, grants) 
      /\ \A g \in Grants : UnitsAt(g, grants) \in Nat /\ UnitsAt(g, grants) <= UnitsAt(g, Stock)
  BY FreeGrantsType, LongerStock DEF Types, Stock
<1>2. DOMAIN Stock \subseteq Grants
  <2>1. Len(Stock) \in Nat /\ DOMAIN Stock = 1..Len(Stock)
    BY <1>1
  <2> QED
    BY <2>1, UnitBounds DEF Grants
<1>3. ASSUME NEW g \in DOMAIN Stock
      PROVE  /\ Available(g) \in Nat
             /\ Taken(g, hold) + Debited(g, debits) + Available(g) = UnitsAt(g, Stock)
  <2>1. g \in Grants /\ Stock[g] \in Grant
    BY <1>1, <1>2
  <2>2. Stock[g].units \in Nat /\ UnitsAt(g, Stock) = Stock[g].units
    BY <2>1 DEF Grant, UnitsAt
  <2>3. Spent(g) = Taken(g, hold) + Debited(g, debits) /\ Taken(g, hold) \in Nat /\ Debited(g, debits) \in Nat
    BY <2>1, SpentIs, SpentTypes DEF Types
  <2>4. Taken(g, hold) + Debited(g, debits) <= UnitsAt(g, grants)
    BY <2>1 DEF Solvent
  <2> QED
    BY <1>1, <2>1, <2>2, <2>3, <2>4 DEF Available
<1> QED
  BY <1>1, <1>2, <1>3

\* What takes no more of a grant than is available fits with what is spent.
LEMMA AvailableFits ==
  ASSUME Types, Solvent, Len(Stock) <= MaxGrants, NEW alloc \in Alloc,
         \A g \in DOMAIN Stock : alloc[g] <= Available(g),
         \A g \in Grants \ DOMAIN Stock : alloc[g] = 0
  PROVE  \A g \in Grants : Taken(g, hold) + Debited(g, debits) + alloc[g] <= UnitsAt(g, Stock)
<1> TAKE g \in Grants
<1>1. Taken(g, hold) \in Nat /\ Debited(g, debits) \in Nat /\ alloc[g] \in Nat
  BY SpentTypes DEF Types, Alloc
<1>2. CASE g \in DOMAIN Stock
  <2>1. Available(g) \in Nat /\ Taken(g, hold) + Debited(g, debits) + Available(g) = UnitsAt(g, Stock)
    BY <1>2, AvailableIs
  <2>2. alloc[g] <= Available(g)
    BY <1>2
  <2> QED
    BY <1>1, <2>1, <2>2
<1>3. CASE g \notin DOMAIN Stock
  <2>1. UnitsAt(g, Stock) = 0 /\ g \notin DOMAIN grants
    BY <1>3, AvailableIs DEF UnitsAt, Extends
  <2>2. Taken(g, hold) + Debited(g, debits) <= 0
    BY <2>1 DEF Solvent, UnitsAt
  <2> QED
    BY <1>1, <1>3, <2>1, <2>2
<1> QED
  BY <1>2, <1>3

\* The library's sums of what is available.
LEMMA AvailableSums ==
  \A S \in SUBSET DOMAIN Stock :
    MapThenSumSet(Available, S) = SumOf([g \in DOMAIN Stock |-> Available(g)], S)
BY DEF MapThenSumSet, MapThenFoldSet, SumOf, Sums, First

\* An allocation fits, and is exactly the price of its run.
LEMMA AllocationFits ==
  ASSUME Types, Solvent, Len(Stock) <= MaxGrants, NEW kind \in Kinds, NEW alloc \in allocate_units(kind)
  PROVE  /\ alloc \in Alloc
         /\ \A g \in Grants : Taken(g, hold) + Debited(g, debits) + alloc[g] <= UnitsAt(g, Stock)
         /\ Priced(kind, alloc, Stock)
<1> DEFINE own  == IF kind = "edit" /\ Full("edit") = {} THEN Full("edit_only") ELSE Full(kind)
           need == IF kind = "initial" THEN InitialUnits ELSE 1
           F    == Usables("flexible")
           before(g) == MapThenSumSet(Available, {f \in F : f < g})
           spread == [g \in Grants |-> IF g \in F THEN Takes(need, Available(g), before(g)) ELSE 0]
<1>1. /\ DOMAIN Stock \subseteq Grants
      /\ \A g \in DOMAIN Stock : Available(g) \in Nat
  BY AvailableIs
<1>2. \/ own # {} /\ alloc = One(Min(own))
      \/ own = {} /\ ~(MapThenSumSet(Available, F) < need) /\ alloc = spread
  BY DEF allocate_units
<1>3. CASE own # {} /\ alloc = One(Min(own))
  <2>1. own \in SUBSET Nat /\ own \subseteq DOMAIN Stock
    BY <1>1, UnitBounds DEF Full, Usables, Grants
  <2> HIDE DEF own
  <2>2. Min(own) \in own
    BY <1>3, <2>1, SmallestNumber DEF Min
  <2>3. PICK g \in own : g = Min(own)
    BY <2>2
  <2> USE DEF own
  <2>4. /\ g \in DOMAIN Stock /\ g \in Grants /\ Available(g) >= 1
        /\ Stock[g].bucket = kind \/ (kind = "edit" /\ Stock[g].bucket = "edit_only")
    BY <1>1, <2>1, <2>3 DEF Full, Usables
  <2> HIDE DEF own
  <2>5. alloc \in Alloc /\ alloc[g] = 1 /\ (\A f \in Grants \ {g} : alloc[f] = 0) /\ SumOf(alloc, Grants) = 1
    BY <1>3, <2>3, <2>4, OneIsOne
  <2>6. \A f \in DOMAIN Stock : alloc[f] <= Available(f)
    BY <1>1, <2>4, <2>5
  <2>7. \A f \in Grants \ DOMAIN Stock : alloc[f] = 0
    BY <2>4, <2>5
  <2>8. {f \in Grants : alloc[f] > 0} = {g}
    BY <2>4, <2>5
  <2>9. Cardinality({g}) = 1
    BY FS_Singleton
  <2>10. Priced(kind, alloc, Stock)
    BY <2>4, <2>5, <2>8, <2>9 DEF Priced, Kinds
  <2> QED
    BY <2>5, <2>6, <2>7, <2>10, AvailableFits
<1>4. CASE own = {} /\ ~(MapThenSumSet(Available, F) < need) /\ alloc = spread
  <2> DEFINE a == [g \in DOMAIN Stock |-> Available(g)]
  <2>1. F \in SUBSET DOMAIN Stock /\ F \in SUBSET Grants /\ \A g \in F : Stock[g].bucket = "flexible"
    BY <1>1 DEF Usables
  <2>2. need \in Nat /\ need # 0 /\ need = Price(kind)
    BY UnitPrices DEF Price
  <2>3. /\ MapThenSumSet(Available, F) = SumOf(a, F)
        /\ \A g \in Grants : before(g) = SumOf(a, {f \in F : f < g})
    BY <2>1, AvailableSums
  <2>4. \A g \in F : a[g] = Available(g) /\ a[g] \in Nat
    BY <1>1, <2>1
  <2>5. alloc = Spread(F, need, a)
    BY <1>4, <2>3, <2>4 DEF Spread
  <2> HIDE DEF a
  <2>6. SumOf(a, F) \in Nat
    <3>1. IsFiniteSet(F)
      BY <2>1, RunsAndGrantsFinite, FS_Subset
    <3> QED
      BY <2>4, <3>1, SumIsNat
  <2>7. need <= SumOf(a, F)
    BY <1>4, <2>2, <2>3, <2>6
  <2> HIDE DEF F, need
  <2>8. /\ alloc \in Alloc /\ (\A g \in F : alloc[g] <= a[g]) /\ (\A g \in Grants \ F : alloc[g] = 0)
        /\ SumOf(alloc, Grants) = need
    <3>1. F \in SUBSET Grants /\ \A g \in F : a[g] \in Nat
      BY <2>1, <2>4
    <3> QED
      BY <2>2, <2>5, <2>7, <3>1, SpreadIsExact
  <2>9. \A g \in DOMAIN Stock : alloc[g] <= Available(g)
    BY <1>1, <2>4, <2>8
  <2>10. \A g \in Grants \ DOMAIN Stock : alloc[g] = 0
    BY <2>1, <2>8
  <2>11. Priced(kind, alloc, Stock)
    <3>1. {g \in Grants : alloc[g] > 0} \subseteq F
      BY <2>8
    <3> QED
      BY <2>1, <2>2, <2>8, <3>1 DEF Priced
  <2> QED
    BY <2>8, <2>9, <2>10, <2>11, AvailableFits
<1> QED
  BY <1>2, <1>3, <1>4

-----------------------------------------------------------------------------
\* What a step does to the ledger.

\* Grants, debits and holds are left alone, and nobody begins an admission.
LEMMA LedgerCalm ==
  ASSUME LInv, UNCHANGED <<grants, debits, hold>>, lock' \subseteq lock,
         \A r \in Runs : Reserves(r)' =>
           Reserves(r) /\ r \in lock' /\ run'[r].funding = run[r].funding /\ tx'[r] = tx[r]
  PROVE  Ledger'
<1>1. Locked'
  BY DEF LInv, Ledger, Locked
<1>2. Solvent' /\ Prices'
  BY DEF LInv, Ledger, Solvent, Prices
<1>3. \A r \in Runs : Promised(r)'
  BY DEF LInv, Ledger, Promised
<1> QED
  BY <1>1, <1>2, <1>3 DEF Ledger

\* Nobody is admitted, and what is spent afterwards is within the grants.
LEMMA LedgerFree ==
  ASSUME LInv, AccountFree, lock' = lock, \A r \in Runs : Reserves(r)' => Reserves(r),
         Extends(grants', grants),
         \A r \in Runs : /\ hold'[r].kind = hold[r].kind /\ hold'[r].alloc = hold[r].alloc
                         /\ hold'[r].state # "none" => hold[r].state # "none",
         \A g \in Grants : Taken(g, hold') + Debited(g, debits') <= UnitsAt(g, grants')
  PROVE  Ledger'
<1>1. \A r \in Runs : ~Reserves(r)'
  BY DEF LInv, Ledger, Locked, AccountFree
<1>2. Locked' /\ \A r \in Runs : Promised(r)'
  BY <1>1 DEF LInv, Ledger, Locked, Promised
<1>3. Solvent'
  BY DEF Solvent
<1>4. Prices'
  <2> SUFFICES ASSUME NEW r \in Runs, hold'[r].state # "none"
               PROVE  Priced(hold'[r].kind, hold'[r].alloc, grants')
    BY DEF Prices
  <2>1. hold[r].kind \in Kinds /\ hold[r].alloc \in Alloc /\ Priced(hold[r].kind, hold[r].alloc, grants)
    BY DEF LInv, Types, Hold, Ledger, Prices
  <2> QED
    BY <2>1, PricedStays
<1> QED
  BY <1>2, <1>3, <1>4 DEF Ledger

\* New grants are added.
LEMMA LedgerGrows ==
  ASSUME LInv, AccountFree, UNCHANGED <<run, lock, hold, debits>>, NEW more \in Seq(Grant), grants' = grants \o more
  PROVE  Ledger' /\ grants' \in Seq(Grant)
<1>1. /\ grants' \in Seq(Grant) /\ Extends(grants', grants)
      /\ \A g \in Grants : UnitsAt(g, grants) \in Nat /\ UnitsAt(g, grants) <= UnitsAt(g, grants')
                           /\ UnitsAt(g, grants') \in Nat
  <2>1. grants \in Seq(Grant)
    BY DEF LInv, Types
  <2>2. grants \o more \in Seq(Grant)
    BY <2>1, LongerStock
  <2> QED
    BY <2>1, <2>2, LongerStock
<1>2. \A g \in Grants : Taken(g, hold') + Debited(g, debits') <= UnitsAt(g, grants')
  <2> TAKE g \in Grants
  <2>1. Taken(g, hold) \in Nat /\ Debited(g, debits) \in Nat
    BY SpentTypes DEF LInv, Types
  <2>2. Taken(g, hold) + Debited(g, debits) <= UnitsAt(g, grants)
    BY DEF LInv, Ledger, Solvent
  <2> QED
    BY <1>1, <2>1, <2>2
<1> QED
  BY <1>1, <1>2, LedgerFree DEF Reserves

\* A held hold is consumed or released: nothing more is taken.
LEMMA LedgerSettles ==
  ASSUME LInv, AccountFree, UNCHANGED <<grants, debits, lock>>, \A r \in Runs : Reserves(r)' => Reserves(r),
         NEW q \in Runs, hold[q].state = "held", NEW s \in {"consumed", "released"},
         hold' = [hold EXCEPT ![q].state = s]
  PROVE  Ledger' /\ hold' \in [Runs -> Hold]
<1>1. hold \in [Runs -> Hold]
  BY DEF LInv, Types
<1>2. /\ hold' \in [Runs -> Hold] /\ \A r \in Runs \ {q} : hold'[r] = hold[r]
      /\ hold'[q].state = s /\ hold'[q].alloc = hold[q].alloc /\ hold'[q].kind = hold[q].kind
  <2>1. [hold[q] EXCEPT !.state = s] \in Hold
    BY <1>1 DEF Hold
  <2> QED
    BY <1>1, <2>1 DEF Hold
<1>3. ASSUME NEW g \in Grants
      PROVE  Taken(g, hold') + Debited(g, debits') <= UnitsAt(g, grants')
  <2>1. Taken(g, hold) \in Nat /\ Debited(g, debits) \in Nat /\ Taken(g, hold') \in Nat
    BY <1>2, SpentTypes DEF LInv, Types
  <2>2. Taken(g, hold) + Debited(g, debits) <= UnitsAt(g, grants)
    BY DEF LInv, Ledger, Solvent
  <2>3. Taken(g, hold') + (IF hold[q].state \in {"held", "consumed"} THEN hold[q].alloc[g] ELSE 0)
          = Taken(g, hold) + (IF hold'[q].state \in {"held", "consumed"} THEN hold'[q].alloc[g] ELSE 0)
    BY <1>1, <1>2, TakenChange
  <2>4. hold[q].alloc[g] \in Nat
    BY <1>1 DEF Hold, Alloc
  <2>5. UnitsAt(g, grants) \in Nat
    <3>1. \A f \in DOMAIN grants : grants[f] \in Grant
      BY DEF LInv, Types
    <3> QED
      BY <3>1 DEF UnitsAt, Grant
  <2>6. Taken(g, hold') <= Taken(g, hold)
    BY <1>2, <2>1, <2>3, <2>4
  <2> QED
    BY <2>1, <2>2, <2>5, <2>6
<1>4. Extends(grants', grants)
  BY DEF Extends
<1> QED
  BY <1>2, <1>3, <1>4, LedgerFree

-----------------------------------------------------------------------------
\* Every action keeps the ledger.

\* An admission that begins promises units only out of what nobody holds.
LEMMA BeginLedger ==
  ASSUME LInv, IInv', NEW r \in Runs, NEW p \in Projects, NEW funding \in {"units", "rub", "free"},
         BeginAdmission(r, p, funding)
  PROVE  Types' /\ Ledger'
<1> DEFINE kind == IF IsInitial(p) THEN "initial" ELSE "edit"
<1>1. /\ AccountFree /\ lock' = lock \cup {r} /\ Len(Stock) <= MaxGrants
      /\ run' = [run EXCEPT ![r] = [NoRun EXCEPT !.status = "reserving", !.project = p, !.funding = funding]]
      /\ UNCHANGED <<plan, grants, debits, hold, wallet>>
  BY DEF BeginAdmission
<1>2. \A s \in Runs : ~Reserves(s)
  BY <1>1 DEF LInv, Ledger, Locked, AccountFree
<1>3. /\ run'[r].funding = funding /\ \A s \in Runs \ {r} : ~Reserves(s)'
  BY <1>1, <1>2 DEF LInv, IInv, Shape, NoRun, Reserves
<1>4. \/ funding = "units" /\ \E alloc \in allocate_units(kind) :
           tx' = [tx EXCEPT ![r] = [kind |-> kind, alloc |-> alloc, adds |-> FreeGrants]]
      \/ funding # "units" /\ tx' = tx
  BY DEF BeginAdmission
<1>5. kind \in Kinds
  BY DEF Kinds
<1> HIDE DEF kind
<1>6. Types' /\ Promised(r)'
  <2>1. CASE funding # "units" /\ tx' = tx
    BY <1>1, <1>3, <2>1 DEF LInv, Types, Promised
  <2>2. ASSUME NEW alloc \in allocate_units(kind),
               tx' = [tx EXCEPT ![r] = [kind |-> kind, alloc |-> alloc, adds |-> FreeGrants]]
        PROVE  Types' /\ Promised(r)'
    <3>1. /\ alloc \in Alloc
          /\ \A g \in Grants : Taken(g, hold) + Debited(g, debits) + alloc[g] <= UnitsAt(g, Stock)
          /\ Priced(kind, alloc, Stock)
      BY <1>1, <1>5, AllocationFits DEF LInv, Ledger
    <3>2. [kind |-> kind, alloc |-> alloc, adds |-> FreeGrants] \in Tx
      BY <1>5, <3>1, FreeGrantsType DEF Tx
    <3>3. tx' \in [Runs -> Tx] /\ tx'[r] = [kind |-> kind, alloc |-> alloc, adds |-> FreeGrants]
      BY <2>2, <3>2 DEF LInv, Types
    <3>4. Types'
      BY <1>1, <3>3 DEF LInv, Types
    <3>5. grants' \o tx'[r].adds = Stock /\ tx'[r].alloc = alloc /\ tx'[r].kind = kind
      BY <1>1, <3>3 DEF Stock
    <3>6. /\ \A g \in Grants : Taken(g, hold') + Debited(g, debits') + tx'[r].alloc[g]
                                 <= UnitsAt(g, grants' \o tx'[r].adds)
          /\ Priced(tx'[r].kind, tx'[r].alloc, grants' \o tx'[r].adds)
      BY <1>1, <3>1, <3>5
    <3> QED
      BY <3>4, <3>6 DEF Promised
  <2> QED
    BY <1>4, <2>1, <2>2
<1>7. Locked'
  BY <1>1, <1>3 DEF Locked, AccountFree
<1>8. Solvent' /\ Prices'
  BY <1>1 DEF LInv, Ledger, Solvent, Prices
<1>9. \A s \in Runs : Promised(s)'
  BY <1>3, <1>6 DEF Promised
<1> QED
  BY <1>6, <1>7, <1>8, <1>9 DEF Ledger

\* An admission writes what it was promised.
LEMMA AdmitLedger ==
  ASSUME LInv, IInv', NEW r \in Runs, Admit(r)
  PROVE  Types' /\ Ledger'
<1>1. /\ Reserves(r) /\ run' = [run EXCEPT ![r].status = "active"]
      /\ grants' = grants \o tx[r].adds /\ tx' = [tx EXCEPT ![r] = NoTx] /\ lock' = lock \ {r}
      /\ UNCHANGED <<plan, debits, wallet>>
  BY DEF Admit, Reserves
<1>2. \/ run[r].funding # "units" /\ hold' = hold
      \/ /\ run[r].funding = "units"
         /\ hold' = [hold EXCEPT ![r] = [state |-> "held", kind |-> tx[r].kind, alloc |-> tx[r].alloc]]
  BY DEF Admit
<1>3. tx[r] \in Tx /\ grants \in Seq(Grant) /\ hold \in [Runs -> Hold] /\ debits \in Seq(Debit)
  BY DEF LInv, Types
<1>4. tx[r].kind \in Kinds /\ tx[r].alloc \in Alloc /\ tx[r].adds \in Seq(Grant)
  BY <1>3 DEF Tx
<1>5. /\ grants' \in Seq(Grant) /\ Extends(grants', grants)
      /\ \A g \in Grants : UnitsAt(g, grants) \in Nat /\ UnitsAt(g, grants) <= UnitsAt(g, grants')
  BY <1>1, <1>3, <1>4, LongerStock
<1>6. \A s \in Runs : ~Reserves(s)'
  <2>1. run'[r].status = "active" /\ \A s \in Runs \ {r} : run'[s] = run[s]
    BY <1>1, StatusWritten DEF LInv, IInv, Shape
  <2>2. \A s \in Runs \ {r} : ~Reserves(s)
    BY <1>1 DEF LInv, Ledger, Locked
  <2> QED
    BY <2>1, <2>2 DEF Reserves
<1>7. Locked' /\ \A s \in Runs : Promised(s)'
  BY <1>1, <1>6 DEF LInv, Ledger, Locked, Promised
<1>8. NoTx \in Tx
  <2>1. NoUnits \in Alloc /\ <<>> \in Seq(Grant)
    BY DEF NoUnits, Alloc
  <2> QED
    BY <2>1 DEF NoTx, Tx, Kinds
<1>9. hold[r].state = "none"
  BY <1>1 DEF LInv, IInv, Bill, Reserves
<1>10. /\ hold' \in [Runs -> Hold] /\ \A s \in Runs \ {r} : hold'[s] = hold[s]
       /\ hold'[r].state = "none" \/ (run[r].funding = "units" /\ hold'[r].state = "held"
            /\ hold'[r].kind = tx[r].kind /\ hold'[r].alloc = tx[r].alloc)
  <2>1. [state |-> "held", kind |-> tx[r].kind, alloc |-> tx[r].alloc] \in Hold
    BY <1>4 DEF Hold
  <2> QED
    BY <1>2, <1>3, <1>9, <2>1
<1>11. Types'
  BY <1>1, <1>5, <1>8, <1>10 DEF LInv, Types
<1>12. Solvent'
  <2> SUFFICES ASSUME NEW g \in Grants
               PROVE  Taken(g, hold') + Debited(g, debits') <= UnitsAt(g, grants')
    BY DEF Solvent
  <2>1. Taken(g, hold) \in Nat /\ Debited(g, debits) \in Nat /\ Taken(g, hold') \in Nat
    BY <1>3, <1>10, SpentTypes
  <2>2. Taken(g, hold') + 0
          = Taken(g, hold) + (IF hold'[r].state \in {"held", "consumed"} THEN hold'[r].alloc[g] ELSE 0)
    <3>1. Taken(g, hold') + (IF hold[r].state \in {"held", "consumed"} THEN hold[r].alloc[g] ELSE 0)
            = Taken(g, hold) + (IF hold'[r].state \in {"held", "consumed"} THEN hold'[r].alloc[g] ELSE 0)
      BY <1>3, <1>10, TakenChange
    <3> QED
      BY <1>9, <3>1
  <2>3. UnitsAt(g, grants) \in Nat /\ UnitsAt(g, grants') \in Nat /\ tx[r].alloc[g] \in Nat
    <3>1. UnitsAt(g, grants' \o <<>>) \in Nat
      BY <1>5, LongerStock, ConcatEmptySeq
    <3>2. \A f \in DOMAIN grants' : grants'[f] \in Grant
      BY <1>5
    <3>3. UnitsAt(g, grants') \in Nat
      BY <3>2 DEF UnitsAt, Grant
    <3> QED
      BY <1>4, <1>5, <3>3 DEF Alloc
  <2>4. CASE hold'[r].state = "none"
    <3>1. Taken(g, hold) + Debited(g, debits) <= UnitsAt(g, grants)
      BY DEF LInv, Ledger, Solvent
    <3> QED
      BY <1>1, <1>5, <2>1, <2>2, <2>3, <2>4, <3>1
  <2>5. CASE hold'[r].state = "held" /\ run[r].funding = "units" /\ hold'[r].alloc = tx[r].alloc
    <3>1. Taken(g, hold) + Debited(g, debits) + tx[r].alloc[g] <= UnitsAt(g, grants')
      BY <1>1, <2>5 DEF LInv, Ledger, Promised
    <3> QED
      BY <1>1, <2>1, <2>2, <2>3, <2>5, <3>1
  <2> QED
    BY <1>10, <2>4, <2>5
<1>13. Prices'
  <2> SUFFICES ASSUME NEW s \in Runs, hold'[s].state # "none"
               PROVE  Priced(hold'[s].kind, hold'[s].alloc, grants')
    BY DEF Prices
  <2>1. CASE s = r
    BY <1>1, <1>10, <2>1 DEF LInv, Ledger, Promised
  <2>2. CASE s # r
    <3>1. hold'[s] = hold[s] /\ hold[s].kind \in Kinds /\ hold[s].alloc \in Alloc
      BY <1>3, <1>10, <2>2 DEF Hold
    <3>2. Priced(hold[s].kind, hold[s].alloc, grants)
      BY <3>1 DEF LInv, Ledger, Prices
    <3> QED
      BY <1>5, <3>1, <3>2, PricedStays
  <2> QED
    BY <2>1, <2>2
<1> QED
  BY <1>7, <1>11, <1>12, <1>13 DEF Ledger

\* A failed admission gives back its promise with the lock.
LEMMA AdmissionFailsLedger ==
  ASSUME LInv, NEW r \in Runs, AdmissionFails(r)
  PROVE  Types' /\ Ledger'
<1>1. /\ run' = [run EXCEPT ![r] = NoRun] /\ tx' = [tx EXCEPT ![r] = NoTx] /\ lock' = lock \ {r}
      /\ UNCHANGED <<plan, grants, debits, hold, wallet>>
  BY DEF AdmissionFails
<1>2. NoTx \in Tx
  <2>1. NoUnits \in Alloc /\ <<>> \in Seq(Grant)
    BY DEF NoUnits, Alloc
  <2> QED
    BY <2>1 DEF NoTx, Tx, Kinds
<1>3. Types'
  BY <1>1, <1>2 DEF LInv, Types
<1>4. \A s \in Runs : Reserves(s)' =>
        Reserves(s) /\ s \in lock' /\ run'[s].funding = run[s].funding /\ tx'[s] = tx[s]
  <2>1. ~Reserves(r)' /\ \A s \in Runs \ {r} : run'[s] = run[s] /\ tx'[s] = tx[s]
    BY <1>1 DEF LInv, IInv, Shape, Types, Reserves, NoRun
  <2> QED
    BY <1>1, <2>1 DEF LInv, Ledger, Locked, Reserves
<1> QED
  BY <1>1, <1>3, <1>4, LedgerCalm

\* A run that works, or whose activation is cancelled.
LEMMA WorkLedger ==
  ASSUME LInv, NEW r \in Runs,
         \/ RecordUsage(r) \/ CancelActivation(r)
         \/ \E published \in {"plain", "proven"}, mode \in Modes : record_accepted_candidate(r, published, mode)
  PROVE  Types' /\ Ledger'
<1>1. /\ UNCHANGED <<plan, grants, debits, tx, lock, hold, wallet>>
      /\ run[r].status # "reserving"
  BY DEF RecordUsage, CancelActivation, record_accepted_candidate, Terminal
<1>2. /\ \A s \in Runs \ {r} : run'[s] = run[s]
      /\ run'[r].status # "reserving"
  <2>1. run \in [Runs -> Run]
    BY DEF LInv, IInv, Shape
  <2>2. CASE RecordUsage(r)
    BY <1>1, <2>1, <2>2 DEF RecordUsage, Run
  <2>3. CASE CancelActivation(r)
    BY <1>1, <2>1, <2>3 DEF CancelActivation, Run
  <2>4. ASSUME NEW published, NEW mode, record_accepted_candidate(r, published, mode)
        PROVE  (\A s \in Runs \ {r} : run'[s] = run[s]) /\ run'[r].status # "reserving"
    <3>1. run' = [run EXCEPT ![r].published = published, ![r].mode = mode]
      BY <2>4 DEF record_accepted_candidate
    <3>2. \A s \in Runs \ {r} : run'[s] = run[s]
      BY <2>1, <3>1
    <3>3. run'[r].status = run[r].status
      BY <2>1, <3>1 DEF Run
    <3> QED
      BY <1>1, <3>2, <3>3
  <2> QED
    BY <2>2, <2>3, <2>4
<1>3. \A s \in Runs : Reserves(s)' =>
        Reserves(s) /\ s \in lock' /\ run'[s].funding = run[s].funding /\ tx'[s] = tx[s]
  BY <1>1, <1>2 DEF LInv, Ledger, Locked, Reserves
<1>4. Types'
  BY <1>1 DEF LInv, Types
<1> QED
  BY <1>1, <1>3, <1>4, LedgerCalm

\* The hold of a run is settled with its bill, if at all.
LEMMA SealLedger ==
  ASSUME LInv, NEW r \in Runs, NEW status, seal_terminal_locked(r, status),
         UNCHANGED <<plan, grants, debits, tx, lock>>, wallet' \in 0..MaxFunds,
         run[r].status \in {"active"} \cup Terminal,
         \A s \in Runs : Reserves(s)' => Reserves(s) /\ run'[s].funding = run[s].funding
  PROVE  Types' /\ Ledger'
<1>1. CASE UNCHANGED hold
  <2>1. Types'
    BY <1>1 DEF LInv, Types
  <2>2. \A s \in Runs : Reserves(s)' => s \in lock'
    BY DEF LInv, Ledger, Locked
  <2> QED
    BY <1>1, <2>1, <2>2, LedgerCalm
<1>2. CASE /\ run[r].funding = "units" /\ intent[r].outcome = "none" /\ AccountFree
           /\ settle_generation_units(r, Eligible(r, status))
  <2>1. hold[r].state = "held"
    <3>1. Bill(r) /\ hold[r].state \in HoldStates
      BY DEF LInv, IInv, Shape
    <3> QED
      BY <1>2, <3>1 DEF Bill, Decided, Sealed, HoldStates, Terminal
  <2>2. PICK s \in {"consumed", "released"} : hold' = [hold EXCEPT ![r].state = s]
    BY <1>2 DEF settle_generation_units
  <2>3. Ledger' /\ hold' \in [Runs -> Hold]
    BY <1>2, <2>1, <2>2, LedgerSettles
  <2>4. Types'
    BY <2>3 DEF LInv, Types
  <2> QED
    BY <2>3, <2>4
<1> QED
  BY <1>1, <1>2 DEF seal_terminal_locked

\* A run that ends consumes what it held or gives it back.
LEMMA TerminalizeLedger ==
  ASSUME LInv, NEW r \in Runs, NEW status \in Endings, terminalize_generation_run_locked(r, status)
  PROVE  Types' /\ Ledger'
<1>1. /\ run[r].status = "active" /\ run' = [run EXCEPT ![r].status = status]
      /\ seal_terminal_locked(r, status) /\ UNCHANGED <<plan, grants, debits, tx, lock, wallet>>
      /\ status \in Terminal
  BY UnitBounds DEF terminalize_generation_run_locked, Terminal
<1>2. run'[r].status = status /\ \A s \in Runs \ {r} : run'[s] = run[s]
  BY <1>1, StatusWritten DEF LInv, IInv, Shape
<1>3. \A s \in Runs : Reserves(s)' => Reserves(s) /\ run'[s].funding = run[s].funding
  BY <1>1, <1>2 DEF Reserves, Terminal
<1>4. wallet' \in 0..MaxFunds
  BY <1>1 DEF LInv, Types
<1> QED
  BY <1>1, <1>3, <1>4, SealLedger

\* The billing tick settles a hold and debits the wallet by what it shows at most.
LEMMA SettleLedger ==
  ASSUME LInv, NEW r \in Runs, _settle_terminal_locked(r)
  PROVE  Types' /\ Ledger'
<1> DEFINE sealed == SealedIntent(r, run[r].status)
           pays   == sealed.outcome = "billable" /\ ~sealed.settled /\ Affordable(sealed.amount)
<1>1. /\ run[r].status \in Terminal /\ seal_terminal_locked(r, run[r].status)
      /\ wallet' = (IF pays THEN wallet - sealed.amount ELSE wallet)
      /\ UNCHANGED <<plan, grants, debits, run, tx, lock>>
  BY DEF _settle_terminal_locked
<1>2. sealed \in Intent
  BY SealedBill DEF LInv
<1>3. wallet' \in 0..MaxFunds
  <2>1. sealed.amount \in Nat /\ wallet \in Nat /\ wallet <= MaxFunds /\ MaxFunds \in Nat
    BY <1>2, UnitBounds DEF Intent, LInv, Types
  <2> HIDE DEF sealed
  <2>2. CASE pays
    BY <1>1, <2>1, <2>2 DEF Affordable
  <2>3. CASE ~pays
    BY <1>1, <2>1, <2>3
  <2> QED
    BY <2>2, <2>3
<1>4. \A s \in Runs : Reserves(s)' => Reserves(s) /\ run'[s].funding = run[s].funding
  BY <1>1 DEF Reserves
<1> QED
  BY <1>1, <1>3, <1>4, SealLedger

\* Grants that are bought or come with a period.
LEMMA PurchaseLedger ==
  ASSUME LInv,
         \/ \E package \in Packages : grant_payment_units(package)
         \/ \E metered \in BOOLEAN : grant_subscription_units(metered)
  PROVE  Types' /\ Ledger'
<1>1. ASSUME NEW package \in Packages, grant_payment_units(package)
      PROVE  Types' /\ Ledger'
  <2> DEFINE new == [bucket |-> package.bucket, scope |-> "package", period |-> 0, units |-> package.units]
  <2>1. new \in Grant
    <3>1. package.bucket \in {"flexible", "edit_only"} /\ package.units \in Nat
      BY UnitPrices
    <3> QED
      BY <3>1, UnitBounds DEF Grant
  <2>2. /\ AccountFree /\ grants' = grants \o <<new>>
        /\ UNCHANGED <<plan, debits, run, tx, lock, hold, wallet>>
    BY <1>1 DEF grant_payment_units, AddGrants
  <2> HIDE DEF new
  <2>3. <<new>> \in Seq(Grant)
    BY <2>1
  <2>4. Ledger' /\ grants' \in Seq(Grant)
    BY <2>2, <2>3, LedgerGrows
  <2> QED
    BY <2>2, <2>4 DEF LInv, Types
<1>2. ASSUME NEW metered \in BOOLEAN, grant_subscription_units(metered)
      PROVE  Types' /\ Ledger'
  <2> DEFINE next == plan.period + 1
             of(bucket) == [bucket |-> bucket, scope |-> "period", period |-> next, units |-> PeriodUnits]
             more == IF metered THEN <<of("initial"), of("edit")>> ELSE <<>>
  <2>1. /\ AccountFree /\ next \in 1..MaxPeriods /\ grants' = grants \o more
        /\ plan' = [period |-> next, metered |-> metered, over |-> FALSE]
        /\ UNCHANGED <<debits, run, tx, lock, hold, wallet>>
    BY <1>2 DEF grant_subscription_units, AddGrants
  <2>2. next \in 0..MaxPeriods
    BY <2>1
  <2> HIDE DEF next
  <2>3. of("initial") \in Grant /\ of("edit") \in Grant
    BY <2>2, UnitPrices DEF Grant
  <2>4. more \in Seq(Grant)
    <3>1. \A x, y \in Grant : <<x, y>> \in Seq(Grant) /\ <<>> \in Seq(Grant)
      OBVIOUS
    <3> QED
      BY <2>3, <3>1
  <2> HIDE DEF more
  <2>5. Ledger' /\ grants' \in Seq(Grant)
    BY <2>1, <2>4, LedgerGrows
  <2> QED
    BY <2>1, <2>2, <2>5 DEF LInv, Types
<1> QED
  BY <1>1, <1>2

\* An administrator debits what is available, and takes it back.
LEMMA ExhaustLedger ==
  ASSUME LInv, exhaust_available_credits
  PROVE  Types' /\ Ledger'
<1> DEFINE left == [g \in Grants |-> IF g \in DOMAIN Stock /\ Usable(Stock[g]) THEN Available(g) ELSE 0]
           new == [alloc |-> left, reversed |-> FALSE]
<1>1. /\ AccountFree /\ Len(Stock) <= MaxGrants
      /\ debits' = Append(debits, new) /\ grants' = Stock
      /\ UNCHANGED <<plan, run, tx, lock, hold, wallet>>
  BY DEF exhaust_available_credits, Idle
<1>2. /\ Stock \in Seq(Grant) /\ DOMAIN Stock \subseteq Grants /\ Extends(Stock, grants)
      /\ \A g \in DOMAIN Stock : Available(g) \in Nat
  BY <1>1, AvailableIs DEF LInv, Ledger
<1>3. /\ left \in Alloc /\ (\A g \in DOMAIN Stock : left[g] <= Available(g))
      /\ \A g \in Grants \ DOMAIN Stock : left[g] = 0
  BY <1>2 DEF Alloc
<1> HIDE DEF left
<1>4. \A g \in Grants : Taken(g, hold) + Debited(g, debits) + left[g] <= UnitsAt(g, Stock)
  BY <1>1, <1>3, AvailableFits DEF LInv, Ledger
<1>5. new \in Debit /\ ~new.reversed /\ new.alloc = left
  BY <1>3 DEF Debit
<1> HIDE DEF new
<1>6. debits \in Seq(Debit) /\ debits' \in Seq(Debit)
  <2>1. debits \in Seq(Debit)
    BY DEF LInv, Types
  <2> QED
    BY <1>1, <1>5, <2>1, AppendProperties
<1>7. ASSUME NEW g \in Grants
      PROVE  Taken(g, hold') + Debited(g, debits') <= UnitsAt(g, grants')
  <2>1. Debited(g, debits') = Debited(g, debits) + left[g]
    BY <1>1, <1>5, <1>6, DebitedMore
  <2>2. Taken(g, hold) \in Nat /\ Debited(g, debits) \in Nat /\ left[g] \in Nat
    BY <1>3, SpentTypes DEF LInv, Types, Alloc
  <2>3. Taken(g, hold) + Debited(g, debits) + left[g] <= UnitsAt(g, Stock)
    BY <1>4
  <2> QED
    BY <1>1, <2>1, <2>2, <2>3
<1>8. Ledger'
  BY <1>1, <1>2, <1>7, LedgerFree DEF Reserves
<1> QED
  BY <1>1, <1>2, <1>6, <1>8 DEF LInv, Types

\* A debit taken back leaves more of every grant.
LEMMA RestoreLedger ==
  ASSUME LInv, NEW d \in DOMAIN debits, restore_exhausted_credits(d)
  PROVE  Types' /\ Ledger'
<1>1. /\ AccountFree /\ Len(Stock) <= MaxGrants
      /\ debits' = [debits EXCEPT ![d].reversed = TRUE] /\ grants' = grants \o FreeGrants
      /\ UNCHANGED <<plan, run, tx, lock, hold, wallet>>
  BY DEF restore_exhausted_credits, Idle, Stock
<1>2. debits \in Seq(Debit) /\ d \in Nat /\ grants \in Seq(Grant) /\ FreeGrants \in Seq(Grant)
  <2>1. debits \in Seq(Debit) /\ DOMAIN debits = 1..Len(debits)
    BY DEF LInv, Types
  <2> QED
    BY <2>1, FreeGrantsType DEF LInv, Types
<1>3. /\ grants' \in Seq(Grant) /\ Extends(grants', grants)
      /\ \A g \in Grants : UnitsAt(g, grants) \in Nat /\ UnitsAt(g, grants) <= UnitsAt(g, grants')
  BY <1>1, <1>2, LongerStock
<1>4. debits' \in Seq(Debit) /\ \A g \in Grants : Debited(g, debits') <= Debited(g, debits)
  <2>1. d \in DOMAIN debits
    OBVIOUS
  <2>2. \A g \in Grants : /\ [debits EXCEPT ![d].reversed = TRUE] \in Seq(Debit)
                          /\ Debited(g, [debits EXCEPT ![d].reversed = TRUE]) <= Debited(g, debits)
    BY <1>2, <2>1, DebitedLess
  <2>3. [debits EXCEPT ![d].reversed = TRUE] \in Seq(Debit)
    BY <1>2, <2>1, ReversedType
  <2> QED
    BY <1>1, <2>2, <2>3
<1>5. ASSUME NEW g \in Grants
      PROVE  Taken(g, hold') + Debited(g, debits') <= UnitsAt(g, grants')
  <2>1. Taken(g, hold) \in Nat /\ Debited(g, debits) \in Nat /\ Debited(g, debits') \in Nat
    BY <1>2, <1>4, SpentTypes DEF LInv, Types
  <2>2. Taken(g, hold) + Debited(g, debits) <= UnitsAt(g, grants)
    BY DEF LInv, Ledger, Solvent
  <2>3. UnitsAt(g, grants') \in Nat
    <3>1. \A f \in DOMAIN grants' : grants'[f] \in Grant
      BY <1>3
    <3> QED
      BY <3>1 DEF UnitsAt, Grant
  <2>4. UnitsAt(g, grants) \in Nat /\ UnitsAt(g, grants) <= UnitsAt(g, grants')
    BY <1>3
  <2>5. Debited(g, debits') <= Debited(g, debits)
    BY <1>4
  <2>6. Taken(g, hold) + Debited(g, debits') <= UnitsAt(g, grants')
    BY <2>1, <2>2, <2>3, <2>4, <2>5
  <2> QED
    BY <1>1, <2>6
<1>6. Ledger'
  BY <1>1, <1>3, <1>5, LedgerFree DEF Reserves
<1> QED
  BY <1>1, <1>3, <1>4, <1>6 DEF LInv, Types

-----------------------------------------------------------------------------
\* The account begins with no grant, no hold and no debit.
LEMMA LedgerInit == Init => LInv
<1> SUFFICES ASSUME Init PROVE LInv
  OBVIOUS
<1>1. IInv
  BY UnitsInit
<1>2. NoTx \in Tx /\ NoHold \in Hold /\ NoHold.state = "none"
  <2>1. NoUnits \in Alloc /\ <<>> \in Seq(Grant)
    BY DEF NoUnits, Alloc
  <2> QED
    BY <2>1 DEF NoTx, Tx, NoHold, Hold, Kinds
<1>3. <<>> \in Seq(Grant) /\ <<>> \in Seq(Debit) /\ 0 \in 0..MaxPeriods /\ 0 \in 0..MaxFunds
  BY UnitBounds
<1>4. Types
  BY <1>2, <1>3 DEF Init, Types
<1>5. ASSUME NEW g \in Grants
      PROVE  Taken(g, hold) = 0 /\ Debited(g, debits) = 0 /\ UnitsAt(g, grants) = 0
  <2> DEFINE f == [r \in Runs |-> IF hold[r].state \in {"held", "consumed"} THEN hold[r].alloc[g] ELSE 0]
             h == [i \in DOMAIN debits |-> IF debits[i].reversed THEN 0 ELSE debits[i].alloc[g]]
  <2>1. \A r \in Runs : f[r] = 0
    BY <1>2 DEF Init
  <2>2. DOMAIN debits = {} /\ DOMAIN grants = {}
    BY DEF Init
  <2> HIDE DEF f, h
  <2>3. SumOf(f, Runs) = 0 /\ SumOf(h, {}) = 0
    BY <2>1, RunsAndGrantsFinite, SumOfZeros, SumEmpty
  <2> QED
    BY <2>2, <2>3 DEF Taken, Debited, UnitsAt, f, h
<1>6. Solvent
  BY <1>5 DEF Solvent
<1>7. Prices
  BY <1>2 DEF Init, Prices
<1>8. \A r \in Runs : ~Reserves(r)
  BY DEF Init, Reserves, NoRun
<1>9. Locked /\ \A r \in Runs : Promised(r)
  BY <1>8 DEF Init, Locked, Promised
<1> QED
  BY <1>1, <1>4, <1>6, <1>7, <1>9 DEF LInv, Ledger

\* Every step keeps the ledger balanced.
LEMMA LedgerStep == LInv /\ [Next]_vars => LInv'
<1>1. LInv /\ [Next]_vars => IInv'
  BY UnitsStep DEF LInv
<1> SUFFICES ASSUME LInv, [Next]_vars, IInv' PROVE Types' /\ Ledger'
  BY <1>1 DEF LInv
<1>2. ASSUME UNCHANGED <<grants, debits, run, tx, lock, hold>>,
             plan' \in [period : 0..MaxPeriods, metered : BOOLEAN, over : BOOLEAN], wallet' \in 0..MaxFunds
      PROVE  Types' /\ Ledger'
  <2>1. Types'
    BY <1>2 DEF LInv, Types
  <2>2. \A s \in Runs : Reserves(s)' =>
          Reserves(s) /\ s \in lock' /\ run'[s].funding = run[s].funding /\ tx'[s] = tx[s]
    BY <1>2 DEF LInv, Ledger, Locked, Reserves
  <2> QED
    BY <1>2, <2>1, <2>2, LedgerCalm
<1>3. CASE UNCHANGED vars \/ PeriodEnds \/ TopUp
  <2>1. UNCHANGED <<grants, debits, run, tx, lock, hold>>
    BY <1>3 DEF vars, PeriodEnds, TopUp
  <2>2. plan \in [period : 0..MaxPeriods, metered : BOOLEAN, over : BOOLEAN] /\ wallet \in 0..MaxFunds
    BY DEF LInv, Types
  <2>3. [period |-> 0, metered |-> TRUE, over |-> FALSE] \in [period : 0..MaxPeriods, metered : BOOLEAN, over : BOOLEAN]
    BY UnitBounds
  <2>4. [plan EXCEPT !.over = TRUE] \in [period : 0..MaxPeriods, metered : BOOLEAN, over : BOOLEAN]
    BY <2>2
  <2>5. plan' = plan \/ plan' = [period |-> 0, metered |-> TRUE, over |-> FALSE] \/ plan' = [plan EXCEPT !.over = TRUE]
    BY <1>3 DEF vars, PeriodEnds, TopUp
  <2>6. plan' \in [period : 0..MaxPeriods, metered : BOOLEAN, over : BOOLEAN]
    BY <2>2, <2>3, <2>4, <2>5
  <2>7. wallet' \in 0..MaxFunds
    BY <1>3, <2>2, UnitBounds DEF vars, PeriodEnds, TopUp
  <2> QED
    BY <1>2, <2>1, <2>6, <2>7
<1>4. CASE \E r \in Runs, p \in Projects, funding \in {"units", "rub", "free"} : BeginAdmission(r, p, funding)
  BY <1>4, BeginLedger
<1>5. CASE \E r \in Runs : Admit(r) \/ AdmissionFails(r) \/ RecordUsage(r) \/ CancelActivation(r)
  <2> PICK r \in Runs : Admit(r) \/ AdmissionFails(r) \/ RecordUsage(r) \/ CancelActivation(r)
    BY <1>5
  <2>1. CASE Admit(r)
    BY <2>1, AdmitLedger
  <2>2. CASE AdmissionFails(r)
    BY <2>2, AdmissionFailsLedger
  <2>3. CASE RecordUsage(r) \/ CancelActivation(r)
    BY <2>3, WorkLedger
  <2> QED
    BY <2>1, <2>2, <2>3
<1>6. CASE \E r \in Runs, published \in {"plain", "proven"}, mode \in Modes :
             record_accepted_candidate(r, published, mode)
  <2> PICK r \in Runs : \E published \in {"plain", "proven"}, mode \in Modes :
                          record_accepted_candidate(r, published, mode)
    BY <1>6
  <2> QED
    BY WorkLedger
<1>7. CASE \E r \in Runs, status \in Endings : terminalize_generation_run_locked(r, status)
  BY <1>7, TerminalizeLedger
<1>8. CASE \E r \in Runs : _settle_terminal_locked(r)
  BY <1>8, SettleLedger
<1>9. CASE \/ \E package \in Packages : grant_payment_units(package)
           \/ \E metered \in BOOLEAN : grant_subscription_units(metered)
  BY <1>9, PurchaseLedger
<1>10. CASE exhaust_available_credits
  BY <1>10, ExhaustLedger
<1>11. CASE \E d \in DOMAIN debits : restore_exhausted_credits(d)
  BY <1>11, RestoreLedger
<1> QED
  BY <1>3, <1>4, <1>5, <1>6, <1>7, <1>8, <1>9, <1>10, <1>11 DEF Next

\* The ledger balances in every state of the specification.
LEMMA LedgerAlways == Spec => []LInv
BY LedgerInit, LedgerStep, PTL DEF Spec

-----------------------------------------------------------------------------
\* The theorems of the ledger.

\* Every variable stays in its type: the free allowance, a purchase and a period
\* write grants, an admission writes an allocation of units and no other number,
\* and the wallet is never driven below zero (services/generation_credits.py).
THEOREM UnitsTypes == Spec => []TypeOK
<1>1. LInv => TypeOK
  BY DEF LInv, IInv, Shape, Types, Debit, TypeOK
<1> QED
  BY <1>1, LedgerAlways, PTL

\* No grant gives more units than it has, whatever is held, released, lapses or is
\* debited at once, so that the next read of the inventory never finds the ledger
\* overspent (services/generation_credits.py, inventory).
THEOREM NeverOverspentAlways == Spec => []NeverOverspent
<1>1. ASSUME LInv, NEW g \in Grants
      PROVE  Spent(g) <= IF g \in DOMAIN grants THEN grants[g].units ELSE 0
  <2>1. Spent(g) = Taken(g, hold) + Debited(g, debits)
    BY <1>1, SpentIs DEF LInv
  <2>2. Taken(g, hold) + Debited(g, debits) <= UnitsAt(g, grants)
    BY <1>1 DEF LInv, Ledger, Solvent
  <2> QED
    BY <2>1, <2>2 DEF UnitsAt
<1>2. LInv => NeverOverspent
  BY <1>1 DEF NeverOverspent
<1> QED
  BY <1>2, LedgerAlways, PTL

\* The units of an allocation are the sum of what it takes of the grants.
LEMMA UnitsInIs == \A alloc : UnitsIn(alloc) = SumOf(alloc, Grants)
BY DEF UnitsIn, MapThenSumSet, MapThenFoldSet, SumOf, Sums, First

\* A run holds one unit of a bucket meant for it, or its price in flexible units,
\* over however many grants the allocation of a first build is spread
\* (services/generation_credits.py, allocate_units).
THEOREM PriceAlwaysExact == Spec => []PriceIsExact
<1>1. LInv => PriceIsExact
  BY UnitsInIs DEF LInv, Ledger, Prices, Priced, Price, PriceIsExact
<1> QED
  BY <1>1, LedgerAlways, PTL
=============================================================================
