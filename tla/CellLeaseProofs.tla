--------------------------- MODULE CellLeaseProofs ---------------------------
(***************************************************************************)
(* Who holds the Cell: the controller for nobody but the run the workspace  *)
(* row is leased to.  Proved on top of the invariant of                     *)
(* CellOperationsProofs, which knows rows but not runs: here the queue is    *)
(* shown to keep the operations of the leased run together and its release   *)
(* after its ensures (Orderly), and the journal to be held only for that     *)
(* run, whatever is still on its way (Lent).  On that it is shown that a      *)
(* release that ended failed had no effect and will have none: when a run is *)
(* observed or released (Watched), what is still on its way of it comes too  *)
(* late, and a release that was refused is dead (Firm).  All of it is known  *)
(* until an ensure that was begun is written down as failed, after a conflict *)
(* met while it was served.                                                  *)
(***************************************************************************)
EXTENDS CellOperationsProofs

-----------------------------------------------------------------------------
\* The operations of a run.

Chain(r) == OpsOf(r, {"ensure", "reconcile"})
EnsureOf(r, e) == op[e].kind = "ensure" /\ op[e].run = r
HasEnsure(r) == runState[r] # "new" /\ \E e \in Ops : EnsureOf(r, e)

\* The chain of a run ends in a completed ensure.
Repaired(r) ==
  \E t \in Ops : /\ EnsureOf(r, t) /\ op[t].status = "completed"
                 /\ \A x \in Chain(r) : op[x].fence <= op[t].fence /\ op[x].status \notin Active

\* A run begins with an ensure; the leased run owns every operation since its first,
\* and an ensure that may still be sent is of that run.
Begins_ == \A x \in Ops : op[x].run # NoRun => HasEnsure(op[x].run)
Leased == /\ lease # NoRun => HasEnsure(lease)
          /\ \A o \in Ops : op[o].kind = "ensure" /\ op[o].status \in Active => op[o].run = lease
Together == \A x, y \in Ops : lease # NoRun /\ op[x].run = lease /\ x < y /\ Exists(y) => op[y].run = lease

\* Nothing of a run is ensured after its release was reserved; a run that is still active
\* is released only when its chain is settled.
ReleaseLast == \A o, e \in Ops : op[o].kind = "release" /\ EnsureOf(op[o].run, e) => e < o
ReleaseSettled == \A o \in Ops : op[o].kind = "release" /\ runState[op[o].run] = "active" => Repaired(op[o].run)

Orderly == Begins_ /\ Leased /\ Together /\ ReleaseLast /\ ReleaseSettled

-----------------------------------------------------------------------------
\* What the journal knows of the lease.

Started(r) == \E e \in Ops : EnsureOf(r, e) /\ Begun_(e)
StartedRuns == /\ journal.active # NoRun => Started(journal.active)
               /\ \A x \in Ops : rec[x].run # NoRun => Started(rec[x].run)

\* An ensure that could still be begun, and an operation that could still give the Cell
\* to a run, are of the leased run.
Coming == \A m \in inbox : op[m.op].kind = "ensure" /\ m.fence >= journal.fence => op[m.op].run = lease
LastIsOurs ==
  journal.there /\ rec[journal.last].status # "completed" /\ rec[journal.last].kind # "release" =>
    rec[journal.last].run \in {NoRun, lease}

\* After a release nothing but an ensure holds the Cell again.
Freed(o) ==
  op[o].kind = "release" /\ rec[o].status = "completed" /\
  (\A e \in Ops : op[e].kind = "ensure" => rec[e].fence < rec[o].fence) =>
    /\ journal.active = NoRun
    /\ \A x \in Ops : rec[x].fence > rec[o].fence /\ rec[x].kind = "reconcile" => rec[x].run = NoRun

\* A release is served for the run it was reserved for.
OwnRelease == busy.op # NoOp /\ rec[busy.op].kind = "release" => op[busy.op].run = journal.active

\* The Cell is held for the leased run or for none.
HeldForLease == journal.active \in {NoRun, lease}

Lent == /\ StartedRuns /\ HeldForLease /\ Coming /\ LastIsOurs /\ OwnRelease
        /\ \A o \in Ops : Freed(o)

LInv == IInv /\ Orderly /\ Lent

\* The inductive invariant: all this is known until an ensure that was begun is written
\* down as failed, and from then on nothing of it.
LentUnlessFailed == IInv /\ (FailedEnsureHadNoEffect => LInv)

-----------------------------------------------------------------------------
\* Fences.

\* The order of fences is the order of reservation.
LEMMA FenceOrder ==
  ASSUME Queued, Fields, NEW x \in Ops, NEW y \in Ops, op[x].fence > 0, op[x].fence <= op[y].fence
  PROVE  x = y \/ x < y
<1> SUFFICES ASSUME y < x PROVE FALSE
  BY DEF Ops
<1>1. Exists(x)
  BY DEF Queued, Row, Exists
<1> QED
  BY <1>1 DEF Queued, Ordered, Fields

\* The highest fence of some operations.
LEMMA TopFenceIsTop ==
  ASSUME Queued, Fields, NEW S \in SUBSET Ops
  PROVE  /\ \A x \in S : op[x].fence <= TopFence(S)
         /\ TopFence(S) = 0 \/ \E x \in S : op[x].fence = TopFence(S)
<1> DEFINE F == {FenceOf(o) : o \in S} \cup {0}
<1>1. \A o \in S : FenceOf(o) = op[o].fence
  BY DEF FenceOf, NoOp, Ops
<1>2. F \in SUBSET Nat /\ F # {} /\ wsFence \in Nat /\ \A f \in F : f <= wsFence
  BY <1>1 DEF Queued, Row, Fields
<1>3. \E f \in F : \A g \in F : g <= f
  BY <1>2, GreatestNumber, Zenon
<1>4. TopFence(S) \in F /\ \A g \in F : g <= TopFence(S)
  BY <1>3 DEF TopFence
<1> QED
  BY <1>1, <1>4

\* The tail of a run's chain is in it.
LEMMA TailInChain ==
  ASSUME Queued, Fields, NEW r, Tail(r) # NoOp
  PROVE  Tail(r) \in Chain(r)
<1> DEFINE fenced == {o \in Chain(r) : op[o].fence > 0}
<1>0. Chain(r) \in SUBSET Ops /\ fenced \in SUBSET Ops
  BY DEF Chain, OpsOf
<1>1. Tail(r) = IF fenced # {} THEN CHOOSE o \in fenced : op[o].fence = TopFence(fenced) ELSE LastOf(Chain(r))
  BY DEF Tail, Chain
<1>2. CASE fenced # {}
  <2>1. \E o \in fenced : op[o].fence = TopFence(fenced)
    <3>1. PICK x \in fenced : op[x].fence > 0
      BY <1>2
    <3>2. op[x].fence <= TopFence(fenced) /\ op[x].fence \in Nat
      BY <1>0, TopFenceIsTop DEF Fields
    <3>3. TopFence(fenced) # 0
      BY <3>1, <3>2
    <3>4. TopFence(fenced) = 0 \/ \E o \in fenced : op[o].fence = TopFence(fenced)
      BY <1>0, TopFenceIsTop
    <3> QED
      BY <3>3, <3>4
  <2> QED
    BY <1>1, <1>2, <2>1
<1>3. CASE fenced = {}
  BY <1>0, <1>1, <1>3, LastOfIsLast DEF LastOf
<1> QED BY <1>2, <1>3

\* Once something of it has a fence, it is the one with the highest.
LEMMA TailIsTop ==
  ASSUME Queued, Fields, NEW r, NEW y \in Chain(r), op[y].fence > 0
  PROVE  Tail(r) \in Chain(r) /\ \A x \in Chain(r) : op[x].fence <= op[Tail(r)].fence
<1> DEFINE fenced == {o \in Chain(r) : op[o].fence > 0}
<1>0. Chain(r) \in SUBSET Ops /\ fenced \in SUBSET Ops /\ y \in fenced
  BY DEF Chain, OpsOf
<1>1. Tail(r) = CHOOSE o \in fenced : op[o].fence = TopFence(fenced)
  BY <1>0 DEF Tail, Chain
<1>2. /\ \A x \in fenced : op[x].fence <= TopFence(fenced)
      /\ TopFence(fenced) = 0 \/ \E x \in fenced : op[x].fence = TopFence(fenced)
  BY <1>0, TopFenceIsTop
<1>3. \A x \in Chain(r) : op[x].fence \in Nat
  BY <1>0 DEF Fields
<1>4. \E x \in fenced : op[x].fence = TopFence(fenced)
  BY <1>0, <1>2, <1>3
<1>5. Tail(r) \in fenced /\ op[Tail(r)].fence = TopFence(fenced)
  BY <1>1, <1>4
<1> QED
  BY <1>2, <1>3, <1>5

\* The tail of a settled chain is its completed ensure.
LEMMA RepairedTail ==
  ASSUME Queued, Fields, NEW r, Repaired(r)
  PROVE  Tail(r) \in Ops /\ op[Tail(r)].kind = "ensure" /\ op[Tail(r)].status = "completed"
<1>1. PICK t \in Ops : /\ EnsureOf(r, t) /\ op[t].status = "completed"
                       /\ \A x \in Chain(r) : op[x].fence <= op[t].fence
  BY DEF Repaired
<1>2. t \in Chain(r) /\ op[t].fence > 0
  BY <1>1 DEF Chain, OpsOf, EnsureOf, Queued, Row
<1>3. Tail(r) \in Chain(r) /\ op[t].fence <= op[Tail(r)].fence /\ op[Tail(r)].fence <= op[t].fence
  BY <1>1, <1>2, TailIsTop
<1>4. PICK y \in Ops : y = Tail(r)
  BY <1>3 DEF Chain, OpsOf
<1>5. (t = y \/ t < y) /\ (y = t \/ y < t)
  <2>1. op[y].fence \in Nat /\ op[t].fence \in Nat
    BY DEF Fields
  <2> QED
    BY <1>2, <1>3, <1>4, <2>1, FenceOrder
<1>6. t = y
  BY <1>5 DEF Ops
<1> QED
  BY <1>1, <1>4, <1>6 DEF EnsureOf

-----------------------------------------------------------------------------
\* What the API does to the order of a run.

\* Rows keep their kind and run; an ensure or a reconcile is touched only while active.
RowsKept ==
  \A x \in Ops : /\ op'[x].kind = op[x].kind /\ op'[x].run = op[x].run
                 /\ op[x].kind \in {"ensure", "reconcile"} =>
                      \/ op[x].status \in Active
                      \/ op'[x].status = op[x].status /\ op'[x].fence = op[x].fence

\* Runs only go on.
RunsGoOn ==
  \A r \in Run : /\ runState[r] # "new" => runState'[r] # "new"
                 /\ runState[r] # "new" /\ runState'[r] = "active" => runState[r] = "active"

\* No message is sent of an ensure of another run.
SentForLease == \A m \in inbox' : m \in inbox \/ op[m.op].kind # "ensure" \/ op[m.op].run = lease

\* A claim, a replay, an interruption, a cancellation and a stored answer leave the order alone.
LEMMA RowWrites ==
  ASSUME TypeOK, Queued, Orderly,
         \/ \E o \in Ops : Claim(o) \/ Replay(o) \/ Interrupt(o) \/ CancelWaiting(o)
         \/ \E c \in callers : Caller(c)
  PROVE  RowsKept /\ SentForLease /\ UNCHANGED <<lease, runState, journal, rec, busy>>
<1>0. op \in [Ops -> RowSet] /\ callers \subseteq CallerSet
  BY Types DEF ApiTypes, WireTypes
<1>1. ASSUME NEW o \in Ops, Claim(o)
      PROVE  RowsKept /\ SentForLease /\ UNCHANGED <<lease, runState, journal, rec, busy>>
  <2>1. op[o].status \in {"pending", "waiting_capacity"} /\ UNCHANGED <<lease, runState, journal, rec, busy>>
    BY <1>1 DEF Claim, ctrlVars
  <2>2. CASE Dispatch(o, wsFence', FALSE)
    <3>1. RowsKept
      BY <1>0, <2>1, <2>2 DEF Dispatch, RowsKept, RowSet, Active
    <3>2. op[o].kind = "ensure" => op[o].run = lease
      BY <2>1 DEF Orderly, Leased, Active
    <3>3. SentForLease
      BY <2>2, <3>2 DEF Dispatch, SentForLease
    <3> QED
      BY <2>1, <3>1, <3>3
  <2>3. CASE /\ op' = [op EXCEPT ![o].status = "failed", ![o].fence = wsFence', ![o].try = @ + 1]
             /\ UNCHANGED <<callers, inbox>>
    BY <1>0, <2>1, <2>3 DEF RowsKept, SentForLease, RowSet, Active
  <2> QED
    BY <1>1, <2>2, <2>3 DEF Claim
<1>2. ASSUME NEW o \in Ops, Replay(o)
      PROVE  RowsKept /\ SentForLease /\ UNCHANGED <<lease, runState, journal, rec, busy>>
  <2>1. op[o].kind \in {"release", "wake"} /\ Dispatch(o, op[o].fence, TRUE)
        /\ UNCHANGED <<lease, runState, journal, rec, busy>>
    BY <1>2 DEF Replay, ctrlVars
  <2> QED
    BY <1>0, <2>1 DEF Dispatch, RowsKept, SentForLease, RowSet
<1>3. ASSUME NEW o \in Ops, Interrupt(o) \/ CancelWaiting(o)
      PROVE  RowsKept /\ SentForLease /\ UNCHANGED <<lease, runState, journal, rec, busy>>
  <2>1. /\ op[o].status \in Active
        /\ \E s \in {"indeterminate", "cancelled"} : op' = [op EXCEPT ![o].status = s]
        /\ UNCHANGED <<lease, runState, inbox, journal, rec, busy>>
    BY <1>3 DEF Interrupt, CancelWaiting, Active, ctrlVars
  <2> QED
    BY <1>0, <2>1 DEF RowsKept, SentForLease, RowSet
<1>4. ASSUME NEW c \in callers, Caller(c)
      PROVE  RowsKept /\ SentForLease /\ UNCHANGED <<lease, runState, journal, rec, busy>>
  <2>1. /\ \/ op' = op
           \/ /\ op[c.op].status = "running"
              /\ \/ op' = [op EXCEPT ![c.op].status = "indeterminate"]
                 \/ op' = [op EXCEPT ![c.op].status = Outcome(c), ![c.op].ans = IF c.ans.is = "ok" THEN c.ans ELSE @]
        /\ UNCHANGED <<lease, runState, inbox, journal, rec, busy>>
    BY <1>4 DEF Caller, Persist, LoseAnswer, ConnectionLost, GiveUp, ctrlVars
  <2>2. c.op \in Ops
    BY <1>0 DEF CallerSet
  <2> QED
    BY <1>0, <2>1, <2>2 DEF RowsKept, SentForLease, RowSet, Active
<1> QED
  BY <1>1, <1>2, <1>3, <1>4

\* Then nothing that was settled is undone.
LEMMA OrderKept ==
  ASSUME Fields, Queued, Orderly, RowsKept, RunsGoOn, lease' = lease
  PROVE  Orderly'
<1>1. \A x \in Ops : op'[x].kind = op[x].kind /\ op'[x].run = op[x].run
  BY DEF RowsKept
<1>2. \A r \in Run : HasEnsure(r) => HasEnsure(r)'
  BY <1>1 DEF HasEnsure, EnsureOf, RunsGoOn
<1>3. \A x \in Ops : op[x].run \in Run \cup {NoRun}
  BY DEF Fields
<1>4. Begins_'
  BY <1>1, <1>2, <1>3 DEF Orderly, Begins_
<1>5. ASSUME lease # NoRun, HasEnsure(lease)  PROVE HasEnsure(lease)'
  <2>1. PICK e \in Ops : EnsureOf(lease, e)
    BY <1>5 DEF HasEnsure
  <2>2. lease \in Run
    BY <1>3, <1>5, <2>1 DEF EnsureOf
  <2>3. PICK r \in Run : r = lease
    BY <2>2
  <2>4. HasEnsure(r)'
    BY <1>2, <1>5, <2>3
  <2> QED
    BY <2>3, <2>4 DEF HasEnsure, EnsureOf
<1>6. Leased'
  <2>1. \A o \in Ops : op'[o].kind = "ensure" /\ op'[o].status \in Active => op'[o].run = lease
    BY <1>1 DEF Orderly, Leased, RowsKept
  <2> QED
    BY <1>5, <2>1 DEF Orderly, Leased
<1>7. Together'
  BY <1>1 DEF Orderly, Together, Exists
<1>8. ReleaseLast'
  BY <1>1 DEF Orderly, ReleaseLast, EnsureOf
<1>9. ASSUME NEW r \in Run, Repaired(r)  PROVE Repaired(r)'
  <2>1. PICK t \in Ops : /\ EnsureOf(r, t) /\ op[t].status = "completed"
                         /\ \A x \in Chain(r) : op[x].fence <= op[t].fence /\ op[x].status \notin Active
    BY <1>9 DEF Repaired
  <2>2. Chain(r)' = Chain(r) /\ t \in Chain(r)
    BY <1>1, <2>1 DEF Chain, OpsOf, EnsureOf
  <2>3. \A x \in Chain(r) : op'[x].status = op[x].status /\ op'[x].fence = op[x].fence
    BY <2>1 DEF RowsKept, Chain, OpsOf
  <2>4. EnsureOf(r, t)' /\ op'[t].status = "completed"
    BY <1>1, <2>1, <2>2, <2>3 DEF EnsureOf
  <2> QED
    BY <2>1, <2>2, <2>3, <2>4 DEF Repaired
<1>10. ReleaseSettled'
  <2> SUFFICES ASSUME NEW o \in Ops, op'[o].kind = "release", runState'[op'[o].run] = "active"
               PROVE  Repaired(op[o].run)'
    BY DEF ReleaseSettled
  <2>1. CASE op[o].run \in Run
    <3>1. PICK r \in Run : r = op[o].run
      BY <2>1
    <3>2. runState[r] # "new"
      BY <3>1, NoRunIsNoRun DEF Orderly, Begins_, HasEnsure
    <3>3. Repaired(r)
      BY <1>1, <3>1, <3>2 DEF RunsGoOn, Orderly, ReleaseSettled
    <3>4. Repaired(r)'
      BY <1>9, <3>3
    <3> QED
      BY <1>1, <3>1, <3>4
  <2>2. op[o].run # NoRun
    BY <1>1 DEF Queued, Row
  <2> QED
    BY <1>3, <2>1, <2>2
<1> QED
  BY <1>4, <1>6, <1>7, <1>8, <1>10 DEF Orderly

-----------------------------------------------------------------------------
\* What a reservation does to the order of a run.

\* A row that is placed for the leased run keeps the order, if a release comes after the
\* chain and the chain goes on only without one.
LEMMA OrderPlaced ==
  ASSUME Queued, Fields, Orderly, NEW o \in Ops, NEW kind \in Kinds, NEW r \in Run \cup {NoRun}, NEW t,
         Places(o, kind, r, t), op \in [Ops -> RowSet], runState' = runState, lease' = r,
         r \in Run => /\ runState[r] # "new" /\ (kind = "ensure" \/ HasEnsure(r))
                      /\ lease = r \/ \A x \in Ops : op[x].run # r,
         kind = "ensure" => \A x \in Ops : op[x].kind = "release" => op[x].run # r,
         kind = "reconcile" => \A x \in Ops : op[x].kind = "release" /\ op[x].run = r => runState[r] # "active",
         kind = "release" => runState[r] # "active" \/ Repaired(r)
  PROVE  Orderly'
<1>1. /\ \A x \in Ops \ {o} : op'[x] = op[x]
      /\ op'[o].kind = kind /\ op'[o].run = r /\ op'[o].status = "pending" /\ op'[o].fence = 0
  BY DEF Places, NoRow
<1>2. /\ op[o].kind = "none" /\ op[o].status = "none" /\ op[o].run = NoRun
      /\ \A x \in Ops : x # o /\ op[x].kind # "none" => x < o
      /\ \A x \in Ops : op[x].status \notin Active
      /\ kind = "wake" <=> r = NoRun
  BY DEF Places, Exists, Queued, Row, NoneActive
<1>3. \A x \in Ops : op[x].run # NoRun => op[x].kind # "none" /\ x # o /\ op[x].run \in Run
  BY <1>2 DEF Queued, Row, Fields
<1>4. \A e \in Ops, p \in Run : EnsureOf(p, e) => EnsureOf(p, e)'
  BY <1>1, <1>2 DEF EnsureOf
<1>5. \A p \in Run : HasEnsure(p) => HasEnsure(p)'
  BY <1>4 DEF HasEnsure
<1>6. r \in Run => HasEnsure(r)'
  <2>1. kind = "ensure" => EnsureOf(r, o)'
    BY <1>1 DEF EnsureOf
  <2> QED
    BY <1>5, <2>1 DEF HasEnsure
<1>7. Begins_'
  <2> SUFFICES ASSUME NEW x \in Ops, op'[x].run # NoRun PROVE HasEnsure(op[x].run)'
    BY DEF Begins_
  <2>1. PICK p \in Run : p = op'[x].run
    BY <1>1, <1>3
  <2>2. HasEnsure(p)'
    BY <1>1, <1>3, <1>5, <1>6, <2>1 DEF Orderly, Begins_
  <2> QED
    BY <2>1, <2>2 DEF HasEnsure, EnsureOf
<1>8. Leased'
  <2>1. lease' # NoRun => HasEnsure(lease)'
    BY <1>6 DEF HasEnsure, EnsureOf
  <2>2. \A x \in Ops : op'[x].kind = "ensure" /\ op'[x].status \in Active => op'[x].run = lease'
    BY <1>1, <1>2
  <2> QED
    BY <2>1, <2>2 DEF Leased
<1>9. Together'
  <2> SUFFICES ASSUME NEW x \in Ops, NEW y \in Ops, r # NoRun, op'[x].run = r, x < y, op'[y].kind # "none"
               PROVE  op'[y].run = r
    BY DEF Together, Exists
  <2>1. CASE y = o
    BY <1>1, <2>1
  <2>2. CASE y # o
    <3>1. y < o /\ op[y].kind # "none"
      BY <1>1, <1>2, <2>2
    <3>2. x # o /\ op[x].run = r
      BY <1>1, <3>1 DEF Ops
    <3>3. lease = r
      BY <3>2
    <3> QED
      BY <1>1, <2>2, <3>1, <3>2, <3>3 DEF Orderly, Together, Exists
  <2> QED BY <2>1, <2>2
<1>10. ReleaseLast'
  <2> SUFFICES ASSUME NEW x \in Ops, NEW e \in Ops, op'[x].kind = "release", op'[e].kind = "ensure",
                      op'[e].run = op'[x].run
               PROVE  e < x
    BY DEF ReleaseLast, EnsureOf
  <2>1. CASE x = o
    <3>1. e # o
      BY <2>1
    <3> QED
      BY <1>1, <1>2, <2>1, <3>1
  <2>2. CASE x # o /\ e = o
    BY <1>1, <2>2
  <2>3. CASE x # o /\ e # o
    BY <1>1, <2>3 DEF Orderly, ReleaseLast, EnsureOf
  <2> QED BY <2>1, <2>2, <2>3
<1>11. ASSUME NEW p \in Run, Repaired(p), ~(r = p /\ kind \in {"ensure", "reconcile"})  PROVE Repaired(p)'
  <2>1. PICK y \in Ops : /\ EnsureOf(p, y) /\ op[y].status = "completed"
                         /\ \A x \in Chain(p) : op[x].fence <= op[y].fence /\ op[x].status \notin Active
    BY <1>11 DEF Repaired
  <2>2. \A x \in Chain(p)' : x \in Chain(p) /\ op'[x] = op[x]
    BY <1>1, <1>11 DEF Chain, OpsOf
  <2>3. y # o /\ op'[y] = op[y]
    BY <1>1, <1>2, <2>1
  <2>4. EnsureOf(p, y)' /\ op'[y].status = "completed"
    BY <2>1, <2>3 DEF EnsureOf
  <2> QED
    BY <2>1, <2>2, <2>3, <2>4 DEF Repaired
<1>12. ReleaseSettled'
  <2> SUFFICES ASSUME NEW x \in Ops, op'[x].kind = "release", runState[op'[x].run] = "active"
               PROVE  Repaired(op[x].run)'
    BY DEF ReleaseSettled
  <2>1. op'[x].run \in Run
    <3>1. CASE x = o
      BY <1>1, <1>2, <3>1
    <3>2. CASE x # o
      BY <1>1, <1>3, <3>2 DEF Queued, Row
    <3> QED BY <3>1, <3>2
  <2>2. PICK p \in Run : p = op'[x].run
    BY <2>1
  <2>3. Repaired(p) /\ ~(r = p /\ kind \in {"ensure", "reconcile"})
    <3>1. CASE x = o
      BY <1>1, <2>2, <3>1
    <3>2. CASE x # o
      BY <1>1, <2>2, <3>2 DEF Orderly, ReleaseSettled
    <3> QED BY <3>1, <3>2
  <2>4. Repaired(p)'
    BY <1>11, <2>3
  <2> QED
    BY <2>2, <2>4 DEF Repaired, EnsureOf, Chain, OpsOf
<1> QED
  BY <1>7, <1>8, <1>9, <1>10, <1>12 DEF Orderly

\* Every reservation does so.
LEMMA OrderReserved ==
  ASSUME IInv, Orderly,
         \/ \E r \in Run : ReserveAdmission(r) \/ Recovery(r)
         \/ ReserveWake
  PROVE  Orderly' /\ (lease' # lease => \E r \in Run : ReserveAdmission(r))
         /\ \E o \in Ops, kind \in Kinds, r \in Run \cup {NoRun}, t \in Ops \cup {NoOp} : Places(o, kind, r, t)
<1>0. Queued /\ Fields /\ op \in [Ops -> RowSet]
  BY FieldTypes, Types DEF IInv, ApiTypes
<1>1. ASSUME ReserveWake
      PROVE  Orderly' /\ lease' = lease /\ \E o \in Ops : Places(o, "wake", NoRun, NoOp)
  <2>1. Reserve("wake", NoRun, NoOp) /\ lease = NoRun
        /\ UNCHANGED <<wsFence, lease, runState, callers, inbox, ctrlVars, faults>>
    BY <1>1 DEF ReserveWake
  <2>2. "wake" \in Kinds /\ NoOp \in Ops \cup {NoOp} /\ NoRun \in Run \cup {NoRun}
    BY DEF Kinds
  <2>3. PICK o \in Ops : Places(o, "wake", NoRun, NoOp)
    BY <2>1, <2>2, ReservePlaces
  <2>4. Orderly'
    BY <1>0, <2>1, <2>2, <2>3, NoRunIsNoRun, OrderPlaced
  <2> QED
    BY <2>1, <2>3, <2>4
<1>2. ASSUME NEW r \in Run, ReserveAdmission(r)
      PROVE  Orderly' /\ \E o \in Ops : Places(o, "ensure", r, NoOp)
  <2>1. Reserve("ensure", r, NoOp) /\ runState[r] = "active" /\ OpsOf(r, {"ensure"}) = {}
        /\ lease' = r /\ UNCHANGED <<wsFence, runState, callers, inbox, ctrlVars, faults>>
    BY <1>2 DEF ReserveAdmission
  <2>2. "ensure" \in Kinds /\ NoOp \in Ops \cup {NoOp}
    BY DEF Kinds
  <2>3. PICK o \in Ops : Places(o, "ensure", r, NoOp)
    BY <2>1, <2>2, NoRunIsNoRun, ReservePlaces
  <2>4. \A x \in Ops : op[x].run # r
    BY <2>1, NoRunIsNoRun DEF Orderly, Begins_, HasEnsure, EnsureOf, OpsOf
  <2>5. Orderly'
    BY <1>0, <2>1, <2>2, <2>3, <2>4, OrderPlaced
  <2> QED
    BY <2>3, <2>5
<1>3. ASSUME NEW r \in Run, Recovery(r)
      PROVE  Orderly' /\ lease' = lease
             /\ \E o \in Ops, kind \in Kinds, t \in Ops \cup {NoOp} : Places(o, kind, r, t)
  <2>1. lease = r /\ UNCHANGED <<wsFence, lease, runState, callers, inbox, ctrlVars, faults>>
    BY <1>3 DEF Recovery, ReserveRepair, ReserveObserve, ReserveRelease, ReserveReconcile
  <2>2. HasEnsure(r) /\ runState[r] # "new"
    BY <2>1, NoRunIsNoRun DEF Orderly, Leased, HasEnsure
  <2>3. ASSUME NEW x \in Ops, op[x].kind = "release", op[x].run = r, runState[r] = "active"
        PROVE  Tail(r) \in Ops /\ op[Tail(r)].kind = "ensure" /\ op[Tail(r)].status = "completed"
    <3>1. Repaired(r)
      BY <2>3 DEF Orderly, ReleaseSettled
    <3> QED
      BY <1>0, <3>1, RepairedTail
  <2>4. PICK kind \in {"ensure", "status", "release", "reconcile"}, t \in Ops \cup {NoOp} :
          /\ Reserve(kind, r, t)
          /\ kind = "ensure" => ReserveRepair(r)
          /\ kind = "reconcile" => ReserveReconcile(r, t)
          /\ kind = "release" => ReserveRelease(r)
    BY <1>3 DEF Recovery, ReserveRepair, ReserveObserve, ReserveRelease, ReserveReconcile
  <2>5. kind \in Kinds /\ kind # "wake"
    BY DEF Kinds
  <2>6. PICK o \in Ops : Places(o, kind, r, t)
    BY <2>1, <2>4, <2>5, NoRunIsNoRun, ReservePlaces
  <2>7. kind = "ensure" => \A x \in Ops : op[x].kind = "release" => op[x].run # r
    <3> SUFFICES ASSUME kind = "ensure", NEW x \in Ops, op[x].kind = "release", op[x].run = r PROVE FALSE
      OBVIOUS
    <3> DEFINE S == {y \in OpsOf(r, {"reconcile"}) : Completed(y)}
    <3>1. runState[r] = "active" /\ LastOf(S) # NoOp
          /\ (Tail(r) = LastOf(S) \/ op[Tail(r)].status \in Refused)
      BY <2>4 DEF ReserveRepair
    <3>2. op[Tail(r)].kind = "ensure" /\ op[Tail(r)].status = "completed"
      BY <2>3, <3>1
    <3>3. S \in SUBSET Ops /\ S # {}
      BY <3>1 DEF OpsOf, LastOf
    <3>4. LastOf(S) \in S
      BY <3>3, LastOfIsLast
    <3> QED
      BY <3>1, <3>2, <3>4 DEF OpsOf, Refused
  <2>8. kind = "reconcile" => \A x \in Ops : op[x].kind = "release" /\ op[x].run = r => runState[r] # "active"
    <3> SUFFICES ASSUME kind = "reconcile", NEW x \in Ops, op[x].kind = "release", op[x].run = r,
                        runState[r] = "active"
                 PROVE  FALSE
      OBVIOUS
    <3>1. op[Tail(r)].status = "indeterminate" \/ op[Tail(r)].kind = "reconcile"
      BY <2>4 DEF ReserveReconcile, ReconcileTarget
    <3> QED
      BY <2>3, <3>1
  <2>9. kind = "release" => runState[r] # "active" \/ Repaired(r)
    <3> SUFFICES ASSUME kind = "release", runState[r] = "active" PROVE Repaired(r)
      OBVIOUS
    <3>1. Tail(r) # NoOp /\ op[Tail(r)].status = "completed" /\ op[Tail(r)].kind = "ensure" /\ NoneActive
      BY <2>4 DEF ReserveRelease, Completed, Reserve
    <3>2. Tail(r) \in Chain(r)
      BY <1>0, <3>1, TailInChain
    <3>3. PICK y \in Ops : y = Tail(r)
      BY <3>2 DEF Chain, OpsOf
    <3>4. op[y].fence > 0
      BY <1>0, <3>1, <3>3 DEF Queued, Row
    <3>5. \A x \in Chain(r) : op[x].fence <= op[y].fence
      BY <1>0, <3>2, <3>3, <3>4, TailIsTop
    <3>6. EnsureOf(r, y) /\ \A x \in Chain(r) : op[x].status \notin Active
      BY <3>1, <3>2, <3>3 DEF EnsureOf, Chain, OpsOf, NoneActive
    <3> QED
      BY <3>1, <3>3, <3>5, <3>6 DEF Repaired
  <2>10. Orderly'
    BY <1>0, <2>1, <2>2, <2>5, <2>6, <2>7, <2>8, <2>9, OrderPlaced
  <2> QED
    BY <2>1, <2>5, <2>6, <2>10
<1>4. "wake" \in Kinds /\ "ensure" \in Kinds /\ NoOp \in Ops \cup {NoOp}
  BY DEF Kinds
<1> QED
  BY <1>1, <1>2, <1>3, <1>4, Zenon

-----------------------------------------------------------------------------
\* What the API does to what the journal knows.

\* Rows that were begun keep their kind and run.
BegunKept == \A x \in Ops : Begun_(x) => op'[x].kind = op[x].kind /\ op'[x].run = op[x].run

\* An operation of a run is known to have started whatever the API does.
LEMMA StartedKept ==
  ASSUME BegunKept, rec' = rec, journal' = journal
  PROVE  (\A r : Started(r) => Started(r)') /\ (StartedRuns => StartedRuns')
<1>1. \A r : Started(r) => Started(r)'
  BY DEF Started, BegunKept, EnsureOf, Begun_
<1> QED
  BY <1>1 DEF StartedRuns, Started, EnsureOf, Begun_

\* A release that freed the Cell is not forgotten.
LEMMA FreedKept ==
  ASSUME Told, Fields, BegunKept, rec' = rec, journal' = journal, NEW o \in Ops, Freed(o)
  PROVE  Freed(o)'
<1> SUFFICES ASSUME op'[o].kind = "release", rec[o].status = "completed",
                    \A e \in Ops : op'[e].kind = "ensure" => rec[e].fence < rec[o].fence
             PROVE  /\ journal.active = NoRun
                    /\ \A x \in Ops : rec[x].fence > rec[o].fence /\ rec[x].kind = "reconcile" => rec[x].run = NoRun
  BY DEF Freed
<1>1. op[o].kind = "release" /\ rec[o].fence > 0
  BY DEF BegunKept, Begun_, Told, Recorded
<1>2. ASSUME NEW e \in Ops, op[e].kind = "ensure"  PROVE rec[e].fence < rec[o].fence
  <2>1. CASE Begun_(e)
    BY <1>2, <2>1 DEF BegunKept
  <2>2. CASE ~Begun_(e)
    BY <1>1, <2>2 DEF Told, Recorded, NoRecord
  <2> QED BY <2>1, <2>2
<1> QED
  BY <1>1, <1>2 DEF Freed

\* A write that leaves the lease alone and sends no ensure of another run.
LEMMA LentKept ==
  ASSUME IInv, Lent, lease' = lease, UNCHANGED <<journal, rec, busy>>,
         \A x \in Ops : Exists(x) => op'[x].kind = op[x].kind /\ op'[x].run = op[x].run,
         SentForLease, \A m \in inbox' : m.op \in Ops /\ Exists(m.op)
  PROVE  Lent'
<1>0. Told /\ Fields
  BY FieldTypes DEF IInv, Told
<1>1. BegunKept
  BY <1>0 DEF BegunKept, Told, Recorded
<1>2. StartedRuns'
  BY <1>1, StartedKept DEF Lent
<1>3. HeldForLease' /\ LastIsOurs'
  BY DEF Lent, HeldForLease, LastIsOurs
<1>4. Coming'
  BY DEF Lent, Coming, SentForLease
<1>5. OwnRelease'
  <2>1. busy.op # NoOp => busy.op \in Ops /\ Exists(busy.op)
    BY <1>0 DEF Told, Served, Recorded, Begun_, Fields
  <2> QED
    BY <2>1 DEF Lent, OwnRelease
<1>6. \A o \in Ops : Freed(o)'
  BY <1>0, <1>1, FreedKept DEF Lent
<1> QED
  BY <1>2, <1>3, <1>4, <1>5, <1>6 DEF Lent

\* A run takes the Cell over only from one whose ensures had no effect and never will.
LEMMA LentAdmitted ==
  ASSUME IInv, Lent, FailedEnsureHadNoEffect, NEW r \in Run, ReserveAdmission(r), NEW o \in Ops, NEW t, Places(o, "ensure", r, t)
  PROVE  Lent'
<1>0. Told /\ Fields /\ op \in [Ops -> RowSet] /\ Queued
  BY FieldTypes, Types DEF IInv, Told, ApiTypes
<1>1. /\ \A x \in Ops : Exists(x) => op'[x] = op[x]
      /\ UNCHANGED <<journal, rec, busy, inbox>> /\ lease' = r
  BY <1>0 DEF Places, ReserveAdmission
<1>2. BegunKept
  BY <1>0, <1>1 DEF BegunKept, Told, Recorded
<1>3. StartedRuns'
  BY <1>1, <1>2, StartedKept DEF Lent
<1>4. ASSUME lease \notin {NoRun, r}, NEW e \in Ops, EnsureOf(lease, e)
      PROVE  ~Begun_(e) /\ op[e].status \in Refused
  <2>1. op[e].status \in Refused
    BY <1>4 DEF ReserveAdmission, EnsureOf, OpsOf
  <2> QED
    BY <1>0, <1>4, <2>1 DEF Told, Recorded, EnsureOf, Once, Refused, FailedEnsureHadNoEffect, Begun_
<1>5. lease \notin {NoRun, r} => ~Started(lease)
  BY <1>4 DEF Started
<1>6. HeldForLease'
  BY <1>1, <1>5 DEF Lent, HeldForLease, StartedRuns
<1>7. LastIsOurs'
  <2> SUFFICES ASSUME journal.there, rec[journal.last].status # "completed", rec[journal.last].kind # "release"
               PROVE  rec[journal.last].run \in {NoRun, r}
    BY <1>1 DEF LastIsOurs
  <2>1. journal.last \in Ops /\ rec[journal.last].run \in {NoRun, lease}
    BY <1>0 DEF Told, JournalLast, Lent, LastIsOurs
  <2> QED
    BY <1>5, <2>1 DEF Lent, StartedRuns
<1>8. Coming'
  <2> SUFFICES ASSUME NEW m \in inbox, op'[m.op].kind = "ensure", m.fence >= journal.fence
               PROVE  op'[m.op].run = r
    BY <1>1 DEF Coming
  <2>1. m.op \in Ops /\ OnItsWay(m) /\ Exists(m.op)
    BY <1>0 DEF Told, Fields, OnItsWay, Queued, Row, Exists
  <2>2. op[m.op].kind = "ensure" /\ op[m.op].run = lease /\ op'[m.op].run = op[m.op].run
    BY <1>1, <2>1 DEF Lent, Coming
  <2>3. op[m.op].status \notin Refused /\ lease # NoRun
    BY <1>0, <2>1, <2>2 DEF OnItsWay, Once, Refused, Queued, Row
  <2> QED
    BY <1>4, <2>1, <2>2, <2>3 DEF EnsureOf
<1>9. OwnRelease'
  <2>1. busy.op # NoOp => busy.op \in Ops /\ Exists(busy.op)
    BY <1>0 DEF Told, Served, Recorded, Begun_, Fields
  <2> QED
    BY <1>1, <2>1 DEF Lent, OwnRelease
<1>10. \A x \in Ops : Freed(x)'
  BY <1>0, <1>1, <1>2, FreedKept DEF Lent
<1> QED
  BY <1>3, <1>6, <1>7, <1>8, <1>9, <1>10 DEF Lent

\* A lease that is given back was not held any more, nor may anything hold the Cell
\* for it again.
LEMMA LentGivenBack ==
  ASSUME IInv, Orderly, Lent, lease' = NoRun, UNCHANGED <<op, inbox, journal, rec, busy>>,
         journal.active = NoRun,
         \A m \in inbox : op[m.op].kind = "ensure" => m.fence < journal.fence,
         journal.there /\ rec[journal.last].status # "completed" /\ rec[journal.last].kind # "release" =>
           rec[journal.last].run = NoRun
  PROVE  Lent'
<1>1. StartedRuns' /\ OwnRelease' /\ HeldForLease' /\ LastIsOurs' /\ \A o \in Ops : Freed(o)'
  BY DEF Lent, StartedRuns, Started, EnsureOf, Begun_, OwnRelease, HeldForLease, LastIsOurs, Freed
<1>2. Coming'
  <2>1. \A m \in inbox : m.fence \in Nat /\ journal.fence \in Nat
    BY FieldTypes DEF IInv, Fields
  <2> QED
    BY <2>1 DEF Coming
<1> QED
  BY <1>1, <1>2 DEF Lent

\* So it is when the receipt of its release is confirmed,
LEMMA LentConfirmed ==
  ASSUME IInv, Orderly, Lent, NEW o \in Ops, ConfirmRelease(o)
  PROVE  Lent'
<1>0. Told /\ Fields /\ Queued
  BY FieldTypes DEF IInv, Told
<1>1. /\ op[o].kind = "release" /\ op[o].status = "completed" /\ lease = op[o].run /\ lease' = NoRun
      /\ UNCHANGED <<op, inbox, journal, rec, busy>>
  BY DEF ConfirmRelease, Completed, ctrlVars
<1>2. lease # NoRun
  BY <1>0, <1>1 DEF Queued, Row
<1>3. /\ rec[o].status = "completed" /\ rec[o].fence = op[o].fence /\ rec[o].fence > 0 /\ rec[o].fence <= journal.fence
      /\ (rec[o].fence = journal.fence => journal.last = o)
  BY <1>0, <1>1 DEF Told, Receipts, TrueAnswer, Looks, Recorded, Begun_
<1>4. ASSUME NEW e \in Ops, op[e].kind = "ensure"  PROVE op[e].fence < op[o].fence
  <2> SUFFICES ASSUME op[o].fence <= op[e].fence PROVE FALSE
    BY <1>0 DEF Fields
  <2>1. o < e
    BY <1>0, <1>1, <1>3, <1>4, FenceOrder
  <2>2. op[e].run = lease
    BY <1>1, <1>2, <1>4, <2>1 DEF Orderly, Together, Exists
  <2>3. e < o
    BY <1>1, <1>4, <2>2 DEF Orderly, ReleaseLast, EnsureOf
  <2> QED
    BY <2>1, <2>3 DEF Ops
<1>5. ASSUME NEW e \in Ops, op[e].kind = "ensure"  PROVE rec[e].fence < rec[o].fence
  <2>1. rec[e].fence <= op[e].fence
    BY <1>0 DEF Told, Recorded, NoRecord, Fields
  <2> QED
    BY <1>0, <1>3, <1>4, <1>5, <2>1 DEF Fields
<1>6. journal.active = NoRun /\ \A x \in Ops : rec[x].fence > rec[o].fence /\ rec[x].kind = "reconcile" => rec[x].run = NoRun
  BY <1>1, <1>3, <1>5 DEF Lent, Freed
<1>7. \A m \in inbox : op[m.op].kind = "ensure" => m.fence < journal.fence
  <2> SUFFICES ASSUME NEW m \in inbox, op[m.op].kind = "ensure" PROVE m.fence < journal.fence
    OBVIOUS
  <2>1. m.op \in Ops /\ m.fence <= op[m.op].fence
    BY <1>0 DEF Told, Fields, OnItsWay
  <2> QED
    BY <1>0, <1>3, <1>4, <2>1 DEF Fields
<1>8. ASSUME journal.there, rec[journal.last].status # "completed", rec[journal.last].kind # "release"
      PROVE  rec[journal.last].run = NoRun
  <2>1. PICK x \in Ops : x = journal.last
    BY <1>0, <1>8 DEF Told, JournalLast
  <2>2. /\ Begun_(x) /\ rec[x].fence = journal.fence /\ x # o
        /\ rec[x].kind = RecKind(op[x].kind) /\ Exists(x) /\ op[x].kind \in Kinds
        /\ op[x].kind \in {"ensure", "wake"} => rec[x].run = op[x].run
    BY <1>0, <1>3, <1>8, <2>1 DEF Told, JournalLast, Recorded, Exists, Fields
  <2>3. rec[x].fence > rec[o].fence
    BY <1>0, <1>3, <2>1, <2>2 DEF Fields
  <2>4. op[x].kind # "ensure"
    BY <1>0, <1>5, <2>3 DEF Fields
  <2>5. CASE op[x].kind = "wake"
    BY <1>0, <2>1, <2>2, <2>5 DEF Queued, Row
  <2>6. CASE op[x].kind \in Looks
    BY <1>6, <2>1, <2>2, <2>3, <2>6 DEF RecKind, Looks
  <2> QED
    BY <1>8, <2>1, <2>2, <2>4, <2>5, <2>6 DEF Kinds, RecKind, Looks
<1> QED
  BY <1>1, <1>6, <1>7, <1>8, LentGivenBack

\* and when an observation at the present fence found no lease and nothing open.
LEMMA LentObserved ==
  ASSUME IInv, Orderly, Lent, NEW o \in Ops, ClearObserved(o)
  PROVE  Lent'
<1>0. Told /\ Fields /\ Queued
  BY FieldTypes DEF IInv, Told
<1>1. /\ op[o].kind \in Looks /\ op[o].status = "completed" /\ wsFence = op[o].fence /\ lease' = NoRun
      /\ op[o].ans.proof /\ op[o].ans.quiet /\ op[o].ans.active = NoRun
      /\ UNCHANGED <<op, inbox, journal, rec, busy>>
  BY DEF ClearObserved, Completed, Looks, ctrlVars
<1>2. Calm(o)
  BY <1>0, <1>1 DEF Told, Receipts, TrueAnswer
<1>3. rec[o].fence = wsFence /\ rec[o].fence <= journal.fence /\ rec[o].fence > 0
  BY <1>0, <1>1, <1>2 DEF Calm, Told, Recorded
<1>4. journal.there
  BY <1>0, <1>2 DEF Calm, Told, JournalLast
<1>5. journal.fence <= wsFence
  <2>1. PICK x \in Ops : x = journal.last
    BY <1>0, <1>4 DEF Told, JournalLast
  <2>2. rec[x].fence = journal.fence /\ rec[x].fence <= op[x].fence /\ op[x].fence <= wsFence
    BY <1>0, <1>4, <2>1 DEF Told, JournalLast, Recorded, Queued, Row
  <2> QED
    BY <1>0, <2>2 DEF Fields
<1>6. journal.fence = rec[o].fence
  BY <1>0, <1>3, <1>5 DEF Fields
<1>7. journal.last = o
  BY <1>0, <1>2, <1>6 DEF Told, Recorded, Calm
<1>8. journal.active = NoRun /\ rec[o].status = "completed"
  BY <1>2, <1>7 DEF Calm, Begun_
<1>9. \A m \in inbox : op[m.op].kind = "ensure" => m.fence < journal.fence
  <2> SUFFICES ASSUME NEW m \in inbox, op[m.op].kind = "ensure", m.fence >= journal.fence PROVE FALSE
    BY <1>0 DEF Fields
  <2>1. m.op \in Ops /\ m.fence <= op[m.op].fence /\ op[m.op].fence <= wsFence /\ m.op # o
    BY <1>0, <1>1 DEF Told, Fields, OnItsWay, Queued, Row, Looks
  <2>2. op[m.op].fence = op[o].fence /\ op[o].fence > 0
    BY <1>0, <1>1, <1>3, <1>6, <2>1 DEF Fields
  <2>3. (m.op < o) /\ (o < m.op)
    <3>1. op[m.op].fence <= op[o].fence /\ op[o].fence <= op[m.op].fence /\ op[m.op].fence > 0
      BY <1>0, <2>1, <2>2 DEF Fields
    <3> QED
      BY <1>0, <2>1, <2>2, <3>1, FenceOrder
  <2> QED
    BY <2>1, <2>3 DEF Ops
<1> QED
  BY <1>1, <1>7, <1>8, <1>9, LentGivenBack

-----------------------------------------------------------------------------
\* What the controller does to what its journal knows.

\* A run that has started has, whatever the controller does.
LEMMA StartedStays ==
  ASSUME op' = op, \A x \in Ops : Begun_(x) => Begun_(x)', NEW r, Started(r)
  PROVE  Started(r)'
BY DEF Started, EnsureOf

\* Reading under the lock gives the Cell to nobody.
LEMMA LentReads ==
  ASSUME IInv, Lent, NEW j \in JournalSet, NEW rs \in RecordSets, Read(j, rs),
         journal' = j, rec' = rs, UNCHANGED <<op, lease, busy>>,
         \A m \in inbox' : \E n \in inbox : n.op = m.op /\ n.fence = m.fence
  PROVE  Lent'
<1>0. Told /\ Fields
  BY FieldTypes DEF IInv, Told
<1>1. /\ journal'.there = journal.there /\ journal'.fence = journal.fence
      /\ journal'.last = journal.last /\ journal'.active = journal.active
      /\ \A x \in Ops : /\ rec'[x].kind = rec[x].kind /\ rec'[x].fence = rec[x].fence /\ rec'[x].run = rec[x].run
                        /\ rec'[x].status = "completed" <=> rec[x].status = "completed"
                        /\ rec'[x].status = "none" <=> rec[x].status = "none"
  BY ReadKeeps
<1>2. \A r : Started(r) => Started(r)'
  BY <1>1, StartedStays DEF Begun_
<1>3. StartedRuns'
  <2>1. journal'.active # NoRun => Started(journal.active)'
    <3>1. PICK r : r = journal.active
      OBVIOUS
    <3>2. r # NoRun => Started(r)'
      BY <1>2, <3>1 DEF Lent, StartedRuns
    <3> QED
      BY <1>1, <3>1, <3>2 DEF Started, EnsureOf
  <2>2. ASSUME NEW x \in Ops, rec'[x].run # NoRun  PROVE Started(rec[x].run)'
    <3>1. PICK r : r = rec[x].run
      OBVIOUS
    <3>2. Started(r)'
      BY <1>1, <1>2, <2>2, <3>1 DEF Lent, StartedRuns
    <3> QED
      BY <1>1, <3>1, <3>2 DEF Started, EnsureOf
  <2> QED
    BY <2>1, <2>2 DEF StartedRuns
<1>4. HeldForLease' /\ Coming'
  BY <1>1 DEF Lent, HeldForLease, Coming
<1>5. LastIsOurs'
  <2> SUFFICES ASSUME journal.there, rec'[journal.last].status # "completed", rec'[journal.last].kind # "release"
               PROVE  rec'[journal.last].run \in {NoRun, lease}
    BY <1>1 DEF LastIsOurs
  <2>1. journal.last \in Ops
    BY <1>0 DEF Told, JournalLast
  <2> QED
    BY <1>1, <2>1 DEF Lent, LastIsOurs
<1>6. OwnRelease'
  BY <1>0, <1>1 DEF Lent, OwnRelease, Fields
<1>7. \A o \in Ops : Freed(o)'
  BY <1>1 DEF Lent, Freed
<1> QED
  BY <1>3, <1>4, <1>5, <1>6, <1>7 DEF Lent

\* What is begun is of the leased run, or of none: an ensure because of its fence, an
\* observation because of what the journal shows, a release because the operations of
\* the leased run are together.
LEMMA LentBegins ==
  ASSUME IInv, Orderly, Lent, NEW m \in inbox, NEW j \in JournalSet, NEW rs \in RecordSets,
         NEW run \in Run \cup {NoRun}, Begins(m, j, rs, run)
  PROVE  Lent'
<1>0. Told /\ Fields /\ Queued /\ m.op \in Ops /\ OnItsWay(m)
  BY FieldTypes DEF IInv, Told, Fields
<1>1. /\ op' = op /\ lease' = lease /\ inbox' = inbox \ {m} /\ Read(j, rs)
      /\ busy'.op = m.op /\ BegunFor(m, j, rs, run)
  BY DEF Begins, Serve, apiVars
<1>2. /\ j.there = journal.there /\ j.fence = journal.fence /\ j.last = journal.last /\ j.active = journal.active
      /\ \A x \in Ops : /\ rs[x].kind = rec[x].kind /\ rs[x].fence = rec[x].fence /\ rs[x].run = rec[x].run
                        /\ rs[x].status = "completed" <=> rec[x].status = "completed"
                        /\ rs[x].status = "none" <=> rec[x].status = "none"
  BY <1>1, ReadKeeps
<1>3. /\ \A x \in Ops \ {m.op} : rec'[x] = rs[x]
      /\ rec'[m.op] = [kind |-> RecKind(op[m.op].kind), fence |-> m.fence, run |-> run, status |-> "running"]
  BY <1>0 DEF Begins, BegunRec, RecordSets
<1>4. journal'.there /\ journal'.fence = m.fence /\ journal'.last = m.op /\ journal'.active = journal.active
  BY <1>2 DEF Begins, Begun, JournalSet
<1>5. m.fence >= journal.fence
  <2>1. CASE journal.there
    BY <1>2, <2>1 DEF Begins
  <2>2. CASE ~journal.there
    BY <1>0, <2>2 DEF Told, JournalLast, Fields
  <2> QED BY <2>1, <2>2
<1>6. op[m.op].kind \in Kinds
  BY <1>0 DEF OnItsWay, Queued, Row, Fields
<1>7. \A r : Started(r) => Started(r)'
  <2>1. \A x \in Ops : Begun_(x) => Begun_(x)'
    BY <1>2, <1>3 DEF Begun_
  <2> QED
    BY <1>1, <2>1, StartedStays
<1>8. op[m.op].kind = "ensure" => run = lease /\ Started(run)'
  <2> SUFFICES ASSUME op[m.op].kind = "ensure" PROVE run = lease /\ Started(run)'
    OBVIOUS
  <2>1. run = op[m.op].run
    BY <1>1 DEF BegunFor
  <2>2. EnsureOf(run, m.op)'
    <3>1. PICK x \in Ops : x = m.op
      BY <1>0
    <3>2. EnsureOf(run, x)'
      BY <1>1, <2>1, <3>1 DEF EnsureOf
    <3> QED
      BY <3>1, <3>2
  <2>3. Begun_(m.op)'
    BY <1>3 DEF Begun_
  <2> QED
    BY <1>0, <1>5, <2>1, <2>2, <2>3 DEF Started, Lent, Coming
<1>9. op[m.op].kind = "wake" => run = NoRun
  BY <1>0, <1>1 DEF BegunFor, Queued, Row
<1>10. op[m.op].kind = "release" => run = journal.active /\ run # NoRun
  BY <1>1, <1>2 DEF BegunFor
<1>11. op[m.op].kind \in Looks =>
         \/ run \in {NoRun, journal.active}
         \/ /\ journal.active = NoRun /\ journal.last \in Ops /\ rec[journal.last].status # "completed" /\ journal.there
            /\ rec[journal.last].kind \in {"ensure", "reconcile"} /\ run = rec[journal.last].run
            /\ Begun_(journal.last)
  <2> SUFFICES ASSUME op[m.op].kind \in Looks, run # NoRun, run # journal.active
               PROVE  /\ journal.active = NoRun /\ journal.last \in Ops /\ rec[journal.last].status # "completed" /\ journal.there
                      /\ rec[journal.last].kind \in {"ensure", "reconcile"} /\ run = rec[journal.last].run
                      /\ Begun_(journal.last)
    OBVIOUS
  <2>1. run = RunToReconcile(j, rs)
    BY <1>1 DEF BegunFor, Looks
  <2>2. /\ j.active = NoRun /\ j.last # NoOp /\ rs[j.last].status = "indeterminate"
        /\ rs[j.last].kind \in {"ensure", "reconcile"} /\ run = rs[j.last].run
    BY <1>2, <2>1 DEF RunToReconcile
  <2>3. journal.last \in Ops /\ journal.there /\ Begun_(journal.last)
    BY <1>0, <1>2, <2>2 DEF Told, JournalLast, Fields
  <2> QED
    BY <1>2, <2>2, <2>3
<1>12. run \in {NoRun, lease} /\ (run # NoRun => Started(run)')
  <2>1. CASE op[m.op].kind \in Looks
    <3>1. run \in {NoRun, lease}
      BY <1>11, <2>1 DEF Lent, HeldForLease, LastIsOurs
    <3>2. run # NoRun => Started(run)
      BY <1>11, <2>1 DEF Lent, StartedRuns
    <3> QED
      BY <1>7, <3>1, <3>2
  <2>2. CASE op[m.op].kind = "release"
    BY <1>7, <1>10, <2>2 DEF Lent, HeldForLease, StartedRuns
  <2>3. CASE op[m.op].kind \in {"ensure", "wake"}
    BY <1>8, <1>9, <2>3
  <2> QED
    BY <1>6, <2>1, <2>2, <2>3 DEF Kinds, Looks
<1>13. StartedRuns'
  <2>1. journal'.active # NoRun => Started(journal.active)'
    <3>1. PICK r : r = journal.active
      OBVIOUS
    <3>2. r # NoRun => Started(r)'
      BY <1>7, <3>1 DEF Lent, StartedRuns
    <3> QED
      BY <1>4, <3>1, <3>2 DEF Started, EnsureOf
  <2>2. ASSUME NEW x \in Ops, rec'[x].run # NoRun  PROVE Started(rec[x].run)'
    <3>1. PICK r : r = rec'[x].run
      OBVIOUS
    <3>2. Started(r)'
      <4>1. CASE x = m.op
        BY <1>3, <1>12, <2>2, <3>1, <4>1
      <4>2. CASE x # m.op
        BY <1>2, <1>3, <1>7, <2>2, <3>1, <4>2 DEF Lent, StartedRuns
      <4> QED BY <4>1, <4>2
    <3> QED
      BY <3>1, <3>2 DEF Started, EnsureOf
  <2> QED
    BY <2>1, <2>2 DEF StartedRuns
<1>14. HeldForLease' /\ LastIsOurs'
  BY <1>1, <1>3, <1>4, <1>12 DEF Lent, HeldForLease, LastIsOurs
<1>15. Coming'
  <2> SUFFICES ASSUME NEW n \in inbox, op[n.op].kind = "ensure", n.fence >= m.fence PROVE op[n.op].run = lease
    BY <1>1, <1>4 DEF Coming
  <2>1. n.fence >= journal.fence
    BY <1>0, <1>5 DEF Fields
  <2> QED
    BY <2>1 DEF Lent, Coming
<1>16. OwnRelease'
  <2> SUFFICES ASSUME op[m.op].kind = "release" PROVE op[m.op].run = journal.active
    BY <1>1, <1>3, <1>4 DEF OwnRelease, RecKind
  <2>1. journal.active # NoRun /\ journal.active = lease /\ Started(journal.active)
    BY <1>10 DEF Lent, HeldForLease, StartedRuns
  <2>2. PICK e \in Ops : EnsureOf(lease, e) /\ Begun_(e)
    BY <2>1 DEF Started
  <2>3. op[e].fence > 0 /\ op[e].fence <= journal.fence /\ e # m.op
    BY <1>0, <2>2 DEF Told, Recorded, EnsureOf
  <2>4. op[e].fence <= op[m.op].fence
    BY <1>0, <1>5, <2>3 DEF OnItsWay, Fields
  <2>5. e < m.op
    BY <1>0, <2>3, <2>4, FenceOrder
  <2>6. Exists(m.op)
    BY DEF Exists
  <2> QED
    BY <1>0, <2>1, <2>2, <2>5, <2>6 DEF Orderly, Together, EnsureOf
<1>17. ASSUME NEW o \in Ops  PROVE Freed(o)'
  <2> SUFFICES ASSUME op[o].kind = "release", rec'[o].status = "completed",
                      \A e \in Ops : op[e].kind = "ensure" => rec'[e].fence < rec'[o].fence
               PROVE  /\ journal.active = NoRun
                      /\ \A x \in Ops : rec'[x].fence > rec'[o].fence /\ rec'[x].kind = "reconcile" => rec'[x].run = NoRun
    BY <1>1, <1>4 DEF Freed
  <2>1. o # m.op /\ rec'[o].fence = rec[o].fence /\ rec[o].status = "completed"
    BY <1>2, <1>3
  <2>2. rec[o].fence <= journal.fence /\ (rec[o].fence = journal.fence => journal.last = o) /\ journal.there
    BY <1>0, <2>1 DEF Told, Recorded, Begun_, JournalLast
  <2>3. op[m.op].kind # "ensure"
    <3> SUFFICES ASSUME op[m.op].kind = "ensure" PROVE FALSE
      OBVIOUS
    <3>1. m.fence < rec[o].fence
      BY <1>0, <1>3, <2>1
    <3> QED
      BY <1>0, <1>5, <2>2, <3>1 DEF Fields
  <2>4. \A e \in Ops : op[e].kind = "ensure" => rec[e].fence < rec[o].fence
    BY <1>2, <1>3, <2>1, <2>3
  <2>5. journal.active = NoRun /\ \A x \in Ops : rec[x].fence > rec[o].fence /\ rec[x].kind = "reconcile" => rec[x].run = NoRun
    BY <2>1, <2>4 DEF Lent, Freed
  <2>6. op[m.op].kind \in Looks => run = NoRun
    <3> SUFFICES ASSUME op[m.op].kind \in Looks, run # NoRun PROVE FALSE
      OBVIOUS
    <3>1. PICK x \in Ops : x = journal.last
      BY <1>11, <2>5
    <3>2. rec[x].status # "completed" /\ rec[x].kind \in {"ensure", "reconcile"} /\ run = rec[x].run /\ Begun_(x)
      BY <1>11, <2>5, <3>1
    <3>3. x # o /\ rec[x].fence = journal.fence
      BY <1>0, <2>1, <2>2, <3>1, <3>2 DEF Told, JournalLast
    <3>4. rec[x].fence > rec[o].fence
      BY <1>0, <2>2, <3>1, <3>3 DEF Fields
    <3>5. rec[x].kind = "ensure" => op[x].kind = "ensure"
      BY <1>0, <3>2 DEF Told, Recorded, RecKind
    <3> QED
      BY <1>0, <2>4, <2>5, <3>2, <3>4, <3>5 DEF Fields
  <2>7. rec'[m.op].kind = "reconcile" => op[m.op].kind \in Looks
    BY <1>3 DEF RecKind, Looks
  <2> QED
    BY <1>2, <1>3, <2>1, <2>5, <2>6, <2>7
<1> QED
  BY <1>13, <1>14, <1>15, <1>16, <1>17 DEF Lent

\* What ends may hold the Cell only for the run it was begun for, and a release gives it
\* back for the run that holds it.
LEMMA LentEnds ==
  ASSUME IInv, Lent, NEW a, NEW status, Ends(status, a)
  PROVE  /\ Lent'
         /\ journal.active # NoRun /\ journal'.active # journal.active =>
              op[busy.op].kind = "release" /\ op[busy.op].run = journal.active
<1>0. Told /\ Fields /\ Queued
  BY FieldTypes DEF IInv, Told
<1>1. PICK b \in Ops : b = busy.op /\ busy.op # NoOp
  BY <1>0 DEF Ends, Told, Served, Fields
<1>2. /\ op' = op /\ lease' = lease /\ inbox' = inbox /\ busy'.op = NoOp
      /\ journal.there /\ journal.last = b /\ journal.fence = busy.fence /\ rec[b].fence = busy.fence
      /\ rec[b].run = busy.run /\ rec[b].status \in {"running", "indeterminate"} /\ Begun_(b)
  BY <1>0, <1>1 DEF Ends, apiVars, Idle, Told, Served, Begun_
<1>3. /\ journal'.there = journal.there /\ journal'.fence = journal.fence /\ journal'.last = b
      /\ \A x \in Ops : /\ rec'[x].kind = rec[x].kind /\ rec'[x].fence = rec[x].fence /\ rec'[x].run = rec[x].run
                        /\ x # b => rec'[x].status = rec[x].status
      /\ rec'[b].status = status /\ status # "none"
  BY <1>1, <1>2, Types DEF Ends, IInv, CtrlTypes, RecordSet
<1>4. rec[b].kind = RecKind(op[b].kind) /\ Exists(b) /\ op[b].kind \in Kinds
      /\ (op[b].kind \in {"ensure", "wake"} => rec[b].run = op[b].run)
  BY <1>0, <1>2 DEF Told, Recorded, Exists, Fields
<1>5. CASE rec[b].kind = "release"
  <2>1. journal'.active = NoRun /\ status = "completed"
    BY <1>1, <1>5 DEF Ends
  <2>2. op[b].kind = "release"
    BY <1>4, <1>5 DEF RecKind
  <2>3. \A r : Started(r) => Started(r)'
    BY <1>2, <1>3, StartedStays DEF Begun_
  <2>4. StartedRuns'
    <3>1. ASSUME NEW x \in Ops, rec'[x].run # NoRun  PROVE Started(rec[x].run)'
      <4>1. PICK r : r = rec[x].run
        OBVIOUS
      <4>2. Started(r)'
        BY <1>3, <2>3, <3>1, <4>1 DEF Lent, StartedRuns
      <4> QED
        BY <1>3, <4>1, <4>2 DEF Started, EnsureOf
    <3> QED
      BY <2>1, <3>1 DEF StartedRuns
  <2>5. HeldForLease' /\ Coming' /\ LastIsOurs' /\ OwnRelease'
    BY <1>2, <1>3, <2>1 DEF Lent, HeldForLease, Coming, LastIsOurs, OwnRelease
  <2>6. ASSUME NEW o \in Ops  PROVE Freed(o)'
    <3>1. \A x \in Ops : rec[x].fence <= journal.fence
      BY <1>0 DEF Told, Recorded, NoRecord, Fields
    <3>2. CASE o = b
      <4>1. \A x \in Ops : ~(rec'[x].fence > rec'[o].fence)
        BY <1>0, <1>2, <1>3, <3>1, <3>2 DEF Fields
      <4> QED
        BY <2>1, <4>1 DEF Freed
    <3>3. CASE o # b
      BY <1>2, <1>3, <2>1, <3>3 DEF Lent, Freed
    <3> QED BY <3>2, <3>3
  <2>7. op[busy.op].run = journal.active
    BY <1>1, <1>5 DEF Lent, OwnRelease
  <2> QED
    BY <1>1, <2>2, <2>4, <2>5, <2>6, <2>7 DEF Lent
<1>6. CASE rec[b].kind # "release"
  <2>1. journal'.active \in {journal.active, busy.run} /\ (busy.run = NoRun => journal'.active = journal.active)
    BY <1>1, <1>6 DEF Ends
  <2>2. busy.run \in {NoRun, lease}
    BY <1>2, <1>6 DEF Lent, LastIsOurs
  <2>3. journal.active # NoRun => journal'.active = journal.active
    BY <2>1, <2>2 DEF Lent, HeldForLease
  <2>4. \A r : Started(r) => Started(r)'
    BY <1>2, <1>3, StartedStays DEF Begun_
  <2>5. StartedRuns'
    <3>1. ASSUME NEW x \in Ops, rec'[x].run # NoRun  PROVE Started(rec[x].run)'
      <4>1. PICK r : r = rec[x].run
        OBVIOUS
      <4>2. Started(r)'
        BY <1>3, <2>4, <3>1, <4>1 DEF Lent, StartedRuns
      <4> QED
        BY <1>3, <4>1, <4>2 DEF Started, EnsureOf
    <3>2. journal'.active # NoRun => Started(journal.active)'
      <4>1. PICK r : r = journal'.active
        OBVIOUS
      <4>2. r # NoRun => Started(r)'
        BY <1>2, <2>1, <2>4, <4>1 DEF Lent, StartedRuns
      <4> QED
        BY <4>1, <4>2 DEF Started, EnsureOf
    <3> QED
      BY <3>1, <3>2 DEF StartedRuns
  <2>6. HeldForLease' /\ Coming' /\ LastIsOurs' /\ OwnRelease'
    BY <1>2, <1>3, <2>1, <2>2 DEF Lent, HeldForLease, Coming, LastIsOurs, OwnRelease
  <2>7. ASSUME NEW o \in Ops  PROVE Freed(o)'
    <3> SUFFICES ASSUME op[o].kind = "release", rec'[o].status = "completed",
                        \A e \in Ops : op[e].kind = "ensure" => rec'[e].fence < rec'[o].fence
                 PROVE  /\ journal'.active = NoRun
                        /\ \A x \in Ops : rec'[x].fence > rec'[o].fence /\ rec'[x].kind = "reconcile" => rec'[x].run = NoRun
      BY <1>2 DEF Freed
    <3>1. o # b
      BY <1>4, <1>6 DEF RecKind
    <3>2. rec[o].status = "completed" /\ \A e \in Ops : op[e].kind = "ensure" => rec[e].fence < rec[o].fence
      BY <1>3, <3>1
    <3>3. journal.active = NoRun /\ \A x \in Ops : rec[x].fence > rec[o].fence /\ rec[x].kind = "reconcile" => rec[x].run = NoRun
      BY <3>2 DEF Lent, Freed
    <3>4. rec[b].fence > rec[o].fence
      BY <1>0, <1>2, <3>1, <3>2 DEF Told, Recorded, Begun_, Fields
    <3>5. busy.run = NoRun
      <4>1. op[b].kind # "ensure"
        BY <1>0, <3>2, <3>4 DEF Fields
      <4>2. CASE op[b].kind = "wake"
        BY <1>0, <1>2, <1>4, <4>2 DEF Queued, Row
      <4>3. CASE op[b].kind \in Looks
        BY <1>2, <1>4, <3>3, <3>4, <4>3 DEF RecKind, Looks
      <4> QED
        BY <1>4, <1>6, <4>1, <4>2, <4>3 DEF RecKind, Kinds, Looks
    <3> QED
      BY <1>3, <2>1, <3>3, <3>5
  <2> QED
    BY <2>3, <2>5, <2>6, <2>7 DEF Lent
<1> QED
  BY <1>5, <1>6

\* Every move keeps who holds the Cell, and only its own release takes it from a run.
LEMMA LentByMoves ==
  ASSUME IInv, Orderly, Lent, Moves
  PROVE  /\ Lent'
         /\ journal.active # NoRun /\ journal'.active # journal.active =>
              op[busy.op].kind = "release" /\ op[busy.op].run = journal.active
<1>0. \A n \in inbox : [n EXCEPT !.ready = TRUE].op = n.op /\ [n EXCEPT !.ready = TRUE].fence = n.fence
  BY Types DEF IInv, WireTypes, Requests
<1>1. ASSUME NEW m \in inbox, NEW j \in JournalSet, NEW rs \in RecordSets,
             (\E a \in Answers : Settles(m, a, j, rs)) \/ Queues(m, j, rs)
      PROVE  Lent' /\ journal'.active = journal.active
  <2>1. Read(j, rs) /\ journal' = j /\ rec' = rs /\ UNCHANGED <<op, lease, busy>>
    BY <1>1 DEF Settles, Queues, apiVars
  <2>2. \A n \in inbox' : \E x \in inbox : x.op = n.op /\ x.fence = n.fence
    BY <1>0, <1>1 DEF Settles, Queues
  <2>3. j.active = journal.active
    BY <2>1, ReadKeeps
  <2> QED
    BY <2>1, <2>2, <2>3, LentReads
<1>2. ASSUME NEW m \in inbox, NEW j \in JournalSet, NEW rs \in RecordSets, NEW run \in Run \cup {NoRun},
             Begins(m, j, rs, run)
      PROVE  Lent' /\ journal'.active = journal.active
  <2>1. Lent'
    BY <1>2, LentBegins
  <2>2. j.active = journal.active /\ journal'.active = j.active
    <3>1. Read(j, rs) /\ journal' = Begun(j, m)
      BY <1>2 DEF Begins
    <3>2. j.active = journal.active
      BY <3>1, ReadKeeps
    <3> QED
      BY <3>1, <3>2 DEF Begun, JournalSet
  <2> QED
    BY <2>1, <2>2
<1>3. ASSUME Crashes \/ Rests
      PROVE  Lent' /\ journal' = journal
  <2>1. UNCHANGED <<op, lease, journal, rec>> /\ inbox' \subseteq inbox /\ busy' \in {Idle, busy}
    BY <1>3 DEF Crashes, Rests, apiVars
  <2>2. OwnRelease'
    BY <2>1 DEF Lent, OwnRelease, Idle
  <2>3. StartedRuns' /\ HeldForLease' /\ Coming' /\ LastIsOurs' /\ \A o \in Ops : Freed(o)'
    BY <2>1 DEF Lent, StartedRuns, Started, EnsureOf, Begun_, HeldForLease, Coming, LastIsOurs, Freed
  <2> QED
    BY <2>1, <2>2, <2>3 DEF Lent
<1> QED
  BY <1>1, <1>2, <1>3, LentEnds DEF Moves

-----------------------------------------------------------------------------
\* The invariant is inductive.

\* It holds initially: there is no operation and no record.
LEMMA InitLInv == Init => LInv
<1> SUFFICES ASSUME Init PROVE LInv
  OBVIOUS
<1>1. /\ \A o \in Ops : /\ op[o].kind = "none" /\ op[o].run = NoRun /\ op[o].status = "none"
                       /\ rec[o].status = "none" /\ rec[o].run = NoRun
      /\ lease = NoRun /\ inbox = {} /\ ~journal.there /\ journal.active = NoRun /\ busy.op = NoOp
  BY DEF Init, NoRow, NoRecord, Idle
<1>2. Orderly
  BY <1>1 DEF Orderly, Begins_, Leased, Together, ReleaseLast, ReleaseSettled, Active
<1>3. Lent
  BY <1>1 DEF Lent, StartedRuns, HeldForLease, Coming, LastIsOurs, OwnRelease, Freed
<1> QED
  BY <1>2, <1>3, InitIInv DEF LInv

\* A lease is given back when nothing is ensured any more.
LEMMA OrderGivenBack ==
  ASSUME Orderly, lease' = NoRun, UNCHANGED <<op, runState>>,
         \A x \in Ops : op[x].kind = "ensure" => op[x].status \notin Active
  PROVE  Orderly'
<1>1. Begins_' /\ ReleaseLast' /\ ReleaseSettled'
  BY DEF Orderly, Begins_, HasEnsure, EnsureOf, ReleaseLast, ReleaseSettled, Repaired, Chain, OpsOf
<1>2. Leased' /\ Together'
  BY DEF Leased, Together
<1> QED
  BY <1>1, <1>2 DEF Orderly

\* Such is the case when a receipt is confirmed: an ensure of the run came before its
\* release, and an earlier operation that is active is none.
LEMMA OrderConfirmed ==
  ASSUME IInv, Orderly, NEW o \in Ops, ConfirmRelease(o) \/ ClearObserved(o)
  PROVE  Orderly'
<1>1. lease' = NoRun /\ UNCHANGED <<op, runState>>
  BY DEF ConfirmRelease, ClearObserved
<1>2. ASSUME NEW x \in Ops, op[x].kind = "ensure", op[x].status \in Active  PROVE FALSE
  <2>1. ConfirmRelease(o)
    BY <1>2 DEF ClearObserved, NoneActive
  <2>2. EnsureOf(op[o].run, x) /\ op[o].kind = "release"
    BY <1>2, <2>1 DEF ConfirmRelease, Orderly, Leased, EnsureOf
  <2>3. x < o /\ Exists(o)
    BY <2>2 DEF Orderly, ReleaseLast, Exists
  <2> QED
    BY <1>2, <2>3 DEF IInv, Queued, Ordered
<1> QED
  BY <1>1, <1>2, OrderGivenBack

\* A reservation leaves what the journal knows alone, unless a run is admitted.
LEMMA LentReserved ==
  ASSUME IInv, IInv', Orderly, Lent, FailedEnsureHadNoEffect,
         \/ \E r \in Run : ReserveAdmission(r) \/ Recovery(r)
         \/ ReserveWake
  PROVE  Lent'
<1>1. ASSUME NEW r \in Run, ReserveAdmission(r)  PROVE Lent'
  <2>1. "ensure" \in Kinds /\ NoOp \in Ops \cup {NoOp}
    BY DEF Kinds
  <2>2. \E o \in Ops : Places(o, "ensure", r, NoOp)
    BY <1>1, <2>1, NoRunIsNoRun, ReservePlaces DEF ReserveAdmission
  <2> QED
    BY <1>1, <2>2, LentAdmitted
<1>2. CASE ~\E r \in Run : ReserveAdmission(r)
  <2>1. lease' = lease
    BY <1>2, OrderReserved
  <2>2. PICK o \in Ops, kind \in Kinds, r \in Run \cup {NoRun}, t \in Ops \cup {NoOp} : Places(o, kind, r, t)
    BY OrderReserved
  <2>3. op \in [Ops -> RowSet]
    BY Types DEF IInv, ApiTypes
  <2>4. /\ UNCHANGED <<journal, rec, busy, inbox>>
        /\ \A x \in Ops : Exists(x) => op'[x] = op[x]
    BY <2>2, <2>3 DEF Places
  <2>5. \A m \in inbox' : m.op \in Ops /\ Exists(m.op)
    BY <2>4, FieldTypes DEF IInv, Fields, OnItsWay, Queued, Row, Exists
  <2>6. SentForLease
    BY <2>4 DEF SentForLease
  <2> QED
    BY <2>1, <2>4, <2>5, <2>6, LentKept
<1> QED
  BY <1>1, <1>2

\* Nor does any other write of the queue disturb it.
LEMMA LInvByQueue ==
  ASSUME IInv, IInv', Orderly, Lent,
         \/ \E o \in Ops : Claim(o) \/ Replay(o) \/ Interrupt(o) \/ CancelWaiting(o)
         \/ \E c \in callers : Caller(c)
  PROVE  Orderly' /\ Lent'
<1>0. TypeOK /\ Queued /\ Fields
  BY FieldTypes DEF IInv
<1>1. RowsKept /\ SentForLease /\ UNCHANGED <<lease, runState, journal, rec, busy>>
  BY <1>0, RowWrites
<1>2. RunsGoOn
  BY <1>1 DEF RunsGoOn
<1>3. \A m \in inbox' : m.op \in Ops /\ Exists(m.op)
  <2>1. \A m \in inbox' : m.op \in Ops
    BY FieldTypes DEF IInv, Fields
  <2>2. \A m \in inbox' : op'[m.op].kind # "none"
    BY <2>1 DEF IInv, OnItsWay, Queued, Row
  <2> QED
    BY <1>1, <2>1, <2>2 DEF RowsKept, Exists
<1>4. Orderly'
  BY <1>0, <1>1, <1>2, OrderKept
<1>5. \A x \in Ops : Exists(x) => op'[x].kind = op[x].kind /\ op'[x].run = op[x].run
  BY <1>1 DEF RowsKept
<1>6. Lent'
  BY <1>1, <1>3, <1>5, LentKept
<1> QED
  BY <1>4, <1>6

\* What a step of the controller leaves alone.
LEMMA MovesKeepApi ==
  ASSUME Moves
  PROVE  UNCHANGED apiVars
<1>1. ASSUME NEW m \in inbox, NEW j, NEW rs, NEW a, Settles(m, a, j, rs) \/ Queues(m, j, rs)
      PROVE  UNCHANGED apiVars
  BY <1>1 DEF Settles, Queues
<1>2. ASSUME NEW m \in inbox, NEW j, NEW rs, NEW run, Begins(m, j, rs, run)
      PROVE  UNCHANGED apiVars
  BY <1>2 DEF Begins, Serve
<1>3. ASSUME NEW a, NEW status, Ends(status, a)
      PROVE  UNCHANGED apiVars
  BY <1>3 DEF Ends
<1>4. Crashes \/ Rests => UNCHANGED apiVars
  BY DEF Crashes, Rests
<1> QED
  BY <1>1, <1>2, <1>3, <1>4 DEF Moves

\* Every step keeps the invariant, and a Cell that is held is given back only by the
\* release of the run that holds it.
LEMMA NextLInv ==
  ASSUME LInv, FailedEnsureHadNoEffect, [Next]_vars
  PROVE  /\ LInv'
         /\ journal.active # NoRun /\ journal'.active # journal.active =>
              op[busy.op].kind = "release" /\ op[busy.op].run = journal.active
<1>0. IInv /\ Orderly /\ Lent /\ IInv' /\ TypeOK /\ Queued /\ Fields
  BY NextIInv, FieldTypes DEF LInv, IInv
<1>1. ASSUME NEW r \in Run, StartRun(r) \/ EndRun(r)
      PROVE  Orderly' /\ Lent' /\ journal' = journal
  <2>1. UNCHANGED <<op, lease, inbox, journal, rec, busy>>
    BY <1>1 DEF StartRun, EndRun, ctrlVars
  <2>2. RunsGoOn
    BY <1>0, <1>1, Types DEF StartRun, EndRun, RunsGoOn, ApiTypes
  <2>3. RowsKept /\ SentForLease
    BY <2>1 DEF RowsKept, SentForLease
  <2>4. \A m \in inbox' : m.op \in Ops /\ Exists(m.op)
    BY <1>0, <2>1 DEF IInv, Fields, OnItsWay, Queued, Row, Exists
  <2>5. Orderly'
    BY <1>0, <2>1, <2>2, <2>3, OrderKept
  <2>6. Lent'
    BY <1>0, <2>1, <2>3, <2>4, LentKept
  <2> QED
    BY <2>1, <2>5, <2>6
<1>2. ASSUME \/ \E r \in Run : ReserveAdmission(r) \/ Recovery(r)
             \/ ReserveWake
      PROVE  Orderly' /\ Lent' /\ journal' = journal
  <2>1. journal' = journal
    BY <1>0, <1>2, OrderReserved DEF Places
  <2> QED
    BY <1>0, <1>2, <2>1, OrderReserved, LentReserved
<1>3. ASSUME \/ \E o \in Ops : Claim(o) \/ Replay(o) \/ Interrupt(o) \/ CancelWaiting(o)
             \/ \E c \in callers : Caller(c)
      PROVE  Orderly' /\ Lent' /\ journal' = journal
  BY <1>0, <1>3, LInvByQueue, RowWrites
<1>4. ASSUME NEW o \in Ops, ConfirmRelease(o) \/ ClearObserved(o)
      PROVE  Orderly' /\ Lent' /\ journal' = journal
  <2>1. journal' = journal
    BY <1>4 DEF ConfirmRelease, ClearObserved, ctrlVars
  <2> QED
    BY <1>0, <1>4, <2>1, OrderConfirmed, LentConfirmed, LentObserved
<1>5. ASSUME Moves
      PROVE  /\ Orderly' /\ Lent'
             /\ journal.active # NoRun /\ journal'.active # journal.active =>
                  op[busy.op].kind = "release" /\ op[busy.op].run = journal.active
  <2>1. UNCHANGED <<op, lease, runState>>
    BY <1>5, MovesKeepApi DEF apiVars
  <2>2. Orderly'
    BY <1>0, <2>1 DEF Orderly, Begins_, Leased, HasEnsure, EnsureOf, Together, Exists, ReleaseLast,
       ReleaseSettled, Repaired, Chain, OpsOf
  <2> QED
    BY <1>0, <1>5, <2>2, LentByMoves
<1>6. ASSUME (\E m \in inbox : Serving(m)) \/ Finish \/ Host
      PROVE  Moves
  BY <1>0, <1>6, ControllerMoves
<1>7. UNCHANGED vars => Moves
  BY DEF vars, apiVars, ctrlVars, Rests, Moves
<1> QED
  BY <1>0, <1>1, <1>2, <1>3, <1>4, <1>5, <1>6, <1>7 DEF Next, Queue, LInv

\* An ensure that was begun and failed is not forgotten.
LEMMA FailedStays ==
  ASSUME IInv, [Next]_vars, FailedEnsureHadNoEffect'
  PROVE  FailedEnsureHadNoEffect
<1>0. TypeOK /\ TypeOK' /\ Fields /\ op \in [Ops -> RowSet] /\ Told
  BY NextIInv, FieldTypes, Types DEF IInv, ApiTypes, Told
<1> SUFFICES ASSUME NEW o \in Ops, op[o].kind = "ensure", op[o].status = "failed", Begun_(o)
             PROVE  op'[o].kind = "ensure" /\ op'[o].status = "failed" /\ Begun_(o)'
  BY DEF FailedEnsureHadNoEffect, Begun_
<1>1. CASE Writes
  <2>1. rec' = rec
    BY <1>1 DEF Writes, Places, Sends, Drops, Returns, Turns, Leases
  <2>2. ASSUME NEW x \in Ops, NEW kind, NEW r, NEW t, Places(x, kind, r, t)
        PROVE  op'[o] = op[o]
    BY <1>0, <2>2 DEF Places, Exists
  <2>3. ASSUME NEW x \in Ops, NEW f, NEW again, Sends(x, f, again)
        PROVE  op'[o] = op[o]
    BY <1>0, <2>3 DEF Sends, Dispatch, Waits
  <2>4. ASSUME NEW x \in Ops, Drops(x)
        PROVE  op'[o] = op[o]
    BY <1>0, <2>4 DEF Drops
  <2>5. ASSUME NEW c \in callers, Returns(c)
        PROVE  op'[o] = op[o]
    BY <1>0, <2>5 DEF Returns
  <2>6. ASSUME NEW x \in Ops, NEW status, Turns(x, status)
        PROVE  op'[o] = op[o]
    BY <1>0, <2>6 DEF Turns, Waits
  <2>7. op'[o] = op[o]
    BY <1>1, <2>2, <2>3, <2>4, <2>5, <2>6 DEF Writes, Leases
  <2> QED
    BY <2>1, <2>7 DEF Begun_
<1>2. CASE Moves
  <2>1. op' = op
    BY <1>2, MovesKeepApi DEF apiVars
  <2>2. Begun_(o)'
    <3>1. ASSUME NEW m \in inbox, NEW j \in JournalSet, NEW rs \in RecordSets,
                 (\E a \in Answers : Settles(m, a, j, rs)) \/ Queues(m, j, rs)
          PROVE  Begun_(o)'
      <4>1. Read(j, rs) /\ rec' = rs
        BY <3>1 DEF Settles, Queues
      <4> QED
        BY <1>0, <4>1, ReadKeeps DEF Begun_, Told
    <3>2. ASSUME NEW m \in inbox, NEW j \in JournalSet, NEW rs \in RecordSets, NEW run \in Run \cup {NoRun},
                 Begins(m, j, rs, run)
          PROVE  Begun_(o)'
      <4>1. Read(j, rs)
        BY <3>2 DEF Begins
      <4>2. rs[o].status # "none"
        BY <1>0, <4>1, ReadKeeps DEF Begun_, Told
      <4>3. m.op \in Ops /\ rec' = BegunRec(rs, m, RecKind(op[m.op].kind), run)
        BY <1>0, <3>2 DEF Begins, Fields
      <4> QED
        BY <4>2, <4>3 DEF BegunRec, RecordSets, Begun_
    <3>3. ASSUME NEW a, NEW status, Ends(status, a)
          PROVE  Begun_(o)'
      <4>1. busy.op \in Ops /\ rec[busy.op].status # "none"
        BY <1>0, <3>3 DEF Ends, Told, Served, Fields
      <4>2. rec' = [rec EXCEPT ![busy.op].status = status] /\ status # "none" /\ rec \in [Ops -> RecordSet]
        BY <3>3, <4>1, Types DEF Ends, IInv, CtrlTypes
      <4> QED
        BY <4>1, <4>2 DEF Begun_, RecordSet
    <3>4. CASE Crashes \/ Rests
      BY <3>4 DEF Crashes, Rests, Begun_
    <3> QED
      BY <1>2, <3>1, <3>2, <3>3, <3>4 DEF Moves
  <2> QED
    BY <2>1, <2>2
<1>3. Writes \/ Moves
  <2>1. CASE (\E m \in inbox : Serving(m)) \/ Finish \/ Host
    BY <1>0, <2>1, ControllerMoves
  <2>2. UNCHANGED vars => Moves
    BY DEF vars, apiVars, ctrlVars, Rests, Moves
  <2> QED
    BY <1>0, <2>1, <2>2, ApiWrites DEF Next, IInv
<1> QED
  BY <1>1, <1>2, <1>3

\* The lease and the journal agree, with that exception, in whatever order requests
\* arrive, effects happen and answers are lost (project_cell_capacity.py's receipts
\* and proofs against cell_state.py's journal).
THEOREM CellIsLeased == Spec => []LeaseAgreement
<1>1. LentUnlessFailed => LeaseAgreement
  BY DEF LentUnlessFailed, LInv, Lent, HeldForLease, LeaseAgreement
<1>2. Init => LentUnlessFailed
  BY InitLInv DEF LentUnlessFailed, LInv
<1>3. LentUnlessFailed /\ [Next]_vars => LentUnlessFailed'
  BY NextIInv, NextLInv, FailedStays DEF LentUnlessFailed
<1> QED
  BY <1>1, <1>2, <1>3, PTL DEF Spec

\* Only the release reserved for the run that holds the Cell takes it from that run,
\* although its request names none and may be served after the API has moved on
\* (docker_cell_resources.py's release_generation), with the same exception.
THEOREM OwnReleaseOnly == Spec => ReleaseClearsOwnLease
<1>1. Init => LentUnlessFailed
  BY InitLInv DEF LentUnlessFailed, LInv
<1>2. LentUnlessFailed /\ [Next]_vars => LentUnlessFailed'
  BY NextIInv, NextLInv, FailedStays DEF LentUnlessFailed
<1>3. LentUnlessFailed /\ [Next]_vars =>
        [FailedEnsureHadNoEffect /\ journal.active # NoRun /\ journal'.active # journal.active =>
           op[busy.op].kind = "release" /\ op[busy.op].run = journal.active]_vars
  BY NextLInv DEF LentUnlessFailed
<1> QED
  BY <1>1, <1>2, <1>3, PTL DEF Spec, ReleaseClearsOwnLease

-----------------------------------------------------------------------------
\* What a failed release has done.  It is sent again while it is unknown, so it has to be
\* shown that the controller refuses for ever what it refused once.

Answered(x) == op[x].status = "completed" \/ \E c \in callers : c.op = x /\ c.ans.is = "ok"

\* A run's first operation is an ensure; it is observed when it has ended and only after a
\* release, or a reconcile above all its ensures.
FirstIsEnsure == \A x \in Ops : op[x].run # NoRun => \E e \in Ops : EnsureOf(op[x].run, e) /\ e <= x
StatusLast == \A x, e \in Ops : op[x].kind = "status" /\ EnsureOf(op[x].run, e) => e < x
Observable(r) ==
  /\ runState[r] = "ended"
  /\ \/ \E o \in Ops : op[o].kind = "release" /\ op[o].run = r
     \/ \E k \in Ops : /\ op[k].kind = "reconcile" /\ op[k].run = r /\ op[k].status = "completed"
                       /\ \A e \in Ops : EnsureOf(r, e) => op[e].fence < op[k].fence /\ op[e].status \notin Active
Watched == /\ FirstIsEnsure /\ StatusLast
           /\ \A x \in Ops : op[x].kind = "status" => Observable(op[x].run)

\* What is still on its way of a run is below the journal's fence when the run is released
\* or observed, or finds nothing of the run begun.
Behind(y) ==
  \A m \in inbox :
    /\ m.op < y /\ op[m.op].run = op[y].run
    /\ op[m.op].kind \in (IF op[y].kind = "release" THEN Once ELSE {"ensure", "reconcile"})
    => m.fence < journal.fence \/ (op[m.op].kind # "ensure" /\ ~Started(op[y].run))
Behinds == \A y \in Ops : op[y].kind \in {"release", "status"} => Behind(y)

\* An observation that was answered without a record found nothing begun, and no bundle.
Unseen == \A x \in Ops : op[x].kind = "status" /\ Answered(x) /\ ~Begun_(x) => ~Started(op[x].run)
ReadyIsSeen ==
  /\ \A o \in Ops : op[o].kind \in Looks /\ op[o].ans.state = "ready" => Begun_(o)
  /\ \A c \in callers : op[c.op].kind \in Looks /\ c.ans.is = "ok" /\ c.ans.state = "ready" => Begun_(c.op)

\* The first request of a release is gone when it was begun and did not come to its end.
Tried == /\ \A o \in Ops : op[o].kind = "release" /\ op[o].status # "pending" => op[o].try > 0
         /\ \A c \in callers : op[c.op].kind = "release" /\ ~c.replay => c.try = 1
Resent == \A o \in Ops : op[o].kind = "release" /\ Begun_(o) /\ rec[o].status # "completed" /\ busy.op # o =>
            \A m \in inbox : m.op = o => m.try > 1
ReleaseRun == \A o \in Ops : rec[o].kind = "release" => rec[o].run # NoRun

\* A release that can never be begun: its fence is passed, or nobody holds the Cell, or the
\* journal waits for an observation, which will be above it.
Dead(o) == /\ ~Begun_(o)
           /\ \/ op[o].fence <= journal.fence
              \/ journal.active = NoRun /\ busy.run = NoRun
              \/ journal.phase = "indeterminate" /\ busy = Idle
DeadRows == \A o \in Ops : op[o].kind = "release" /\ op[o].status = "failed" => Dead(o)
DeadCalls == \A c \in callers : op[c.op].kind = "release" /\ ~c.replay /\ c.ans.is = "rejected" => Dead(c.op)

Firm == /\ Behinds /\ Unseen /\ ReadyIsSeen /\ Tried /\ Resent /\ ReleaseRun
        /\ DeadRows /\ DeadCalls

FInv == LInv /\ Watched /\ Firm

\* The inductive invariant of failed releases, with the same exception.
FirmUnlessFailed == IInv /\ (FailedEnsureHadNoEffect => FInv)

-----------------------------------------------------------------------------
\* When a run is observed.

\* Rows that keep their kind and run, and runs that only go on, keep it.
LEMMA WatchKept ==
  ASSUME TypeOK', Queued, Watched, Fields, RowsKept, RunsGoOn
  PROVE  Watched'
<1>1. \A x \in Ops : op'[x].kind = op[x].kind /\ op'[x].run = op[x].run
  BY DEF RowsKept
<1>2. \A r : \A e \in Ops : EnsureOf(r, e)' <=> EnsureOf(r, e)
  BY <1>1 DEF EnsureOf
<1>3. FirstIsEnsure' /\ StatusLast'
  BY <1>1, <1>2 DEF Watched, FirstIsEnsure, StatusLast, EnsureOf
<1>4. ASSUME NEW r \in Run, Observable(r)  PROVE Observable(r)'
  <2>1. runState'[r] = "ended"
    BY <1>4, Types DEF Observable, RunsGoOn, ApiTypes
  <2>2. CASE \E o \in Ops : op[o].kind = "release" /\ op[o].run = r
    BY <1>1, <2>1, <2>2 DEF Observable
  <2>3. CASE \E k \in Ops : /\ op[k].kind = "reconcile" /\ op[k].run = r /\ op[k].status = "completed"
                            /\ \A e \in Ops : EnsureOf(r, e) => op[e].fence < op[k].fence /\ op[e].status \notin Active
    <3>1. PICK k \in Ops : /\ op[k].kind = "reconcile" /\ op[k].run = r /\ op[k].status = "completed"
                           /\ \A e \in Ops : EnsureOf(r, e) => op[e].fence < op[k].fence /\ op[e].status \notin Active
      BY <2>3
    <3>2. op'[k].kind = "reconcile" /\ op'[k].run = r /\ op'[k].status = "completed" /\ op'[k].fence = op[k].fence
      BY <3>1 DEF RowsKept, Active
    <3>3. \A e \in Ops : EnsureOf(r, e)' => op'[e].fence < op'[k].fence /\ op'[e].status \notin Active
      BY <1>2, <3>1, <3>2 DEF RowsKept, EnsureOf
    <3> QED
      BY <2>1, <3>2, <3>3 DEF Observable
  <2> QED
    BY <1>4, <2>2, <2>3 DEF Observable
<1>5. ASSUME NEW x \in Ops, op'[x].kind = "status"  PROVE Observable(op[x].run)'
  <2>1. op[x].run \in Run /\ op'[x].run = op[x].run /\ op[x].kind = "status"
    BY <1>1, <1>5 DEF Queued, Row, Fields
  <2>2. PICK r \in Run : r = op[x].run
    BY <2>1
  <2>3. Observable(r)'
    BY <1>4, <2>1, <2>2 DEF Watched
  <2> QED
    BY <2>1, <2>2, <2>3 DEF Observable, EnsureOf
<1> QED
  BY <1>3, <1>5 DEF Watched

\* So does a row that is placed, if an ensure is of a run that has not ended.
LEMMA WatchPlaced ==
  ASSUME Queued, Fields, Watched, NEW o \in Ops, NEW kind \in Kinds, NEW r \in Run \cup {NoRun}, NEW t,
         Places(o, kind, r, t), op \in [Ops -> RowSet], runState' = runState,
         kind = "ensure" => runState[r] # "ended",
         r \in Run => kind = "ensure" \/ \E e \in Ops : EnsureOf(r, e),
         kind = "status" => Observable(r)
  PROVE  Watched'
<1>1. /\ \A x \in Ops \ {o} : op'[x] = op[x]
      /\ op'[o].kind = kind /\ op'[o].run = r /\ op'[o].status = "pending" /\ op'[o].fence = 0
  BY DEF Places, NoRow
<1>2. /\ op[o].kind = "none" /\ op[o].status = "none" /\ op[o].run = NoRun
      /\ \A x \in Ops : x # o /\ op[x].kind # "none" => x < o
      /\ kind = "wake" <=> r = NoRun
  BY DEF Places, Exists, Queued, Row
<1>3. \A p \in Run, e \in Ops : EnsureOf(p, e) => EnsureOf(p, e)' /\ e # o
  BY <1>1, <1>2 DEF EnsureOf
<1>4. ASSUME NEW p \in Run, Observable(p)  PROVE Observable(p)' /\ \A e \in Ops : EnsureOf(p, e)' => EnsureOf(p, e) /\ e # o
  <2>1. \A e \in Ops : EnsureOf(p, e)' => EnsureOf(p, e) /\ e # o
    BY <1>1, <1>4 DEF EnsureOf, Observable
  <2>2. Observable(p)'
    <3>1. CASE \E y \in Ops : op[y].kind = "release" /\ op[y].run = p
      BY <1>1, <1>2, <1>4, <3>1 DEF Observable
    <3>2. CASE \E k \in Ops : /\ op[k].kind = "reconcile" /\ op[k].run = p /\ op[k].status = "completed"
                              /\ \A e \in Ops : EnsureOf(p, e) => op[e].fence < op[k].fence /\ op[e].status \notin Active
      BY <1>1, <1>2, <1>4, <2>1, <3>2 DEF Observable
    <3> QED
      BY <1>4, <3>1, <3>2 DEF Observable
  <2> QED
    BY <2>1, <2>2
<1>5. FirstIsEnsure'
  <2> SUFFICES ASSUME NEW x \in Ops, op'[x].run # NoRun
               PROVE  \E e \in Ops : EnsureOf(op[x].run, e)' /\ e <= x
    BY DEF FirstIsEnsure
  <2>1. op'[x].run \in Run
    BY <1>1 DEF Fields
  <2>2. PICK p \in Run : p = op'[x].run
    BY <2>1
  <2>3. \E e \in Ops : EnsureOf(p, e)' /\ e <= x
    <3>1. CASE x # o
      BY <1>1, <1>3, <2>2, <3>1 DEF Watched, FirstIsEnsure
    <3>2. CASE x = o /\ kind = "ensure"
      BY <1>1, <2>2, <3>2 DEF EnsureOf, Ops
    <3>3. CASE x = o /\ kind # "ensure"
      <4>1. PICK e \in Ops : EnsureOf(p, e)
        BY <1>1, <2>2, <3>3
      <4>2. e < o
        BY <1>2, <1>3, <4>1 DEF EnsureOf
      <4> QED
        BY <1>3, <3>3, <4>1, <4>2 DEF Ops
    <3> QED BY <3>1, <3>2, <3>3
  <2> QED
    BY <2>2, <2>3 DEF EnsureOf
<1>6. ASSUME NEW x \in Ops, op'[x].kind = "status"
      PROVE  Observable(op[x].run)' /\ \A e \in Ops : EnsureOf(op[x].run, e)' => e < x
  <2>1. op'[x].run \in Run /\ Observable(op'[x].run)
    <3>1. CASE x = o
      BY <1>1, <1>2, <1>6, <3>1
    <3>2. CASE x # o
      BY <1>1, <1>6, <3>2 DEF Watched, Queued, Row, Fields
    <3> QED BY <3>1, <3>2
  <2>2. PICK p \in Run : p = op'[x].run
    BY <2>1
  <2>3. Observable(p)' /\ \A e \in Ops : EnsureOf(p, e)' => EnsureOf(p, e) /\ e # o
    BY <1>4, <2>1, <2>2
  <2>4. \A e \in Ops : EnsureOf(p, e) /\ e # o => e < x
    <3>1. CASE x = o
      BY <1>2, <3>1 DEF EnsureOf
    <3>2. CASE x # o
      BY <1>1, <1>6, <2>2, <3>2 DEF Watched, StatusLast
    <3> QED BY <3>1, <3>2
  <2> QED
    BY <2>2, <2>3, <2>4 DEF Observable, EnsureOf
<1> QED
  BY <1>5, <1>6 DEF Watched, StatusLast

\* A reservation for a run that has begun: which one it is, and where its row is.
LEMMA ReservedRow ==
  ASSUME IInv, NEW r \in Run, Recovery(r)
  PROVE  \E o \in Ops, kind \in {"ensure", "status", "release", "reconcile"}, t \in Ops \cup {NoOp} :
           /\ Places(o, kind, r, t) /\ lease = r /\ NoneActive
           /\ UNCHANGED <<wsFence, lease, runState, callers, inbox, ctrlVars>>
           /\ kind = "ensure" => runState[r] = "active"
           /\ kind = "status" => ReserveObserve(r)
           /\ kind = "release" => ReserveRelease(r)
<1>1. lease = r /\ NoneActive /\ UNCHANGED <<wsFence, lease, runState, callers, inbox, ctrlVars>>
  BY DEF Recovery, ReserveRepair, ReserveObserve, ReserveRelease, ReserveReconcile, Reserve
<1>2. PICK kind \in {"ensure", "status", "release", "reconcile"}, t \in Ops \cup {NoOp} :
        /\ Reserve(kind, r, t)
        /\ kind = "ensure" => runState[r] = "active"
        /\ kind = "status" => ReserveObserve(r)
        /\ kind = "release" => ReserveRelease(r)
  BY DEF Recovery, ReserveRepair, ReserveObserve, ReserveRelease, ReserveReconcile
<1>3. kind \in Kinds /\ kind # "wake"
  BY DEF Kinds
<1>4. PICK o \in Ops : Places(o, kind, r, t)
  BY <1>1, <1>2, <1>3, NoRunIsNoRun, ReservePlaces
<1> QED
  BY <1>1, <1>2, <1>4

\* A run that is observed has ended, and a reconcile of its tail or a release was before.
LEMMA ObservedIsObservable ==
  ASSUME Queued, Fields, NEW r \in Run, ReserveObserve(r)
  PROVE  Observable(r)
<1>1. runState[r] = "ended" /\ OnlyObserve(r) /\ NoneActive
  BY DEF ReserveObserve, Reserve
<1>2. CASE \E o \in OpsOf(r, {"release"}) : op[o].status \in Refused
  BY <1>1, <1>2 DEF OpsOf, Observable
<1>3. CASE Tail(r) # NoOp /\ op[Tail(r)].kind = "reconcile" /\ op[Tail(r)].status = "completed"
  <2>1. Tail(r) \in Chain(r)
    BY <1>3, TailInChain
  <2>2. PICK k \in Ops : k = Tail(r)
    BY <2>1 DEF Chain, OpsOf
  <2>3. op[k].fence > 0 /\ k \in Chain(r)
    BY <1>3, <2>1, <2>2 DEF Queued, Row
  <2>4. \A x \in Chain(r) : op[x].fence <= op[k].fence
    BY <2>2, <2>3, TailIsTop
  <2>5. ASSUME NEW e \in Ops, EnsureOf(r, e)  PROVE op[e].fence < op[k].fence /\ op[e].status \notin Active
    <3>1. e \in Chain(r) /\ e # k
      BY <1>3, <2>2, <2>5 DEF EnsureOf, Chain, OpsOf
    <3>2. op[e].fence # op[k].fence
      <4> SUFFICES ASSUME op[e].fence = op[k].fence PROVE FALSE
        OBVIOUS
      <4>1. (e = k \/ e < k) /\ (k = e \/ k < e)
        BY <2>3, FenceOrder DEF Fields
      <4> QED
        BY <3>1, <4>1 DEF Ops
    <3> QED
      BY <1>1, <2>4, <3>1, <3>2 DEF NoneActive, Fields
  <2> QED
    BY <1>1, <1>3, <2>2, <2>3, <2>5 DEF Observable, Chain, OpsOf
<1> QED
  BY <1>1, <1>2, <1>3 DEF OnlyObserve, Completed

\* Every reservation keeps when a run is observed.
LEMMA WatchReserved ==
  ASSUME IInv, Orderly, Watched,
         \/ \E r \in Run : ReserveAdmission(r) \/ Recovery(r)
         \/ ReserveWake
  PROVE  Watched'
<1>0. Queued /\ Fields /\ op \in [Ops -> RowSet]
  BY FieldTypes, Types DEF IInv, ApiTypes
<1>1. ASSUME ReserveWake  PROVE Watched'
  <2>1. "wake" \in Kinds /\ NoOp \in Ops \cup {NoOp} /\ NoRun \in Run \cup {NoRun} /\ runState' = runState
    BY <1>1 DEF Kinds, ReserveWake
  <2>2. PICK o \in Ops : Places(o, "wake", NoRun, NoOp)
    BY <1>1, <2>1, ReservePlaces DEF ReserveWake
  <2> QED
    BY <1>0, <2>1, <2>2, NoRunIsNoRun, WatchPlaced
<1>2. ASSUME NEW r \in Run, ReserveAdmission(r)  PROVE Watched'
  <2>1. "ensure" \in Kinds /\ NoOp \in Ops \cup {NoOp} /\ runState' = runState /\ runState[r] = "active"
    BY <1>2 DEF Kinds, ReserveAdmission
  <2>2. PICK o \in Ops : Places(o, "ensure", r, NoOp)
    BY <1>2, <2>1, NoRunIsNoRun, ReservePlaces DEF ReserveAdmission
  <2> QED
    BY <1>0, <2>1, <2>2, WatchPlaced
<1>3. ASSUME NEW r \in Run, Recovery(r)  PROVE Watched'
  <2>1. PICK o \in Ops, kind \in {"ensure", "status", "release", "reconcile"}, t \in Ops \cup {NoOp} :
          /\ Places(o, kind, r, t) /\ lease = r /\ runState' = runState
          /\ kind = "ensure" => runState[r] = "active"
          /\ kind = "status" => ReserveObserve(r)
    BY <1>3, ReservedRow
  <2>2. kind \in Kinds
    BY DEF Kinds
  <2>3. \E e \in Ops : EnsureOf(r, e)
    BY <2>1, NoRunIsNoRun DEF Orderly, Leased, HasEnsure
  <2>4. kind = "status" => Observable(r)
    BY <1>0, <2>1, ObservedIsObservable
  <2> QED
    BY <1>0, <2>1, <2>2, <2>3, <2>4, WatchPlaced
<1> QED
  BY <1>1, <1>2, <1>3

-----------------------------------------------------------------------------
\* What is on its way when a run is observed or released.

\* A completed operation of a later fence that was begun is below the journal's fence.
LEMMA BelowBegun ==
  ASSUME Queued, Fields, NEW x \in Ops, NEW t \in Ops, x < t, Recorded(t), Begun_(t), op[t].kind # "wake"
  PROVE  op[x].fence < journal.fence
<1>1. Exists(t) /\ op[t].fence > 0 /\ rec[t].fence = op[t].fence /\ rec[t].fence <= journal.fence
  BY DEF Recorded
<1>2. op[x].fence < op[t].fence
  BY <1>1 DEF Queued, Ordered
<1> QED
  BY <1>1, <1>2 DEF Fields

\* If the chain of a run needs no repair, its tail above some other operation was begun.
LEMMA TailIsBegun ==
  ASSUME IInv, Watched, ReadyIsSeen, NEW r \in Run, ~NeedsRepair(r),
         NEW x \in Chain(r), NEW t \in Ops, t = Tail(r), x < t
  PROVE  Begun_(t) /\ op[t].kind # "wake" /\ Recorded(t)
<1>0. Told /\ Fields /\ Queued
  BY FieldTypes DEF IInv, Told
<1> DEFINE F == OpsOf(r, {"ensure"})
<1>2. x \in Ops /\ op[x].run = r
  BY DEF Chain, OpsOf
<1>3. PICK e \in F : e <= x
  BY <1>2, NoRunIsNoRun DEF Watched, FirstIsEnsure, EnsureOf, OpsOf
<1>4. F \in SUBSET Nat /\ F # {} /\ F \in SUBSET Ops
  BY <1>3 DEF OpsOf, Ops
<1>5. \E f \in F : \A y \in F : f <= y
  BY <1>4, SmallestNumber, Zenon
<1>6. PICK f : f = CHOOSE o \in F : \A y \in F : o <= y
  OBVIOUS
<1>7. f \in F /\ f <= e
  BY <1>3, <1>5, <1>6
<1>8. t # f /\ t # NoOp
  BY <1>2, <1>3, <1>4, <1>7 DEF Ops, NoOp
<1>9. /\ op[t].status # "indeterminate"
      /\ (t # f => op[t].status = "completed")
      /\ (op[t].kind = "reconcile" /\ Completed(t) => op[t].ans.state = "ready")
  BY <1>6, <1>8 DEF NeedsRepair
<1>10. op[t].status = "completed" /\ (op[t].kind = "reconcile" => op[t].ans.state = "ready")
  BY <1>8, <1>9 DEF Completed
<1>11. t \in Chain(r)
  BY <1>0, <1>8, TailInChain
<1>12. op[t].kind \in {"ensure", "reconcile"}
  BY <1>11 DEF Chain, OpsOf
<1>13. CASE op[t].kind = "ensure"
  BY <1>0, <1>10, <1>13 DEF Told, Receipts, TrueAnswer, Looks, Begun_
<1>14. CASE op[t].kind = "reconcile"
  BY <1>0, <1>10, <1>14 DEF Told, ReadyIsSeen, Looks
<1> QED
  BY <1>0, <1>12, <1>13, <1>14 DEF Told

\* A request of the chain of a run that needs no repair is below the journal's fence.
LEMMA ChainIsBehind ==
  ASSUME IInv, Watched, ReadyIsSeen, NEW r \in Run, ~NeedsRepair(r), NoneActive,
         NEW m \in inbox, op[m.op].run = r, op[m.op].kind \in {"ensure", "reconcile"}
  PROVE  m.fence < journal.fence
<1>0. Told /\ Fields /\ Queued
  BY FieldTypes DEF IInv, Told
<1>1. m.op \in Ops /\ m.fence = op[m.op].fence /\ m.fence > 0 /\ op[m.op].status = "indeterminate"
  BY <1>0 DEF Fields, Told, OnItsWay, Once, NoneActive, Active
<1>2. m.op \in Chain(r)
  BY <1>1 DEF Chain, OpsOf
<1>3. Tail(r) \in Chain(r) /\ op[m.op].fence <= op[Tail(r)].fence
  BY <1>0, <1>1, <1>2, TailIsTop
<1>4. PICK t \in Ops : t = Tail(r)
  BY <1>3 DEF Chain, OpsOf
<1>5. op[t].status # "indeterminate"
  BY <1>4 DEF NeedsRepair, NoOp, Ops
<1>6. m.op < t
  BY <1>0, <1>1, <1>3, <1>4, <1>5, FenceOrder
<1> QED
  BY <1>0, <1>1, <1>2, <1>4, <1>6, TailIsBegun, BelowBegun

\* A run is observed only then,
LEMMA ObservedBehind ==
  ASSUME IInv, Orderly, Watched, ReadyIsSeen, NEW r \in Run, ReserveObserve(r)
  PROVE  \A m \in inbox : op[m.op].run = r /\ op[m.op].kind \in {"ensure", "reconcile"} => m.fence < journal.fence
<1>1. NoneActive /\ OnlyObserve(r) /\ ~StaleNeedsRecovery(r)
  BY DEF ReserveObserve, Reserve
<1>2. ReleasedAt(r) = {}
  <2> SUFFICES ASSUME NEW o \in ReleasedAt(r) PROVE FALSE
    OBVIOUS
  <2>1. o \in OpsOf(r, {"release"}) /\ Completed(o) /\ op[o].fence > EnsureFence
    BY DEF ReleasedAt
  <2>2. op[o].status \notin Refused
    BY <2>1 DEF Completed, Refused
  <2> QED
    BY <1>1, <2>1, <2>2 DEF OnlyObserve
<1>3. ~NeedsRepair(r)
  BY <1>1, <1>2 DEF StaleNeedsRecovery
<1> QED
  BY <1>1, <1>3, ChainIsBehind

\* A request of a status that is unknown is below a later answer, which saw the controller
\* or found that nothing of the run was begun.
LEMMA StatusIsBehind ==
  ASSUME IInv, Orderly, Watched, ReadyIsSeen, Unseen, NEW r \in Run, ~NeedsRepair(r), NoneActive,
         Unknown = {}, lease = r, NEW m \in inbox, op[m.op].run = r, op[m.op].kind = "status"
  PROVE  m.fence < journal.fence \/ ~Started(r)
<1>0. Told /\ Fields /\ Queued
  BY FieldTypes DEF IInv, Told
<1>1. m.op \in Ops /\ m.fence = op[m.op].fence /\ m.fence > 0 /\ op[m.op].status = "indeterminate"
  BY <1>0 DEF Fields, Told, OnItsWay, Once, NoneActive, Active
<1> DEFINE S == {x \in Ops : op[x].status = "completed"}
<1>2. ~(op[m.op].fence > TopFence(S))
  BY <1>1 DEF Unknown
<1>3. S \in SUBSET Ops
  OBVIOUS
<1>4. TopFence(S) = 0 \/ \E x \in S : op[x].fence = TopFence(S)
  BY <1>0, <1>3, TopFenceIsTop
<1>5. PICK x \in S : op[x].fence = TopFence(S)
  BY <1>1, <1>2, <1>4
<1>6. x \in Ops /\ op[x].status = "completed" /\ op[m.op].fence <= op[x].fence
  BY <1>0, <1>1, <1>2, <1>5 DEF Fields
<1>7. m.op < x
  BY <1>0, <1>1, <1>6, FenceOrder
<1>8. Exists(x) /\ Recorded(x) /\ op[x].kind \in Kinds
  BY <1>0, <1>6 DEF Queued, Row, Exists, Told, Fields
<1>9. op[x].run = r
  BY <1>1, <1>7, <1>8, NoRunIsNoRun DEF Orderly, Together
<1>10. op[x].kind # "wake"
  BY <1>0, <1>6, <1>9, NoRunIsNoRun DEF Queued, Row
<1>11. CASE Begun_(x)
  BY <1>0, <1>1, <1>6, <1>7, <1>8, <1>10, <1>11, BelowBegun
<1>12. CASE op[x].kind = "reconcile"
  <2>1. x \in Chain(r) /\ op[x].fence > 0
    BY <1>0, <1>6, <1>9, <1>12 DEF Chain, OpsOf, Queued, Row
  <2>2. Tail(r) \in Chain(r) /\ op[x].fence <= op[Tail(r)].fence
    BY <1>0, <2>1, TailIsTop
  <2>3. PICK t \in Ops : t = Tail(r)
    BY <2>2 DEF Chain, OpsOf
  <2>4. x = t \/ x < t
    BY <1>0, <1>6, <2>1, <2>2, <2>3, FenceOrder
  <2>5. m.op < t
    BY <1>1, <1>6, <1>7, <2>4 DEF Ops
  <2>6. CASE x < t
    BY <1>0, <1>1, <2>1, <2>3, <2>5, <2>6, TailIsBegun, BelowBegun
  <2>7. CASE x = t
    <3>1. op[x].ans.state = "ready"
      BY <1>6, <1>12, <2>3, <2>7 DEF NeedsRepair, Completed, NoOp, Ops
    <3>2. Begun_(x)
      BY <1>6, <1>12, <3>1 DEF ReadyIsSeen, Looks
    <3> QED
      BY <1>11, <3>2
  <2> QED BY <2>4, <2>6, <2>7
<1>13. CASE op[x].kind = "status" /\ ~Begun_(x)
  BY <1>6, <1>9, <1>13 DEF Unseen, Answered
<1>14. CASE op[x].kind \in {"ensure", "release"}
  <2>1. Begun_(x)
    BY <1>0, <1>6, <1>14 DEF Told, Receipts, TrueAnswer, Looks, Begun_
  <2> QED
    BY <1>11, <2>1
<1> QED
  BY <1>8, <1>10, <1>11, <1>12, <1>13, <1>14 DEF Kinds

\* and so is it released.
LEMMA ReleasedBehind ==
  ASSUME IInv, Orderly, Watched, ReadyIsSeen, Unseen, NEW r \in Run, ReserveRelease(r)
  PROVE  \A m \in inbox : op[m.op].run = r /\ op[m.op].kind \in Once =>
           m.fence < journal.fence \/ (op[m.op].kind # "ensure" /\ ~Started(r))
<1>0. Told /\ Fields /\ Queued /\ NoneActive /\ lease = r
  BY FieldTypes DEF IInv, Told, ReserveRelease, Reserve
<1>1. CASE OpsOf(r, {"release"}) = {} /\ Completed(Tail(r)) /\ op[Tail(r)].kind = "ensure"
  <2>1. Tail(r) \in Chain(r)
    BY <1>0, <1>1, TailInChain DEF Completed
  <2>2. PICK t \in Ops : t = Tail(r)
    BY <2>1 DEF Chain, OpsOf
  <2>3. t \in Chain(r) /\ op[t].status = "completed" /\ op[t].kind = "ensure" /\ op[t].fence > 0
    BY <1>0, <1>1, <2>1, <2>2 DEF Completed, Queued, Row
  <2>4. \A x \in Chain(r) : op[x].fence <= op[t].fence
    BY <1>0, <2>2, <2>3, TailIsTop
  <2>5. Begun_(t) /\ Recorded(t)
    BY <1>0, <2>3 DEF Told, Receipts, TrueAnswer, Looks, Begun_
  <2>6. ASSUME NEW m \in inbox, op[m.op].run = r, op[m.op].kind \in {"ensure", "reconcile"}
        PROVE  m.fence < journal.fence
    <3>1. m.op \in Ops /\ m.fence = op[m.op].fence /\ m.fence > 0 /\ op[m.op].status = "indeterminate"
      BY <1>0, <2>6 DEF Fields, Told, OnItsWay, Once, NoneActive, Active
    <3>2. m.op \in Chain(r)
      BY <2>6, <3>1 DEF Chain, OpsOf
    <3>3. m.op < t
      BY <1>0, <2>3, <2>4, <3>1, <3>2, FenceOrder
    <3> QED
      BY <1>0, <2>3, <2>5, <3>1, <3>3, BelowBegun
  <2>7. ASSUME NEW m \in inbox, op[m.op].run = r, op[m.op].kind = "status"
        PROVE  FALSE
    <3>1. Observable(r)
      BY <1>0, <2>7 DEF Fields, Watched
    <3>2. PICK k \in Ops : /\ op[k].kind = "reconcile" /\ op[k].run = r
                           /\ \A e \in Ops : EnsureOf(r, e) => op[e].fence < op[k].fence
      BY <1>1, <3>1 DEF Observable, OpsOf
    <3>3. EnsureOf(r, t) /\ k \in Chain(r)
      BY <2>3, <3>2 DEF EnsureOf, Chain, OpsOf
    <3>4. op[t].fence < op[k].fence /\ op[k].fence <= op[t].fence
      BY <2>4, <3>2, <3>3
    <3> QED
      BY <1>0, <3>4 DEF Fields
  <2> QED
    BY <2>6, <2>7 DEF Once
<1>2. CASE ~StaleNeedsRecovery(r) /\ \A o \in OpsOf(r, {"release"}) : \/ op[o].status \in Refused
                                                                     \/ op[o].fence <= EnsureFence
  <2>1. ReleasedAt(r) = {}
    <3> SUFFICES ASSUME NEW o \in ReleasedAt(r) PROVE FALSE
      OBVIOUS
    <3>1. o \in OpsOf(r, {"release"}) /\ Completed(o) /\ op[o].fence > EnsureFence /\ o \in Ops
      BY DEF ReleasedAt, OpsOf
    <3>2. op[o].status \notin Refused
      BY <3>1 DEF Completed, Refused
    <3>3. EnsureFence \in Nat /\ op[o].fence \in Nat
      <4> DEFINE S == {e \in Ops : op[e].kind = "ensure" /\ op[e].status \notin Refused}
      <4>1. S \in SUBSET Ops /\ EnsureFence = TopFence(S)
        BY DEF EnsureFence
      <4>2. TopFence(S) = 0 \/ \E x \in S : op[x].fence = TopFence(S)
        BY <1>0, <4>1, TopFenceIsTop
      <4> QED
        BY <1>0, <3>1, <4>1, <4>2 DEF Fields
    <3> QED
      BY <1>2, <3>1, <3>2, <3>3
  <2>2. ~NeedsRepair(r) /\ Unknown = {}
    BY <1>2, <2>1 DEF StaleNeedsRecovery
  <2>3. \A m \in inbox : op[m.op].run = r /\ op[m.op].kind \in {"ensure", "reconcile"} => m.fence < journal.fence
    BY <1>0, <2>2, ChainIsBehind
  <2>4. \A m \in inbox : op[m.op].run = r /\ op[m.op].kind = "status" => m.fence < journal.fence \/ ~Started(r)
    BY <1>0, <2>2, StatusIsBehind
  <2> QED
    BY <2>3, <2>4 DEF Once
<1> QED
  BY <1>1, <1>2 DEF ReserveRelease

-----------------------------------------------------------------------------
\* What the API does to what a failed operation has done.

\* A row that is answered exists, and so does one of a request or a record.
LEMMA TouchedExists ==
  ASSUME IInv
  PROVE  /\ \A x \in Ops : Answered(x) \/ Begun_(x) => Exists(x)
         /\ \A c \in callers : Exists(c.op)
         /\ \A m \in inbox : Exists(m.op)
<1>0. Told /\ Fields /\ Queued
  BY FieldTypes DEF IInv, Told
<1>1. \A c \in callers : Exists(c.op)
  BY <1>0 DEF Told, Awaits, Fields, Queued, Row, Exists
<1>2. \A m \in inbox : Exists(m.op)
  BY <1>0 DEF Told, OnItsWay, Fields, Queued, Row, Exists
<1>3. \A x \in Ops : Answered(x) \/ Begun_(x) => Exists(x)
  BY <1>0, <1>1 DEF Told, Recorded, Queued, Row, Exists, Answered
<1> QED
  BY <1>1, <1>2, <1>3

\* A write that leaves the controller alone, sends nothing of a run that is released or
\* observed later, and stores only answers that were given.
LEMMA FirmWritten ==
  ASSUME IInv, Fields', Firm, UNCHANGED <<journal, rec, busy>>,
         \A x \in Ops : Exists(x) => op'[x].kind = op[x].kind /\ op'[x].run = op[x].run,
         \A m \in inbox' : \/ m \in inbox \/ op'[m.op].kind \notin Once
                           \/ \A y \in Ops : m.op < y => op'[y].kind \notin {"release", "status"},
         \A y \in Ops : ~Exists(y) /\ op'[y].kind \in {"release", "status"} => Behind(y)',
         \A x \in Ops : Answered(x)' => Answered(x),
         \A x \in Ops : op'[x].kind \in Looks /\ op'[x].ans.state = "ready" =>
            \/ Exists(x) /\ op'[x].ans = op[x].ans
            \/ \E c \in callers : c.op = x /\ c.ans.is = "ok" /\ op'[x].ans = c.ans,
         \A c \in callers' : c \in callers \/ c.ans.is = "none",
         \A c \in callers : c.ans.is # "none" => op'[c.op].fence = op[c.op].fence,
         \A x \in Ops : op'[x].kind = "release" /\ op'[x].status = "failed" =>
            \/ op[x].kind = "release" /\ op[x].status = "failed" /\ op'[x].fence = op[x].fence
            \/ \E c \in callers : c.op = x /\ ~c.replay /\ c.ans.is = "rejected",
         \A m \in inbox' : m \in inbox \/ op'[m.op].kind # "release" \/ ~Begun_(m.op) \/ m.try > 1,
         Tried'
  PROVE  Firm'
<1>0. Told /\ Fields /\ Queued
  BY FieldTypes DEF IInv, Told
<1>1. \A x \in Ops : Begun_(x)' <=> Begun_(x)
  BY DEF Begun_
<1> DEFINE S(r) == \E e \in Ops : op'[e].kind = "ensure" /\ op'[e].run = r /\ rec'[e].status # "none"
<1>2. \A r : S(r) => Started(r)
  BY TouchedExists DEF Started, EnsureOf, Begun_
<1>3. Behinds'
  <2> SUFFICES ASSUME NEW y \in Ops, op'[y].kind \in {"release", "status"} PROVE Behind(y)'
    BY DEF Behinds
  <2>1. CASE Exists(y)
    <3> SUFFICES ASSUME NEW m \in inbox', m.op < y, op'[m.op].run = op'[y].run,
                        op'[m.op].kind \in (IF op'[y].kind = "release" THEN Once ELSE {"ensure", "reconcile"})
                 PROVE  m.fence < journal.fence \/ (op'[m.op].kind # "ensure" /\ ~S(op'[y].run))
      BY DEF Behind, Started, EnsureOf, Begun_
    <3>1. op'[m.op].kind \in Once
      BY DEF Once
    <3>2. m \in inbox /\ m.op \in Ops /\ Exists(m.op)
      BY <1>0, <3>1, TouchedExists DEF Fields
    <3>3. m.fence < journal.fence \/ (op[m.op].kind # "ensure" /\ ~Started(op[y].run))
      BY <2>1, <3>2 DEF Firm, Behinds, Behind
    <3> QED
      BY <1>2, <2>1, <3>2, <3>3
  <2>2. CASE ~Exists(y)
    BY <2>2
  <2> QED BY <2>1, <2>2
<1>4. Unseen'
  <2> SUFFICES ASSUME NEW x \in Ops, op'[x].kind = "status", Answered(x)', ~Begun_(x), S(op'[x].run)
               PROVE  FALSE
    BY <1>1 DEF Unseen, Started, EnsureOf, Begun_
  <2>1. Answered(x) /\ Exists(x)
    BY TouchedExists
  <2> QED
    BY <1>2, <2>1 DEF Firm, Unseen
<1>5. ReadyIsSeen'
  <2>1. ASSUME NEW x \in Ops, op'[x].kind \in Looks, op'[x].ans.state = "ready"  PROVE Begun_(x)
    <3>1. CASE Exists(x) /\ op'[x].ans = op[x].ans
      BY <2>1, <3>1 DEF Firm, ReadyIsSeen
    <3>2. CASE \E c \in callers : c.op = x /\ c.ans.is = "ok" /\ op'[x].ans = c.ans
      BY <2>1, <3>2, TouchedExists DEF Firm, ReadyIsSeen
    <3> QED BY <2>1, <3>1, <3>2
  <2>2. ASSUME NEW c \in callers', op'[c.op].kind \in Looks, c.ans.is = "ok", c.ans.state = "ready"
        PROVE  Begun_(c.op)
    <3>1. c \in callers /\ c.op \in Ops
      BY <1>0, <2>2 DEF Fields
    <3> QED
      BY <2>2, <3>1, TouchedExists DEF Firm, ReadyIsSeen
  <2> QED
    BY <1>1, <2>1, <2>2 DEF ReadyIsSeen, Fields
<1>6. Resent'
  <2> SUFFICES ASSUME NEW o \in Ops, op'[o].kind = "release", Begun_(o), rec[o].status # "completed", busy.op # o,
                      NEW m \in inbox', m.op = o
               PROVE  m.try > 1
    BY DEF Resent, Begun_
  <2> QED
    BY TouchedExists DEF Firm, Resent
<1>7. ReleaseRun'
  BY DEF Firm, ReleaseRun
<1>8. \A x \in Ops : Dead(x) /\ op'[x].fence = op[x].fence => Dead(x)'
  BY <1>1 DEF Dead
<1>9. DeadCalls'
  <2> SUFFICES ASSUME NEW c \in callers', op'[c.op].kind = "release", ~c.replay, c.ans.is = "rejected"
               PROVE  Dead(c.op)'
    BY DEF DeadCalls
  <2>1. c \in callers /\ c.op \in Ops
    BY <1>0 DEF Fields
  <2>2. PICK x \in Ops : x = c.op
    BY <2>1
  <2>3. Dead(x) /\ op'[x].fence = op[x].fence
    BY <2>1, <2>2, TouchedExists DEF Firm, DeadCalls
  <2>4. Dead(x)'
    BY <1>8, <2>3
  <2> QED
    BY <2>2, <2>4
<1>10. DeadRows'
  <2> SUFFICES ASSUME NEW x \in Ops, op'[x].kind = "release", op'[x].status = "failed"
               PROVE  Dead(x)'
    BY DEF DeadRows
  <2>1. CASE op[x].kind = "release" /\ op[x].status = "failed" /\ op'[x].fence = op[x].fence
    BY <1>8, <2>1 DEF Firm, DeadRows
  <2>2. CASE \E c \in callers : c.op = x /\ ~c.replay /\ c.ans.is = "rejected"
    BY <1>8, <2>2, TouchedExists DEF Firm, DeadCalls
  <2> QED BY <2>1, <2>2
<1> QED
  BY <1>3, <1>4, <1>5, <1>6, <1>7, <1>9, <1>10 DEF Firm

\* A claim or a replay sends a request that nothing later of its run has to wait for.
LEMMA FirmSent ==
  ASSUME IInv, TypeOK', Firm, NEW o \in Ops, Claim(o) \/ Replay(o)
  PROVE  Firm'
<1>0. Told /\ Fields /\ Fields' /\ Queued /\ op \in [Ops -> RowSet] /\ callers \subseteq CallerSet
  BY FieldTypes, Types DEF IInv, Told, ApiTypes, WireTypes
<1>1. UNCHANGED <<journal, rec, busy>>
  BY DEF Claim, Replay, ctrlVars
<1>2. ASSUME Claim(o)
      PROVE  /\ op[o].status \in Waits /\ (op[o].kind = "release" => op[o].try = 0 /\ ~Begun_(o))
             /\ \A c \in callers : c.op # o
             /\ op[o].kind \in Once => \A y \in Ops : o < y => ~Exists(y)
  <2>1. op[o].status \in Waits /\ (op[o].kind = "release" => op[o].status = "pending")
    BY <1>0, <1>2 DEF Claim, Waits, Queued, Row
  <2>2. op[o].kind = "release" => op[o].try = 0 /\ ~Begun_(o)
    BY <1>0, <2>1 DEF Queued, Row, Told, Recorded
  <2>3. \A c \in callers : c.op # o
    BY <1>0, <2>1 DEF Told, Awaits, Waits
  <2>4. op[o].kind \in Once => \A y \in Ops : o < y => ~Exists(y)
    BY <1>0, <2>1 DEF Queued, Ordered, Waits, Active, Once
  <2> QED
    BY <2>1, <2>2, <2>3, <2>4
<1>3. ASSUME Replay(o)
      PROVE  op[o].kind \in {"release", "wake"} /\ op[o].status = "indeterminate" /\ Dispatch(o, op[o].fence, TRUE)
             /\ (op[o].kind = "release" => op[o].try > 0)
  BY <1>3 DEF Replay, Firm, Tried
<1>4. CASE Claim(o) /\ ~Dispatch(o, wsFence', FALSE)
  <2>1. /\ op[o].kind = "reconcile" /\ UNCHANGED <<callers, inbox>>
        /\ op' = [op EXCEPT ![o].status = "failed", ![o].fence = wsFence', ![o].try = @ + 1]
    BY <1>4 DEF Claim
  <2>2. \A x \in Ops : /\ op'[x].kind = op[x].kind /\ op'[x].run = op[x].run /\ op'[x].ans = op[x].ans
                       /\ x # o => op'[x] = op[x]
                       /\ op'[o].status = "failed"
    BY <1>0, <2>1 DEF RowSet
  <2>3. Tried'
    BY <1>0, <2>1, <2>2 DEF Firm, Tried, Fields
  <2>4. \A x \in Ops : Answered(x)' => Answered(x)
    BY <2>1, <2>2 DEF Answered
  <2>5. \A c \in callers : c.ans.is # "none" => op'[c.op].fence = op[c.op].fence
    BY <1>0, <1>2, <1>4, <2>2 DEF Fields
  <2>6. \A y \in Ops : ~Exists(y) /\ op'[y].kind \in {"release", "status"} => Behind(y)'
    BY <2>2 DEF Exists
  <2>7. \A x \in Ops : op'[x].kind \in Looks /\ op'[x].ans.state = "ready" => Exists(x) /\ op'[x].ans = op[x].ans
    BY <2>2 DEF Exists, Looks
  <2>8. \A x \in Ops : op'[x].kind = "release" /\ op'[x].status = "failed" =>
          op[x].kind = "release" /\ op[x].status = "failed" /\ op'[x].fence = op[x].fence
    BY <2>1, <2>2
  <2> QED
    BY <1>0, <1>1, <2>1, <2>2, <2>3, <2>4, <2>5, <2>6, <2>7, <2>8, FirmWritten
<1>5. ASSUME NEW f, NEW again \in BOOLEAN, Dispatch(o, f, again),
             IF again THEN Replay(o) /\ f = op[o].fence ELSE Claim(o)
      PROVE  Firm'
  <2> DEFINE n == op[o].try + 1
             new == [op |-> o, fence |-> f, try |-> n, replay |-> again, ans |-> NoAnswer]
             sent == [op |-> o, fence |-> f, try |-> n, ready |-> op[o].kind # "wake"]
  <2>1. /\ \A x \in Ops : /\ op'[x].kind = op[x].kind /\ op'[x].run = op[x].run /\ op'[x].ans = op[x].ans
                          /\ x # o => op'[x] = op[x]
        /\ op'[o].status = "running" /\ op'[o].try = n /\ op'[o].fence = f
        /\ callers' = callers \cup {new} /\ inbox' = inbox \cup {sent}
    BY <1>0, <1>5 DEF Dispatch, RowSet
  <2>2. /\ new.op = o /\ new.ans.is = "none" /\ new.try = n /\ new.replay = again
        /\ sent.op = o /\ sent.try = n /\ n \in Nat /\ n > 0
    BY <1>0 DEF NoAnswer, Fields
  <2> HIDE DEF new, sent
  <2>3. Tried'
    <3>1. \A x \in Ops : op'[x].kind = "release" /\ op'[x].status # "pending" => op'[x].try > 0
      BY <2>1, <2>2 DEF Firm, Tried
    <3>2. ASSUME NEW c \in callers', op'[c.op].kind = "release", ~c.replay  PROVE c.try = 1
      <4>1. CASE c = new
        BY <1>2, <1>5, <2>1, <2>2, <3>2, <4>1
      <4>2. CASE c \in callers
        BY <1>0, <2>1, <3>2, <4>2 DEF Firm, Tried, Fields
      <4> QED BY <2>1, <4>1, <4>2
    <3> QED
      BY <3>1, <3>2 DEF Tried
  <2>4. ASSUME NEW x \in Ops, Answered(x)'  PROVE Answered(x)
    <3>1. \A c \in callers' : c.ans.is = "ok" => c \in callers
      BY <2>1, <2>2
    <3>2. x # o => op'[x] = op[x]
      BY <2>1
    <3> QED
      BY <2>1, <2>4, <3>1, <3>2 DEF Answered
  <2>5. \A m \in inbox' : \/ m \in inbox \/ op'[m.op].kind \notin Once
                          \/ \A y \in Ops : m.op < y => op'[y].kind \notin {"release", "status"}
    <3>1. op[o].kind \in Once => \A y \in Ops : o < y => ~Exists(y)
      BY <1>2, <1>3 DEF Once
    <3>2. op[o].kind \in Once => \A y \in Ops : o < y => op'[y].kind = "none"
      BY <2>1, <3>1 DEF Exists
    <3> QED
      BY <2>1, <2>2, <3>2
  <2>6. \A m \in inbox' : m \in inbox \/ op'[m.op].kind # "release" \/ ~Begun_(m.op) \/ m.try > 1
    <3> SUFFICES ASSUME op[o].kind = "release", Begun_(o) PROVE n > 1
      BY <2>1, <2>2
    <3>1. op[o].try > 0 /\ op[o].try \in Nat
      BY <1>0, <1>2, <1>3, <1>5 DEF Fields
    <3> QED
      BY <3>1
  <2>7. \A c \in callers : c.ans.is # "none" => op'[c.op].fence = op[c.op].fence
    BY <1>0, <1>2, <1>5, <2>1 DEF Fields
  <2>8. \A y \in Ops : ~Exists(y) /\ op'[y].kind \in {"release", "status"} => Behind(y)'
    BY <2>1 DEF Exists
  <2>9. \A c \in callers' : c \in callers \/ c.ans.is = "none"
    BY <2>1, <2>2
  <2>10. \A x \in Ops : op'[x].kind \in Looks /\ op'[x].ans.state = "ready" => Exists(x) /\ op'[x].ans = op[x].ans
    BY <2>1 DEF Exists, Looks
  <2>11. \A x \in Ops : op'[x].kind = "release" /\ op'[x].status = "failed" =>
            op[x].kind = "release" /\ op[x].status = "failed" /\ op'[x].fence = op[x].fence
    BY <2>1
  <2> QED
    BY <1>0, <1>1, <2>1, <2>3, <2>4, <2>5, <2>6, <2>7, <2>8, <2>9, <2>10, <2>11, FirmWritten
<1>6. CASE Claim(o) /\ Dispatch(o, wsFence', FALSE)
  <2>1. PICK f : f = wsFence'
    OBVIOUS
  <2>2. Dispatch(o, f, FALSE)
    BY <1>6, <2>1 DEF Dispatch
  <2> QED
    BY <1>5, <1>6, <2>2
<1>7. CASE Replay(o)
  <2>1. PICK f : f = op[o].fence
    OBVIOUS
  <2>2. Dispatch(o, f, TRUE)
    BY <1>3, <1>7, <2>1 DEF Dispatch
  <2> QED
    BY <1>5, <1>7, <2>1, <2>2
<1> QED
  BY <1>4, <1>6, <1>7

\* What an answer, an interruption or a cancellation writes was known before.
LEMMA FirmStored ==
  ASSUME IInv, TypeOK', Firm,
         (\E c \in callers : Returns(c)) \/ (\E o \in Ops, status \in Statuses : Turns(o, status)) \/ Leases
  PROVE  Firm'
<1>0. Told /\ Fields /\ Fields' /\ Queued /\ op \in [Ops -> RowSet] /\ callers \subseteq CallerSet
  BY FieldTypes, Types DEF IInv, Told, ApiTypes, WireTypes
<1>1. UNCHANGED <<inbox, journal, rec, busy>> /\ callers' \subseteq callers
  BY DEF Returns, Turns, Leases
<1>2. ASSUME NEW x \in Ops
      PROVE  /\ op'[x].kind = op[x].kind /\ op'[x].run = op[x].run
             /\ op'[x].fence = op[x].fence /\ op'[x].try = op[x].try
             /\ op'[x].status = "pending" => op[x].status = "pending"
             /\ op[x].status = "pending" => op'[x].status \in {"pending", "cancelled"}
             /\ op'[x].status = "completed" => Answered(x)
             /\ op'[x].ans = op[x].ans \/ \E c \in callers : c.op = x /\ c.ans.is = "ok" /\ op'[x].ans = c.ans
             /\ op'[x].status = "failed" =>
                  op[x].status = "failed" \/ \E c \in callers : c.op = x /\ ~c.replay /\ c.ans.is = "rejected"
  <2>1. ASSUME NEW c \in callers, Returns(c)
        PROVE  /\ op'[x].kind = op[x].kind /\ op'[x].run = op[x].run
               /\ op'[x].fence = op[x].fence /\ op'[x].try = op[x].try
               /\ op'[x].status = op[x].status \/ (op[x].status = "running" /\ c.op = x /\ op'[x].status \in {Outcome(c), "indeterminate"})
               /\ op'[x].ans = op[x].ans \/ (c.op = x /\ c.ans.is = "ok" /\ op'[x].ans = c.ans)
    BY <1>0, <2>1 DEF Returns, RowSet, CallerSet
  <2>2. ASSUME NEW o \in Ops, NEW status, Turns(o, status)
        PROVE  /\ op'[x].kind = op[x].kind /\ op'[x].run = op[x].run
               /\ op'[x].fence = op[x].fence /\ op'[x].try = op[x].try /\ op'[x].ans = op[x].ans
               /\ op'[x].status = op[x].status \/ (op'[x].status = "indeterminate" /\ op[x].status = "running")
                  \/ op'[x].status = "cancelled"
    BY <1>0, <2>2 DEF Turns, RowSet
  <2>3. \A c \in callers : /\ Outcome(c) # "pending"
                           /\ Outcome(c) = "completed" => c.ans.is = "ok"
                           /\ Outcome(c) = "failed" => c.ans.is = "rejected" /\ ~c.replay
    BY DEF Outcome
  <2>4. CASE \E c \in callers : Returns(c)
    BY <2>1, <2>3, <2>4 DEF Answered
  <2>5. CASE \E o \in Ops, status \in Statuses : Turns(o, status)
    BY <2>2, <2>5 DEF Answered
  <2>6. CASE Leases
    BY <2>6 DEF Leases, Answered
  <2> QED BY <2>4, <2>5, <2>6
<1>3. Tried'
  <2>1. ASSUME NEW x \in Ops, op'[x].kind = "release", op'[x].status # "pending"  PROVE op'[x].try > 0
    <3>1. op[x].status # "pending"
      <4> SUFFICES ASSUME op[x].status = "pending" PROVE FALSE
        OBVIOUS
      <4>1. op'[x].status = "cancelled" /\ op[x].kind = "release"
        BY <1>2, <2>1
      <4>2. (\E o \in Ops, status \in Statuses : Turns(o, status)) \/ op' = op \/ \E c \in callers : Returns(c)
        BY DEF Leases
      <4>3. op'[x] = op[x]
        BY <1>0, <4>1 DEF Turns, Returns, Leases, RowSet, Outcome, CallerSet, Waits
      <4> QED
        BY <4>1, <4>3
    <3> QED
      BY <1>2, <2>1, <3>1 DEF Firm, Tried
  <2>2. \A c \in callers' : op'[c.op].kind = "release" /\ ~c.replay => c.try = 1
    BY <1>0, <1>1, <1>2 DEF Firm, Tried, Fields
  <2> QED
    BY <2>1, <2>2 DEF Tried
<1>4. \A x \in Ops : Answered(x)' => Answered(x)
  BY <1>1, <1>2 DEF Answered
<1>5. \A x \in Ops : op'[x].kind \in Looks /\ op'[x].ans.state = "ready" =>
        \/ Exists(x) /\ op'[x].ans = op[x].ans
        \/ \E c \in callers : c.op = x /\ c.ans.is = "ok" /\ op'[x].ans = c.ans
  BY <1>2 DEF Exists, Looks
<1>6. \A y \in Ops : ~Exists(y) /\ op'[y].kind \in {"release", "status"} => Behind(y)'
  BY <1>2 DEF Exists
<1>7. \A c \in callers : c.ans.is # "none" => op'[c.op].fence = op[c.op].fence
  BY <1>0, <1>2 DEF Fields
<1>8. \A x \in Ops : op'[x].kind = "release" /\ op'[x].status = "failed" =>
        \/ op[x].kind = "release" /\ op[x].status = "failed" /\ op'[x].fence = op[x].fence
        \/ \E c \in callers : c.op = x /\ ~c.replay /\ c.ans.is = "rejected"
  BY <1>2
<1> QED
  BY <1>0, <1>1, <1>2, <1>3, <1>4, <1>5, <1>6, <1>7, <1>8, FirmWritten

\* A row that is placed for a release or an observation finds what is on its way behind.
LEMMA FirmReserved ==
  ASSUME IInv, Orderly, Watched, Firm, TypeOK',
         \/ \E r \in Run : ReserveAdmission(r) \/ Recovery(r)
         \/ ReserveWake
  PROVE  Firm'
<1>0. Told /\ Fields /\ Fields' /\ Queued /\ op \in [Ops -> RowSet] /\ callers \subseteq CallerSet
  BY FieldTypes, Types DEF IInv, Told, ApiTypes, WireTypes
<1>1. ASSUME NEW o \in Ops, NEW kind \in Kinds, NEW r \in Run \cup {NoRun}, NEW t, Places(o, kind, r, t),
             kind \in {"release", "status"} =>
               \A m \in inbox : op[m.op].run = r /\ op[m.op].kind \in (IF kind = "release" THEN Once ELSE {"ensure", "reconcile"})
                 => m.fence < journal.fence \/ (op[m.op].kind # "ensure" /\ ~Started(r))
      PROVE  Firm'
  <2>1. /\ \A x \in Ops \ {o} : op'[x] = op[x]
        /\ op'[o].kind = kind /\ op'[o].run = r /\ op'[o].status = "pending"
        /\ op'[o].ans = NoAnswer /\ NoAnswer.state = "none"
        /\ ~Exists(o) /\ UNCHANGED <<callers, inbox, journal, rec, busy>>
    BY <1>0, <1>1 DEF Places, NoRow, NoAnswer
  <2>2. \A x \in Ops : Exists(x) => op'[x] = op[x]
    BY <2>1
  <2>3. ASSUME NEW y \in Ops, ~Exists(y), op'[y].kind \in {"release", "status"}  PROVE Behind(y)'
    <3>1. y = o
      BY <2>1, <2>3 DEF Exists
    <3> DEFINE S == \E e \in Ops : op'[e].kind = "ensure" /\ op'[e].run = r /\ rec'[e].status # "none"
    <3>2. S => Started(r)
      BY <2>1, <2>2, TouchedExists DEF Started, EnsureOf, Begun_
    <3>3. ASSUME NEW m \in inbox, op'[m.op].run = r,
                 op'[m.op].kind \in (IF kind = "release" THEN Once ELSE {"ensure", "reconcile"})
          PROVE  m.fence < journal.fence \/ (op'[m.op].kind # "ensure" /\ ~S)
      <4>1. m.op \in Ops /\ op'[m.op] = op[m.op]
        BY <1>0, <2>2, TouchedExists DEF Fields
      <4>2. kind \in {"release", "status"}
        BY <2>1, <2>3, <3>1
      <4> QED
        BY <1>1, <3>2, <3>3, <4>1, <4>2
    <3> QED
      BY <2>1, <3>1, <3>3 DEF Behind, Started, EnsureOf, Begun_
  <2>4. Tried'
    BY <1>0, <2>1, <2>2, TouchedExists DEF Firm, Tried, Fields
  <2>5. \A x \in Ops : Answered(x)' => Answered(x)
    BY <2>1 DEF Answered
  <2>6. \A x \in Ops : op'[x].kind \in Looks /\ op'[x].ans.state = "ready" => Exists(x) /\ op'[x].ans = op[x].ans
    BY <2>1 DEF Exists, Looks
  <2>7. \A c \in callers : c.ans.is # "none" => op'[c.op].fence = op[c.op].fence
    BY <1>0, <2>2, TouchedExists DEF Fields
  <2>8. \A x \in Ops : op'[x].kind = "release" /\ op'[x].status = "failed" =>
          op[x].kind = "release" /\ op[x].status = "failed" /\ op'[x].fence = op[x].fence
    BY <2>1
  <2> QED
    BY <1>0, <2>1, <2>2, <2>3, <2>4, <2>5, <2>6, <2>7, <2>8, FirmWritten
<1>2. ASSUME ReserveWake  PROVE Firm'
  <2>1. "wake" \in Kinds /\ NoOp \in Ops \cup {NoOp} /\ NoRun \in Run \cup {NoRun}
    BY DEF Kinds
  <2>2. PICK o \in Ops : Places(o, "wake", NoRun, NoOp)
    BY <1>2, <2>1, ReservePlaces DEF ReserveWake
  <2> QED
    BY <1>1, <2>1, <2>2
<1>3. ASSUME NEW r \in Run, ReserveAdmission(r)  PROVE Firm'
  <2>1. "ensure" \in Kinds /\ NoOp \in Ops \cup {NoOp}
    BY DEF Kinds
  <2>2. PICK o \in Ops : Places(o, "ensure", r, NoOp)
    BY <1>3, <2>1, NoRunIsNoRun, ReservePlaces DEF ReserveAdmission
  <2> QED
    BY <1>1, <2>1, <2>2
<1>4. ASSUME NEW r \in Run, Recovery(r)  PROVE Firm'
  <2>1. PICK o \in Ops, kind \in {"ensure", "status", "release", "reconcile"}, t \in Ops \cup {NoOp} :
          /\ Places(o, kind, r, t)
          /\ kind = "status" => ReserveObserve(r)
          /\ kind = "release" => ReserveRelease(r)
    BY <1>4, ReservedRow
  <2>2. kind \in Kinds
    BY DEF Kinds
  <2>3. CASE kind = "status"
    BY <1>1, <2>1, <2>2, <2>3, ObservedBehind DEF Firm
  <2>4. CASE kind = "release"
    BY <1>1, <2>1, <2>2, <2>4, ReleasedBehind DEF Firm
  <2> QED
    BY <1>1, <2>1, <2>2, <2>3, <2>4
<1> QED
  BY <1>2, <1>3, <1>4

-----------------------------------------------------------------------------
\* What the controller does to it.

\* An ensure is not begun any more when its run was released or observed.
LEMMA NothingReleased ==
  ASSUME IInv, Orderly, Watched, Firm, NEW m \in inbox, NEW j \in JournalSet, NEW rs \in RecordSets, NEW run,
         Begins(m, j, rs, run), op[m.op].kind = "ensure",
         NEW y \in Ops, op[y].kind \in {"release", "status"}, op[y].run = op[m.op].run
  PROVE  FALSE
<1>0. Told /\ Fields
  BY FieldTypes DEF IInv, Told
<1>1. m.op \in Ops /\ EnsureOf(op[y].run, m.op)
  BY <1>0 DEF Fields, EnsureOf
<1>2. m.op < y
  BY <1>1 DEF Orderly, ReleaseLast, Watched, StatusLast
<1>3. m.fence < journal.fence
  BY <1>2 DEF Firm, Behinds, Behind, Once
<1>4. j.there = journal.there /\ j.fence = journal.fence
  BY ReadKeeps DEF Begins
<1>5. journal.there => m.fence >= journal.fence
  BY <1>4 DEF Begins
<1>6. ~journal.there => journal.fence = 0
  BY <1>0 DEF Told, JournalLast
<1> QED
  BY <1>0, <1>3, <1>5, <1>6 DEF Fields

\* A dead release stays dead whatever is begun: it is not begun itself, no ensure before
\* it is, and an observation begun before it is of nobody.
LEMMA DeadBegins ==
  ASSUME IInv, Orderly, Lent, Watched, Firm, NEW m \in inbox, NEW j \in JournalSet, NEW rs \in RecordSets,
         NEW run \in Run \cup {NoRun}, Begins(m, j, rs, run), NEW o \in Ops, op[o].kind = "release", Dead(o)
  PROVE  Dead(o)'
<1>0. Told /\ Fields /\ Queued /\ rs \in [Ops -> RecordSet]
  BY FieldTypes DEF IInv, Told, RecordSets
<1>1. m.op \in Ops /\ OnItsWay(m) /\ Exists(m.op) /\ op[m.op].kind \in Kinds /\ Exists(o) /\ Exists(m.op)
  BY <1>0, TouchedExists DEF Fields, Told, Exists
<1>2. /\ j.there = journal.there /\ j.fence = journal.fence /\ j.last = journal.last /\ j.active = journal.active
      /\ \A x \in Ops : /\ rs[x].kind = rec[x].kind /\ rs[x].run = rec[x].run
                        /\ rs[x].status = "none" <=> rec[x].status = "none"
                        /\ rs[x].status = "completed" <=> rec[x].status = "completed"
  BY ReadKeeps DEF Begins
<1>3. /\ journal'.fence = m.fence /\ journal'.active = journal.active /\ busy'.run = run
      /\ op' = op /\ \A x \in Ops \ {m.op} : rec'[x] = rs[x]
  BY <1>0, <1>2 DEF Begins, Begun, BegunRec, Serve, JournalSet, apiVars
<1>4. journal.there => m.fence >= journal.fence /\ (m.fence = journal.fence => m.op = journal.last)
  BY <1>0, <1>2 DEF Begins, Told, JournalLast, Ops, NoOp
<1>5. ~journal.there => journal.fence = 0 /\ journal.last = NoOp /\ journal.active = NoRun
                        /\ \A x \in Ops : ~Begun_(x)
  BY <1>0 DEF Told, JournalLast
<1>6. m.fence >= journal.fence
  BY <1>0, <1>4, <1>5 DEF Fields
<1>7. journal.phase = "indeterminate" => j.phase = "indeterminate"
  BY DEF Begins, Read, JournalSet
<1>8. journal.there /\ op[m.op].kind \notin Looks => j.phase # "indeterminate" /\ journal.phase # "indeterminate"
  BY <1>2, <1>7 DEF Begins, Looks
<1>9. m.op # o
  <2> SUFFICES ASSUME m.op = o PROVE FALSE
    OBVIOUS
  <2>1. journal.there /\ run = journal.active /\ run # NoRun
    BY <1>2 DEF Begins, BegunFor
  <2>2. m.fence = op[o].fence
    BY <1>1 DEF OnItsWay
  <2>3. journal.phase # "indeterminate"
    BY <1>8, <2>1 DEF Looks
  <2>4. m.fence <= journal.fence
    BY <2>1, <2>2, <2>3 DEF Dead
  <2>5. m.op = journal.last
    BY <1>0, <1>4, <2>1, <2>4 DEF Fields
  <2> QED
    BY <1>0, <2>1, <2>5 DEF Told, JournalLast, Dead
<1>10. ~Begun_(o)'
  BY <1>2, <1>3, <1>9 DEF Dead, Begun_
<1>11. CASE op[o].fence <= m.fence
  BY <1>3, <1>10, <1>11 DEF Dead
<1>12. CASE ~(op[o].fence <= m.fence)
  <2> SUFFICES journal.active = NoRun /\ run = NoRun
    BY <1>3, <1>10 DEF Dead
  <2>1. m.fence < op[o].fence /\ journal.fence < op[o].fence /\ m.fence > 0
    BY <1>0, <1>1, <1>6, <1>12 DEF Fields, OnItsWay
  <2>2. journal.active = NoRun \/ journal.phase = "indeterminate"
    BY <1>0, <2>1 DEF Dead, Fields
  <2>3. op[m.op].kind # "wake" => m.op < o /\ m.fence = op[m.op].fence
    <3> SUFFICES ASSUME op[m.op].kind # "wake" PROVE m.op < o /\ m.fence = op[m.op].fence
      OBVIOUS
    <3>1. m.fence = op[m.op].fence
      BY <1>1 DEF OnItsWay
    <3>2. op[m.op].fence > 0 /\ op[m.op].fence <= op[o].fence
      BY <1>0, <2>1, <3>1 DEF Fields
    <3> QED
      BY <1>0, <1>1, <1>9, <3>1, <3>2, FenceOrder
  <2>4. CASE op[m.op].kind = "wake"
    <3>1. run = NoRun
      BY <1>0, <1>1, <2>4 DEF Begins, BegunFor, Queued, Row
    <3>2. journal.active = NoRun
      BY <1>5, <1>8, <2>2, <2>4 DEF Looks
    <3> QED
      BY <3>1, <3>2
  <2>5. CASE op[m.op].kind = "release"
    <3>1. journal.there /\ journal.active # NoRun
      BY <1>2, <2>5 DEF Begins, BegunFor
    <3> QED
      BY <1>8, <2>2, <2>5, <3>1 DEF Looks
  <2>6. CASE op[m.op].kind = "ensure"
    <3>1. op[m.op].run = lease /\ lease # NoRun
      BY <1>0, <1>1, <1>6, <2>6 DEF Lent, Coming, Queued, Row
    <3>2. op[o].run = lease
      BY <1>1, <2>3, <2>6, <3>1 DEF Orderly, Together
    <3> QED
      BY <2>6, <3>1, <3>2, NothingReleased
  <2>7. CASE op[m.op].kind \in Looks
    <3>1. run = RunToReconcile(j, rs)
      BY <2>7 DEF Begins, BegunFor, Looks
    <3>2. CASE journal.active = NoRun /\ run = NoRun
      BY <3>2
    <3>3. CASE ~(journal.active = NoRun /\ run = NoRun)
      <4>1. lease # NoRun /\ Started(lease)
        <5>1. CASE journal.active # NoRun
          BY <5>1 DEF Lent, HeldForLease, StartedRuns
        <5>2. CASE journal.active = NoRun
          <6>1. run # NoRun
            BY <3>3, <5>2
          <6>2. /\ j.last # NoOp /\ rs[j.last].status = "indeterminate"
                /\ rs[j.last].kind \in {"ensure", "reconcile"} /\ run = rs[j.last].run
            BY <1>2, <3>1, <5>2, <6>1 DEF RunToReconcile
          <6>3. journal.there /\ journal.last \in Ops
            BY <1>0, <1>2, <1>5, <6>2 DEF Fields
          <6>4. /\ rec[journal.last].status # "completed" /\ rec[journal.last].kind # "release"
                /\ rec[journal.last].run = run
            BY <1>2, <6>2, <6>3
          <6>5. run = lease
            BY <6>1, <6>3, <6>4 DEF Lent, LastIsOurs
          <6> QED
            BY <6>1, <6>3, <6>4, <6>5 DEF Lent, StartedRuns
        <5> QED BY <5>1, <5>2
      <4>2. PICK e \in Ops : EnsureOf(lease, e) /\ Begun_(e)
        BY <4>1 DEF Started
      <4>3. journal.there
        BY <1>5, <4>2
      <4>4. rec[e].fence = op[e].fence /\ rec[e].fence > 0 /\ rec[e].fence <= journal.fence
        BY <1>0, <4>2 DEF Told, Recorded, EnsureOf
      <4>5. op[e].fence <= op[m.op].fence /\ op[e].fence <= op[o].fence /\ op[e].fence > 0
        BY <1>0, <1>6, <2>1, <2>3, <2>7, <4>4 DEF Fields, Looks
      <4>6. e # m.op /\ e # o
        BY <2>7, <4>2 DEF EnsureOf, Looks
      <4>7. e < m.op /\ e < o
        <5>1. e = m.op \/ e < m.op
          BY <1>0, <1>1, <4>5, FenceOrder
        <5>2. e = o \/ e < o
          BY <1>0, <4>5, FenceOrder
        <5> QED
          BY <4>6, <5>1, <5>2
      <4>8. op[m.op].run = lease /\ op[o].run = lease
        BY <1>1, <4>1, <4>2, <4>7 DEF Orderly, Together, EnsureOf
      <4>9. m.op < o /\ op[m.op].kind \in Once
        BY <2>3, <2>7 DEF Looks, Once
      <4>10. m.fence < journal.fence \/ ~Started(lease)
        BY <4>8, <4>9 DEF Firm, Behinds, Behind
      <4> QED
        BY <1>0, <1>6, <4>1, <4>10 DEF Fields
    <3> QED BY <3>2, <3>3
  <2> QED
    BY <1>1, <2>4, <2>5, <2>6, <2>7 DEF Kinds, Looks
<1> QED BY <1>11, <1>12

\* Nor does it come back to life by anything else the controller does.
LEMMA DeadStays ==
  ASSUME IInv, Orderly, Lent, Watched, Firm, Moves, NEW o \in Ops, op[o].kind = "release", Dead(o)
  PROVE  Dead(o)'
<1>0. Told /\ Fields /\ Idle.run = NoRun
  BY FieldTypes DEF IInv, Told, Idle
<1>1. ASSUME NEW m \in inbox, NEW j \in JournalSet, NEW rs \in RecordSets, NEW a,
             Settles(m, a, j, rs) \/ Queues(m, j, rs)
      PROVE  Dead(o)'
  <2>1. Read(j, rs) /\ journal' = j /\ rec' = rs /\ op' = op /\ busy' = busy
    BY <1>1 DEF Settles, Queues, apiVars
  <2>2. j.fence = journal.fence /\ j.active = journal.active /\ (rs[o].status = "none" <=> rec[o].status = "none")
    BY <2>1, ReadKeeps
  <2>3. journal.phase = "indeterminate" => j.phase = "indeterminate"
    BY <2>1 DEF Read, JournalSet
  <2> QED
    BY <2>1, <2>2, <2>3 DEF Dead, Begun_
<1>2. ASSUME NEW a, NEW status, Ends(status, a)
      PROVE  Dead(o)'
  <2>1. busy # Idle /\ busy' = Idle /\ op' = op
    BY <1>2 DEF Ends, apiVars
  <2>2. busy.op \in Ops /\ Begun_(busy.op) /\ journal.fence = busy.fence
    BY <1>0, <2>1 DEF Told, Served, Fields, Begun_
  <2>3. o # busy.op
    BY <2>2 DEF Dead
  <2>4. rec'[o] = rec[o]
    BY <1>2, <2>3, Types DEF Ends, IInv, CtrlTypes
  <2>5. journal'.fence = journal.fence
    BY <1>2, <2>2 DEF Ends
  <2>6. journal.active = NoRun /\ busy.run = NoRun => journal'.active = NoRun
    BY <1>2 DEF Ends
  <2> QED
    BY <1>0, <2>1, <2>4, <2>5, <2>6 DEF Dead, Begun_
<1>3. CASE Crashes \/ Rests
  BY <1>0, <1>3 DEF Crashes, Rests, apiVars, Dead, Begun_
<1> QED
  BY <1>1, <1>2, <1>3, DeadBegins DEF Moves

\* The first request of a release is refused only when the release is dead.
LEMMA RefusedIsDead ==
  ASSUME IInv, Firm, NEW m \in inbox, NEW j \in JournalSet, NEW rs \in RecordSets, NEW a,
         Settles(m, a, j, rs), a.is = "rejected", op[m.op].kind = "release",
         NEW c \in callers, c.op = m.op, c.try = m.try, ~c.replay
  PROVE  Dead(m.op)'
<1>0. Told /\ Fields /\ Idle.run = NoRun /\ Idle.op = NoOp
  BY FieldTypes DEF IInv, Told, Idle
<1>1. /\ busy = Idle /\ busy' = busy /\ op' = op /\ Refuses(m, j)
      /\ Read(j, rs) /\ journal' = j /\ rec' = rs
  BY DEF Settles, apiVars
<1>2. PICK o \in Ops : o = m.op
  BY <1>0 DEF Fields
<1>3. /\ j.fence = journal.fence /\ j.active = journal.active
      /\ rs[o].status = "none" <=> rec[o].status = "none"
  BY <1>1, ReadKeeps
<1>4. m.fence = op[o].fence /\ m.try = 1
  BY <1>0, <1>2 DEF Told, OnItsWay, Firm, Tried
<1>5. ~Begun_(o)
  <2> SUFFICES ASSUME Begun_(o) PROVE FALSE
    OBVIOUS
  <2>1. busy.op # o
    BY <1>0, <1>1 DEF Ops, NoOp
  <2>2. rec[o].status = "completed"
    BY <1>2, <1>4, <2>1 DEF Firm, Resent
  <2>3. rec[o].fence = m.fence /\ rec[o].kind = "release"
    BY <1>0, <1>2, <1>4 DEF Told, Recorded, RecKind
  <2>4. SameEnvelope(m) /\ rec[o].run # NoRun
    BY <1>2, <2>2, <2>3 DEF SameEnvelope, Firm, ReleaseRun
  <2>5. journal.there
    BY <1>0 DEF Told, JournalLast
  <2> QED
    BY <1>1, <1>2, <2>4, <2>5 DEF Refuses
<1>6. ~Begun_(o)'
  BY <1>1, <1>3, <1>5 DEF Begun_
<1>7. CASE ~journal.there \/ journal.active = NoRun
  <2>1. journal.active = NoRun
    BY <1>0, <1>7 DEF Told, JournalLast
  <2> QED
    BY <1>0, <1>1, <1>2, <1>3, <1>6, <2>1 DEF Dead
<1>8. CASE ~Allowed(j, m, FALSE)
  <2>1. m.fence <= j.fence \/ j.phase = "indeterminate"
    <3>1. m.fence \in Nat /\ j.fence \in Nat
      BY <1>0 DEF Fields, JournalSet
    <3> QED
      BY <1>8, <3>1 DEF Allowed
  <2> QED
    BY <1>1, <1>2, <1>4, <1>6, <2>1 DEF Dead
<1> QED
  BY <1>1, <1>7, <1>8 DEF Refuses

\* An answer changes nothing but what a caller is told.
LEMMA ReplyTells ==
  ASSUME callers \subseteq CallerSet, NEW m, NEW a, Reply(m, a), NEW d \in callers'
  PROVE  \E c \in callers : /\ d.op = c.op /\ d.try = c.try /\ d.replay = c.replay
                            /\ d = c \/ (c.op = m.op /\ c.try = m.try /\ d.ans = a)
BY DEF Reply, CallerSet

\* A move of the controller, after which every caller knows what it knew or a new answer.
LEMMA FirmTold ==
  ASSUME IInv, Orderly, Lent, Watched, Firm, Moves, TypeOK', op' = op,
         \A x \in Ops : Begun_(x) => Begun_(x)',
         \A y \in Ops : op[y].kind \in {"release", "status"} /\ Started(op[y].run)' => Started(op[y].run),
         \A m \in inbox' : \E n \in inbox : m.op = n.op /\ m.fence = n.fence /\ m.try = n.try,
         journal'.fence >= journal.fence, journal'.fence \in Nat,
         \A d \in callers' : \E c \in callers :
           /\ d.op = c.op /\ d.try = c.try /\ d.replay = c.replay
           /\ \/ d = c
              \/ /\ d.ans.is = "ok" /\ op[d.op].kind \in Looks =>
                      Begun_(d.op) \/ (d.ans.state # "ready" /\ \A x \in Ops : ~Begun_(x))
                 /\ d.ans.is = "rejected" /\ op[d.op].kind = "release" /\ ~d.replay => Dead(d.op)',
         Resent', ReleaseRun'
  PROVE  Firm'
<1>0. Told /\ Fields /\ Fields'
  BY FieldTypes DEF IInv, Told
<1>1. Behinds'
  <2> SUFFICES ASSUME NEW y \in Ops, op[y].kind \in {"release", "status"},
                      NEW m \in inbox', m.op < y, op[m.op].run = op[y].run,
                      op[m.op].kind \in (IF op[y].kind = "release" THEN Once ELSE {"ensure", "reconcile"}),
                      NEW r, r = op[y].run
               PROVE  m.fence < journal'.fence \/ (op[m.op].kind # "ensure" /\ ~Started(r)')
    BY DEF Behinds, Behind, Started, EnsureOf, Begun_
  <2>1. PICK n \in inbox : m.op = n.op /\ m.fence = n.fence
    OBVIOUS
  <2>2. n.fence < journal.fence \/ (op[n.op].kind # "ensure" /\ ~Started(op[y].run))
    BY <2>1 DEF Firm, Behinds, Behind
  <2>3. ~Started(op[y].run) => ~Started(r)'
    BY DEF Started, EnsureOf, Begun_
  <2> QED
    BY <1>0, <2>1, <2>2, <2>3 DEF Fields
<1>2. \A x \in Ops : op[x].kind \in Looks /\ Answered(x)' /\ ~Begun_(x)' =>
        Answered(x) \/ \A e \in Ops : ~Begun_(e)
  BY DEF Answered
<1>3. Unseen'
  <2> SUFFICES ASSUME NEW x \in Ops, op[x].kind = "status", Answered(x)', ~Begun_(x)', NEW r, r = op[x].run, Started(r)'
               PROVE  FALSE
    BY DEF Unseen, Started, EnsureOf, Begun_
  <2>1. Started(op[x].run)
    BY DEF Started, EnsureOf, Begun_
  <2>2. Answered(x)
    BY <1>2, <2>1 DEF Started, Looks
  <2> QED
    BY <2>1, <2>2 DEF Firm, Unseen
<1>4. ReadyIsSeen'
  <2>1. ASSUME NEW d \in callers', op[d.op].kind \in Looks, d.ans.is = "ok", d.ans.state = "ready"
        PROVE  Begun_(d.op)'
    <3>1. PICK x \in Ops : x = d.op
      BY <1>0 DEF Fields
    <3>2. Begun_(x)
      BY <2>1, <3>1 DEF Firm, ReadyIsSeen
    <3>3. Begun_(x)'
      BY <3>2
    <3> QED
      BY <3>1, <3>3 DEF Begun_
  <2> QED
    BY <2>1 DEF Firm, ReadyIsSeen
<1>5. Tried'
  BY DEF Firm, Tried
<1>6. DeadRows'
  BY DeadStays DEF Firm, DeadRows
<1>7. DeadCalls'
  <2> SUFFICES ASSUME NEW d \in callers', op[d.op].kind = "release", ~d.replay, d.ans.is = "rejected"
               PROVE  Dead(d.op)'
    BY DEF DeadCalls
  <2>1. PICK c \in callers : /\ d.op = c.op /\ d.replay = c.replay
                             /\ d = c \/ Dead(d.op)'
    OBVIOUS
  <2>2. CASE d = c
    <3>1. PICK x \in Ops : x = c.op
      BY <1>0 DEF Fields
    <3>2. Dead(x)
      BY <2>2, <3>1 DEF Firm, DeadCalls
    <3>3. Dead(x)'
      BY <2>2, <3>1, <3>2, DeadStays
    <3> QED
      BY <2>2, <3>1, <3>3 DEF Dead, Begun_
  <2> QED BY <2>1, <2>2
<1> QED
  BY <1>1, <1>3, <1>4, <1>5, <1>6, <1>7 DEF Firm

\* Every move of the controller keeps it.
LEMMA FirmByMoves ==
  ASSUME IInv, Orderly, Lent, Watched, Firm, Moves, TypeOK'
  PROVE  Firm'
<1>0. /\ Told /\ Fields /\ Fields' /\ op' = op /\ Idle.op = NoOp
      /\ callers \subseteq CallerSet /\ rec \in [Ops -> RecordSet]
  BY FieldTypes, Types, MovesKeepApi DEF IInv, Told, apiVars, WireTypes, CtrlTypes, Idle
<1>1. ASSUME \A x \in Ops : rec'[x].status # "none" <=> rec[x].status # "none"
      PROVE  /\ \A x \in Ops : Begun_(x) => Begun_(x)'
             /\ \A y \in Ops : op[y].kind \in {"release", "status"} /\ Started(op[y].run)' => Started(op[y].run)
  BY <1>0, <1>1 DEF Started, EnsureOf, Begun_
<1>2. ASSUME NEW m \in inbox, NEW j \in JournalSet, NEW rs \in RecordSets, NEW a \in Answers, Settles(m, a, j, rs)
      PROVE  Firm'
  <2>1. Read(j, rs) /\ journal' = j /\ rec' = rs /\ busy' = busy /\ inbox' = inbox \ {m} /\ Reply(m, a)
    BY <1>2 DEF Settles
  <2>2. /\ j.fence = journal.fence
        /\ \A x \in Ops : /\ rs[x].kind = rec[x].kind /\ rs[x].run = rec[x].run
                          /\ rs[x].status = "none" <=> rec[x].status = "none"
                          /\ rs[x].status = "completed" <=> rec[x].status = "completed"
    BY <2>1, ReadKeeps
  <2>3. /\ \A x \in Ops : Begun_(x) => Begun_(x)'
        /\ \A y \in Ops : op[y].kind \in {"release", "status"} /\ Started(op[y].run)' => Started(op[y].run)
    BY <1>1, <2>1, <2>2
  <2>4. Resent' /\ ReleaseRun'
    BY <1>0, <2>1, <2>2 DEF Firm, Resent, ReleaseRun, Begun_
  <2>5. ASSUME NEW d \in callers'
        PROVE  \E c \in callers :
           /\ d.op = c.op /\ d.try = c.try /\ d.replay = c.replay
           /\ \/ d = c
              \/ /\ d.ans.is = "ok" /\ op[d.op].kind \in Looks =>
                      Begun_(d.op) \/ (d.ans.state # "ready" /\ \A x \in Ops : ~Begun_(x))
                 /\ d.ans.is = "rejected" /\ op[d.op].kind = "release" /\ ~d.replay => Dead(d.op)'
    <3>1. PICK c \in callers : /\ d.op = c.op /\ d.try = c.try /\ d.replay = c.replay
                               /\ d = c \/ (c.op = m.op /\ c.try = m.try /\ d.ans = a)
      BY <1>0, <2>1, ReplyTells
    <3>2. a.is = "ok" /\ op[m.op].kind \in Looks => a.state # "ready" /\ \A x \in Ops : ~Begun_(x)
      BY <1>0, <1>2 DEF Settles, Looks, Told, JournalLast
    <3>3. c.op = m.op /\ c.try = m.try /\ a.is = "rejected" /\ op[m.op].kind = "release" /\ ~c.replay => Dead(m.op)'
      BY <1>2, RefusedIsDead
    <3>4. c.op = m.op /\ Dead(m.op)' => Dead(d.op)'
      BY <3>1 DEF Dead, Begun_
    <3> QED
      BY <3>1, <3>2, <3>3, <3>4
  <2> QED
    BY <1>0, <2>1, <2>2, <2>3, <2>4, <2>5, FirmTold DEF Fields
<1>3. ASSUME NEW m \in inbox, NEW j \in JournalSet, NEW rs \in RecordSets, Queues(m, j, rs)
      PROVE  Firm'
  <2>1. /\ Read(j, rs) /\ journal' = j /\ rec' = rs /\ busy' = busy /\ callers' = callers
        /\ inbox' = (inbox \ {m}) \cup {[m EXCEPT !.ready = TRUE]}
    BY <1>3 DEF Queues
  <2>2. /\ j.fence = journal.fence
        /\ \A x \in Ops : /\ rs[x].kind = rec[x].kind /\ rs[x].run = rec[x].run
                          /\ rs[x].status = "none" <=> rec[x].status = "none"
                          /\ rs[x].status = "completed" <=> rec[x].status = "completed"
    BY <2>1, ReadKeeps
  <2>3. /\ \A x \in Ops : Begun_(x) => Begun_(x)'
        /\ \A y \in Ops : op[y].kind \in {"release", "status"} /\ Started(op[y].run)' => Started(op[y].run)
    BY <1>1, <2>1, <2>2
  <2>4. \A n \in inbox' : \E k \in inbox : n.op = k.op /\ n.fence = k.fence /\ n.try = k.try
    <3>1. m \in Requests
      BY Types DEF IInv, WireTypes
    <3> QED
      BY <2>1, <3>1 DEF Requests
  <2>5. Resent' /\ ReleaseRun'
    BY <1>0, <2>1, <2>2, <2>4 DEF Firm, Resent, ReleaseRun, Begun_
  <2>6. journal'.fence >= journal.fence /\ journal'.fence \in Nat
    BY <1>0, <2>1, <2>2 DEF Fields
  <2> QED
    BY <1>0, <2>1, <2>3, <2>4, <2>5, <2>6, FirmTold
<1>4. ASSUME NEW m \in inbox, NEW j \in JournalSet, NEW rs \in RecordSets, NEW run \in Run \cup {NoRun},
             Begins(m, j, rs, run)
      PROVE  Firm'
  <2>1. /\ Read(j, rs) /\ busy = Idle /\ callers' = callers /\ inbox' = inbox \ {m}
        /\ journal'.fence = m.fence /\ busy'.op = m.op
        /\ rec' = [rs EXCEPT ![m.op] = [kind |-> RecKind(op[m.op].kind), fence |-> m.fence, run |-> run,
                                        status |-> "running"]]
    BY <1>4 DEF Begins, Begun, BegunRec, Serve, JournalSet
  <2>2. /\ j.there = journal.there /\ j.fence = journal.fence
        /\ \A x \in Ops : /\ rs[x].kind = rec[x].kind /\ rs[x].run = rec[x].run
                          /\ rs[x].status = "none" <=> rec[x].status = "none"
                          /\ rs[x].status = "completed" <=> rec[x].status = "completed"
    BY <2>1, ReadKeeps
  <2>3. /\ m.op \in Ops /\ \A x \in Ops \ {m.op} : rec'[x] = rs[x]
        /\ rec'[m.op].status = "running" /\ rec'[m.op].kind = RecKind(op[m.op].kind) /\ rec'[m.op].run = run
    BY <1>0, <2>1 DEF Fields, RecordSets
  <2>4. \A x \in Ops : Begun_(x) => Begun_(x)'
    BY <2>2, <2>3 DEF Begun_
  <2>5. ASSUME NEW y \in Ops, op[y].kind \in {"release", "status"}, Started(op[y].run)'
        PROVE  Started(op[y].run)
    <3>1. PICK e \in Ops : EnsureOf(op[y].run, e) /\ rec'[e].status # "none"
      BY <1>0, <2>5 DEF Started, EnsureOf, Begun_
    <3>2. e # m.op
      BY <1>4, <2>5, <3>1, NothingReleased DEF EnsureOf
    <3> QED
      BY <2>2, <2>3, <3>1, <3>2 DEF Started, Begun_
  <2>6. Resent'
    BY <1>0, <2>1, <2>2, <2>3 DEF Firm, Resent, Begun_, NoOp, Ops
  <2>7. ReleaseRun'
    <3> SUFFICES ASSUME NEW o \in Ops, rec'[o].kind = "release" PROVE rec'[o].run # NoRun
      BY DEF ReleaseRun
    <3>1. CASE o = m.op
      <4>1. op[m.op].kind = "release"
        BY <2>3, <3>1 DEF RecKind
      <4> QED
        BY <1>4, <2>3, <3>1, <4>1 DEF Begins, BegunFor
    <3>2. CASE o # m.op
      BY <2>2, <2>3, <3>2 DEF Firm, ReleaseRun
    <3> QED BY <3>1, <3>2
  <2>8. journal'.fence >= journal.fence /\ journal'.fence \in Nat
    <3>1. journal.there => m.fence >= journal.fence
      BY <1>4, <2>2 DEF Begins
    <3>2. ~journal.there => journal.fence = 0
      BY <1>0 DEF Told, JournalLast
    <3> QED
      BY <1>0, <2>1, <3>1, <3>2 DEF Fields
  <2>9. /\ \A n \in inbox' : \E k \in inbox : n.op = k.op /\ n.fence = k.fence /\ n.try = k.try
        /\ \A d \in callers' : d \in callers
    BY <2>1
  <2> QED
    BY <1>0, <2>4, <2>5, <2>6, <2>7, <2>8, <2>9, FirmTold
<1>5. ASSUME NEW a \in Answers, NEW status, Ends(status, a)
      PROVE  Firm'
  <2>1. /\ busy # Idle /\ inbox' = inbox /\ Reply(busy, a) /\ busy' = Idle
        /\ a.is \in {"ok", "error"} \/ (a.is = "rejected" /\ rec[busy.op].kind # "release")
        /\ rec' = [rec EXCEPT ![busy.op].status = status]
    BY <1>5 DEF Ends
  <2>2. busy.op \in Ops /\ Begun_(busy.op) /\ journal.fence = busy.fence
    BY <1>0, <2>1 DEF Told, Served, Fields, Begun_
  <2>3. /\ \A x \in Ops \ {busy.op} : rec'[x] = rec[x]
        /\ rec'[busy.op].kind = rec[busy.op].kind /\ rec'[busy.op].run = rec[busy.op].run
        /\ rec'[busy.op].status = status /\ status # "none"
    BY <1>0, <1>5, <2>1, <2>2 DEF Ends, RecordSet, Begun_
  <2>4. /\ \A x \in Ops : Begun_(x) => Begun_(x)'
        /\ \A y \in Ops : op[y].kind \in {"release", "status"} /\ Started(op[y].run)' => Started(op[y].run)
    <3>1. \A x \in Ops : rec'[x].status # "none" <=> rec[x].status # "none"
      BY <2>2, <2>3 DEF Begun_
    <3> QED
      BY <1>1, <3>1
  <2>5. Resent'
    <3> SUFFICES ASSUME NEW o \in Ops, op[o].kind = "release", rec'[o].status # "none", rec'[o].status # "completed",
                        NEW m \in inbox, m.op = o
                 PROVE  m.try > 1
      BY <1>0, <2>1 DEF Resent, Begun_
    <3>1. CASE o = busy.op
      <4>1. rec[o].kind = "release"
        BY <1>0, <2>2, <3>1 DEF Told, Recorded, RecKind
      <4>2. status = "completed"
        BY <1>5, <3>1, <4>1 DEF Ends
      <4> QED
        BY <2>3, <3>1, <4>2
    <3>2. CASE o # busy.op
      BY <2>3, <3>2 DEF Firm, Resent, Begun_
    <3> QED BY <3>1, <3>2
  <2>6. ReleaseRun'
    BY <2>3 DEF Firm, ReleaseRun
  <2>7. journal'.fence = journal.fence
    BY <1>5, <2>2 DEF Ends
  <2>8. ASSUME NEW d \in callers'
        PROVE  \E c \in callers :
           /\ d.op = c.op /\ d.try = c.try /\ d.replay = c.replay
           /\ \/ d = c
              \/ /\ d.ans.is = "ok" /\ op[d.op].kind \in Looks =>
                      Begun_(d.op) \/ (d.ans.state # "ready" /\ \A x \in Ops : ~Begun_(x))
                 /\ d.ans.is = "rejected" /\ op[d.op].kind = "release" /\ ~d.replay => Dead(d.op)'
    <3>1. PICK c \in callers : /\ d.op = c.op /\ d.try = c.try /\ d.replay = c.replay
                               /\ d = c \/ (c.op = busy.op /\ c.try = busy.try /\ d.ans = a)
      BY <1>0, <2>1, ReplyTells
    <3>2. op[busy.op].kind = "release" => a.is # "rejected"
      BY <1>0, <2>1, <2>2 DEF Told, Recorded, RecKind
    <3> QED
      BY <2>1, <2>2, <3>1, <3>2
  <2>9. journal'.fence >= journal.fence /\ journal'.fence \in Nat
    BY <1>0, <2>7 DEF Fields
  <2> QED
    BY <1>0, <2>1, <2>4, <2>5, <2>6, <2>8, <2>9, FirmTold
<1>6. CASE Crashes \/ Rests
  <2>1. /\ UNCHANGED <<callers, journal, rec>> /\ inbox' \subseteq inbox
        /\ inbox' = {} \/ busy' = busy
    BY <1>6 DEF Crashes, Rests
  <2>2. Resent' /\ ReleaseRun'
    BY <1>0, <2>1 DEF Firm, Resent, ReleaseRun, Begun_
  <2>3. /\ \A x \in Ops : Begun_(x) => Begun_(x)'
        /\ \A y \in Ops : op[y].kind \in {"release", "status"} /\ Started(op[y].run)' => Started(op[y].run)
    BY <1>1, <2>1
  <2>4. journal'.fence >= journal.fence /\ journal'.fence \in Nat
    BY <1>0, <2>1 DEF Fields
  <2>5. /\ \A n \in inbox' : \E k \in inbox : n.op = k.op /\ n.fence = k.fence /\ n.try = k.try
        /\ \A d \in callers' : d \in callers
    BY <2>1
  <2> QED
    BY <1>0, <2>2, <2>3, <2>4, <2>5, FirmTold
<1> QED
  BY <1>2, <1>3, <1>4, <1>5, <1>6 DEF Moves

-----------------------------------------------------------------------------
\* The invariant with what a failed operation has done is inductive.

\* It holds initially: nothing was ever sent.
LEMMA InitFInv == Init => FInv
<1> SUFFICES ASSUME Init PROVE FInv
  OBVIOUS
<1>1. /\ \A o \in Ops : /\ op[o].kind = "none" /\ op[o].run = NoRun /\ op[o].status = "none"
                        /\ rec[o].status = "none" /\ rec[o].kind = "none"
      /\ callers = {} /\ inbox = {}
  BY DEF Init, NoRow, NoRecord
<1>2. Watched
  BY <1>1 DEF Watched, FirstIsEnsure, StatusLast
<1>3. Firm
  BY <1>1 DEF Firm, Behinds, Unseen, ReadyIsSeen, Looks, Tried, Resent, ReleaseRun, DeadRows, DeadCalls
<1> QED
  BY <1>2, <1>3, InitLInv DEF FInv

\* Every step keeps it.
LEMMA NextFInv == FInv /\ FailedEnsureHadNoEffect /\ [Next]_vars => FInv'
<1> SUFFICES ASSUME FInv, FailedEnsureHadNoEffect, [Next]_vars PROVE FInv'
  OBVIOUS
<1>0. /\ IInv /\ Orderly /\ Lent /\ Watched /\ Firm /\ LInv' /\ IInv' /\ TypeOK /\ TypeOK'
      /\ Queued /\ Fields /\ Fields'
  BY NextLInv, FieldTypes DEF FInv, LInv, IInv
<1>1. ASSUME NEW r \in Run, StartRun(r) \/ EndRun(r)
      PROVE  Watched' /\ Firm'
  <2>1. UNCHANGED <<op, wsFence, callers, inbox, journal, rec, busy>>
    BY <1>1 DEF StartRun, EndRun, ctrlVars
  <2>2. RunsGoOn /\ RowsKept
    BY <1>0, <1>1, <2>1, Types DEF StartRun, EndRun, RunsGoOn, RowsKept, ApiTypes
  <2>3. Watched'
    BY <1>0, <2>2, WatchKept
  <2>4. Firm'
    BY <1>0, <2>1, FirmStored DEF Leases
  <2> QED
    BY <2>3, <2>4
<1>2. ASSUME \/ \E r \in Run : ReserveAdmission(r) \/ Recovery(r)
             \/ ReserveWake
      PROVE  Watched' /\ Firm'
  BY <1>0, <1>2, WatchReserved, FirmReserved
<1>3. ASSUME \/ \E o \in Ops : Claim(o) \/ Replay(o) \/ Interrupt(o) \/ CancelWaiting(o)
             \/ \E c \in callers : Caller(c)
      PROVE  Watched' /\ Firm'
  <2>1. RowsKept /\ RunsGoOn
    BY <1>0, <1>3, RowWrites DEF RunsGoOn
  <2>2. Watched'
    BY <1>0, <2>1, WatchKept
  <2>3. CASE \E o \in Ops : Claim(o) \/ Replay(o)
    BY <1>0, <2>2, <2>3, FirmSent
  <2>4. CASE \E o \in Ops : Interrupt(o) \/ CancelWaiting(o)
    <3>1. PICK o \in Ops : Turns(o, "indeterminate") \/ Turns(o, "cancelled")
      BY <2>4 DEF Interrupt, CancelWaiting, Turns, Waits, ctrlVars
    <3>2. \E status \in Statuses : Turns(o, status)
      BY <3>1 DEF Statuses
    <3> QED
      BY <1>0, <2>2, <3>2, FirmStored
  <2>5. CASE \E c \in callers : Caller(c)
    <3>1. \E c \in callers : Returns(c)
      BY <2>5 DEF Caller, Persist, LoseAnswer, ConnectionLost, GiveUp, Returns, ctrlVars
    <3> QED
      BY <1>0, <2>2, <3>1, FirmStored
  <2> QED
    BY <1>3, <2>3, <2>4, <2>5
<1>4. ASSUME NEW o \in Ops, ConfirmRelease(o) \/ ClearObserved(o)
      PROVE  Watched' /\ Firm'
  <2>1. UNCHANGED <<op, wsFence, runState, callers, inbox, journal, rec, busy>>
    BY <1>4 DEF ConfirmRelease, ClearObserved, ctrlVars
  <2>2. RunsGoOn /\ RowsKept
    BY <2>1 DEF RunsGoOn, RowsKept
  <2> QED
    BY <1>0, <2>1, <2>2, WatchKept, FirmStored DEF Leases
<1>5. ASSUME Moves
      PROVE  Watched' /\ Firm'
  <2>1. UNCHANGED <<op, runState>>
    BY <1>5, MovesKeepApi DEF apiVars
  <2>2. RunsGoOn /\ RowsKept
    BY <2>1 DEF RunsGoOn, RowsKept
  <2> QED
    BY <1>0, <1>5, <2>2, WatchKept, FirmByMoves
<1>6. ASSUME (\E m \in inbox : Serving(m)) \/ Finish \/ Host
      PROVE  Moves
  BY <1>0, <1>6, ControllerMoves
<1>7. UNCHANGED vars => Moves
  BY DEF vars, apiVars, ctrlVars, Rests, Moves
<1> QED
  BY <1>0, <1>1, <1>2, <1>3, <1>4, <1>5, <1>6, <1>7 DEF Next, Queue, FInv

\* A release that ended failed was not begun and never will be, though it be sent again
\* and answered late (project_cell_lifecycle.py:148 and :259), as long as every failed
\* ensure was a refused one.
THEOREM FailedReleaseIsDead == Spec => [](FailedEnsureHadNoEffect => FailedReleaseHadNoEffect)
<1>1. FirmUnlessFailed => (FailedEnsureHadNoEffect => FailedReleaseHadNoEffect)
  BY DEF FirmUnlessFailed, FInv, Firm, DeadRows, Dead, Begun_, FailedReleaseHadNoEffect
<1>2. Init => FirmUnlessFailed
  BY InitFInv DEF FirmUnlessFailed, FInv, LInv
<1>3. FirmUnlessFailed /\ [Next]_vars => FirmUnlessFailed'
  BY NextIInv, NextFInv, FailedStays DEF FirmUnlessFailed
<1> QED
  BY <1>1, <1>2, <1>3, PTL DEF Spec

=============================================================================
