---------------------------- MODULE ProjectTurns ----------------------------
(***************************************************************************)
(* What the run lifecycle promises a project's owner, without executors,    *)
(* leases or messages: one turn at a time, a Stop that is never undone, and *)
(* an outcome that is decided once.  GenerationRuns implements it.          *)
(***************************************************************************)
CONSTANT Turn

VARIABLE phase

Outcomes == {"completed", "failed", "cancelled"}
Open     == {"active", "stopping"}

TypeOK == phase \in [Turn -> {"absent"} \cup Open \cup Outcomes]

Init == phase = [t \in Turn |-> "absent"]

Enter(t, p) == phase' = [phase EXCEPT ![t] = p]

\* A turn is accepted when no other is open, or in place of the one it closes.
Accept(t) ==
  /\ phase[t] = "absent"
  /\ \/ (\A u \in Turn : phase[u] \notin Open) /\ Enter(t, "active")
     \/ \E u \in Turn, o \in {"completed", "failed"} :
          /\ phase[u] = "active" /\ \A v \in Turn \ {u} : phase[v] \notin Open
          /\ phase' = [phase EXCEPT ![u] = o, ![t] = "active"]

RequestStop(t) == phase[t] = "active" /\ Enter(t, "stopping")

\* A stopped turn may still fail, but it never completes.
Conclude(t) ==
  \/ phase[t] = "active" /\ \E o \in Outcomes : Enter(t, o)
  \/ phase[t] = "stopping" /\ \E o \in {"failed", "cancelled"} : Enter(t, o)

\* A restart of the API fails a set of open turns at once.
Interrupt ==
  \E S \in SUBSET Turn :
    /\ \A t \in S : phase[t] \in Open
    /\ phase' = [t \in Turn |-> IF t \in S THEN "failed" ELSE phase[t]]

Next == Interrupt \/ \E t \in Turn : Accept(t) \/ RequestStop(t) \/ Conclude(t)

Spec == Init /\ [][Next]_phase
=============================================================================
