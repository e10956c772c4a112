------------------------ MODULE ProviderAttemptsProofs ------------------------
(***************************************************************************)
(* A request pays the provider once, and an answer is served only when it  *)
(* is whole and accounted for: proved for any number of attempts, wires,   *)
(* faults and cleanup loops, and for any room.                             *)
(*                                                                         *)
(* IInv carries the first theorem, JInv, which contains it, the second,    *)
(* and KInv, which contains both, those about the room of the bucket.      *)
(* Each has one lemma per action, and a few about what a wire's step keeps.*)
(***************************************************************************)
EXTENDS ProviderAttempts, FiniteSums

Phases   == {"none", "reserved", "dispatching", "closed", "indeterminate"}
Dispatched == {"dispatching", "closed", "indeterminate"}
Attempt  == [phase : Phases, reason : Refusals \cup {"none", "completed"}, token : Wires \cup {NoWire}]

\* The types of the variables the argument is about.
Typing ==
  /\ attempt \in [Attempts -> Attempt]
  /\ wire \in [Wires -> Wire]
  /\ \A w \in Wires : wire[w].at \notin {"none", "done"} => wire[w].of \in Attempts
  /\ posts \in [Attempts -> Nat]
  /\ paid \subseteq Attempts

\* Only the wire that spent the attempt's token posts, receives and closes.
Sending == {"post", "finish", "close"}
Granted ==
  \A w \in Wires : wire[w].at \in Sending =>
    attempt[wire[w].of].phase = "dispatching" /\ attempt[wire[w].of].token = w

\* Before it posts, nothing has been posted under its attempt.
Unspent == \A w \in Wires : wire[w].at = "post" => posts[wire[w].of] = 0 /\ wire[w].of \notin paid
Posted ==
  \A a \in Attempts : posts[a] <= 1 /\ (posts[a] # 0 \/ a \in paid => attempt[a].phase \in Dispatched)

\* What may have cost money is not taken for a refusal.
ReadRight ==
  \A w \in Wires : wire[w].at \in {"finish", "close"} /\ wire[w].of \in paid => wire[w].outcome \notin Refusals
RefusalIsFree == \A a \in Attempts : Closed(a, Refusals) => a \notin paid

\* An attempt exists only after the refusals of all its ancestors.
Chained == \A a, b \in Attempts : a < b /\ attempt[b].phase # "none" => Closed(a, Refusals)

IInv == Typing /\ Granted /\ Unspent /\ Posted /\ ReadRight /\ RefusalIsFree /\ Chained

\* A step that neither changes an attempt nor posts, and lets a task go on to
\* nothing but the closing of its attempt.
Quiet ==
  /\ UNCHANGED <<attempt, posts, paid>>
  /\ \A w \in Wires : \/ wire'[w].at \notin Sending
                      \/ wire'[w] = wire[w]
                      \/ wire[w].at = "finish" /\ wire'[w] = [wire[w] EXCEPT !.at = "close"]

-----------------------------------------------------------------------------
\* One wire changes.
LEMMA WireType ==
  ASSUME Typing, NEW w \in Wires, NEW new \in Wire,
         new.at \notin {"none", "done"} => new.of \in Attempts,
         wire' = [wire EXCEPT ![w] = new]
  PROVE  /\ wire' \in [Wires -> Wire]
         /\ wire'[w] = new
         /\ \A v \in Wires \ {w} : wire'[v] = wire[v]
         /\ \A v \in Wires : wire'[v].at \notin {"none", "done"} => wire'[v].of \in Attempts
BY DEF Typing

\* It goes to another step of the same attempt, or is over, or has failed.
LEMMA GoType ==
  ASSUME Typing, NEW w \in Wires, NEW step \in Steps, wire[w].at \notin {"none", "done"}, wire' = Go(w, step)
  PROVE  /\ wire' \in [Wires -> Wire]
         /\ wire'[w] = [wire[w] EXCEPT !.at = step]
         /\ \A v \in Wires \ {w} : wire'[v] = wire[v]
         /\ \A v \in Wires : wire'[v].at \notin {"none", "done"} => wire'[v].of \in Attempts
<1> DEFINE new == [wire[w] EXCEPT !.at = step]
<1>1. new \in Wire /\ new.of \in Attempts
  BY DEF Typing, Wire
<1>2. wire' = [wire EXCEPT ![w] = new]
  BY DEF Go, Typing
<1> QED
  BY <1>1, <1>2, WireType

LEMMA FinishedType ==
  ASSUME Typing, NEW w \in Wires, wire' = Finished(w)
  PROVE  /\ wire' \in [Wires -> Wire]
         /\ wire'[w] = Over /\ Over.at = "done" /\ ~Over.ledger /\ ~Over.confirmed
         /\ \A v \in Wires \ {w} : wire'[v] = wire[v]
         /\ \A v \in Wires : wire'[v].at \notin {"none", "done"} => wire'[v].of \in Attempts
<1>1. Over \in Wire /\ Over.at = "done" /\ ~Over.ledger /\ ~Over.confirmed
  BY DEF Over, NewWire, Wire, Steps, Outcomes
<1>2. wire' = [wire EXCEPT ![w] = Over]
  BY DEF Finished
<1> QED
  BY <1>1, <1>2, WireType

LEMMA StoppedType ==
  ASSUME Typing, NEW w \in Wires, wire[w].at \notin {"none", "done"}, wire' = Stopped(w)
  PROVE  /\ wire' \in [Wires -> Wire]
         /\ \/ wire'[w] = Over /\ Over.at = "done" /\ ~Over.ledger /\ ~Over.confirmed
            \/ /\ wire[w].ledger
               /\ wire'[w].at = "store" /\ wire'[w].outcome = "unconfirmed" /\ wire'[w].of = wire[w].of
               /\ wire'[w].ledger = wire[w].ledger /\ wire'[w].confirmed = wire[w].confirmed
         /\ \A v \in Wires \ {w} : wire'[v] = wire[v]
         /\ \A v \in Wires : wire'[v].at \notin {"none", "done"} => wire'[v].of \in Attempts
<1>1. CASE wire[w].ledger
  <2> DEFINE new == [wire[w] EXCEPT !.outcome = "unconfirmed", !.at = "store"]
  <2>1. /\ new \in Wire /\ new.of \in Attempts
        /\ new.at = "store" /\ new.outcome = "unconfirmed" /\ new.of = wire[w].of
        /\ new.ledger = wire[w].ledger /\ new.confirmed = wire[w].confirmed
    BY DEF Typing, Wire, Steps, Outcomes
  <2>2. wire' = [wire EXCEPT ![w] = new]
    BY <1>1 DEF Stopped, Typing
  <2> HIDE DEF new
  <2> QED
    BY <1>1, <2>1, <2>2, WireType
<1>2. CASE ~wire[w].ledger
  BY <1>2, FinishedType DEF Stopped
<1> QED
  BY <1>1, <1>2

-----------------------------------------------------------------------------
\* A quiet step keeps what is known of the attempts.
LEMMA QuietStep ==
  ASSUME IInv, Quiet, Typing'
  PROVE  IInv'
<1> USE DEF IInv
<1>1. Granted'
  BY DEF Granted, Quiet, Sending, Typing, Wire
<1>2. Unspent'
  BY DEF Unspent, Quiet, Sending, Typing, Wire
<1>3. Posted' /\ RefusalIsFree' /\ Chained'
  BY DEF Posted, RefusalIsFree, Chained, Closed, Quiet
<1>4. ReadRight'
  BY DEF ReadRight, Quiet, Sending, Typing, Wire
<1> QED
  BY <1>1, <1>2, <1>3, <1>4

\* The API commits a new attempt, or takes the one it has committed.
LEMMA PrepareStep ==
  ASSUME IInv, NEW w \in Wires, NEW a \in Attempts, prepare_generation_attempt(w, a)
  PROVE  IInv'
<1> USE DEF IInv
<1>1. /\ wire' \in [Wires -> Wire]
      /\ \A v \in Wires : wire'[v].at \notin {"none", "done"} => wire'[v].of \in Attempts
      /\ \A v \in Wires : wire'[v].at \notin Sending \/ wire'[v] = wire[v]
  <2>1. CASE wire' = Finished(w)
    BY <2>1, FinishedType DEF Sending
  <2>2. CASE wire' = [wire EXCEPT ![w].of = a, ![w].at = IF retention THEN "admit" ELSE "reserve"]
    <3> DEFINE new == [wire[w] EXCEPT !.of = a, !.at = IF retention THEN "admit" ELSE "reserve"]
    <3>1. new \in Wire /\ new.of \in Attempts /\ new.at \notin Sending
      BY DEF Typing, Wire, Steps, Sending
    <3>2. wire' = [wire EXCEPT ![w] = new]
      BY <2>2 DEF Typing
    <3> QED
      BY <3>1, <3>2, WireType
  <2> QED
    BY <2>1, <2>2 DEF prepare_generation_attempt
<1>2. UNCHANGED <<posts, paid>>
  BY DEF prepare_generation_attempt
<1>3. CASE attempt' = attempt
  <2>1. Typing' /\ Quiet
    BY <1>1, <1>2, <1>3 DEF Typing, Quiet
  <2> QED
    BY <2>1, QuietStep
<1>4. CASE attempt[a].phase = "none" /\ attempt' = [attempt EXCEPT ![a].phase = "reserved"]
  <2>1. Typing'
    BY <1>1, <1>2, <1>4 DEF Typing, Attempt, Phases
  <2>2. /\ attempt'[a].phase = "reserved"
        /\ \A b \in Attempts \ {a} : attempt'[b] = attempt[b]
    BY <1>4 DEF Typing, Attempt
  <2>3. Granted'
    BY <1>1, <1>4, <2>2 DEF Granted, Typing, Sending
  <2>4. Unspent' /\ ReadRight'
    BY <1>1, <1>2 DEF Unspent, ReadRight, Sending
  <2>5. Posted'
    BY <1>2, <1>4, <2>2 DEF Posted, Dispatched
  <2>6. RefusalIsFree'
    BY <1>2, <2>2 DEF RefusalIsFree, Closed
  <2>7. Chained'
    <3> SUFFICES ASSUME NEW b \in Attempts, NEW c \in Attempts, b < c, attempt'[c].phase # "none"
                 PROVE  Closed(b, Refusals)'
      BY DEF Chained
    <3>1. CASE c = a
      <4>1. a > 1 /\ a - 1 \in Attempts /\ b <= a - 1
        BY <3>1, RequestBounds DEF Attempts
      <4>2. Closed(a - 1, Refusals)
        BY <4>1 DEF prepare_generation_attempt, require_closed_provider_parent
      <4>3. Closed(b, Refusals)
        BY <4>1, <4>2 DEF Chained, Closed, Attempts
      <4> QED
        BY <4>3, <3>1, <2>2 DEF Closed, Attempts
    <3>2. CASE c # a
      <4>1. Closed(b, Refusals)
        BY <3>2, <2>2 DEF Chained
      <4> QED
        BY <4>1, <1>4, <2>2 DEF Closed
    <3> QED
      BY <3>1, <3>2
  <2> QED
    BY <2>1, <2>3, <2>4, <2>5, <2>6, <2>7
<1> QED
  BY <1>3, <1>4 DEF prepare_generation_attempt

-----------------------------------------------------------------------------
\* The gateway: the token, the permission, the post, the closing.
LEMMA TokenStep ==
  ASSUME IInv, NEW w \in Wires, reserve_generation_attempt(w)
  PROVE  IInv'
<1> USE DEF IInv
<1> DEFINE a == wire[w].of
<1>0. a \in Attempts /\ wire[w].at = "reserve" /\ UNCHANGED <<posts, paid>>
  BY DEF reserve_generation_attempt, Typing
<1>1. /\ wire' \in [Wires -> Wire]
      /\ \A v \in Wires : wire'[v].at \notin {"none", "done"} => wire'[v].of \in Attempts
      /\ \A v \in Wires : wire'[v].at \notin Sending \/ wire'[v] = wire[v]
  <2>1. CASE wire' = Go(w, "mark")
    <3>1. "mark" \in Steps /\ wire[w].at \notin {"none", "done"} /\ "mark" \notin Sending
      BY <1>0 DEF Steps, Sending
    <3>2. /\ wire' \in [Wires -> Wire] /\ wire'[w] = [wire[w] EXCEPT !.at = "mark"]
          /\ \A v \in Wires \ {w} : wire'[v] = wire[v]
          /\ \A v \in Wires : wire'[v].at \notin {"none", "done"} => wire'[v].of \in Attempts
      BY <2>1, <3>1, GoType
    <3>3. wire'[w].at = "mark"
      BY <3>2 DEF Typing, Wire
    <3> QED
      BY <3>1, <3>2, <3>3
  <2>2. CASE wire' = Stopped(w)
    BY <1>0, <2>2, StoppedType DEF Sending
  <2> QED
    BY <2>1, <2>2 DEF reserve_generation_attempt
<1>2. CASE attempt' = attempt
  <2>1. Typing' /\ Quiet
    BY <1>0, <1>1, <1>2 DEF Typing, Quiet
  <2> QED
    BY <2>1, QuietStep
<1>3. CASE attempt[a].phase = "reserved" /\ attempt' = [attempt EXCEPT ![a].token = w]
  <2>1. Typing'
    BY <1>0, <1>1, <1>3 DEF Typing, Attempt
  <2>2. /\ \A b \in Attempts : attempt'[b].phase = attempt[b].phase /\ attempt'[b].reason = attempt[b].reason
        /\ \A b \in Attempts \ {a} : attempt'[b] = attempt[b]
    BY <1>0, <1>3 DEF Typing, Attempt
  <2>3. Granted'
    BY <1>0, <1>1, <1>3, <2>2 DEF Granted, Typing, Sending
  <2>4. Unspent' /\ ReadRight'
    BY <1>0, <1>1 DEF Unspent, ReadRight, Sending
  <2>5. Posted' /\ RefusalIsFree' /\ Chained'
    BY <1>0, <2>2 DEF Posted, RefusalIsFree, Chained, Closed
  <2> QED
    BY <2>1, <2>3, <2>4, <2>5
<1> QED
  BY <1>2, <1>3 DEF reserve_generation_attempt

\* The permission to post is the confirmed commit of the token's holder.
LEMMA MarkStep ==
  ASSUME IInv, NEW w \in Wires, mark_attempt_dispatching(w)
  PROVE  IInv'
<1> USE DEF IInv
<1> DEFINE a == wire[w].of
           granted == attempt[a].phase = "reserved" /\ attempt[a].token = w
           marked == [attempt EXCEPT ![a].phase = "dispatching"]
<1>0. a \in Attempts /\ wire[w].at = "mark" /\ UNCHANGED <<posts, paid>>
  BY DEF mark_attempt_dispatching, Typing
<1>1. \/ granted /\ attempt' = marked /\ wire' = Go(w, "post")
      \/ wire' = Stopped(w) /\ (attempt' = attempt \/ (granted /\ attempt' = marked))
  BY DEF mark_attempt_dispatching
<1>2. /\ wire' \in [Wires -> Wire]
      /\ \A v \in Wires : wire'[v].at \notin {"none", "done"} => wire'[v].of \in Attempts
      /\ \A v \in Wires \ {w} : wire'[v] = wire[v]
      /\ \/ granted /\ attempt' = marked /\ wire'[w] = [wire[w] EXCEPT !.at = "post"]
         \/ wire'[w].at \notin Sending
  <2>1. CASE granted /\ attempt' = marked /\ wire' = Go(w, "post")
    <3>1. "post" \in Steps
      BY DEF Steps
    <3> QED
      BY <1>0, <2>1, <3>1, GoType
  <2>2. CASE wire' = Stopped(w)
    BY <1>0, <2>2, StoppedType DEF Sending
  <2> QED
    BY <1>1, <2>1, <2>2
<1>3. CASE attempt' = attempt /\ wire'[w].at \notin Sending
  <2>1. Typing' /\ Quiet
    BY <1>0, <1>2, <1>3 DEF Typing, Quiet
  <2> QED
    BY <2>1, QuietStep
<1>4. CASE granted /\ attempt' = marked
  <2>1. Typing'
    BY <1>0, <1>2, <1>4 DEF Typing, Attempt, Phases
  <2>2. /\ attempt'[a].phase = "dispatching" /\ attempt'[a].token = w
        /\ \A b \in Attempts \ {a} : attempt'[b] = attempt[b]
    BY <1>0, <1>4 DEF Typing, Attempt
  <2>3. wire'[w].at \in Sending => wire'[w].at = "post" /\ wire'[w].of = a
    BY <1>2 DEF Typing, Wire
  <2>4. Granted'
    <3> SUFFICES ASSUME NEW v \in Wires, wire'[v].at \in Sending
                 PROVE  attempt'[wire'[v].of].phase = "dispatching" /\ attempt'[wire'[v].of].token = v
      BY DEF Granted
    <3>1. CASE v = w
      BY <3>1, <2>2, <2>3
    <3>2. CASE v # w
      <4>1. wire'[v] = wire[v] /\ wire[v].of # a
        BY <3>2, <1>2, <1>4 DEF Granted
      <4> QED
        BY <4>1, <2>2 DEF Granted, Typing, Sending
    <3> QED
      BY <3>1, <3>2
  <2>5. posts[a] = 0 /\ a \notin paid
    BY <1>0, <1>4 DEF Posted, Dispatched
  <2>6. Unspent'
    BY <1>0, <1>2, <2>3, <2>5 DEF Unspent, Sending
  <2>7. ReadRight'
    BY <1>0, <1>2, <2>3 DEF ReadRight, Sending
  <2>8. Posted' /\ RefusalIsFree'
    BY <1>0, <2>2 DEF Posted, Dispatched, RefusalIsFree, Closed
  <2>9. Chained'
    BY <1>4, <2>2 DEF Chained, Closed
  <2> QED
    BY <2>1, <2>4, <2>6, <2>7, <2>8, <2>9
<1> QED
  BY <1>1, <1>2, <1>3, <1>4

\* What may cost money is never read as a refusal.
LEMMA ReadingOfCost ==
  ASSUME NEW scope, NEW event \in Events, MayCost(scope, event)
  PROVE  Reading(scope, event) \notin Refusals
BY DEF Events, MayCost, Reading, Refusals

LEMMA ReadingType ==
  ASSUME NEW scope, NEW event \in Events
  PROVE  Reading(scope, event) \in Outcomes
BY DEF Events, Reading, Outcomes, Refusals

\* One task posts under an attempt, and its attempt has not been paid before.
LEMMA PostStep ==
  ASSUME IInv, NEW w \in Wires, _post_llmgw(w)
  PROVE  IInv'
<1> USE DEF IInv
<1> DEFINE a == wire[w].of
<1>0. a \in Attempts /\ wire[w].at = "post" /\ attempt' = attempt
  BY DEF _post_llmgw, Typing
<1>1. CASE wire' = Finished(w) /\ UNCHANGED <<posts, paid>>
  <2>1. Typing' /\ Quiet
    BY <1>0, <1>1, FinishedType DEF Typing, Quiet, Sending
  <2> QED
    BY <2>1, QuietStep
<1>2. ASSUME NEW event \in Events,
             posts' = [posts EXCEPT ![a] = @ + 1],
             paid' = IF MayCost(call[a].scope, event) THEN paid \cup {a} ELSE paid,
             wire' = [wire EXCEPT ![w].at = "finish", ![w].outcome = Reading(call[a].scope, event)]
      PROVE  IInv'
  <2> DEFINE new == [wire[w] EXCEPT !.at = "finish", !.outcome = Reading(call[a].scope, event)]
  <2>1. new \in Wire /\ new.of = a /\ new.at = "finish" /\ new.outcome = Reading(call[a].scope, event)
    BY ReadingType DEF Typing, Wire, Steps
  <2>2. wire' = [wire EXCEPT ![w] = new]
    BY <1>2 DEF Typing
  <2> HIDE DEF new
  <2>3. /\ wire' \in [Wires -> Wire]
        /\ wire'[w] = new
        /\ \A v \in Wires \ {w} : wire'[v] = wire[v]
        /\ \A v \in Wires : wire'[v].at \notin {"none", "done"} => wire'[v].of \in Attempts
    BY <1>0, <2>1, <2>2, WireType
  <2>4. posts[a] = 0 /\ a \notin paid /\ attempt[a].phase = "dispatching"
    BY <1>0 DEF Unspent, Granted, Sending
  <2>5. Typing'
    BY <1>0, <1>2, <2>3 DEF Typing
  <2>6. Granted'
    BY <1>0, <2>1, <2>3 DEF Granted, Sending
  <2>7. \A v \in Wires \ {w} : wire[v].at \in Sending => wire[v].of # a
    BY <1>0 DEF Granted, Sending
  <2>8. Unspent'
    BY <1>0, <1>2, <2>1, <2>3, <2>7 DEF Unspent, Sending, Typing
  <2>9. Posted'
    BY <1>0, <1>2, <2>4 DEF Posted, Typing, Dispatched
  <2>10. ReadRight'
    <3> SUFFICES ASSUME NEW v \in Wires, wire'[v].at \in {"finish", "close"}, wire'[v].of \in paid'
                 PROVE  wire'[v].outcome \notin Refusals
      BY DEF ReadRight
    <3>1. CASE v = w
      BY <3>1, <1>2, <2>1, <2>3, <2>4, ReadingOfCost
    <3>2. CASE v # w
      BY <3>2, <1>2, <2>3, <2>7 DEF ReadRight, Sending
    <3> QED
      BY <3>1, <3>2
  <2>11. RefusalIsFree' /\ Chained'
    BY <1>0, <1>2, <2>4 DEF RefusalIsFree, Chained, Closed
  <2> QED
    BY <2>5, <2>6, <2>8, <2>9, <2>10, <2>11
<1> QED
  BY <1>1, <1>2 DEF _post_llmgw

\* An attempt is closed by the reading of its one post.
LEMMA CloseStep ==
  ASSUME IInv, NEW w \in Wires, close_attempt(w)
  PROVE  IInv'
<1> USE DEF IInv
<1> DEFINE a == wire[w].of
           reason == ClosingReason(wire[w].outcome)
           ended == [attempt EXCEPT ![a].phase = IF reason = "none" THEN "indeterminate" ELSE "closed",
                                    ![a].reason = reason]
           after == IF reason = "completed" THEN "charge"
                    ELSE IF wire[w].ledger THEN "store" ELSE "answer"
<1>0. /\ a \in Attempts /\ wire[w].at = "close" /\ UNCHANGED <<posts, paid>>
      /\ attempt[a].phase = "dispatching"
      /\ reason \in Refusals \cup {"none", "completed"}
      /\ reason \in Refusals => wire[w].outcome = reason
  BY DEF close_attempt, Typing, ClosingReason, Refusals
<1>1. /\ wire' \in [Wires -> Wire]
      /\ \A v \in Wires : wire'[v].at \notin {"none", "done"} => wire'[v].of \in Attempts
      /\ \A v \in Wires \ {w} : wire'[v] = wire[v]
      /\ wire'[w].at \notin Sending
  <2>1. CASE wire' = Stopped(w)
    BY <1>0, <2>1, StoppedType DEF Sending
  <2>2. CASE wire' = [wire EXCEPT ![w].at = after, ![w].confirmed = reason \in Refusals]
    <3> DEFINE new == [wire[w] EXCEPT !.at = after, !.confirmed = reason \in Refusals]
    <3>1. new \in Wire /\ new.of \in Attempts /\ new.at \notin Sending
      <4>1. after \in Steps /\ after \notin Sending /\ (reason \in Refusals) \in BOOLEAN
        BY DEF Steps, Sending
      <4> HIDE DEF after, reason
      <4> QED
        BY <1>0, <4>1 DEF Typing, Wire
    <3>2. wire' = [wire EXCEPT ![w] = new]
      BY <2>2 DEF Typing
    <3> HIDE DEF new
    <3> QED
      BY <3>1, <3>2, WireType
  <2> QED
    BY <2>1, <2>2 DEF close_attempt
<1>2. attempt' \in {attempt, ended}
  BY DEF close_attempt
<1>3. CASE attempt' = attempt
  <2>1. Typing' /\ Quiet
    BY <1>0, <1>1, <1>3 DEF Typing, Quiet
  <2> QED
    BY <2>1, QuietStep
<1>4. CASE attempt' = ended
  <2> HIDE DEF reason
  <2>1. /\ attempt'[a].phase \in {"closed", "indeterminate"} /\ attempt'[a].reason = reason
        /\ \A b \in Attempts \ {a} : attempt'[b] = attempt[b]
    BY <1>0, <1>4 DEF Typing, Attempt
  <2>2. Typing'
    BY <1>0, <1>1, <1>4 DEF Typing, Attempt, Phases
  <2>3. \A v \in Wires \ {w} : wire[v].at \in Sending => wire[v].of # a
    BY <1>0 DEF Granted, Sending
  <2>4. Granted'
    BY <1>1, <2>1, <2>3 DEF Granted, Typing, Sending
  <2>5. Unspent' /\ ReadRight'
    BY <1>0, <1>1 DEF Unspent, ReadRight, Sending
  <2>6. Posted'
    BY <1>0, <2>1 DEF Posted, Dispatched
  <2>7. RefusalIsFree'
    BY <1>0, <2>1 DEF RefusalIsFree, ReadRight, Closed
  <2>8. Chained'
    BY <1>0, <2>1 DEF Chained, Closed
  <2> QED
    BY <2>2, <2>4, <2>5, <2>6, <2>7, <2>8
<1> QED
  BY <1>2, <1>3, <1>4

-----------------------------------------------------------------------------
\* Every other step is quiet.
LEMMA AdmitStep ==
  ASSUME IInv, NEW w \in Wires, admit_response(w)
  PROVE  IInv'
<1> USE DEF IInv
<1>0. wire[w].at = "admit" /\ UNCHANGED <<attempt, posts, paid>>
  BY DEF admit_response, control
<1>1. /\ wire' \in [Wires -> Wire]
      /\ \A v \in Wires : wire'[v].at \notin {"none", "done"} => wire'[v].of \in Attempts
      /\ \A v \in Wires \ {w} : wire'[v] = wire[v]
      /\ wire'[w].at \notin Sending
  <2>1. CASE wire' = Stopped(w)
    BY <1>0, <2>1, StoppedType DEF Sending
  <2>2. CASE wire' = [wire EXCEPT ![w].at = "reserve", ![w].ledger = TRUE]
    <3> DEFINE new == [wire[w] EXCEPT !.at = "reserve", !.ledger = TRUE]
    <3>1. new \in Wire /\ new.of \in Attempts /\ new.at \notin Sending
      BY <1>0 DEF Typing, Wire, Steps, Sending
    <3>2. wire' = [wire EXCEPT ![w] = new]
      BY <2>2 DEF Typing
    <3> QED
      BY <3>1, <3>2, WireType
  <2> QED
    BY <2>1, <2>2 DEF admit_response
<1>2. Typing' /\ Quiet
  BY <1>0, <1>1 DEF Typing, Quiet
<1> QED
  BY <1>2, QuietStep

LEMMA FinishStep ==
  ASSUME IInv, NEW w \in Wires, finish_call(w)
  PROVE  IInv'
<1> USE DEF IInv
<1>0. wire[w].at = "finish" /\ UNCHANGED <<attempt, posts, paid>>
  BY DEF finish_call
<1>1. CASE wire' = Go(w, "close")
  <2>1. "close" \in Steps
    BY DEF Steps
  <2>2. Typing' /\ Quiet
    BY <1>0, <1>1, <2>1, GoType DEF Typing, Quiet
  <2> QED
    BY <2>2, QuietStep
<1>2. CASE wire' = Stopped(w)
  <2>1. Typing' /\ Quiet
    BY <1>0, <1>2, StoppedType DEF Typing, Quiet, Sending
  <2> QED
    BY <2>1, QuietStep
<1> QED
  BY <1>1, <1>2 DEF finish_call

LEMMA ChargeStep ==
  ASSUME IInv, NEW w \in Wires, charge(w)
  PROVE  IInv'
<1> USE DEF IInv
<1>0. wire[w].at = "charge" /\ UNCHANGED <<attempt, posts, paid>>
  BY DEF charge
<1> DEFINE after == IF wire[w].ledger THEN "store" ELSE "answer"
<1>1. /\ wire' \in [Wires -> Wire]
      /\ \A v \in Wires : wire'[v].at \notin {"none", "done"} => wire'[v].of \in Attempts
      /\ \A v \in Wires \ {w} : wire'[v] = wire[v]
      /\ wire'[w].at \notin Sending
  <2>1. CASE wire' = Stopped(w)
    BY <1>0, <2>1, StoppedType DEF Sending
  <2>2. CASE wire' = [wire EXCEPT ![w].confirmed = TRUE, ![w].at = after]
    <3> DEFINE new == [wire[w] EXCEPT !.confirmed = TRUE, !.at = after]
    <3>1. new \in Wire /\ new.of \in Attempts /\ new.at \notin Sending
      BY <1>0 DEF Typing, Wire, Steps, Sending
    <3>2. wire' = [wire EXCEPT ![w] = new]
      BY <2>2 DEF Typing
    <3> QED
      BY <3>1, <3>2, WireType
  <2> QED
    BY <2>1, <2>2 DEF charge
<1>2. Typing' /\ Quiet
  BY <1>0, <1>1 DEF Typing, Quiet
<1> QED
  BY <1>2, QuietStep

\* Storing, answering and giving up.
LEMMA StoreStep ==
  ASSUME IInv, NEW w \in Wires, Store(w) \/ Answer(w)
  PROVE  IInv'
<1> USE DEF IInv
<1>0. wire[w].at \notin {"none", "done"} /\ UNCHANGED <<attempt, posts, paid>>
  BY DEF Store, Answer, ReservePart, PutPart, CompleteBody, ReleaseHold, control
<1>1. CASE wire' = Finished(w)
  <2>1. Typing' /\ Quiet
    BY <1>0, <1>1, FinishedType DEF Typing, Quiet, Sending
  <2> QED
    BY <2>1, QuietStep
<1>2. CASE \E step \in {"put", "store", "reconcile", "answer"} : wire' = Go(w, step)
  <2>0. PICK step \in {"put", "store", "reconcile", "answer"} : wire' = Go(w, step)
    BY <1>2
  <2>1. step \in Steps /\ step \notin Sending
    BY DEF Steps, Sending
  <2>2. /\ wire' \in [Wires -> Wire]
        /\ wire'[w] = [wire[w] EXCEPT !.at = step]
        /\ \A v \in Wires \ {w} : wire'[v] = wire[v]
        /\ \A v \in Wires : wire'[v].at \notin {"none", "done"} => wire'[v].of \in Attempts
    BY <1>0, <2>0, <2>1, GoType
  <2>3. Typing' /\ Quiet
    BY <1>0, <2>1, <2>2 DEF Typing, Quiet, Wire
  <2> QED
    BY <2>3, QuietStep
<1> QED
  BY <1>1, <1>2 DEF Store, Answer, ReservePart, PutPart, CompleteBody, ReleaseHold

\* What the API reads, the sweep, the end of the run and the death of the gateway.
LEMMA OtherStep ==
  ASSUME IInv,
         \/ \E a \in Attempts : load_generation_response(a) \/ reconcile_generation_response(a)
         \/ \E s \in Sweepers : Cleanup(s)
         \/ EndRun \/ GatewayDies \/ UNCHANGED vars
  PROVE  IInv'
<1> USE DEF IInv
<1>0. UNCHANGED <<attempt, posts, paid>>
  BY DEF load_generation_response, reconcile_generation_response, Cleanup, _claim, DeleteObject,
         ReturnRoom, EndRun, GatewayDies, vars, control
<1>1. CASE wire' = wire
  <2>1. Typing' /\ Quiet
    BY <1>0, <1>1 DEF Typing, Quiet
  <2> QED
    BY <2>1, QuietStep
<1>2. CASE GatewayDies
  <2>1. Over \in Wire /\ Over.at = "done"
    BY DEF Over, NewWire, Wire, Steps, Outcomes
  <2>2. Typing' /\ Quiet
    BY <1>0, <1>2, <2>1 DEF GatewayDies, Typing, Quiet, Sending
  <2> QED
    BY <2>2, QuietStep
<1> QED
  BY <1>1, <1>2 DEF load_generation_response, reconcile_generation_response, Cleanup, _claim,
     DeleteObject, ReturnRoom, EndRun, vars

-----------------------------------------------------------------------------
LEMMA InitIInv ==
  ASSUME Init
  PROVE  IInv
<1>1. NewWire \in Wire /\ NewWire.at = "none"
  BY DEF NewWire, Wire, Steps, Outcomes
<1>2. Typing
  BY <1>1 DEF Init, Typing, Attempt, Phases
<1>3. Granted /\ Unspent /\ Posted /\ ReadRight /\ RefusalIsFree /\ Chained
  BY <1>1 DEF Init, Granted, Unspent, Posted, ReadRight, RefusalIsFree, Chained, Closed, Sending
<1> QED
  BY <1>2, <1>3 DEF IInv

LEMMA NextIInv ==
  ASSUME IInv, [Next]_vars
  PROVE  IInv'
BY PrepareStep, TokenStep, MarkStep, PostStep, CloseStep, AdmitStep, FinishStep, ChargeStep,
   StoreStep, OtherStep DEF Next, Dispatch, Account

\* A request is posted at most once under an attempt, and at most one attempt of its
\* chain may have cost money, whatever is lost, resent or restarted.
THEOREM NothingPaidTwice == Spec => []PaidOnce
<1>1. IInv => PaidOnce
  <2> SUFFICES ASSUME IInv, NEW a \in paid, NEW b \in paid, a < b
               PROVE  FALSE
    BY RequestBounds DEF PaidOnce, IInv, Typing, Posted, Attempts
  <2>1. a \in Attempts /\ b \in Attempts
    BY DEF IInv, Typing
  <2>2. attempt[b].phase # "none"
    BY <2>1 DEF IInv, Posted, Dispatched
  <2>3. Closed(a, Refusals)
    BY <2>1, <2>2 DEF IInv, Chained
  <2> QED
    BY <2>1, <2>3 DEF IInv, RefusalIsFree
<1> QED
  BY <1>1, InitIInv, NextIInv, PTL DEF Spec

-----------------------------------------------------------------------------
\* What the accounts say of an answer, and what the bucket holds of it.

Late == {"store", "put", "reconcile", "answer"}
Call == [status : {"none", "started", "completed", "failed", "ambiguous"}, scope : Scopes, usage : BOOLEAN]

\* The types of the remaining variables, the room of the bucket excepted.
Tables ==
  /\ call \in [Attempts -> Call]
  /\ body \in [Attempts -> Body]
  /\ objects \in [Attempts -> Nat]
  /\ sweep \in [Sweepers -> Attempts \cup {NoAttempt}]
  /\ heard \subseteq Attempts /\ served \subseteq Attempts

\* A completed receipt has been committed and the attempt closed by it.
Settled(a) == Closed(a, {"completed"}) /\ call[a].status = "completed"

\* What a task says of its outcome agrees with the tables.
WireAccounts(w) ==
  /\ wire[w].confirmed => wire[w].at \in Late /\ confirmed_provider_accounting(wire[w].of)
  /\ wire[w].at = "reconcile" => wire[w].confirmed
  /\ wire[w].at \in Late /\ wire[w].outcome \in Refusals \cup {"ok"} => wire[w].confirmed
  /\ wire[w].at \in Late /\ wire[w].outcome \in Refusals => Closed(wire[w].of, Refusals)
  /\ wire[w].at \in {"finish", "close"} /\ wire[w].outcome = "upstream_refused" =>
       call[wire[w].of].scope = "llmgw"
  /\ wire[w].at = "charge" => wire[w].outcome = "ok" /\ Settled(wire[w].of)

\* The hold is released, and an answer given, only with confirmed accounting.
Accounts ==
  /\ \A w \in Wires : WireAccounts(w)
  /\ \A a \in Attempts : call[a].usage => Settled(a)
  /\ \A a \in Attempts : ~body[a].hold => confirmed_provider_accounting(a)
  /\ \A a \in Attempts : body[a].state = "deleting" => ~body[a].hold
  /\ \A a \in heard \cup served : confirmed_provider_accounting(a)
  /\ \A a \in heard : Closed(a, Refusals)

\* Only the task that was admitted writes the body, one part at a time.
WireStores(w) ==
  /\ wire[w].ledger => wire[w].at \notin {"none", "admit", "done"} /\ body[wire[w].of].state # "none"
  /\ wire[w].at \in {"store", "put"} => wire[w].ledger
  /\ wire[w].at = "put" =>
       body[wire[w].of].state = "uploading" /\ body[wire[w].of].used = objects[wire[w].of] + 1
  /\ wire[w].ledger /\ wire[w].at # "put" /\ body[wire[w].of].state = "uploading" =>
       objects[wire[w].of] = body[wire[w].of].used

Storage ==
  /\ \A w \in Wires : WireStores(w)
  /\ \A v, w \in Wires : wire[v].ledger /\ wire[w].ledger /\ wire[v].of = wire[w].of => v = w
  /\ \A a \in Attempts : /\ body[a].state = "complete" => objects[a] = body[a].used
                         /\ body[a].state = "none" => objects[a] = 0
  /\ \A s \in Sweepers : sweep[s] # NoAttempt => body[sweep[s]].state \in {"deleting", "deleted"}

JInv == IInv /\ Tables /\ Accounts /\ Storage

\* A step takes back nothing that has been accounted for.
Kept ==
  \A a \in Attempts :
    /\ confirmed_provider_accounting(a) => confirmed_provider_accounting(a)'
    /\ Closed(a, Refusals) => Closed(a, Refusals)'
    /\ Settled(a) => Settled(a)'
    /\ call'[a].usage => call[a].usage \/ Settled(a)'

-----------------------------------------------------------------------------
\* A step keeps the accounts if it keeps what is closed, and if each wire it moves,
\* each hold it releases and each answer it gives agrees with the tables.
LEMMA AccountsStep ==
  ASSUME JInv, Kept,
         \A v \in Wires : \/ WireAccounts(v)'
                          \/ /\ wire'[v] = wire[v]
                             /\ wire[v].at \in {"finish", "close"} =>
                                  call'[wire[v].of].scope = call[wire[v].of].scope,
         \A a \in Attempts : ~body'[a].hold => ~body[a].hold \/ confirmed_provider_accounting(a)',
         \A a \in Attempts : body'[a].state = "deleting" => ~body'[a].hold,
         heard' \cup served' \subseteq Attempts,
         \A a \in heard' \cup served' : a \in heard \cup served \/ confirmed_provider_accounting(a)',
         \A a \in heard' : a \in heard \/ Closed(a, Refusals)'
  PROVE  Accounts'
<1> USE DEF JInv
<1>1. ASSUME NEW v \in Wires
      PROVE  WireAccounts(v)'
  <2>1. CASE wire'[v] = wire[v] /\ (wire[v].at \in {"finish", "close"} =>
                                      call'[wire[v].of].scope = call[wire[v].of].scope)
    <3>1. wire[v].at \in Late \cup {"charge"} => wire[v].of \in Attempts
      BY DEF IInv, Typing, Late
    <3>2. WireAccounts(v)
      BY DEF Accounts
    <3> QED
      BY <2>1, <3>1, <3>2 DEF WireAccounts, Kept
  <2> QED
    BY <2>1
<1>2. \A a \in Attempts : call'[a].usage => Settled(a)'
  BY DEF Accounts, Kept
<1>3. \A a \in Attempts : ~body'[a].hold => confirmed_provider_accounting(a)'
  BY DEF Accounts, Kept
<1>4. \A a \in heard' \cup served' : confirmed_provider_accounting(a)'
  BY DEF Accounts, Kept
<1>5. \A a \in heard' : Closed(a, Refusals)'
  BY DEF Accounts, Kept
<1> QED
  BY <1>1, <1>2, <1>3, <1>4, <1>5 DEF Accounts

\* A step that leaves attempts and calls alone takes nothing back.
LEMMA KeptAlone ==
  ASSUME JInv, UNCHANGED <<attempt, call>>
  PROVE  Kept
BY DEF Kept, confirmed_provider_accounting, ConfirmedTerminal, Closed, Settled

\* A step that writes no body and begins no part.
LEMMA StorageCalm ==
  ASSUME JInv, UNCHANGED <<objects, sweep>>,
         \A a \in Attempts : body'[a].state = body[a].state /\ body'[a].used = body[a].used,
         \A v \in Wires :
           \/ wire'[v] = wire[v]
           \/ ~wire'[v].ledger /\ wire'[v].at \notin {"store", "put"}
           \/ /\ wire'[v].of = wire[v].of /\ wire'[v].ledger = wire[v].ledger
              /\ wire[v].at \notin {"none", "done", "put"}
              /\ wire'[v].at \notin {"none", "admit", "done", "put"}
              /\ wire'[v].at = "store" => wire[v].ledger
  PROVE  Storage'
<1> USE DEF JInv
<1>1. ASSUME NEW v \in Wires
      PROVE  WireStores(v)'
  <2>1. wire[v].ledger => wire[v].of \in Attempts
    BY DEF Storage, WireStores, IInv, Typing
  <2>2. WireStores(v)
    BY DEF Storage
  <2> QED
    BY <2>1, <2>2 DEF WireStores
<1>2. \A v, w \in Wires : wire'[v].ledger /\ wire'[w].ledger /\ wire'[v].of = wire'[w].of => v = w
  BY DEF Storage
<1>3. \A a \in Attempts : /\ body'[a].state = "complete" => objects'[a] = body'[a].used
                          /\ body'[a].state = "none" => objects'[a] = 0
  BY DEF Storage
<1>4. \A s \in Sweepers : sweep'[s] # NoAttempt => body'[sweep'[s]].state \in {"deleting", "deleted"}
  BY DEF Storage, Tables
<1> QED
  BY <1>1, <1>2, <1>3, <1>4 DEF Storage

\* A step of the task that was admitted, on its own body.
LEMMA StorageWrite ==
  ASSUME JInv, NEW w \in Wires, NEW a \in Attempts, wire[w].ledger, wire[w].of = a,
         sweep' = sweep,
         \A b \in Attempts \ {a} : body'[b] = body[b] /\ objects'[b] = objects[b],
         \A v \in Wires \ {w} : wire'[v] = wire[v],
         wire'[w].ledger => wire'[w].of = a,
         WireStores(w)',
         body'[a].state # "none",
         body'[a].state = "complete" => objects'[a] = body'[a].used,
         body[a].state \in {"deleting", "deleted"} => body'[a].state \in {"deleting", "deleted"}
  PROVE  Storage'
<1> USE DEF JInv
<1>1. ASSUME NEW v \in Wires
      PROVE  WireStores(v)'
  <2>1. CASE v = w
    BY <2>1
  <2>2. CASE v # w
    <3>1. wire[v].ledger => wire[v].of \in Attempts \ {a}
      BY <2>2 DEF Storage, WireStores, IInv, Typing
    <3>2. WireStores(v)
      BY DEF Storage
    <3> QED
      BY <2>2, <3>1, <3>2 DEF WireStores
  <2> QED
    BY <2>1, <2>2
<1>2. \A v, u \in Wires : wire'[v].ledger /\ wire'[u].ledger /\ wire'[v].of = wire'[u].of => v = u
  BY DEF Storage
<1>3. \A b \in Attempts : /\ body'[b].state = "complete" => objects'[b] = body'[b].used
                          /\ body'[b].state = "none" => objects'[b] = 0
  BY DEF Storage
<1>4. \A s \in Sweepers : sweep'[s] # NoAttempt => body'[sweep'[s]].state \in {"deleting", "deleted"}
  BY DEF Storage, Tables
<1> QED
  BY <1>1, <1>2, <1>3, <1>4 DEF Storage

\* A step of a cleanup loop, on a body it has claimed.
LEMMA StorageSweep ==
  ASSUME JInv, NEW a \in Attempts, wire' = wire,
         body[a].state \in {"complete", "deleting", "deleted"},
         body'[a].state \in {"deleting", "deleted"},
         \A b \in Attempts \ {a} : body'[b] = body[b] /\ objects'[b] = objects[b],
         \A s \in Sweepers : sweep'[s] \in {NoAttempt, sweep[s], a}
  PROVE  Storage'
<1> USE DEF JInv
<1>1. ASSUME NEW v \in Wires
      PROVE  WireStores(v)'
  <2>1. wire[v].ledger => wire[v].of \in Attempts
    BY DEF Storage, WireStores, IInv, Typing
  <2>2. WireStores(v)
    BY DEF Storage
  <2> QED
    BY <2>1, <2>2 DEF WireStores
<1>2. \A v, u \in Wires : wire'[v].ledger /\ wire'[u].ledger /\ wire'[v].of = wire'[u].of => v = u
  BY DEF Storage
<1>3. \A b \in Attempts : /\ body'[b].state = "complete" => objects'[b] = body'[b].used
                          /\ body'[b].state = "none" => objects'[b] = 0
  BY DEF Storage
<1>4. \A s \in Sweepers : sweep'[s] # NoAttempt => body'[sweep'[s]].state \in {"deleting", "deleted"}
  BY DEF Storage, Tables
<1> QED
  BY <1>1, <1>2, <1>3, <1>4 DEF Storage

-----------------------------------------------------------------------------
\* The wire of a step that is over, or of one that failed before the answer.
LEMMA OverAccounts ==
  ASSUME NEW w \in Wires, wire'[w] = Over
  PROVE  WireAccounts(w)' /\ ~wire'[w].ledger /\ wire'[w].at \notin {"store", "put"}
BY DEF WireAccounts, Over, NewWire, Late

LEMMA StoppedAccounts ==
  ASSUME JInv, NEW w \in Wires, wire[w].at \notin {"none", "done"} \cup Late, wire' = Stopped(w)
  PROVE  /\ \A v \in Wires \ {w} : wire'[v] = wire[v]
         /\ WireAccounts(w)'
         /\ \/ ~wire'[w].ledger /\ wire'[w].at \notin {"store", "put"}
            \/ /\ wire'[w].of = wire[w].of /\ wire'[w].ledger = wire[w].ledger
               /\ wire[w].at \notin {"none", "done", "put"}
               /\ wire'[w].at \notin {"none", "admit", "done", "put"}
               /\ wire'[w].at = "store" => wire[w].ledger
<1>1. Typing /\ WireAccounts(w)
  BY DEF JInv, IInv, Accounts
<1>2. ~wire[w].confirmed
  BY <1>1 DEF WireAccounts
<1>3. CASE wire'[w] = Over
  BY <1>1, <1>3, OverAccounts, StoppedType
<1>4. CASE /\ wire[w].ledger
           /\ wire'[w].at = "store" /\ wire'[w].outcome = "unconfirmed" /\ wire'[w].of = wire[w].of
           /\ wire'[w].ledger = wire[w].ledger /\ wire'[w].confirmed = wire[w].confirmed
  <2>1. WireAccounts(w)'
    BY <1>2, <1>4 DEF WireAccounts, Refusals
  <2> QED
    BY <1>1, <1>4, <2>1, StoppedType DEF Late
<1> QED
  BY <1>1, <1>3, <1>4, StoppedType

-----------------------------------------------------------------------------
\* The steps that write attempts, calls and wires.
LEMMA PrepareAccounts ==
  ASSUME JInv, NEW w \in Wires, NEW a \in Attempts, prepare_generation_attempt(w, a)
  PROVE  Tables' /\ Accounts' /\ Storage'
<1>1. Typing /\ wire[w].at = "none" /\ UNCHANGED <<call, body, objects, sweep, heard, served>>
  BY DEF prepare_generation_attempt, JInv, IInv, storage, known
<1>2. ~wire[w].confirmed /\ ~wire[w].ledger
  BY <1>1 DEF JInv, Accounts, Storage, WireAccounts, WireStores, Late
<1>3. /\ \A v \in Wires \ {w} : wire'[v] = wire[v]
      /\ WireAccounts(w)' /\ ~wire'[w].ledger /\ wire'[w].at \notin {"store", "put"}
  <2>1. CASE wire' = Finished(w)
    BY <1>1, <2>1, FinishedType, OverAccounts
  <2>2. CASE wire' = [wire EXCEPT ![w].of = a, ![w].at = IF retention THEN "admit" ELSE "reserve"]
    <3>1. /\ wire'[w].at \in {"admit", "reserve"} /\ wire'[w].confirmed = wire[w].confirmed
          /\ wire'[w].ledger = wire[w].ledger
          /\ \A v \in Wires \ {w} : wire'[v] = wire[v]
      BY <2>2, <1>1 DEF Typing, Wire
    <3> QED
      BY <1>2, <3>1 DEF WireAccounts, Late
  <2> QED
    BY <2>1, <2>2 DEF prepare_generation_attempt
<1>4. Kept
  <2>1. \A b \in Attempts : attempt'[b] = attempt[b] \/ (attempt[b].phase = "none" /\ attempt'[b].phase = "reserved")
    BY <1>1 DEF prepare_generation_attempt, Typing, Attempt
  <2> QED
    BY <1>1, <2>1 DEF Kept, confirmed_provider_accounting, ConfirmedTerminal, Closed, Settled
<1>5. Accounts'
  BY <1>1, <1>3, <1>4, AccountsStep DEF JInv, Accounts, Tables
<1>6. Storage'
  BY <1>1, <1>3, StorageCalm
<1> QED
  BY <1>1, <1>5, <1>6 DEF JInv, Tables

LEMMA TokenAccounts ==
  ASSUME JInv, NEW w \in Wires, reserve_generation_attempt(w)
  PROVE  Tables' /\ Accounts' /\ Storage'
<1>1. Typing /\ wire[w].at = "reserve" /\ UNCHANGED <<call, body, objects, sweep, heard, served>>
  BY DEF reserve_generation_attempt, JInv, IInv, storage, known
<1>2. ~wire[w].confirmed
  BY <1>1 DEF JInv, Accounts, WireAccounts, Late
<1>3. /\ \A v \in Wires \ {w} : wire'[v] = wire[v]
      /\ WireAccounts(w)'
      /\ \/ ~wire'[w].ledger /\ wire'[w].at \notin {"store", "put"}
         \/ /\ wire'[w].of = wire[w].of /\ wire'[w].ledger = wire[w].ledger
            /\ wire[w].at \notin {"none", "done", "put"}
            /\ wire'[w].at \notin {"none", "admit", "done", "put"}
            /\ wire'[w].at = "store" => wire[w].ledger
  <2>1. CASE wire' = Stopped(w)
    BY <1>1, <2>1, StoppedAccounts DEF Late
  <2>2. CASE wire' = Go(w, "mark")
    <3>1. /\ wire'[w].at = "mark" /\ wire'[w].confirmed = wire[w].confirmed
          /\ wire'[w].of = wire[w].of /\ wire'[w].ledger = wire[w].ledger
          /\ \A v \in Wires \ {w} : wire'[v] = wire[v]
      BY <2>2, <1>1 DEF Go, Typing, Wire
    <3> QED
      BY <1>1, <1>2, <3>1 DEF WireAccounts, Late
  <2> QED
    BY <2>1, <2>2 DEF reserve_generation_attempt
<1>4. Kept
  <2>1. \A b \in Attempts : attempt'[b].phase = attempt[b].phase /\ attempt'[b].reason = attempt[b].reason
    BY <1>1 DEF reserve_generation_attempt, Typing, Attempt
  <2> QED
    BY <1>1, <2>1 DEF Kept, confirmed_provider_accounting, ConfirmedTerminal, Closed, Settled
<1>5. Accounts'
  BY <1>1, <1>3, <1>4, AccountsStep DEF JInv, Accounts, Tables
<1>6. Storage'
  BY <1>1, <1>3, StorageCalm
<1> QED
  BY <1>1, <1>5, <1>6 DEF JInv, Tables

LEMMA MarkAccounts ==
  ASSUME JInv, NEW w \in Wires, mark_attempt_dispatching(w)
  PROVE  Tables' /\ Accounts' /\ Storage'
<1> DEFINE a == wire[w].of
           granted == attempt[a].phase = "reserved" /\ attempt[a].token = w
           marked == [attempt EXCEPT ![a].phase = "dispatching"]
           started == [call EXCEPT ![a].status = "started", ![a].scope = select_scope(a)]
<1>1. /\ Typing /\ Tables /\ wire[w].at = "mark" /\ a \in Attempts
      /\ UNCHANGED <<body, objects, sweep, heard, served>>
  BY DEF mark_attempt_dispatching, JInv, IInv, Typing, storage, known
<1>2. ~wire[w].confirmed
  BY <1>1 DEF JInv, Accounts, WireAccounts, Late
<1>3. /\ \A v \in Wires \ {w} : wire'[v] = wire[v]
      /\ WireAccounts(w)'
      /\ \/ ~wire'[w].ledger /\ wire'[w].at \notin {"store", "put"}
         \/ /\ wire'[w].of = wire[w].of /\ wire'[w].ledger = wire[w].ledger
            /\ wire[w].at \notin {"none", "done", "put"}
            /\ wire'[w].at \notin {"none", "admit", "done", "put"}
            /\ wire'[w].at = "store" => wire[w].ledger
  <2>1. CASE wire' = Stopped(w)
    BY <1>1, <2>1, StoppedAccounts DEF Late
  <2>2. CASE wire' = Go(w, "post")
    <3>1. /\ wire'[w].at = "post" /\ wire'[w].confirmed = wire[w].confirmed
          /\ wire'[w].of = wire[w].of /\ wire'[w].ledger = wire[w].ledger
          /\ \A v \in Wires \ {w} : wire'[v] = wire[v]
      BY <2>2, <1>1 DEF Go, Typing, Wire
    <3> QED
      BY <1>1, <1>2, <3>1 DEF WireAccounts, Late
  <2> QED
    BY <2>1, <2>2 DEF mark_attempt_dispatching
<1>4. \/ attempt' = attempt /\ call' = call
      \/ granted /\ attempt' = marked /\ call' = started
  BY DEF mark_attempt_dispatching
<1>5. /\ \A b \in Attempts \ {a} : attempt'[b] = attempt[b] /\ call'[b] = call[b]
      /\ call'[a].usage = call[a].usage
      /\ attempt[a].phase # "reserved" => attempt'[a] = attempt[a] /\ call'[a] = call[a]
      /\ call' \in [Attempts -> Call]
  <2>1. select_scope(a) \in Scopes
    BY DEF select_scope, Scopes
  <2>2. CASE attempt' = attempt /\ call' = call
    BY <1>1, <2>2 DEF Tables
  <2>3. CASE granted /\ attempt' = marked /\ call' = started
    <3>1. /\ \A b \in Attempts \ {a} : attempt'[b] = attempt[b] /\ call'[b] = call[b]
          /\ call'[a] = [call[a] EXCEPT !.status = "started", !.scope = select_scope(a)]
          /\ call \in [Attempts -> Call]
      BY <1>1, <2>3 DEF Typing, Tables
    <3>2. call'[a].usage = call[a].usage /\ call'[a] \in Call
      BY <1>1, <2>1, <3>1 DEF Call
    <3>3. call' \in [Attempts -> Call]
      BY <1>1, <2>3, <3>1, <3>2
    <3> QED
      BY <2>3, <3>1, <3>2, <3>3
  <2> QED
    BY <1>4, <2>2, <2>3
<1>6. Kept
  <2>1. CASE attempt[a].phase # "reserved"
    BY <1>5, <2>1 DEF Kept, confirmed_provider_accounting, ConfirmedTerminal, Closed, Settled
  <2>2. CASE attempt[a].phase = "reserved"
    BY <1>5, <2>2 DEF Kept, confirmed_provider_accounting, ConfirmedTerminal, Closed, Settled
  <2> QED
    BY <2>1, <2>2
<1>7. \A v \in Wires : wire[v].at \in {"finish", "close"} => call'[wire[v].of].scope = call[wire[v].of].scope
  <2> SUFFICES ASSUME NEW v \in Wires, wire[v].at \in {"finish", "close"}
               PROVE  call'[wire[v].of].scope = call[wire[v].of].scope
    OBVIOUS
  <2>1. wire[v].of \in Attempts /\ attempt[wire[v].of].phase = "dispatching"
    BY DEF JInv, IInv, Typing, Granted, Sending
  <2> QED
    BY <1>5, <2>1
<1>8. Accounts'
  BY <1>1, <1>3, <1>6, <1>7, AccountsStep DEF JInv, Accounts, Tables
<1>9. Storage'
  BY <1>1, <1>3, StorageCalm
<1> QED
  BY <1>1, <1>5, <1>8, <1>9 DEF JInv, Tables

LEMMA PostAccounts ==
  ASSUME JInv, NEW w \in Wires, _post_llmgw(w)
  PROVE  Tables' /\ Accounts' /\ Storage'
<1> DEFINE a == wire[w].of
<1>1. /\ Typing /\ Tables /\ wire[w].at = "post" /\ a \in Attempts
      /\ UNCHANGED <<attempt, call, objects, sweep, heard, served>>
  BY DEF _post_llmgw, JInv, IInv, Typing, known
<1>2. ~wire[w].confirmed
  BY <1>1 DEF JInv, Accounts, WireAccounts, Late
<1>3. Kept
  BY <1>1, KeptAlone
<1>4. CASE wire[w].ledger /\ body' = GivenUp(a) /\ wire' = Finished(w)
  <2>1. /\ wire'[w] = Over /\ WireAccounts(w)' /\ ~wire'[w].ledger /\ wire'[w].at \notin {"store", "put"}
        /\ \A v \in Wires \ {w} : wire'[v] = wire[v]
    BY <1>1, <1>4, FinishedType, OverAccounts
  <2>2. /\ body' \in [Attempts -> Body]
        /\ \A b \in Attempts \ {a} : body'[b] = body[b]
        /\ body'[a].hold = body[a].hold
        /\ \/ body[a].state = "uploading" /\ body'[a].state = "indeterminate"
           \/ body'[a] = body[a]
    BY <1>1, <1>4 DEF GivenUp, Tables, Body
  <2>3. Accounts'
    BY <1>1, <1>3, <2>1, <2>2, AccountsStep DEF JInv, Accounts, Tables
  <2>4. WireStores(w)'
    BY <2>1 DEF WireStores
  <2>5. body[a].state # "none" /\ (body[a].state = "complete" => objects[a] = body[a].used)
    BY <1>1, <1>4 DEF JInv, Storage, WireStores
  <2>6. Storage'
    BY <1>1, <1>4, <2>1, <2>2, <2>4, <2>5, StorageWrite
  <2> QED
    BY <1>1, <2>2, <2>3, <2>6 DEF Tables
<1>5. ASSUME NEW event \in Events, body' = body,
             wire' = [wire EXCEPT ![w].at = "finish", ![w].outcome = Reading(call[a].scope, event)]
      PROVE  Tables' /\ Accounts' /\ Storage'
  <2>1. /\ wire'[w].at = "finish" /\ wire'[w].outcome = Reading(call[a].scope, event)
        /\ wire'[w].of = a /\ wire'[w].confirmed = wire[w].confirmed /\ wire'[w].ledger = wire[w].ledger
        /\ \A v \in Wires \ {w} : wire'[v] = wire[v]
    BY <1>1, <1>5 DEF Typing, Wire
  <2>2. Reading(call[a].scope, event) = "upstream_refused" => call[a].scope = "llmgw"
    BY DEF Reading, Events
  <2>3. WireAccounts(w)'
    BY <1>1, <1>2, <2>1, <2>2 DEF WireAccounts, Late
  <2>4. Accounts'
    BY <1>1, <1>3, <1>5, <2>1, <2>3, AccountsStep DEF JInv, Accounts, Tables
  <2>5. Storage'
    BY <1>1, <1>5, <2>1, StorageCalm
  <2> QED
    BY <1>1, <1>5, <2>4, <2>5 DEF Tables
<1> QED
  BY <1>4, <1>5 DEF _post_llmgw

LEMMA FinishAccounts ==
  ASSUME JInv, NEW w \in Wires, finish_call(w)
  PROVE  Tables' /\ Accounts' /\ Storage'
<1> DEFINE a == wire[w].of
<1>1. /\ Typing /\ Tables /\ wire[w].at = "finish" /\ a \in Attempts
      /\ attempt[a].phase = "dispatching"
      /\ UNCHANGED <<attempt, body, objects, sweep, heard, served>>
  BY DEF finish_call, JInv, IInv, Typing, Granted, Sending, storage, known
<1>2. ~wire[w].confirmed /\ (wire[w].outcome = "upstream_refused" => call[a].scope = "llmgw")
  BY <1>1 DEF JInv, Accounts, WireAccounts, Late
<1>3. /\ \A b \in Attempts \ {a} : call'[b] = call[b]
      /\ \A b \in Attempts : call'[b].scope = call[b].scope /\ call'[b].usage = call[b].usage
      /\ call' \in [Attempts -> Call]
  <2> DEFINE status == CASE wire[w].outcome = "ok" -> "completed"
                         [] wire[w].outcome = "lost" -> "ambiguous"
                         [] OTHER -> "failed"
  <2>1. status \in {"none", "started", "completed", "failed", "ambiguous"}
    OBVIOUS
  <2>2. call' = call \/ call' = [call EXCEPT ![a].status = status]
    BY DEF finish_call
  <2> HIDE DEF status
  <2>3. CASE call' = call
    BY <1>1, <2>3 DEF Tables
  <2>4. CASE call' = [call EXCEPT ![a].status = status]
    <3>1. /\ \A b \in Attempts \ {a} : call'[b] = call[b]
          /\ call'[a] = [call[a] EXCEPT !.status = status]
      BY <1>1, <2>4 DEF Tables
    <3>2. call'[a].scope = call[a].scope /\ call'[a].usage = call[a].usage /\ call'[a] \in Call
      BY <1>1, <2>1, <3>1 DEF Tables, Call
    <3> QED
      BY <1>1, <2>4, <3>1, <3>2 DEF Tables
  <2> QED
    BY <2>2, <2>3, <2>4
<1>4. /\ \A v \in Wires \ {w} : wire'[v] = wire[v]
      /\ WireAccounts(w)'
      /\ \/ ~wire'[w].ledger /\ wire'[w].at \notin {"store", "put"}
         \/ /\ wire'[w].of = wire[w].of /\ wire'[w].ledger = wire[w].ledger
            /\ wire[w].at \notin {"none", "done", "put"}
            /\ wire'[w].at \notin {"none", "admit", "done", "put"}
            /\ wire'[w].at = "store" => wire[w].ledger
  <2>1. CASE wire' = Stopped(w)
    BY <1>1, <2>1, StoppedAccounts DEF Late
  <2>2. CASE wire' = Go(w, "close")
    <3>1. /\ wire'[w].at = "close" /\ wire'[w].confirmed = wire[w].confirmed
          /\ wire'[w].of = wire[w].of /\ wire'[w].ledger = wire[w].ledger
          /\ wire'[w].outcome = wire[w].outcome
          /\ \A v \in Wires \ {w} : wire'[v] = wire[v]
      BY <2>2, <1>1 DEF Go, Typing, Wire
    <3> QED
      BY <1>1, <1>2, <1>3, <3>1 DEF WireAccounts, Late
  <2> QED
    BY <2>1, <2>2 DEF finish_call
<1>5. Kept
  BY <1>1, <1>3 DEF Kept, confirmed_provider_accounting, ConfirmedTerminal, Closed, Settled
<1>6. \A v \in Wires : wire[v].at \in {"finish", "close"} => call'[wire[v].of].scope = call[wire[v].of].scope
  BY <1>1, <1>3 DEF Typing
<1>7. Accounts'
  BY <1>1, <1>4, <1>5, <1>6, AccountsStep DEF JInv, Accounts, Tables
<1>8. Storage'
  BY <1>1, <1>4, StorageCalm
<1> QED
  BY <1>1, <1>3, <1>7, <1>8 DEF Tables

LEMMA CloseAccounts ==
  ASSUME JInv, NEW w \in Wires, close_attempt(w)
  PROVE  Tables' /\ Accounts' /\ Storage'
<1> DEFINE a == wire[w].of
           reason == ClosingReason(wire[w].outcome)
           ended == [attempt EXCEPT ![a].phase = IF reason = "none" THEN "indeterminate" ELSE "closed",
                                    ![a].reason = reason]
           after == IF reason = "completed" THEN "charge"
                    ELSE IF wire[w].ledger THEN "store" ELSE "answer"
<1>1. /\ Typing /\ Tables /\ wire[w].at = "close" /\ a \in Attempts
      /\ attempt[a].phase = "dispatching"
      /\ reason # "none" => call[a].status = IF reason = "completed" THEN "completed" ELSE "failed"
      /\ UNCHANGED <<call, body, objects, sweep, heard, served>>
  BY DEF close_attempt, JInv, IInv, Typing, storage, known
<1>2. /\ ~wire[w].confirmed /\ (wire[w].outcome = "upstream_refused" => call[a].scope = "llmgw")
      /\ ~call[a].usage
  BY <1>1 DEF JInv, Accounts, WireAccounts, Late, Settled, Closed
<1>3. /\ reason = "completed" => wire[w].outcome = "ok"
      /\ reason \in Refusals => wire[w].outcome = reason
      /\ reason = "none" => wire[w].outcome \notin Refusals \cup {"ok"}
      /\ reason \in Refusals \cup {"none", "completed"}
  BY DEF ClosingReason, Refusals
<1>4. attempt' \in {attempt, ended}
  BY DEF close_attempt
<1>5. \A b \in Attempts : attempt'[b] = attempt[b] \/ attempt[b].phase = "dispatching"
  BY <1>1, <1>4 DEF Typing
<1>6. Kept
  BY <1>1, <1>5 DEF Kept, confirmed_provider_accounting, ConfirmedTerminal, Closed, Settled
<1>7. /\ \A v \in Wires \ {w} : wire'[v] = wire[v]
      /\ WireAccounts(w)'
      /\ \/ ~wire'[w].ledger /\ wire'[w].at \notin {"store", "put"}
         \/ /\ wire'[w].of = wire[w].of /\ wire'[w].ledger = wire[w].ledger
            /\ wire[w].at \notin {"none", "done", "put"}
            /\ wire'[w].at \notin {"none", "admit", "done", "put"}
            /\ wire'[w].at = "store" => wire[w].ledger
  <2>1. CASE wire' = Stopped(w)
    BY <1>1, <2>1, StoppedAccounts DEF Late
  <2>2. CASE attempt' = ended /\ wire' = [wire EXCEPT ![w].at = after, ![w].confirmed = reason \in Refusals]
    <3> HIDE DEF reason
    <3>1. /\ wire'[w].at = after /\ wire'[w].confirmed = (reason \in Refusals)
          /\ wire'[w].of = wire[w].of /\ wire'[w].ledger = wire[w].ledger
          /\ wire'[w].outcome = wire[w].outcome
          /\ \A v \in Wires \ {w} : wire'[v] = wire[v]
      BY <2>2, <1>1 DEF Typing, Wire
    <3>2. attempt'[a].phase = (IF reason = "none" THEN "indeterminate" ELSE "closed") /\ attempt'[a].reason = reason
      BY <2>2, <1>1 DEF Typing, Attempt
    <3>3. reason \in Refusals => reason # "completed" /\ reason # "none"
      BY DEF Refusals
    <3>4. reason \in Refusals => Closed(a, Refusals)' /\ confirmed_provider_accounting(a)'
      BY <1>1, <1>2, <1>3, <3>1, <3>2, <3>3 DEF Closed, confirmed_provider_accounting, ConfirmedTerminal, Tables, Call
    <3>5. reason = "completed" => Settled(a)'
      BY <1>1, <3>1, <3>2 DEF Settled, Closed
    <3>6. WireAccounts(w)'
      BY <1>2, <1>3, <3>1, <3>3, <3>4, <3>5 DEF WireAccounts, Late
    <3> QED
      BY <1>1, <3>1, <3>6
  <2> QED
    BY <2>1, <2>2 DEF close_attempt
<1>8. Accounts'
  BY <1>1, <1>6, <1>7, AccountsStep DEF JInv, Accounts, Tables
<1>9. Storage'
  BY <1>1, <1>7, StorageCalm
<1> QED
  BY <1>1, <1>8, <1>9 DEF Tables

LEMMA ChargeAccounts ==
  ASSUME JInv, NEW w \in Wires, charge(w)
  PROVE  Tables' /\ Accounts' /\ Storage'
<1> DEFINE a == wire[w].of
           after == IF wire[w].ledger THEN "store" ELSE "answer"
<1>1. /\ Typing /\ Tables /\ wire[w].at = "charge" /\ a \in Attempts
      /\ UNCHANGED <<attempt, body, objects, sweep, heard, served>>
  BY DEF charge, JInv, IInv, Typing, storage, known
<1>2. ~wire[w].confirmed /\ wire[w].outcome = "ok" /\ Settled(a)
  BY <1>1 DEF JInv, Accounts, WireAccounts, Late
<1>3. /\ \A b \in Attempts \ {a} : call'[b] = call[b]
      /\ \A b \in Attempts : call'[b].scope = call[b].scope /\ call'[b].status = call[b].status
      /\ call'[a].usage = call[a].usage \/ call'[a].usage
      /\ call' \in [Attempts -> Call]
  <2>1. CASE call' = call
    BY <1>1, <2>1 DEF Tables
  <2>2. CASE call' = [call EXCEPT ![a].usage = TRUE]
    <3>1. /\ \A b \in Attempts \ {a} : call'[b] = call[b]
          /\ call'[a] = [call[a] EXCEPT !.usage = TRUE]
      BY <1>1, <2>2 DEF Tables
    <3>2. call[a] \in Call
      BY <1>1 DEF Tables
    <3>3. /\ call'[a].scope = call[a].scope /\ call'[a].status = call[a].status
          /\ call'[a].usage /\ call'[a] \in Call
      BY <3>1, <3>2 DEF Call
    <3> QED
      BY <1>1, <2>2, <3>1, <3>3 DEF Tables
  <2> QED
    BY <2>1, <2>2 DEF charge
<1>4. Kept
  BY <1>1, <1>2, <1>3 DEF Kept, confirmed_provider_accounting, ConfirmedTerminal, Closed, Settled
<1>5. /\ \A v \in Wires \ {w} : wire'[v] = wire[v]
      /\ WireAccounts(w)'
      /\ \/ ~wire'[w].ledger /\ wire'[w].at \notin {"store", "put"}
         \/ /\ wire'[w].of = wire[w].of /\ wire'[w].ledger = wire[w].ledger
            /\ wire[w].at \notin {"none", "done", "put"}
            /\ wire'[w].at \notin {"none", "admit", "done", "put"}
            /\ wire'[w].at = "store" => wire[w].ledger
  <2>1. CASE wire' = Stopped(w)
    BY <1>1, <2>1, StoppedAccounts DEF Late
  <2>2. CASE /\ call' = [call EXCEPT ![a].usage = TRUE]
             /\ wire' = [wire EXCEPT ![w].confirmed = TRUE, ![w].at = after]
    <3>1. /\ wire'[w].at = after /\ wire'[w].confirmed
          /\ wire'[w].of = wire[w].of /\ wire'[w].ledger = wire[w].ledger
          /\ wire'[w].outcome = wire[w].outcome
          /\ \A v \in Wires \ {w} : wire'[v] = wire[v]
      BY <2>2, <1>1 DEF Typing, Wire
    <3>0. call'[a].usage = TRUE
      BY <1>1, <2>2 DEF Tables, Call
    <3>2. confirmed_provider_accounting(a)'
      BY <1>1, <1>2, <1>3, <3>0, <3>1 DEF confirmed_provider_accounting, ConfirmedTerminal, Closed, Settled
    <3>3. WireAccounts(w)'
      BY <1>2, <3>1, <3>2 DEF WireAccounts, Late, Refusals
    <3> QED
      BY <1>1, <3>1, <3>3
  <2> QED
    BY <2>1, <2>2 DEF charge
<1>6. \A v \in Wires : wire[v].at \in {"finish", "close"} => call'[wire[v].of].scope = call[wire[v].of].scope
  BY <1>1, <1>3 DEF Typing
<1>7. Accounts'
  BY <1>1, <1>4, <1>5, <1>6, AccountsStep DEF JInv, Accounts, Tables
<1>8. Storage'
  BY <1>1, <1>5, StorageCalm
<1> QED
  BY <1>1, <1>3, <1>7, <1>8 DEF Tables

-----------------------------------------------------------------------------
\* The steps that store the answer and give it.
LEMMA AdmitAccounts ==
  ASSUME JInv, NEW w \in Wires, admit_response(w)
  PROVE  Tables' /\ Accounts' /\ Storage'
<1> DEFINE a == wire[w].of
           admitted == [body EXCEPT ![a] = [NewBody EXCEPT !.state = "uploading", !.alloc = Initial]]
<1>1. /\ Typing /\ Tables /\ wire[w].at = "admit" /\ a \in Attempts
      /\ UNCHANGED <<attempt, call, objects, sweep, heard, served>>
  BY DEF admit_response, JInv, IInv, Typing, control, known
<1>2. ~wire[w].confirmed /\ ~wire[w].ledger
  BY <1>1 DEF JInv, Accounts, Storage, WireAccounts, WireStores, Late
<1>3. Kept
  BY <1>1, KeptAlone
<1>4. \/ body' = body /\ wire' = Stopped(w)
      \/ /\ body[a].state = "none" /\ body' = admitted
         /\ wire' = Stopped(w) \/ wire' = [wire EXCEPT ![w].at = "reserve", ![w].ledger = TRUE]
  BY DEF admit_response
<1>5. CASE body' = body /\ wire' = Stopped(w)
  <2>1. Accounts'
    BY <1>1, <1>3, <1>5, StoppedAccounts, AccountsStep DEF JInv, Accounts, Tables, Late
  <2>2. Storage'
    BY <1>1, <1>5, StoppedAccounts, StorageCalm DEF Late
  <2> QED
    BY <1>1, <1>5, <2>1, <2>2 DEF Tables
<1>6. CASE /\ body[a].state = "none" /\ body' = admitted
           /\ wire' = Stopped(w) \/ wire' = [wire EXCEPT ![w].at = "reserve", ![w].ledger = TRUE]
  <2>1. /\ body'[a].state = "uploading" /\ body'[a].used = 0 /\ body'[a].hold
        /\ \A b \in Attempts \ {a} : body'[b] = body[b]
        /\ body' \in [Attempts -> Body]
    BY <1>1, <1>6, Room DEF Tables, Body, NewBody
  <2>2. /\ \A v \in Wires \ {w} : wire'[v] = wire[v]
        /\ WireAccounts(w)'
        /\ wire'[w].at \notin {"none", "admit", "store", "put"}
        /\ wire'[w].ledger => wire'[w].of = a /\ wire'[w].at = "reserve"
    <3>1. CASE wire' = Stopped(w)
      BY <1>1, <1>2, <3>1, FinishedType, OverAccounts DEF Stopped
    <3>2. CASE wire' = [wire EXCEPT ![w].at = "reserve", ![w].ledger = TRUE]
      <4>1. /\ wire'[w].at = "reserve" /\ wire'[w].confirmed = wire[w].confirmed /\ wire'[w].of = a
            /\ \A v \in Wires \ {w} : wire'[v] = wire[v]
        BY <1>1, <3>2 DEF Typing, Wire
      <4> QED
        BY <1>2, <4>1 DEF WireAccounts, Late
    <3> QED
      BY <1>6, <3>1, <3>2
  <2>3. Accounts'
    BY <1>1, <1>3, <2>1, <2>2, AccountsStep DEF JInv, Accounts, Tables
  <2>4. \A v \in Wires : wire[v].ledger => wire[v].of \in Attempts \ {a}
    BY <1>1, <1>6 DEF JInv, Storage, WireStores, Typing
  <2>5. objects[a] = 0
    BY <1>1, <1>6 DEF JInv, Storage
  <2>6. ASSUME NEW v \in Wires
        PROVE  WireStores(v)'
    <3>1. CASE v = w
      BY <1>1, <2>1, <2>2, <2>5, <3>1 DEF WireStores
    <3>2. CASE v # w
      <4>1. wire'[v] = wire[v] /\ WireStores(v)
        BY <2>2, <3>2 DEF JInv, Storage
      <4> QED
        BY <1>1, <2>1, <2>4, <4>1 DEF WireStores
    <3> QED
      BY <3>1, <3>2
  <2>7. \A v, u \in Wires : wire'[v].ledger /\ wire'[u].ledger /\ wire'[v].of = wire'[u].of => v = u
    BY <2>2, <2>4 DEF JInv, Storage
  <2>8. \A b \in Attempts : /\ body'[b].state = "complete" => objects'[b] = body'[b].used
                            /\ body'[b].state = "none" => objects'[b] = 0
    BY <1>1, <2>1 DEF JInv, Storage
  <2>9. \A s \in Sweepers : sweep'[s] # NoAttempt => body'[sweep'[s]].state \in {"deleting", "deleted"}
    BY <1>1, <1>6, <2>1 DEF JInv, Storage, Tables
  <2>10. Storage'
    BY <2>6, <2>7, <2>8, <2>9 DEF Storage
  <2> QED
    BY <1>1, <2>1, <2>3, <2>10 DEF Tables
<1> QED
  BY <1>4, <1>5, <1>6

\* A part, a whole body or one given up: what a step of the writer has to show.
LEMMA WriterAccounts ==
  ASSUME JInv, NEW w \in Wires, NEW a \in Attempts, wire[w].of = a, wire[w].at \in {"store", "put"},
         UNCHANGED <<attempt, call, sweep, heard, served>>,
         body' \in [Attempts -> Body], objects' \in [Attempts -> Nat],
         \A b \in Attempts \ {a} : body'[b] = body[b] /\ objects'[b] = objects[b],
         body'[a].hold = body[a].hold,
         body[a].state = "uploading",
         body'[a].state \in {"uploading", "complete", "indeterminate"},
         body'[a].state = "complete" => objects'[a] = body'[a].used,
         \/ wire' = Finished(w)
         \/ \E step \in {"store", "put", "reconcile", "answer"} :
              /\ wire' = Go(w, step)
              /\ step = "reconcile" => wire[w].confirmed
              /\ step = "put" => body'[a].state = "uploading" /\ body'[a].used = objects'[a] + 1
              /\ step # "put" /\ body'[a].state = "uploading" => objects'[a] = body'[a].used
  PROVE  Tables' /\ Accounts' /\ Storage'
<1>1. Typing /\ Tables /\ WireAccounts(w) /\ WireStores(w)
  BY DEF JInv, IInv, Accounts, Storage
<1>2. wire[w].ledger
  BY <1>1 DEF WireStores
<1>3. Kept
  BY KeptAlone
<1>4. /\ \A v \in Wires \ {w} : wire'[v] = wire[v]
      /\ WireAccounts(w)' /\ WireStores(w)' /\ (wire'[w].ledger => wire'[w].of = a)
  <2>1. CASE wire' = Finished(w)
    <3>1. wire'[w] = Over /\ ~wire'[w].ledger /\ wire'[w].at \notin {"store", "put"}
          /\ WireAccounts(w)' /\ \A v \in Wires \ {w} : wire'[v] = wire[v]
      BY <1>1, <2>1, FinishedType, OverAccounts
    <3> QED
      BY <3>1 DEF WireStores
  <2>2. ASSUME NEW step \in {"store", "put", "reconcile", "answer"}, wire' = Go(w, step),
               step = "reconcile" => wire[w].confirmed,
               step = "put" => body'[a].state = "uploading" /\ body'[a].used = objects'[a] + 1,
               step # "put" /\ body'[a].state = "uploading" => objects'[a] = body'[a].used
        PROVE  /\ \A v \in Wires \ {w} : wire'[v] = wire[v]
               /\ WireAccounts(w)' /\ WireStores(w)' /\ (wire'[w].ledger => wire'[w].of = a)
    <3>1. /\ wire'[w].at = step /\ wire'[w].confirmed = wire[w].confirmed
          /\ wire'[w].of = wire[w].of /\ wire'[w].ledger = wire[w].ledger
          /\ wire'[w].outcome = wire[w].outcome
          /\ \A v \in Wires \ {w} : wire'[v] = wire[v]
      BY <1>1, <2>2 DEF Go, Typing, Wire
    <3>2. WireAccounts(w)'
      BY <1>1, <1>3, <2>2, <3>1 DEF WireAccounts, Late, Kept
    <3>3. WireStores(w)'
      BY <1>1, <1>2, <2>2, <3>1 DEF WireStores
    <3> QED
      BY <3>1, <3>2, <3>3
  <2> QED
    BY <2>1, <2>2
<1>5. Tables'
  BY <1>1 DEF Tables
<1>6. Accounts'
  BY <1>1, <1>3, <1>4, AccountsStep DEF JInv, Accounts, Tables
<1>7. Storage'
  BY <1>1, <1>2, <1>4, StorageWrite
<1> QED
  BY <1>5, <1>6, <1>7

\* A body that is given up keeps what it says of its parts.
LEMMA GivenUpType ==
  ASSUME Tables, NEW a \in Attempts, body[a].state = "uploading", body' = GivenUp(a)
  PROVE  /\ body' \in [Attempts -> Body]
         /\ \A b \in Attempts \ {a} : body'[b] = body[b]
         /\ body'[a].hold = body[a].hold /\ body'[a].state = "indeterminate"
BY DEF GivenUp, Tables, Body

LEMMA ReserveAccounts ==
  ASSUME JInv, NEW w \in Wires, ReservePart(w)
  PROVE  Tables' /\ Accounts' /\ Storage'
<1> DEFINE a == wire[w].of
           extra == MoreRoom(body[a])
           larger == [body EXCEPT ![a].used = @ + 1, ![a].alloc = @ + extra]
<1>1. /\ Typing /\ Tables /\ wire[w].at = "store" /\ a \in Attempts /\ body[a].state = "uploading"
      /\ UNCHANGED <<attempt, call, objects, sweep, heard, served>>
  BY DEF ReservePart, JInv, IInv, Typing, control, known
<1>2. objects[a] = body[a].used
  BY <1>1 DEF JInv, Storage, WireStores
<1>3. extra \in Nat
  BY <1>1 DEF MoreRoom, Tables, Body
<1> HIDE DEF extra
<1>4. \/ body' = larger /\ wire' = Go(w, "put")
      \/ body' = GivenUp(a) /\ wire' = Finished(w)
      \/ body' = [larger EXCEPT ![a].state = "indeterminate"] /\ wire' = Finished(w)
  BY DEF ReservePart, extra
<1>5. CASE body' = GivenUp(a) /\ wire' = Finished(w)
  BY <1>1, <1>5, GivenUpType, WriterAccounts DEF Tables
<1>6. CASE body' = larger /\ wire' = Go(w, "put")
  <2>1. /\ body' \in [Attempts -> Body]
        /\ \A b \in Attempts \ {a} : body'[b] = body[b]
        /\ body'[a].hold = body[a].hold /\ body'[a].state = "uploading"
        /\ body'[a].used = body[a].used + 1
    BY <1>1, <1>3, <1>6 DEF Tables, Body
  <2>2. body'[a].used = objects'[a] + 1
    BY <1>1, <1>2, <2>1
  <2> QED
    BY <1>1, <1>6, <2>1, <2>2, WriterAccounts DEF Tables
<1>7. CASE body' = [larger EXCEPT ![a].state = "indeterminate"] /\ wire' = Finished(w)
  <2>1. /\ body' \in [Attempts -> Body]
        /\ \A b \in Attempts \ {a} : body'[b] = body[b]
        /\ body'[a].hold = body[a].hold /\ body'[a].state = "indeterminate"
    <3> DEFINE row == [body[a] EXCEPT !.used = @ + 1, !.alloc = @ + extra, !.state = "indeterminate"]
    <3>1. body \in [Attempts -> Body] /\ body[a] \in Body
      BY <1>1 DEF Tables
    <3>2. row \in Body /\ row.hold = body[a].hold /\ row.state = "indeterminate"
      <4>1. body[a].used + 1 \in Nat /\ body[a].alloc + extra \in Nat
        BY <1>3, <3>1 DEF Body
      <4>2. row = [body[a] EXCEPT !.used = body[a].used + 1, !.alloc = body[a].alloc + extra,
                                  !.state = "indeterminate"]
        BY <3>1 DEF Body
      <4> QED
        BY <3>1, <4>1, <4>2 DEF Body
    <3>3. body' = [body EXCEPT ![a] = row]
      BY <1>1, <1>7, <3>1
    <3> QED
      BY <1>1, <3>1, <3>2, <3>3
  <2> QED
    BY <1>1, <1>7, <2>1, WriterAccounts DEF Tables
<1> QED
  BY <1>4, <1>5, <1>6, <1>7

LEMMA PutAccounts ==
  ASSUME JInv, NEW w \in Wires, PutPart(w)
  PROVE  Tables' /\ Accounts' /\ Storage'
<1> DEFINE a == wire[w].of
           more == [objects EXCEPT ![a] = @ + 1]
<1>1. /\ Typing /\ Tables /\ wire[w].at = "put" /\ a \in Attempts
      /\ UNCHANGED <<attempt, call, sweep, heard, served>>
  BY DEF PutPart, JInv, IInv, Typing, control, known
<1>2. body[a].state = "uploading" /\ body[a].used = objects[a] + 1
  BY <1>1 DEF JInv, Storage, WireStores
<1>3. more \in [Attempts -> Nat] /\ more[a] = objects[a] + 1 /\ \A b \in Attempts \ {a} : more[b] = objects[b]
  BY <1>1 DEF Tables
<1>4. \/ objects' = more /\ body' = [body EXCEPT ![a].stored = @ + 1] /\ wire' = Go(w, "store")
      \/ objects' \in {objects, more} /\ body' = GivenUp(a) /\ wire' = Finished(w)
  BY DEF PutPart
<1>5. CASE objects' = more /\ body' = [body EXCEPT ![a].stored = @ + 1] /\ wire' = Go(w, "store")
  <2>1. /\ body' \in [Attempts -> Body]
        /\ \A b \in Attempts \ {a} : body'[b] = body[b]
        /\ body'[a].hold = body[a].hold /\ body'[a].state = "uploading"
        /\ body'[a].used = body[a].used
    BY <1>1, <1>2, <1>5 DEF Tables, Body
  <2>2. objects'[a] = body'[a].used
    BY <1>2, <1>3, <1>5, <2>1
  <2> QED
    BY <1>1, <1>2, <1>3, <1>5, <2>1, <2>2, WriterAccounts
<1>6. CASE objects' \in {objects, more} /\ body' = GivenUp(a) /\ wire' = Finished(w)
  <2>1. objects' \in [Attempts -> Nat] /\ \A b \in Attempts \ {a} : objects'[b] = objects[b]
    BY <1>1, <1>3, <1>6 DEF Tables
  <2> QED
    BY <1>1, <1>2, <1>6, <2>1, GivenUpType, WriterAccounts
<1> QED
  BY <1>4, <1>5, <1>6

LEMMA CompleteAccounts ==
  ASSUME JInv, NEW w \in Wires, CompleteBody(w)
  PROVE  Tables' /\ Accounts' /\ Storage'
<1> DEFINE a == wire[w].of
           whole == [body EXCEPT ![a].state = "complete", ![a].alloc = body[a].used]
<1>1. /\ Typing /\ Tables /\ wire[w].at = "store" /\ a \in Attempts /\ body[a].state = "uploading"
      /\ UNCHANGED <<attempt, call, objects, sweep, heard, served>>
  BY DEF CompleteBody, JInv, IInv, Typing, control, known
<1>2. objects[a] = body[a].used
  BY <1>1 DEF JInv, Storage, WireStores
<1>3. \/ body' = whole /\ wire' \in {Go(w, IF wire[w].confirmed THEN "reconcile" ELSE "answer"), Finished(w)}
      \/ body' = GivenUp(a) /\ wire' = Finished(w)
  BY DEF CompleteBody
<1>4. CASE body' = GivenUp(a) /\ wire' = Finished(w)
  BY <1>1, <1>4, GivenUpType, WriterAccounts DEF Tables
<1>5. CASE body' = whole /\ wire' \in {Go(w, IF wire[w].confirmed THEN "reconcile" ELSE "answer"), Finished(w)}
  <2>1. /\ body' \in [Attempts -> Body]
        /\ \A b \in Attempts \ {a} : body'[b] = body[b]
        /\ body'[a].hold = body[a].hold /\ body'[a].state = "complete"
        /\ body'[a].used = body[a].used
    BY <1>1, <1>5 DEF Tables, Body
  <2>2. objects'[a] = body'[a].used
    BY <1>1, <1>2, <2>1
  <2>3. \/ wire' = Finished(w)
        \/ wire[w].confirmed /\ wire' = Go(w, "reconcile")
        \/ wire' = Go(w, "answer")
    BY <1>5
  <2> QED
    BY <1>1, <2>1, <2>2, <2>3, WriterAccounts DEF Tables
<1> QED
  BY <1>3, <1>4, <1>5

\* The hold is released by a task that says its accounting is confirmed: it is.
LEMMA ReleaseAccounts ==
  ASSUME JInv, NEW w \in Wires, ReleaseHold(w)
  PROVE  Tables' /\ Accounts' /\ Storage'
<1> DEFINE a == wire[w].of
           released == [body EXCEPT ![a].hold = FALSE]
<1>1. /\ Typing /\ Tables /\ wire[w].at = "reconcile" /\ a \in Attempts
      /\ UNCHANGED <<attempt, call, objects, sweep, heard, served>>
  BY DEF ReleaseHold, JInv, IInv, Typing, control, known
<1>2. wire[w].confirmed /\ confirmed_provider_accounting(a)
      /\ (wire[w].outcome \in Refusals => Closed(a, Refusals))
  BY <1>1 DEF JInv, Accounts, WireAccounts, Late
<1>3. Kept
  BY <1>1, KeptAlone
<1>4. body' \in {body, released} /\ wire' \in {Go(w, "answer"), Finished(w)}
  BY DEF ReleaseHold
<1>5. /\ body' \in [Attempts -> Body]
      /\ \A b \in Attempts \ {a} : body'[b] = body[b]
      /\ \A b \in Attempts : body'[b].state = body[b].state /\ body'[b].used = body[b].used
      /\ body'[a].hold = body[a].hold \/ body'[a].hold = FALSE
  <2>1. CASE body' = body
    BY <1>1, <2>1 DEF Tables
  <2>2. CASE body' = released
    <3>1. /\ \A b \in Attempts \ {a} : body'[b] = body[b]
          /\ body'[a] = [body[a] EXCEPT !.hold = FALSE]
      BY <1>1, <2>2 DEF Tables
    <3>0. body[a] \in Body
      BY <1>1 DEF Tables
    <3> HIDE DEF a
    <3>2. /\ body'[a].state = body[a].state /\ body'[a].used = body[a].used
          /\ body'[a].hold = FALSE /\ body'[a] \in Body
      BY <3>0, <3>1 DEF Body
    <3> QED
      BY <1>1, <2>2, <3>1, <3>2 DEF Tables
  <2> QED
    BY <1>4, <2>1, <2>2
<1>6. /\ \A v \in Wires \ {w} : wire'[v] = wire[v]
      /\ WireAccounts(w)'
      /\ \/ ~wire'[w].ledger /\ wire'[w].at \notin {"store", "put"}
         \/ /\ wire'[w].of = wire[w].of /\ wire'[w].ledger = wire[w].ledger /\ wire'[w].at = "answer"
  <2>1. CASE wire' = Finished(w)
    BY <1>1, <2>1, FinishedType, OverAccounts
  <2>2. CASE wire' = Go(w, "answer")
    <3>1. /\ wire'[w].at = "answer" /\ wire'[w].confirmed = wire[w].confirmed
          /\ wire'[w].of = wire[w].of /\ wire'[w].ledger = wire[w].ledger
          /\ wire'[w].outcome = wire[w].outcome
          /\ \A v \in Wires \ {w} : wire'[v] = wire[v]
      BY <1>1, <2>2 DEF Go, Typing, Wire
    <3> QED
      BY <1>1, <1>2, <1>3, <3>1 DEF WireAccounts, Late, Kept
  <2> QED
    BY <1>4, <2>1, <2>2
<1>7. Accounts'
  BY <1>1, <1>2, <1>3, <1>5, <1>6, AccountsStep DEF JInv, Accounts, Tables, Kept
<1>8. Storage'
  BY <1>1, <1>5, <1>6, StorageCalm
<1> QED
  BY <1>1, <1>5, <1>7, <1>8 DEF Tables

LEMMA AnswerAccounts ==
  ASSUME JInv, NEW w \in Wires, Answer(w)
  PROVE  Tables' /\ Accounts' /\ Storage'
<1> DEFINE a == wire[w].of
<1>1. /\ Typing /\ Tables /\ wire[w].at = "answer" /\ a \in Attempts
      /\ UNCHANGED <<attempt, call, body, objects, sweep>> /\ wire' = Finished(w)
  BY DEF Answer, JInv, IInv, Typing, control, storage
<1>2. wire[w].outcome \in Refusals \cup {"ok"} => confirmed_provider_accounting(a)
      /\ (wire[w].outcome \in Refusals => Closed(a, Refusals))
  BY <1>1 DEF JInv, Accounts, WireAccounts, Late
<1>3. Kept
  BY <1>1, KeptAlone
<1>4. /\ WireAccounts(w)' /\ ~wire'[w].ledger /\ wire'[w].at \notin {"store", "put"}
      /\ \A v \in Wires \ {w} : wire'[v] = wire[v]
  BY <1>1, FinishedType, OverAccounts
<1>5. /\ heard' = heard \/ (wire[w].outcome \in Refusals /\ heard' = heard \cup {a})
      /\ served' = served \/ (wire[w].outcome = "ok" /\ served' = served \cup {a})
  BY DEF Answer, known
<1>6. /\ heard' \subseteq Attempts /\ served' \subseteq Attempts
      /\ \A b \in heard' \cup served' : b \in heard \cup served \/ confirmed_provider_accounting(b)'
      /\ \A b \in heard' : b \in heard \/ Closed(b, Refusals)'
  BY <1>1, <1>2, <1>3, <1>5 DEF Tables, Kept
<1>7. Accounts'
  BY <1>1, <1>3, <1>4, <1>6, AccountsStep DEF JInv, Accounts
<1>8. Storage'
  BY <1>1, <1>4, StorageCalm
<1> QED
  BY <1>1, <1>6, <1>7, <1>8 DEF Tables

-----------------------------------------------------------------------------
\* What the API reads, the sweep, the end of the run and the death of the gateway.

LEMMA LoadAccounts ==
  ASSUME JInv, NEW a \in Attempts, load_generation_response(a)
  PROVE  Tables' /\ Accounts' /\ Storage'
<1>1. UNCHANGED <<attempt, call, body, objects, wire, sweep>> /\ Readable(a)
  BY DEF load_generation_response, control, storage
<1>2. ~body[a].hold /\ Closed(a, Refusals \cup {"completed"})
  BY <1>1 DEF Readable, NotHeld
<1>3. confirmed_provider_accounting(a)
  BY <1>2 DEF JInv, Accounts
<1>4. attempt[a].reason \in Refusals => Closed(a, Refusals)
  BY <1>2 DEF Closed
<1>5. Kept
  BY <1>1, KeptAlone
<1>6. /\ heard' \subseteq Attempts /\ served' \subseteq Attempts
      /\ \A b \in heard' \cup served' : b \in heard \cup served \/ confirmed_provider_accounting(b)'
      /\ \A b \in heard' : b \in heard \/ Closed(b, Refusals)'
  BY <1>3, <1>4, <1>5 DEF load_generation_response, JInv, Tables, Kept
<1>7. \A v \in Wires : wire'[v] = wire[v] /\ call'[wire[v].of].scope = call[wire[v].of].scope
  BY <1>1
<1>8. Accounts'
  BY <1>1, <1>5, <1>6, <1>7, AccountsStep DEF JInv, Accounts
<1>9. Storage'
  BY <1>1, <1>7, StorageCalm
<1> QED
  BY <1>1, <1>6, <1>8, <1>9 DEF JInv, Tables

LEMMA ReconcileAccounts ==
  ASSUME JInv, NEW a \in Attempts, reconcile_generation_response(a)
  PROVE  Tables' /\ Accounts' /\ Storage'
<1>1. /\ UNCHANGED <<attempt, call, objects, wire, sweep, heard, served>> /\ Tables
      /\ confirmed_provider_accounting(a) /\ body' = [body EXCEPT ![a].hold = FALSE]
  BY DEF reconcile_generation_response, control, known, JInv
<1>2. Kept
  BY <1>1, KeptAlone
<1>3. /\ body' \in [Attempts -> Body]
      /\ \A b \in Attempts \ {a} : body'[b] = body[b]
      /\ \A b \in Attempts : body'[b].state = body[b].state /\ body'[b].used = body[b].used
      /\ body'[a].hold = FALSE
  <2>1. /\ \A b \in Attempts \ {a} : body'[b] = body[b]
        /\ body'[a] = [body[a] EXCEPT !.hold = FALSE]
    BY <1>1 DEF Tables
  <2>2. /\ body'[a].state = body[a].state /\ body'[a].used = body[a].used
        /\ body'[a].hold = FALSE /\ body'[a] \in Body
    BY <1>1, <2>1 DEF Tables, Body
  <2> QED
    BY <1>1, <2>1, <2>2 DEF Tables
<1>4. \A v \in Wires : wire'[v] = wire[v] /\ call'[wire[v].of].scope = call[wire[v].of].scope
  BY <1>1
<1>5. Accounts'
  BY <1>1, <1>2, <1>3, <1>4, AccountsStep DEF JInv, Accounts, Tables, Kept
<1>6. Storage'
  BY <1>1, <1>3, <1>4, StorageCalm
<1> QED
  BY <1>1, <1>3, <1>5, <1>6 DEF Tables

\* Neither the end of the run nor a stutter touches an account or a body.
LEMMA QuietAccounts ==
  ASSUME JInv, EndRun \/ UNCHANGED vars
  PROVE  Tables' /\ Accounts' /\ Storage'
<1>1. UNCHANGED <<attempt, call, body, objects, wire, sweep, heard, served>>
  BY DEF EndRun, vars, control, storage, known
<1>2. Kept
  BY <1>1, KeptAlone
<1>3. \A v \in Wires : wire'[v] = wire[v] /\ call'[wire[v].of].scope = call[wire[v].of].scope
  BY <1>1
<1>4. Accounts'
  BY <1>1, <1>2, <1>3, AccountsStep DEF JInv, Accounts, Tables
<1>5. Storage'
  BY <1>1, <1>3, StorageCalm
<1> QED
  BY <1>1, <1>4, <1>5 DEF JInv, Tables

LEMMA DeathAccounts ==
  ASSUME JInv, GatewayDies
  PROVE  Tables' /\ Accounts' /\ Storage'
<1>1. UNCHANGED <<attempt, call, body, objects, heard, served>> /\ sweep' = [s \in Sweepers |-> NoAttempt]
  BY DEF GatewayDies, control, storage, known
<1>2. \A v \in Wires : wire'[v] = wire[v] \/ wire'[v] = Over
  BY DEF GatewayDies
<1>3. \A v \in Wires : WireAccounts(v)' \/ wire'[v] = wire[v]
  BY <1>2, OverAccounts
<1>4. Kept
  BY <1>1, KeptAlone
<1>5. Accounts'
  BY <1>1, <1>3, <1>4, AccountsStep DEF JInv, Accounts, Tables
<1>6. Storage'
  <2>1. \A v \in Wires : WireStores(v)' /\ (wire'[v].ledger => wire'[v] = wire[v])
    <3> SUFFICES ASSUME NEW v \in Wires
                 PROVE  WireStores(v)' /\ (wire'[v].ledger => wire'[v] = wire[v])
      OBVIOUS
    <3>1. CASE wire'[v] = wire[v]
      BY <1>1, <3>1 DEF WireStores, JInv, Storage
    <3>2. CASE wire'[v] = Over
      BY <3>2, OverAccounts DEF WireStores
    <3> QED
      BY <1>2, <3>1, <3>2
  <2> QED
    BY <1>1, <2>1 DEF JInv, Storage
<1> QED
  BY <1>1, <1>5, <1>6 DEF JInv, Tables

\* A body is claimed, emptied and forgotten only after its hold was released.
LEMMA CleanupAccounts ==
  ASSUME JInv, NEW s \in Sweepers, Cleanup(s)
  PROVE  Tables' /\ Accounts' /\ Storage'
<1>1. UNCHANGED <<attempt, call, wire, heard, served>> /\ Typing /\ Tables
  BY DEF Cleanup, _claim, DeleteObject, ReturnRoom, JInv, IInv, control, known
<1>2. Kept
  BY <1>1, KeptAlone
<1>3. \A v \in Wires : wire'[v] = wire[v] /\ call'[wire[v].of].scope = call[wire[v].of].scope
  BY <1>1
<1>4. ASSUME NEW a \in Attempts, _claim(s, a)
      PROVE  Tables' /\ Accounts' /\ Storage'
  <2>1. /\ body[a].state \in {"complete", "deleting"} /\ ~body[a].hold /\ objects' = objects
        /\ body' = [body EXCEPT ![a].state = "deleting"] /\ sweep' = [sweep EXCEPT ![s] = a]
    BY <1>4 DEF _claim
  <2>2. /\ body' \in [Attempts -> Body]
        /\ \A b \in Attempts \ {a} : body'[b] = body[b]
        /\ body'[a].state = "deleting" /\ body'[a].hold = body[a].hold
    BY <1>1, <2>1 DEF Tables, Body
  <2>3. sweep' \in [Sweepers -> Attempts \cup {NoAttempt}] /\ \A u \in Sweepers : sweep'[u] \in {sweep[u], a}
    BY <1>1, <2>1 DEF Tables
  <2>4. Accounts'
    BY <1>1, <1>2, <1>3, <2>1, <2>2, AccountsStep DEF JInv, Accounts, Tables
  <2>5. Storage'
    BY <1>1, <2>1, <2>2, <2>3, StorageSweep
  <2> QED
    BY <1>1, <2>1, <2>2, <2>3, <2>4, <2>5 DEF Tables
<1>5. CASE DeleteObject(s)
  <2> DEFINE a == sweep[s]
  <2>1. /\ a \in Attempts /\ objects[a] > 0 /\ body' = body
        /\ body[a].state \in {"deleting", "deleted"}
    BY <1>1, <1>5 DEF DeleteObject, Tables, JInv, Storage
  <2>2. /\ objects' \in [Attempts -> Nat]
        /\ \A b \in Attempts \ {a} : objects'[b] = objects[b]
    BY <1>1, <1>5, <2>1 DEF DeleteObject, Tables
  <2>3. /\ sweep' \in [Sweepers -> Attempts \cup {NoAttempt}]
        /\ \A u \in Sweepers : sweep'[u] \in {NoAttempt, sweep[u], a}
    BY <1>1, <1>5 DEF DeleteObject, Tables
  <2>4. Accounts'
    BY <1>1, <1>2, <1>3, <2>1, AccountsStep DEF JInv, Accounts, Tables
  <2>5. Storage'
    BY <1>1, <2>1, <2>2, <2>3, StorageSweep
  <2> QED
    BY <1>1, <2>1, <2>2, <2>3, <2>4, <2>5 DEF Tables
<1>6. CASE ReturnRoom(s)
  <2> DEFINE a == sweep[s]
             empty == [NewBody EXCEPT !.state = "deleted", !.hold = FALSE]
  <2>1. /\ a \in Attempts /\ objects' = objects
        /\ body[a].state \in {"deleting", "deleted"}
        /\ sweep' = [sweep EXCEPT ![s] = NoAttempt]
        /\ body' = body \/ (body[a].state = "deleting" /\ body' = [body EXCEPT ![a] = empty])
    BY <1>1, <1>6 DEF ReturnRoom, Tables, JInv, Storage
  <2>2. empty \in Body /\ empty.state = "deleted" /\ ~empty.hold
    BY DEF NewBody, Body
  <2> HIDE DEF empty
  <2>3. /\ body' \in [Attempts -> Body]
        /\ \A b \in Attempts \ {a} : body'[b] = body[b]
        /\ body'[a].state \in {"deleting", "deleted"}
        /\ \/ body'[a] = body[a]
           \/ body[a].state = "deleting" /\ body'[a] = empty
    BY <1>1, <2>1, <2>2 DEF Tables
  <2>4. /\ sweep' \in [Sweepers -> Attempts \cup {NoAttempt}]
        /\ \A u \in Sweepers : sweep'[u] \in {NoAttempt, sweep[u], a}
    BY <1>1, <2>1 DEF Tables
  <2>5. body[a].state = "deleting" => ~body[a].hold /\ confirmed_provider_accounting(a)
    BY <2>1 DEF JInv, Accounts
  <2>6. /\ \A b \in Attempts : ~body'[b].hold => ~body[b].hold \/ confirmed_provider_accounting(b)'
        /\ \A b \in Attempts : body'[b].state = "deleting" => ~body'[b].hold
    BY <1>2, <2>1, <2>2, <2>3, <2>5 DEF Kept, JInv, Accounts
  <2>7. Accounts'
    BY <1>1, <1>2, <1>3, <2>6, AccountsStep DEF JInv, Accounts, Tables
  <2>8. Storage'
    BY <1>1, <2>1, <2>3, <2>4, StorageSweep
  <2> QED
    BY <1>1, <2>1, <2>3, <2>4, <2>7, <2>8 DEF Tables
<1> QED
  BY <1>4, <1>5, <1>6 DEF Cleanup

-----------------------------------------------------------------------------
LEMMA InitJInv ==
  ASSUME Init
  PROVE  JInv
<1>1. /\ NewWire \in Wire /\ NewWire.at = "none" /\ ~NewWire.ledger /\ ~NewWire.confirmed
      /\ NewBody \in Body /\ NewBody.state = "none" /\ NewBody.hold
  BY DEF NewWire, Wire, Steps, Outcomes, NewBody, Body
<1>2. IInv
  BY InitIInv
<1>3. Tables
  BY <1>1 DEF Init, Tables, Call, Scopes
<1>4. Accounts
  BY <1>1 DEF Init, Accounts, WireAccounts, Late
<1>5. Storage
  BY <1>1 DEF Init, Storage, WireStores
<1> QED
  BY <1>2, <1>3, <1>4, <1>5 DEF JInv

LEMMA NextJInv ==
  ASSUME JInv, [Next]_vars
  PROVE  JInv'
<1>1. IInv'
  BY NextIInv DEF JInv
<1>2. Tables' /\ Accounts' /\ Storage'
  BY PrepareAccounts, AdmitAccounts, TokenAccounts, MarkAccounts, PostAccounts, FinishAccounts,
     CloseAccounts, ChargeAccounts, ReserveAccounts, PutAccounts, CompleteAccounts, ReleaseAccounts,
     AnswerAccounts, LoadAccounts, ReconcileAccounts, QuietAccounts, DeathAccounts, CleanupAccounts
     DEF Next, Dispatch, Account, Store
<1> QED
  BY <1>1, <1>2 DEF JInv

\* An answer the API has, or may read, is whole and accounted for, and a refusal it
\* knows of cost nothing (generation_response_ledger.py's reconciliation hold): for
\* any number of attempts, requests, cleanup loops and faults.
THEOREM AnswersAreAccounted == Spec => []ServedIsAccounted
<1>1. JInv => ServedIsAccounted
  <2> SUFFICES ASSUME JInv, NEW a \in Attempts
               PROVE  /\ Readable(a) => objects[a] = body[a].used
                      /\ Readable(a) \/ a \in served \cup heard => confirmed_provider_accounting(a)
                      /\ a \in heard => a \notin paid
    BY DEF ServedIsAccounted, JInv, Tables
  <2>1. Readable(a) => objects[a] = body[a].used
    BY DEF Readable, JInv, Storage
  <2>2. Readable(a) \/ a \in served \cup heard => confirmed_provider_accounting(a)
    BY DEF Readable, NotHeld, JInv, Accounts
  <2>3. a \in heard => a \notin paid
    BY DEF JInv, Accounts, IInv, RefusalIsFree
  <2> QED
    BY <2>1, <2>2, <2>3
<1> QED
  BY <1>1, InitJInv, NextJInv, PTL DEF Spec

-----------------------------------------------------------------------------
\* The room of the bucket.

\* What the bodies hold together.
Allocated(t) == SumOf([a \in Attempts |-> t[a].alloc], Attempts)

\* The objects of a body are within its room, and a body that was never admitted has none.
Within(a) ==
  /\ objects[a] <= body[a].used /\ body[a].used <= body[a].alloc
  /\ body[a].state = "none" => body[a].alloc = 0 /\ body[a].used = 0

Budgeted == budget \in 0..Quota /\ budget = Allocated(body) /\ \A a \in Attempts : Within(a)

\* The types JInv does not speak of.
Rest ==
  /\ run \in {"running", "over"} /\ retention \in BOOLEAN
  /\ posts \in [Attempts -> 0..MaxWires] /\ faults \in 0..MaxFaults

KInv == JInv /\ Budgeted /\ Rest

\* The number of attempts is finite.
LEMMA AttemptsFinite == IsFiniteSet(Attempts)
BY FS_Interval, RequestBounds DEF Attempts

\* The sum the property is stated with.
LEMMA AllocatedIs == MapThenSumSet(LAMBDA a : body[a].alloc, Attempts) = Allocated(body)
BY DEF MapThenSumSet, MapThenFoldSet, Allocated, SumOf, Sums, First

\* One body changes.
LEMMA AllocatedChange ==
  \A t, u \in [Attempts -> Body] : \A a \in Attempts :
    (\A b \in Attempts \ {a} : u[b] = t[b]) =>
      /\ Allocated(t) \in Nat /\ Allocated(u) \in Nat /\ t[a].alloc <= Allocated(t)
      /\ Allocated(u) + t[a].alloc = Allocated(t) + u[a].alloc
<1> TAKE t, u \in [Attempts -> Body]
<1> TAKE a \in Attempts
<1> HAVE \A b \in Attempts \ {a} : u[b] = t[b]
<1> DEFINE f == [b \in Attempts |-> t[b].alloc]
           g == [b \in Attempts |-> u[b].alloc]
<1>1. \A b \in Attempts : f[b] \in Nat /\ g[b] \in Nat /\ f[b] = t[b].alloc /\ g[b] = u[b].alloc
  BY DEF Body
<1>2. \A b \in Attempts \ {a} : f[b] = g[b]
  OBVIOUS
<1> HIDE DEF f, g
<1>0. IsFiniteSet(Attempts) /\ \A b \in Attempts : f[b] \in Nat /\ g[b] \in Nat
  BY <1>1, AttemptsFinite
<1>3. SumOf(f, Attempts) + g[a] = SumOf(g, Attempts) + f[a]
      /\ SumOf(f, Attempts) \in Nat /\ SumOf(g, Attempts) \in Nat
  BY <1>0, <1>2, SumChanged
<1>4. f[a] <= SumOf(f, Attempts)
  BY <1>1, AttemptsFinite, SumBounds
<1> QED
  BY <1>1, <1>3, <1>4 DEF Allocated, f, g

\* A step on one body, which reserves or gives back what that body takes more or less.
LEMMA BudgetStep ==
  ASSUME KInv, Tables', NEW a \in Attempts,
         \A b \in Attempts \ {a} : body'[b] = body[b] /\ objects'[b] = objects[b],
         budget' \in 0..Quota, budget' + body[a].alloc = budget + body'[a].alloc,
         Within(a)'
  PROVE  Budgeted'
<1>1. Tables /\ budget = Allocated(body) /\ \A b \in Attempts : Within(b)
  BY DEF KInv, JInv, Budgeted
<1>2. body \in [Attempts -> Body] /\ body' \in [Attempts -> Body]
  BY <1>1 DEF Tables
<1>3. /\ Allocated(body) \in Nat /\ Allocated(body') \in Nat
      /\ Allocated(body') + body[a].alloc = Allocated(body) + body'[a].alloc
  BY <1>2, AllocatedChange
<1>4. budget' = Allocated(body')
  <2>1. body[a].alloc \in Nat /\ body'[a].alloc \in Nat
    BY <1>2 DEF Body
  <2> QED
    BY <1>1, <1>3, <2>1
<1>5. \A b \in Attempts : Within(b)'
  BY <1>1 DEF Within
<1> QED
  BY <1>4, <1>5 DEF Budgeted

\* A step that touches neither bodies nor objects.
LEMMA BudgetCalm ==
  ASSUME KInv, UNCHANGED <<body, budget, objects>>
  PROVE  Budgeted'
BY DEF KInv, Budgeted, Within

\* A step that changes a body's state or hold, but not what it takes.
LEMMA BudgetMarks ==
  ASSUME KInv, Tables', NEW a \in Attempts, UNCHANGED <<budget, objects>>,
         \A b \in Attempts \ {a} : body'[b] = body[b],
         body'[a].used = body[a].used, body'[a].alloc = body[a].alloc,
         body[a].state # "none", body'[a].state # "none"
  PROVE  Budgeted'
<1>1. budget' \in 0..Quota /\ budget' + body[a].alloc = budget + body'[a].alloc
  BY DEF KInv, Budgeted
<1>2. Within(a)'
  BY DEF KInv, Budgeted, Within
<1> QED
  BY <1>1, <1>2, BudgetStep

\* A body that is given up, or left as it is, takes what it took.
LEMMA BudgetGivenUp ==
  ASSUME KInv, Tables', NEW a \in Attempts, UNCHANGED <<budget, objects>>, body' \in {body, GivenUp(a)}
  PROVE  Budgeted'
<1>1. CASE body' = body
  BY <1>1, BudgetCalm
<1>2. CASE body' = [body EXCEPT ![a].state = "indeterminate"] /\ body[a].state = "uploading"
  <2>1. /\ \A b \in Attempts \ {a} : body'[b] = body[b]
        /\ body'[a].used = body[a].used /\ body'[a].alloc = body[a].alloc
        /\ body[a].state # "none" /\ body'[a].state # "none"
    BY <1>2 DEF KInv, JInv, Tables, Body
  <2> QED
    BY <2>1, BudgetMarks
<1> QED
  BY <1>1, <1>2 DEF GivenUp

\* Admission reserves the first room, which fits.
LEMMA BudgetAdmit ==
  ASSUME KInv, Tables', NEW w \in Wires, admit_response(w)
  PROVE  Budgeted'
<1>0. PICK a \in Attempts : a = wire[w].of
  BY DEF admit_response, KInv, JInv, IInv, Typing
<1> DEFINE new == [NewBody EXCEPT !.state = "uploading", !.alloc = Initial]
<1>1. Tables /\ UNCHANGED objects
  BY <1>0 DEF admit_response, KInv, JInv, IInv, Typing
<1>2. \/ UNCHANGED <<body, budget>>
      \/ /\ body[a].state = "none" /\ budget + Initial <= Quota
         /\ body' = [body EXCEPT ![a] = new] /\ budget' = budget + Initial
  BY <1>0 DEF admit_response, RoomLeft
<1>3. CASE UNCHANGED <<body, budget>>
  BY <1>1, <1>3, BudgetCalm
<1>4. CASE /\ body[a].state = "none" /\ budget + Initial <= Quota
           /\ body' = [body EXCEPT ![a] = new] /\ budget' = budget + Initial
  <2>1. /\ \A b \in Attempts \ {a} : body'[b] = body[b] /\ objects'[b] = objects[b]
        /\ body'[a].used = 0 /\ body'[a].alloc = Initial /\ body'[a].state = "uploading"
    BY <1>1, <1>4 DEF Tables, NewBody
  <2>2. body[a].alloc = 0 /\ objects'[a] = 0
    BY <1>1, <1>4 DEF KInv, Budgeted, Within, JInv, Storage
  <2>3. budget' \in 0..Quota /\ budget' + body[a].alloc = budget + body'[a].alloc
    BY <1>4, <2>1, <2>2, Room DEF KInv, Budgeted
  <2>4. Within(a)'
    BY <2>1, <2>2, Room DEF Within
  <2> QED
    BY <1>1, <2>1, <2>3, <2>4, BudgetStep
<1> QED
  BY <1>2, <1>3, <1>4

\* A part reserves what it needs beyond the room it has, or nothing.
LEMMA BudgetReserve ==
  ASSUME KInv, Tables', NEW w \in Wires, ReservePart(w)
  PROVE  Budgeted'
<1>0. PICK a \in Attempts : a = wire[w].of
  BY DEF ReservePart, KInv, JInv, IInv, Typing
<1> DEFINE extra == MoreRoom(body[a])
           larger == [body EXCEPT ![a].used = @ + 1, ![a].alloc = @ + extra]
<1>1. Tables /\ UNCHANGED objects /\ body[a].state = "uploading"
  BY <1>0 DEF ReservePart, KInv, JInv, IInv, Typing
<1>2. body[a].used \in Nat /\ body[a].alloc \in Nat /\ objects[a] \in Nat
  BY <1>1 DEF Tables, Body
<1>3. extra \in Nat /\ body[a].used + 1 <= body[a].alloc + extra
  BY <1>2 DEF MoreRoom
<1> HIDE DEF extra
<1>4. \/ UNCHANGED budget /\ body' = GivenUp(a)
      \/ /\ budget + extra <= Quota /\ budget' = budget + extra
         /\ body' \in {larger, [larger EXCEPT ![a].state = "indeterminate"]}
  BY <1>0 DEF ReservePart, extra
<1>5. CASE UNCHANGED budget /\ body' = GivenUp(a)
  BY <1>1, <1>5, BudgetGivenUp
<1>6. CASE /\ budget + extra <= Quota /\ budget' = budget + extra
           /\ body' \in {larger, [larger EXCEPT ![a].state = "indeterminate"]}
  <2>1. /\ \A b \in Attempts \ {a} : body'[b] = body[b] /\ objects'[b] = objects[b]
        /\ body'[a].used = body[a].used + 1 /\ body'[a].alloc = body[a].alloc + extra
        /\ body'[a].state # "none"
    <3>1. CASE body' = larger
      BY <1>1, <3>1 DEF Tables, Body
    <3>2. CASE body' = [larger EXCEPT ![a].state = "indeterminate"]
      BY <1>1, <3>2 DEF Tables, Body
    <3> QED
      BY <1>6, <3>1, <3>2
  <2>2. budget' \in 0..Quota /\ budget' + body[a].alloc = budget + body'[a].alloc
    BY <1>2, <1>3, <1>6, <2>1, Room DEF KInv, Budgeted
  <2>3. objects[a] <= body[a].used
    BY <1>1 DEF KInv, Budgeted, Within
  <2>4. Within(a)'
    BY <1>1, <1>2, <1>3, <2>1, <2>3 DEF Within
  <2> QED
    BY <1>1, <2>1, <2>2, <2>4, BudgetStep
<1> QED
  BY <1>4, <1>5, <1>6

\* The object that is put has its room: the part was counted before.
LEMMA BudgetPut ==
  ASSUME KInv, Tables', NEW w \in Wires, PutPart(w)
  PROVE  Budgeted'
<1>0. PICK a \in Attempts : a = wire[w].of
  BY DEF PutPart, KInv, JInv, IInv, Typing
<1> DEFINE more == [objects EXCEPT ![a] = @ + 1]
<1>1. Tables /\ UNCHANGED budget /\ wire[w].at = "put"
  BY <1>0 DEF PutPart, KInv, JInv, IInv, Typing
<1>2. body[a].state = "uploading" /\ body[a].used = objects[a] + 1
  BY <1>0, <1>1 DEF KInv, JInv, Storage, WireStores
<1>3. body[a].used \in Nat /\ body[a].alloc \in Nat /\ objects[a] \in Nat
  BY <1>1 DEF Tables, Body
<1>4. /\ objects' \in {objects, more}
      /\ body' \in {[body EXCEPT ![a].stored = @ + 1], GivenUp(a)}
  BY <1>0 DEF PutPart
<1>5. /\ \A b \in Attempts \ {a} : body'[b] = body[b] /\ objects'[b] = objects[b]
      /\ objects'[a] <= objects[a] + 1
    BY <1>1, <1>3, <1>4 DEF Tables, GivenUp
<1>6. body'[a].used = body[a].used /\ body'[a].alloc = body[a].alloc /\ body'[a].state # "none"
  <2>1. CASE body' = [body EXCEPT ![a].stored = @ + 1]
    BY <1>1, <1>2, <2>1 DEF Tables, Body
  <2>2. CASE body' = GivenUp(a)
    BY <1>1, <1>2, <2>2 DEF Tables, Body, GivenUp
  <2> QED
    BY <1>4, <2>1, <2>2
<1>7. budget' \in 0..Quota /\ budget' + body[a].alloc = budget + body'[a].alloc
  BY <1>1, <1>6 DEF KInv, Budgeted
<1>8. body[a].used <= body[a].alloc
  BY <1>1 DEF KInv, Budgeted, Within
<1>9. Within(a)'
  <2>1. objects'[a] \in Nat
    BY <1>1 DEF Tables
  <2> QED
    BY <1>2, <1>3, <1>5, <1>6, <1>8, <2>1 DEF Within
<1> QED
  BY <1>1, <1>5, <1>7, <1>9, BudgetStep

\* A whole body gives back what it did not use.
LEMMA BudgetComplete ==
  ASSUME KInv, Tables', NEW w \in Wires, CompleteBody(w)
  PROVE  Budgeted'
<1>0. PICK a \in Attempts : a = wire[w].of
  BY DEF CompleteBody, KInv, JInv, IInv, Typing
<1> DEFINE whole == [body EXCEPT ![a].state = "complete", ![a].alloc = body[a].used]
           unused == body[a].alloc - body[a].used
<1>1. Tables /\ UNCHANGED objects /\ body[a].state = "uploading"
  BY <1>0 DEF CompleteBody, KInv, JInv, IInv, Typing
<1>2. /\ body[a].used \in Nat /\ body[a].alloc \in Nat /\ objects[a] \in Nat
      /\ objects[a] <= body[a].used /\ body[a].used <= body[a].alloc
  BY <1>1 DEF Tables, Body, KInv, Budgeted, Within
<1>3. \/ UNCHANGED budget /\ body' = GivenUp(a)
      \/ body' = whole /\ budget' = budget - unused
  BY <1>0 DEF CompleteBody
<1>4. CASE UNCHANGED budget /\ body' = GivenUp(a)
  BY <1>1, <1>4, BudgetGivenUp
<1>5. CASE body' = whole /\ budget' = budget - unused
  <2>1. /\ \A b \in Attempts \ {a} : body'[b] = body[b] /\ objects'[b] = objects[b]
        /\ body'[a].used = body[a].used /\ body'[a].alloc = body[a].used /\ body'[a].state = "complete"
    BY <1>1, <1>5 DEF Tables, Body
  <2>2. body[a].alloc <= budget
    BY <1>1, AllocatedChange DEF KInv, Budgeted, Tables
  <2>3. budget' \in 0..Quota /\ budget' + body[a].alloc = budget + body'[a].alloc
    <3>1. budget \in Nat /\ budget <= Quota /\ Quota \in Nat
      BY Room DEF KInv, Budgeted
    <3> QED
      BY <1>2, <1>5, <2>1, <2>2, <3>1
  <2>4. Within(a)'
    BY <1>1, <1>2, <2>1 DEF Within
  <2> QED
    BY <1>1, <2>1, <2>3, <2>4, BudgetStep
<1> QED
  BY <1>3, <1>4, <1>5

\* Cleanup deletes objects, and gives the room back with the last of them, once.
LEMMA BudgetCleanup ==
  ASSUME KInv, Tables', NEW s \in Sweepers, Cleanup(s)
  PROVE  Budgeted'
<1>1. ASSUME NEW a \in Attempts, _claim(s, a)
      PROVE  Budgeted'
  <2>1. /\ body[a].state # "none" /\ body' = [body EXCEPT ![a].state = "deleting"]
        /\ UNCHANGED <<budget, objects>>
    BY <1>1 DEF _claim
  <2>2. /\ \A b \in Attempts \ {a} : body'[b] = body[b]
        /\ body'[a].used = body[a].used /\ body'[a].alloc = body[a].alloc /\ body'[a].state # "none"
    BY <2>1 DEF KInv, JInv, Tables, Body
  <2> QED
    BY <2>1, <2>2, BudgetMarks
<1>2. CASE DeleteObject(s)
  <2>0. PICK a \in Attempts : a = sweep[s]
    BY <1>2 DEF DeleteObject, KInv, JInv, Tables
  <2>1. Tables /\ UNCHANGED <<body, budget>> /\ objects[a] > 0
    BY <1>2, <2>0 DEF DeleteObject, KInv, JInv
  <2>2. /\ \A b \in Attempts \ {a} : body'[b] = body[b] /\ objects'[b] = objects[b]
        /\ objects'[a] \in {objects[a], objects[a] - 1} /\ objects[a] \in Nat
    BY <1>2, <2>0, <2>1 DEF DeleteObject, Tables
  <2>3. Within(a)'
    <3>1. Within(a) /\ body[a].used \in Nat
      BY <2>1 DEF KInv, Budgeted, Tables, Body
    <3> QED
      BY <2>1, <2>2, <3>1 DEF Within
  <2>4. budget' \in 0..Quota /\ budget' + body[a].alloc = budget + body'[a].alloc
    BY <2>1 DEF KInv, Budgeted
  <2> QED
    BY <2>1, <2>2, <2>3, <2>4, BudgetStep
<1>3. CASE ReturnRoom(s)
  <2>0. PICK a \in Attempts : a = sweep[s]
    BY <1>3 DEF ReturnRoom, KInv, JInv, Tables
  <2> DEFINE gone == [NewBody EXCEPT !.state = "deleted", !.hold = FALSE]
  <2>1. Tables /\ UNCHANGED objects /\ objects[a] = 0
    BY <1>3, <2>0 DEF ReturnRoom, KInv, JInv
  <2>2. \/ UNCHANGED <<body, budget>>
        \/ body' = [body EXCEPT ![a] = gone] /\ budget' = budget - body[a].alloc
    BY <1>3, <2>0 DEF ReturnRoom
  <2>3. CASE UNCHANGED <<body, budget>>
    BY <2>1, <2>3, BudgetCalm
  <2>4. CASE body' = [body EXCEPT ![a] = gone] /\ budget' = budget - body[a].alloc
    <3>1. /\ \A b \in Attempts \ {a} : body'[b] = body[b] /\ objects'[b] = objects[b]
          /\ body'[a].used = 0 /\ body'[a].alloc = 0 /\ body'[a].state = "deleted"
      BY <2>1, <2>4 DEF Tables, NewBody
    <3>2. body[a].alloc <= budget /\ body[a].alloc \in Nat
      BY <2>1, AllocatedChange DEF KInv, Budgeted, Tables, Body
    <3>3. budget' \in 0..Quota /\ budget' + body[a].alloc = budget + body'[a].alloc
      <4>1. budget \in Nat /\ budget <= Quota /\ Quota \in Nat
        BY Room DEF KInv, Budgeted
      <4> QED
        BY <2>4, <3>1, <3>2, <4>1
    <3>4. Within(a)'
      BY <2>1, <3>1 DEF Within
    <3> QED
      BY <2>1, <3>1, <3>3, <3>4, BudgetStep
  <2> QED
    BY <2>2, <2>3, <2>4
<1> QED
  BY <1>1, <1>2, <1>3 DEF Cleanup

\* The steps that reserve and give back nothing.
LEMMA BudgetOthers ==
  ASSUME KInv, Tables',
         \/ \E w \in Wires : \/ \E a \in Attempts : prepare_generation_attempt(w, a)
                             \/ reserve_generation_attempt(w) \/ mark_attempt_dispatching(w)
                             \/ _post_llmgw(w) \/ Account(w) \/ ReleaseHold(w) \/ Answer(w)
         \/ \E a \in Attempts : load_generation_response(a) \/ reconcile_generation_response(a)
         \/ EndRun \/ GatewayDies
  PROVE  Budgeted'
<1>1. CASE \/ \E w \in Wires : \/ \E a \in Attempts : prepare_generation_attempt(w, a)
                               \/ reserve_generation_attempt(w) \/ mark_attempt_dispatching(w)
                               \/ Account(w) \/ Answer(w)
           \/ \E a \in Attempts : load_generation_response(a)
           \/ EndRun \/ GatewayDies
  <2>1. UNCHANGED <<body, budget, objects>>
    BY <1>1 DEF prepare_generation_attempt, reserve_generation_attempt, mark_attempt_dispatching, Account,
       finish_call, close_attempt, charge, Answer, load_generation_response, EndRun, GatewayDies, storage
  <2> QED
    BY <2>1, BudgetCalm
<1>2. ASSUME NEW w \in Wires, _post_llmgw(w)
      PROVE  Budgeted'
  <2>1. UNCHANGED <<budget, objects>> /\ body' \in {body, GivenUp(wire[w].of)} /\ wire[w].of \in Attempts
    BY <1>2 DEF _post_llmgw, KInv, JInv, IInv, Typing
  <2> QED
    BY <2>1, BudgetGivenUp
<1>3. ASSUME NEW a \in Attempts, UNCHANGED <<budget, objects>>,
             body' = body \/ (body[a].state = "complete" /\ body' = [body EXCEPT ![a].hold = FALSE])
      PROVE  Budgeted'
  <2>1. CASE body' = body
    BY <1>3, <2>1, BudgetCalm
  <2>2. CASE body[a].state = "complete" /\ body' = [body EXCEPT ![a].hold = FALSE]
    <3>1. /\ \A b \in Attempts \ {a} : body'[b] = body[b]
          /\ body'[a].used = body[a].used /\ body'[a].alloc = body[a].alloc
          /\ body[a].state # "none" /\ body'[a].state # "none"
      BY <2>2 DEF KInv, JInv, Tables, Body
    <3> QED
      BY <1>3, <3>1, BudgetMarks
  <2> QED
    BY <1>3, <2>1, <2>2
<1>4. ASSUME NEW w \in Wires, ReleaseHold(w)
      PROVE  Budgeted'
  <2>1. wire[w].of \in Attempts
    BY <1>4 DEF ReleaseHold, KInv, JInv, IInv, Typing
  <2> QED
    BY <1>3, <1>4, <2>1 DEF ReleaseHold
<1>5. ASSUME NEW a \in Attempts, reconcile_generation_response(a)
      PROVE  Budgeted'
  BY <1>3, <1>5 DEF reconcile_generation_response
<1> QED
  BY <1>1, <1>2, <1>4, <1>5

\* A post is counted once, by a request that exists.
LEMMA RestStep ==
  ASSUME KInv, JInv', [Next]_vars
  PROVE  Rest'
<1> DEFINE Alone == run' \in {run, "over"} /\ retention' = retention
<1>1. Alone
  <2>1. ASSUME NEW w \in Wires, Dispatch(w)
        PROVE  Alone
    BY <2>1 DEF Dispatch, admit_response, reserve_generation_attempt, mark_attempt_dispatching, _post_llmgw
  <2>2. ASSUME NEW w \in Wires, Account(w) \/ Answer(w)
        PROVE  Alone
    BY <2>2 DEF Account, finish_call, close_attempt, charge, Answer
  <2>3. ASSUME NEW w \in Wires, Store(w)
        PROVE  Alone
    BY <2>3 DEF Store, ReservePart, PutPart, CompleteBody, ReleaseHold
  <2>4. ASSUME NEW s \in Sweepers, Cleanup(s)
        PROVE  Alone
    BY <2>4 DEF Cleanup, _claim, DeleteObject, ReturnRoom
  <2>5. CASE \E a \in Attempts : \/ \E w \in Wires : prepare_generation_attempt(w, a)
                                 \/ load_generation_response(a) \/ reconcile_generation_response(a)
    BY <2>5 DEF prepare_generation_attempt, load_generation_response, reconcile_generation_response
  <2>6. CASE UNCHANGED vars \/ EndRun \/ GatewayDies
    BY <2>6 DEF vars, EndRun, GatewayDies
  <2> QED
    BY <2>1, <2>2, <2>3, <2>4, <2>5, <2>6 DEF Next
<1>2. UNCHANGED faults \/ Fault
  <2>1. ASSUME NEW w \in Wires, NEW a \in Attempts, prepare_generation_attempt(w, a)
        PROVE  UNCHANGED faults \/ Fault
    BY <2>1 DEF prepare_generation_attempt
  <2>2. ASSUME NEW w \in Wires, Dispatch(w)
        PROVE  UNCHANGED faults \/ Fault
    BY <2>2 DEF Dispatch, admit_response, reserve_generation_attempt, mark_attempt_dispatching, _post_llmgw
  <2>3. ASSUME NEW w \in Wires, Account(w) \/ Answer(w)
        PROVE  UNCHANGED faults \/ Fault
    BY <2>3 DEF Account, finish_call, close_attempt, charge, Answer
  <2>4. ASSUME NEW w \in Wires, Store(w)
        PROVE  UNCHANGED faults \/ Fault
    BY <2>4 DEF Store, ReservePart, PutPart, CompleteBody, ReleaseHold
  <2>5. ASSUME NEW s \in Sweepers, Cleanup(s)
        PROVE  UNCHANGED faults \/ Fault
    BY <2>5 DEF Cleanup, _claim, DeleteObject, ReturnRoom
  <2> QED
    BY <2>1, <2>2, <2>3, <2>4, <2>5
       DEF Next, vars, load_generation_response, reconcile_generation_response, EndRun, GatewayDies
<1>3. faults' \in 0..MaxFaults
  BY <1>2, RequestBounds DEF Fault, KInv, Rest
<1>4. posts' = posts \/ \E w \in Wires : TRUE
  BY DEF Next, vars, prepare_generation_attempt, load_generation_response, reconcile_generation_response,
     Dispatch, Account, Store, Answer,
     Cleanup, _claim, DeleteObject, ReturnRoom, EndRun, GatewayDies, control
<1>5. posts' \in [Attempts -> 0..MaxWires]
  <2>1. CASE posts' = posts
    BY <2>1 DEF KInv, Rest
  <2>2. CASE \E w \in Wires : TRUE
    <3>1. MaxWires \in Nat /\ 1 <= MaxWires
      BY <2>2, RequestBounds DEF Wires
    <3>2. posts' \in [Attempts -> Nat] /\ \A a \in Attempts : posts'[a] <= 1
      BY DEF JInv, IInv, Typing, Posted
    <3> QED
      BY <3>1, <3>2
  <2> QED
    BY <1>4, <2>1, <2>2
<1> QED
  BY <1>1, <1>3, <1>5 DEF KInv, Rest

\* Nothing is allocated before the first upload.
LEMMA InitKInv ==
  ASSUME Init
  PROVE  KInv
<1>1. JInv
  BY InitJInv
<1>2. \A a \in Attempts : body[a].alloc = 0 /\ body[a].used = 0 /\ objects[a] = 0
  BY DEF Init, NewBody
<1>3. Allocated(body) = 0
  <2> DEFINE f == [a \in Attempts |-> body[a].alloc]
  <2>1. \A a \in Attempts : f[a] = 0
    BY <1>2
  <2> HIDE DEF f
  <2>2. SumOf(f, Attempts) = 0
    BY <2>1, AttemptsFinite, SumOfZeros
  <2> QED
    BY <2>2 DEF Allocated, f
<1>4. Budgeted
  BY <1>2, <1>3, Room DEF Init, Budgeted, Within
<1>5. Rest
  BY RequestBounds DEF Init, Rest
<1> QED
  BY <1>1, <1>4, <1>5 DEF KInv

\* Every step keeps the bucket within its budget.
LEMMA NextKInv ==
  ASSUME KInv, [Next]_vars
  PROVE  KInv'
<1>1. JInv'
  BY NextJInv DEF KInv
<1>2. Tables'
  BY <1>1 DEF JInv
<1>3. Rest'
  BY <1>1, RestStep
<1>4. Budgeted'
  <2>1. CASE UNCHANGED vars
    BY <2>1, BudgetCalm DEF vars
  <2>2. CASE Next
    BY <1>2, <2>2, BudgetAdmit, BudgetReserve, BudgetPut, BudgetComplete, BudgetCleanup, BudgetOthers
       DEF Next, Dispatch, Store
  <2> QED
    BY <2>1, <2>2
<1> QED
  BY <1>1, <1>3, <1>4 DEF KInv

\* The variables keep their types, the room of the bucket its bounds: what is given
\* back was reserved, and what is reserved fits.
THEOREM RequestTypes == Spec => []TypeOK
<1>1. KInv => TypeOK
  BY DEF KInv, JInv, IInv, Typing, Tables, Budgeted, Rest, TypeOK, Phases, Attempt, Call
<1> QED
  BY <1>1, InitKInv, NextKInv, PTL DEF Spec

\* The bucket never holds an object no room was reserved for, and the room that is
\* allocated is what the bodies hold (generation_response_ledger.py): for any number
\* of attempts, sizes of answers, quota, unconfirmed commits and crashes.
THEOREM RoomIsBudgeted == Spec => []ObjectsAreBudgeted
<1>1. KInv => ObjectsAreBudgeted
  <2> SUFFICES ASSUME KInv PROVE ObjectsAreBudgeted
    OBVIOUS
  <2>1. \A a \in Attempts : objects[a] <= body[a].used /\ body[a].used <= body[a].alloc
    BY DEF KInv, Budgeted, Within
  <2>2. budget = MapThenSumSet(LAMBDA a : body[a].alloc, Attempts)
    BY AllocatedIs DEF KInv, Budgeted
  <2> QED
    BY <2>1, <2>2 DEF ObjectsAreBudgeted
<1> QED
  BY <1>1, InitKInv, NextKInv, PTL DEF Spec
=============================================================================
