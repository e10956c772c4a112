--------------------------- MODULE ProviderAttempts ---------------------------
(***************************************************************************)
(* One paid model request on its way through the LLM gateway.              *)
(*                                                                         *)
(* The API commits an attempt before it sends anything.  The gateway       *)
(* reserves room for the answer, grants one wire the dispatch, posts to    *)
(* the provider, commits the receipt, closes the attempt, records the      *)
(* expense, stores the answer as private objects and only then answers; it *)
(* does so in a task of its own that outlives the caller.  A refusal that  *)
(* is known to have cost nothing may be followed by a child attempt, on    *)
(* the backup provider once the first one was overloaded.  The API may     *)
(* read a retained answer instead of posting again, and a sweep deletes    *)
(* the objects of a run that is over.                                      *)
(*                                                                         *)
(* A request is a chain of attempts: the parent of a is a - 1, its id is   *)
(* derived from the parent's.  A transaction whose commit is not confirmed *)
(* may or may not have been applied.                                       *)
(***************************************************************************)
EXTENDS Naturals, FiniteSets, FiniteSetsExt

CONSTANTS Initial,      \* room reserved at admission (_INITIAL: a chunk and the manifest)
          Sizes,        \* room a stored answer takes, smaller or larger than that; one object a unit
          Quota,        \* room of the bucket
          Sweepers,     \* cleanup loops, one in each gateway process
          MaxAttempts,  \* bound: attempts of the request
          MaxWires,     \* bound: HTTP requests from the API to the gateway
          MaxFaults     \* bound: unconfirmed commits, lost requests, storage errors, crashes

ASSUME Room == Initial \in Nat /\ Quota \in Nat /\ Sizes \subseteq Nat
ASSUME RequestBounds == MaxAttempts \in Nat /\ MaxWires \in Nat /\ MaxFaults \in Nat

VARIABLES
  run,       \* generation_runs.status: "running" or "over"
  attempt,   \* generation_provider_attempts
  call,      \* provider_calls, with the usage row linked to it
  body,      \* generation_responses
  budget,    \* generation_response_budgets.allocated_bytes of the bucket
  objects,   \* private objects that exist in the bucket
  wire,      \* the requests, with the gateway task that serves each
  sweep,     \* the attempt each cleanup loop works on
  retention, \* generation_response_retention_enabled
  heard,     \* attempts whose refusal the API knows
  served,    \* attempts whose completed answer the API has
  posts,     \* requests posted to the provider
  paid,      \* attempts the provider may have charged
  faults

vars == <<run, attempt, call, body, budget, objects, wire, sweep, retention,
          heard, served, posts, paid, faults>>
control == <<attempt, call, posts, paid>>
storage == <<body, budget, objects>>
known   == <<heard, served>>

Attempts  == 1..MaxAttempts
Wires     == 1..MaxWires
NoAttempt == 0
NoWire    == 0

Refusals == {"preconnect", "rate_limit_refused", "upstream_refused"}
Scopes   == {"llmgw", "aitunnel"}
Outcomes == Refusals \cup {"ok", "refused", "lost", "unconfirmed"}
Steps    == {"none", "admit", "reserve", "mark", "post", "finish", "close", "charge",
             "store", "put", "reconcile", "answer", "done"}

Body == [state : {"none", "uploading", "complete", "indeterminate", "deleting", "deleted"},
         hold : BOOLEAN, alloc : Nat, used : Nat, stored : Nat]
Wire == [at : Steps, of : Attempts \cup {NoAttempt}, outcome : Outcomes,
         ledger : BOOLEAN, confirmed : BOOLEAN]

NewBody == [state |-> "none", hold |-> TRUE, alloc |-> 0, used |-> 0, stored |-> 0]
NewWire == [at |-> "none", of |-> NoAttempt, outcome |-> "unconfirmed",
            ledger |-> FALSE, confirmed |-> FALSE]
Over    == [NewWire EXCEPT !.at = "done"]

TypeOK ==
  /\ run \in {"running", "over"}
  /\ attempt \in [Attempts -> [phase : {"none", "reserved", "dispatching", "closed", "indeterminate"},
                               reason : Refusals \cup {"none", "completed"},
                               token : Wires \cup {NoWire}]]
  /\ call \in [Attempts -> [status : {"none", "started", "completed", "failed", "ambiguous"},
                            scope : Scopes, usage : BOOLEAN]]
  /\ body \in [Attempts -> Body]
  /\ budget \in 0..Quota
  /\ objects \in [Attempts -> Nat]
  /\ wire \in [Wires -> Wire]
  /\ sweep \in [Sweepers -> Attempts \cup {NoAttempt}]
  /\ retention \in BOOLEAN
  /\ heard \subseteq Attempts /\ served \subseteq Attempts
  /\ posts \in [Attempts -> 0..MaxWires] /\ paid \subseteq Attempts
  /\ faults \in 0..MaxFaults

Init ==
  /\ run = "running"
  /\ attempt = [a \in Attempts |-> [phase |-> "none", reason |-> "none", token |-> NoWire]]
  /\ call = [a \in Attempts |-> [status |-> "none", scope |-> "llmgw", usage |-> FALSE]]
  /\ body = [a \in Attempts |-> NewBody]
  /\ budget = 0 /\ objects = [a \in Attempts |-> 0]
  /\ wire = [w \in Wires |-> NewWire]
  /\ sweep = [s \in Sweepers |-> NoAttempt]
  /\ retention \in BOOLEAN
  /\ heard = {} /\ served = {}
  /\ posts = [a \in Attempts |-> 0] /\ paid = {} /\ faults = 0

Fault == faults < MaxFaults /\ faults' = faults + 1

-----------------------------------------------------------------------------
\* What the rows prove.

Owned == run = "running"
Closed(a, reasons) == attempt[a].phase = "closed" /\ attempt[a].reason \in reasons

\* CONFIRMED_TERMINAL_SQL: the receipt agrees with the reason; it does not look at
\* the usage row.
ConfirmedTerminal(a) ==
  \/ Closed(a, {"completed"}) /\ call[a].status = "completed"
  \/ Closed(a, Refusals) /\ call[a].status = "failed"
     /\ (attempt[a].reason = "upstream_refused" => call[a].scope = "llmgw")

confirmed_provider_accounting(a) ==
  ConfirmedTerminal(a) /\ call[a].usage = (attempt[a].reason = "completed")

\* Regression: an answer is readable as soon as it is stored.
HeldToo(a) == TRUE
NotHeld(a) == ~body[a].hold

Readable(a) ==
  /\ Owned /\ retention
  /\ body[a].state = "complete" /\ NotHeld(a)
  /\ Closed(a, Refusals \cup {"completed"})
  /\ attempt[a].reason = "upstream_refused" => confirmed_provider_accounting(a)

require_closed_provider_parent(a) ==
  /\ Closed(a, Refusals) /\ call[a].status = "failed"
  /\ attempt[a].reason = "upstream_refused" =>
       /\ call[a].scope = "llmgw"
       /\ \A b \in 1..(a - 1) : attempt[b].reason # "upstream_refused"

\* A child stays on the backup provider once the primary was overloaded.
select_scope(a) ==
  IF a > 1 /\ (call[a - 1].scope = "aitunnel" \/ attempt[a - 1].reason = "upstream_refused")
  THEN "aitunnel" ELSE "llmgw"

-----------------------------------------------------------------------------
\* The API.

\* The request is over: its answer was 503, came too late or has been read.
Finished(w) == [wire EXCEPT ![w] = Over]

\* The same request is prepared again under the same attempt: after a restart, or
\* when the connection to the gateway failed.  A child follows a refusal the API has
\* heard of.
prepare_generation_attempt(w, a) ==
  /\ Owned /\ wire[w].at = "none" /\ \A v \in 1..(w - 1) : wire[v].at # "none"
  /\ a > 1 => a - 1 \in heard /\ require_closed_provider_parent(a - 1)
  /\ attempt' = IF attempt[a].phase = "none" THEN [attempt EXCEPT ![a].phase = "reserved"]
                ELSE attempt
  /\ \/ /\ wire' = [wire EXCEPT ![w].of = a, ![w].at = IF retention THEN "admit" ELSE "reserve"]
        /\ UNCHANGED faults
     \/ Fault /\ wire' = Finished(w)
  /\ UNCHANGED <<run, call, storage, sweep, retention, known, posts, paid>>

\* GET of a retained answer.
load_generation_response(a) ==
  /\ Readable(a)
  /\ heard' = IF attempt[a].reason \in Refusals THEN heard \cup {a} ELSE heard
  /\ served' = IF attempt[a].reason = "completed" THEN served \cup {a} ELSE served
  /\ UNCHANGED <<run, control, storage, wire, sweep, retention, faults>>

\* The hold of a stored answer is cleared by the evidence alone.
reconcile_generation_response(a) ==
  /\ Owned /\ retention /\ body[a].state = "complete" /\ body[a].hold
  /\ confirmed_provider_accounting(a)
  /\ body' = [body EXCEPT ![a].hold = FALSE]
  /\ UNCHANGED <<run, control, budget, objects, wire, sweep, retention, known, faults>>

\* The run completes, fails or is stopped, whatever is in flight.
EndRun ==
  /\ Owned /\ run' = "over"
  /\ UNCHANGED <<control, storage, wire, sweep, retention, known, faults>>

-----------------------------------------------------------------------------
\* The gateway task: admission and dispatch.

Go(w, step) == [wire EXCEPT ![w].at = step]

\* An error of the operation is an answer like another and is retained, if there is room for it.
Stopped(w) == IF wire[w].ledger
              THEN [wire EXCEPT ![w].outcome = "unconfirmed", ![w].at = "store"] ELSE Finished(w)

\* Regression: the quota is not looked at.
AnyRoom == TRUE
RoomLeft == budget + Initial <= Quota

\* A commit that outlives the capacity observation keeps its room and grants nothing.
admit_response(w) ==
  LET a == wire[w].of
      free == Owned /\ attempt[a].phase = "reserved" /\ body[a].state = "none" /\ RoomLeft
      admitted == [body EXCEPT ![a] = [NewBody EXCEPT !.state = "uploading", !.alloc = Initial]]
  IN /\ wire[w].at = "admit"
     /\ \/ /\ free /\ body' = admitted /\ budget' = budget + Initial
           /\ wire' = [wire EXCEPT ![w].at = "reserve", ![w].ledger = TRUE]
           /\ UNCHANGED faults
        \/ ~free /\ wire' = Stopped(w) /\ UNCHANGED <<body, budget, faults>>
        \/ /\ free /\ Fault /\ wire' = Stopped(w)
           /\ body' = admitted /\ budget' = budget + Initial
     /\ UNCHANGED <<run, control, objects, sweep, retention, known>>

reserve_generation_attempt(w) ==
  LET a == wire[w].of
      granted == [attempt EXCEPT ![a].token = w]
      free == Owned /\ attempt[a].phase = "reserved"
  IN /\ wire[w].at = "reserve"
     /\ \/ free /\ attempt' = granted /\ wire' = Go(w, "mark") /\ UNCHANGED faults
        \/ ~free /\ wire' = Stopped(w) /\ UNCHANGED <<attempt, faults>>
        \/ free /\ Fault /\ attempt' \in {attempt, granted} /\ wire' = Stopped(w)
     /\ UNCHANGED <<run, call, storage, sweep, retention, known, posts, paid>>

\* The journal row is inserted in the transaction that spends the token: only its
\* confirmed commit is the permission to post.
mark_attempt_dispatching(w) ==
  LET a == wire[w].of
      free == Owned /\ attempt[a].phase = "reserved" /\ attempt[a].token = w
      marked == [attempt EXCEPT ![a].phase = "dispatching"]
      started == [call EXCEPT ![a].status = "started", ![a].scope = select_scope(a)]
  IN /\ wire[w].at = "mark"
     /\ \/ free /\ attempt' = marked /\ call' = started /\ wire' = Go(w, "post") /\ UNCHANGED faults
        \/ ~free /\ wire' = Stopped(w) /\ UNCHANGED <<attempt, call, faults>>
        \/ /\ free /\ Fault /\ wire' = Stopped(w)
           /\ \/ attempt' = marked /\ call' = started
              \/ UNCHANGED <<attempt, call>>
     /\ UNCHANGED <<run, storage, sweep, retention, known, posts, paid>>

\* What may become of a request at the provider, and what of it may cost money: a
\* bare refusal does not, an overload only by the word of the primary provider.
Events == {"ok", "unreached", "overloaded", "limited", "refused", "lost"}
MayCost(scope, event) == event \in {"ok", "lost"} \/ (event = "overloaded" /\ scope = "aitunnel")

\* What the gateway makes of it: on the backup provider neither a failed connection
\* nor an overload permits a retry.
\* Regression: every transport error is taken for one before the request left.
AnyTransportError(scope, event) ==
  CASE event \in {"unreached", "lost"} -> "preconnect" [] event = "overloaded" -> "upstream_refused"
    [] event = "limited" -> "rate_limit_refused" [] OTHER -> event
Reading(scope, event) ==
  CASE event = "limited" -> "rate_limit_refused"
    [] event = "unreached" -> IF scope = "llmgw" THEN "preconnect" ELSE "lost"
    [] event = "overloaded" -> IF scope = "llmgw" THEN "upstream_refused" ELSE "lost"
    [] OTHER -> event

\* The body of an answer that cannot be stored is given up.
GivenUp(a) ==
  IF body[a].state = "uploading" THEN [body EXCEPT ![a].state = "indeterminate"] ELSE body

\* verify_dispatch_capacity is the last fence before the request leaves.
_post_llmgw(w) ==
  LET a == wire[w].of
  IN /\ wire[w].at = "post"
     /\ \/ \E event \in Events :
             /\ posts' = [posts EXCEPT ![a] = @ + 1]
             /\ paid' = IF MayCost(call[a].scope, event) THEN paid \cup {a} ELSE paid
             /\ wire' = [wire EXCEPT ![w].at = "finish", ![w].outcome = Reading(call[a].scope, event)]
             /\ UNCHANGED <<body, faults>>
        \/ /\ wire[w].ledger /\ Fault
           /\ body' = GivenUp(a) /\ wire' = Finished(w)
           /\ UNCHANGED <<posts, paid>>
     /\ UNCHANGED <<run, attempt, call, budget, objects, sweep, retention, known>>

-----------------------------------------------------------------------------
\* The gateway task: receipt and expense.

finish_call(w) ==
  LET a == wire[w].of
      status == CASE wire[w].outcome = "ok" -> "completed"
                  [] wire[w].outcome = "lost" -> "ambiguous"
                  [] OTHER -> "failed"
      received == [call EXCEPT ![a].status = status]
  IN /\ wire[w].at = "finish"
     /\ \/ call' = received /\ wire' = Go(w, "close") /\ UNCHANGED faults
        \/ Fault /\ call' \in {call, received} /\ wire' = Stopped(w)
     /\ UNCHANGED <<run, attempt, storage, sweep, retention, known, posts, paid>>

ClosingReason(outcome) ==
  IF outcome = "ok" THEN "completed" ELSE IF outcome \in Refusals THEN outcome ELSE "none"

\* A refusal needs no expense: its accounting is confirmed when it is closed.
close_attempt(w) ==
  LET a == wire[w].of
      reason == ClosingReason(wire[w].outcome)
      ended == [attempt EXCEPT ![a].phase = IF reason = "none" THEN "indeterminate" ELSE "closed",
                               ![a].reason = reason]
      after == IF reason = "completed" THEN "charge"
               ELSE IF wire[w].ledger THEN "store" ELSE "answer"
  IN /\ wire[w].at = "close" /\ attempt[a].phase = "dispatching"
     /\ reason # "none" => call[a].status = IF reason = "completed" THEN "completed" ELSE "failed"
     /\ \/ /\ attempt' = ended
           /\ wire' = [wire EXCEPT ![w].at = after, ![w].confirmed = reason \in Refusals]
           /\ UNCHANGED faults
        \/ Fault /\ attempt' \in {attempt, ended} /\ wire' = Stopped(w)
     /\ UNCHANGED <<run, call, storage, sweep, retention, known, posts, paid>>

\* The expense is recorded though the run be over; nobody retries it.  This is the
\* /v1/messages route, which names a user; /v1/project-cell/messages names none,
\* records no expense and confirms the accounting (messages_native.py:764), and
\* nothing in the repository calls it.
charge(w) ==
  LET a == wire[w].of
      recorded == [call EXCEPT ![a].usage = TRUE]
  IN /\ wire[w].at = "charge"
     /\ \/ /\ call' = recorded
           /\ wire' = [wire EXCEPT ![w].confirmed = TRUE,
                                   ![w].at = IF wire[w].ledger THEN "store" ELSE "answer"]
           /\ UNCHANGED faults
        \/ Fault /\ call' \in {call, recorded} /\ wire' = Stopped(w)
     /\ UNCHANGED <<run, attempt, storage, sweep, retention, known, posts, paid>>

-----------------------------------------------------------------------------
\* The gateway task: the answer is stored part by part.

\* Regression: the room is compared before the part is added to it.
LateRoom(b) == IF b.used > b.alloc THEN b.used - b.alloc ELSE 0
MoreRoom(b) == IF b.used + 1 > b.alloc THEN b.used + 1 - b.alloc ELSE 0

\* ResponseLedger.reserve, before the object is put.
ReservePart(w) ==
  LET a == wire[w].of
      extra == MoreRoom(body[a])
      larger == [body EXCEPT ![a].used = @ + 1, ![a].alloc = @ + extra]
      fits == budget + extra <= Quota
  IN /\ wire[w].at = "store" /\ body[a].state = "uploading"
     /\ \E size \in Sizes : body[a].used < size
     /\ \/ fits /\ body' = larger /\ budget' = budget + extra /\ wire' = Go(w, "put") /\ UNCHANGED faults
        \/ ~fits /\ body' = GivenUp(a) /\ wire' = Finished(w) /\ UNCHANGED <<budget, faults>>
        \/ /\ fits /\ Fault /\ wire' = Finished(w)
           /\ \/ body' = GivenUp(a) /\ UNCHANGED budget
              \/ body' = [larger EXCEPT ![a].state = "indeterminate"] /\ budget' = budget + extra
     /\ UNCHANGED <<run, control, objects, sweep, retention, known>>

\* The object is put, read back and acknowledged.
PutPart(w) ==
  LET a == wire[w].of
      more == [objects EXCEPT ![a] = @ + 1]
  IN /\ wire[w].at = "put"
     /\ \/ /\ objects' = more /\ body' = [body EXCEPT ![a].stored = @ + 1]
           /\ wire' = Go(w, "store") /\ UNCHANGED faults
        \/ /\ Fault /\ objects' \in {objects, more}
           /\ body' = GivenUp(a) /\ wire' = Finished(w)
     /\ UNCHANGED <<run, control, budget, sweep, retention, known>>

\* ResponseLedger.complete: the manifest was the last part.
CompleteBody(w) ==
  LET a == wire[w].of
      whole == [body EXCEPT ![a].state = "complete", ![a].alloc = body[a].used]
      unused == body[a].alloc - body[a].used
  IN /\ wire[w].at = "store" /\ body[a].state = "uploading"
     /\ body[a].used \in Sizes /\ body[a].used = body[a].stored
     /\ \/ /\ body' = whole /\ budget' = budget - unused
           /\ wire' = Go(w, IF wire[w].confirmed THEN "reconcile" ELSE "answer")
           /\ UNCHANGED faults
        \/ /\ Fault /\ wire' = Finished(w)
           /\ \/ body' = whole /\ budget' = budget - unused
              \/ body' = GivenUp(a) /\ UNCHANGED budget
     /\ UNCHANGED <<run, control, objects, sweep, retention, known>>

\* ResponseLedger.reconciled, once the route has confirmed the accounting.
ReleaseHold(w) ==
  LET a == wire[w].of
      released == [body EXCEPT ![a].hold = FALSE]
      proven == body[a].state = "complete" /\ ConfirmedTerminal(a)
  IN /\ wire[w].at = "reconcile"
     /\ \/ proven /\ body' = released /\ wire' = Go(w, "answer") /\ UNCHANGED faults
        \/ ~proven /\ wire' = Finished(w) /\ UNCHANGED <<body, faults>>
        \/ proven /\ Fault /\ body' \in {body, released} /\ wire' = Finished(w)
     /\ UNCHANGED <<run, control, budget, objects, sweep, retention, known>>

\* The caller may be gone: the answer is then lost.
Answer(w) ==
  LET a == wire[w].of
  IN /\ wire[w].at = "answer" /\ wire' = Finished(w)
     /\ \/ /\ heard' = IF wire[w].outcome \in Refusals THEN heard \cup {a} ELSE heard
           /\ served' = IF wire[w].outcome = "ok" THEN served \cup {a} ELSE served
        \/ UNCHANGED known
     /\ UNCHANGED <<run, control, storage, sweep, retention, faults>>

-----------------------------------------------------------------------------
\* Cleanup.

_claim(s, a) ==
  /\ retention /\ sweep[s] = NoAttempt
  /\ body[a].state \in {"complete", "deleting"} /\ ~body[a].hold
  /\ ConfirmedTerminal(a) /\ run = "over"
  /\ body' = [body EXCEPT ![a].state = "deleting"]
  /\ sweep' = [sweep EXCEPT ![s] = a]
  /\ UNCHANGED <<run, control, budget, objects, wire, retention, known, faults>>

DeleteObject(s) ==
  LET a == sweep[s]
  IN /\ a # NoAttempt /\ objects[a] > 0
     /\ \/ objects' = [objects EXCEPT ![a] = @ - 1] /\ UNCHANGED <<sweep, faults>>
        \/ Fault /\ sweep' = [sweep EXCEPT ![s] = NoAttempt]
           /\ objects' \in {objects, [objects EXCEPT ![a] = @ - 1]}
     /\ UNCHANGED <<run, control, body, budget, wire, retention, known>>

\* The room returns when every object is known to be gone; another process may have
\* returned it already.
ReturnRoom(s) ==
  LET a == sweep[s]
      gone == [body EXCEPT ![a] = [NewBody EXCEPT !.state = "deleted", !.hold = FALSE]]
  IN /\ a # NoAttempt /\ objects[a] = 0
     /\ sweep' = [sweep EXCEPT ![s] = NoAttempt]
     /\ \/ /\ body[a].state = "deleting" /\ body' = gone /\ budget' = budget - body[a].alloc
           /\ (Fault \/ UNCHANGED faults)
        \/ body[a].state = "deleting" /\ Fault /\ UNCHANGED <<body, budget>>
        \/ body[a].state # "deleting" /\ UNCHANGED <<body, budget, faults>>
     /\ UNCHANGED <<run, control, objects, wire, retention, known>>

\* The gateway's tasks end with its processes; nobody takes them over.
GatewayDies ==
  /\ Fault
  /\ wire' = [w \in Wires |-> IF wire[w].at \in {"none", "done"} THEN wire[w]
                              ELSE Over]
  /\ sweep' = [s \in Sweepers |-> NoAttempt]
  /\ UNCHANGED <<run, control, storage, retention, known>>

-----------------------------------------------------------------------------
Dispatch(w) == admit_response(w) \/ reserve_generation_attempt(w) \/ mark_attempt_dispatching(w) \/ _post_llmgw(w)
Account(w)  == finish_call(w) \/ close_attempt(w) \/ charge(w)
Store(w)    == ReservePart(w) \/ PutPart(w) \/ CompleteBody(w) \/ ReleaseHold(w)
Cleanup(s)  == (\E a \in Attempts : _claim(s, a)) \/ DeleteObject(s) \/ ReturnRoom(s)

Next ==
  \/ \E w \in Wires, a \in Attempts : prepare_generation_attempt(w, a)
  \/ \E a \in Attempts : load_generation_response(a) \/ reconcile_generation_response(a)
  \/ \E w \in Wires : Dispatch(w) \/ Account(w) \/ Store(w) \/ Answer(w)
  \/ \E s \in Sweepers : Cleanup(s)
  \/ EndRun \/ GatewayDies

Spec == Init /\ [][Next]_vars

-----------------------------------------------------------------------------
\* Properties.

\* One request is posted once under an attempt, and at most one attempt of its chain
\* may have cost money: neither a resent request, a late task, a restart nor a
\* fallback to the backup provider pays twice (generation_attempts.py:139, "the only
\* permission to POST exists AFTER successful commit").
PaidOnce ==
  /\ \A a \in Attempts : posts[a] <= 1
  /\ \A a, b \in paid : a = b

\* An answer the API has, or may read, is whole and accounted for: a completed one
\* has its usage, and a refusal that permits another attempt cost nothing
\* (generation_response_ledger.py's reconciliation hold).
ServedIsAccounted ==
  /\ \A a \in Attempts : Readable(a) => objects[a] = body[a].used
  /\ \A a \in Attempts : Readable(a) \/ a \in served \cup heard => confirmed_provider_accounting(a)
  /\ \A a \in heard : a \notin paid

\* The bucket never holds an object no room was reserved for, whatever commit was
\* lost: the allocated room is what the bodies hold, a body's objects are within
\* it, and what is given back is given back once.
ObjectsAreBudgeted ==
  /\ budget = MapThenSumSet(LAMBDA a : body[a].alloc, Attempts)
  /\ \A a \in Attempts : objects[a] <= body[a].used /\ body[a].used <= body[a].alloc
=============================================================================
