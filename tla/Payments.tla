------------------------------ MODULE Payments ------------------------------
(***************************************************************************)
(* Orders, the payment provider and the subscription of a billing account. *)
(*                                                                         *)
(* An order is committed with its frozen request before the request is     *)
(* sent, so an answer may be lost and the request replayed under the same  *)
(* idempotency key while the provider still keeps it.  The provider's      *)
(* verdict reaches the tables from five places: the checkout's own answer, *)
(* the customer's reconcile button, a notification, the sweep of open      *)
(* orders and the renewal of a due subscription.  Every handler is one     *)
(* transaction holding the order's row lock, so it is one step; only a     *)
(* notification of an order not yet bound reads before it locks, and only  *)
(* the billing pass goes through several transactions, with the row of the *)
(* subscription read once, when the pass selected it.                      *)
(*                                                                         *)
(* The clock moves at any time.  A pass reads it once, when it starts, and *)
(* judges everything by that reading; whoever else asks reads it anew.     *)
(***************************************************************************)
EXTENDS Naturals, FiniteSets, Sequences

CONSTANTS Workers,    \* processes that run the billing loop
          Crowded,    \* whether other accounts are due in the same pass
          Period,     \* a paid month
          Grace,      \* billing_grace_days
          Retry,      \* billing_renewal_retry_hours
          Window,     \* _REPLAY_WINDOW: the age at which a request is not replayed
          KeyLife,    \* how long the provider keeps an idempotency key
          Lag,        \* bound: how far the clock moves on during one pass
          MaxTime,    \* bound: the clock
          MaxOrders,  \* bound: orders of the account
          Mixes,      \* bound: the kinds of order the customer places together
          MaxTopUps,  \* bound: top-ups
          MaxPlans,   \* bound: paid subscriptions the account ever opens
          MaxHooks,   \* bound: notifications between their read and their lock
          MaxFaults   \* bound: calls the provider does not answer, passes that fail

ASSUME CrowdedIsBoolean == Crowded \in BOOLEAN
ASSUME Durations == /\ Period \in Nat \ {0} /\ Grace \in Nat \ {0} /\ Retry \in Nat \ {0}
                    /\ Window \in Nat /\ KeyLife \in Nat
ASSUME WindowInsideKeyLife == Window <= KeyLife
ASSUME MixesOfPurposes == Mixes \subseteq SUBSET {"wallet_topup", "subscription_initial"}
ASSUME PaymentBounds == /\ Lag \in Nat /\ MaxTime \in Nat /\ MaxOrders \in Nat
                        /\ MaxTopUps \in Nat /\ MaxPlans \in Nat
                        /\ MaxHooks \in Nat /\ MaxFaults \in Nat

VARIABLES
  now,      \* the clock
  orders,   \* payments rows; status "none" before the row exists
  subs,     \* subscriptions rows; Free is the account's row of the free plan
  charges,  \* the payments that exist at the provider
  hooks,    \* notifications that read the provider and have not locked the order
  pass,     \* where each billing process is in its pass
  faults    \* faults so far

vars == <<now, orders, subs, charges, hooks, pass, faults>>

Free     == 0
Plans    == 1..MaxPlans
Orders   == 1..MaxOrders
None     == 0                                   \* NULL, of a link or of a time
Purposes == {"wallet_topup", "subscription_initial", "subscription_renewal"}
OPEN_PAYMENT_STATUSES == {"pending", "waiting_for_capture"}
RECONCILED_PURPOSES   == {"wallet_topup", "subscription_initial"}
LIVE_SUBSCRIPTION_STATUSES == {"active", "past_due"}

Verdicts == {"pending", "waiting_for_capture", "succeeded", "cancelled"}

\* `started` is when the saved request was prepared.  No row is open without a saved
\* request: only the provider's answer erases it, in the transaction that binds the
\* order.  `born` is when the provider first saw the idempotency key.
Order == [purpose : Purposes, sub : {None} \cup Plans, status : Verdicts \cup {"none"},
          charge : Nat, started : Nat, review : BOOLEAN, due : Nat, covers : Nat]
Subscription == [status : {"none", "pending_payment", "active", "past_due", "canceled", "expired"},
                 auto : BOOLEAN, cancelAtEnd : BOOLEAN, end : Nat, next : Nat, grace : Nat,
                 method : BOOLEAN]
Charge == [order : Orders, state : Verdicts, born : Nat]
\* `clock` is the reading of the clock that serves the whole pass.
Pass   == [at : {"idle", "started", "locked", "unlocked", "created", "sweep"}, clock : Nat,
           sub : {None} \cup Plans, seen : Subscription, order : {None} \cup Orders,
           todo : SUBSET Orders]

NoOrder == [purpose |-> "wallet_topup", sub |-> None, status |-> "none", charge |-> None,
            started |-> None, review |-> FALSE, due |-> None, covers |-> None]
NoPlan  == [status |-> "none", auto |-> FALSE, cancelAtEnd |-> FALSE, end |-> None,
            next |-> None, grace |-> None, method |-> FALSE]
Idle    == [at |-> "idle", clock |-> None, sub |-> None, seen |-> NoPlan, order |-> None, todo |-> {}]

TypeOK ==
  /\ now \in 0..MaxTime
  /\ orders \in [Orders -> Order]
  /\ subs \in [{Free} \cup Plans -> Subscription]
  /\ charges \in Seq(Charge)
  /\ hooks \subseteq [charge : Nat, state : Verdicts]
  /\ pass \in [Workers -> Pass]
  /\ faults \in 0..MaxFaults

-----------------------------------------------------------------------------
\* The tables.

Open(o) == orders[o].status \in OPEN_PAYMENT_STATUSES
Live(s) == subs[s].status \in LIVE_SUBSCRIPTION_STATUSES
LivePlans == {s \in {Free} \cup Plans : Live(s)}

\* The partial unique indexes: a transaction that breaks one is rolled back.
IndexesHold(ords, rows) ==
  /\ \A a, b \in Orders :
       /\ {ords[a].status, ords[b].status} \subseteq OPEN_PAYMENT_STATUSES
       /\ ords[a].purpose = ords[b].purpose /\ ords[a].sub # None
       /\ \/ ords[a].purpose = "subscription_initial"
          \/ ords[a].sub = ords[b].sub
       => a = b
  /\ \A s, u \in {Free} \cup Plans :
       {rows[s].status, rows[u].status} \subseteq LIVE_SUBSCRIPTION_STATUSES => s = u

\* A pass that selected a subscription FOR UPDATE and has not committed since.
HeldBy(s, w) == pass[w].at = "locked" /\ pass[w].sub = s
Locked(s)    == \E w \in Workers : HeldBy(s, w)

\* The session writes the columns whose value differs from the one it loaded.
WriteBack(row, seen, set) ==
  [f \in DOMAIN row |-> IF set[f] # seen[f] THEN set[f] ELSE row[f]]

-----------------------------------------------------------------------------
\* The provider.

\* A call may be answered, have its answer lost, never arrive, or be refused.
Outcomes == {"answered"} \cup (IF faults < MaxFaults THEN {"lost", "unsent", "refused"} ELSE {})
Cost(outcome) == IF outcome = "answered" THEN 0 ELSE 1

\* A saved card is charged at once; a redirect waits for the customer.
FirstStates(o) ==
  IF orders[o].purpose = "subscription_renewal" THEN {"pending", "succeeded", "cancelled"}
  ELSE {"pending"}

\* The payment the provider still knows under the order's idempotency key.
Known(o) == {c \in DOMAIN charges : charges[c].order = o /\ now < charges[c].born + KeyLife}

Post(o, outcome) ==
  CASE outcome \in {"unsent", "refused"} -> {[charges |-> charges, charge |-> None]}
    [] outcome \in {"answered", "lost"} /\ Known(o) # {} ->
         {[charges |-> charges, charge |-> c] : c \in Known(o)}
    [] OTHER ->
         {[charges |-> Append(charges, [order |-> o, state |-> st, born |-> now]),
           charge  |-> Len(charges) + 1] : st \in FirstStates(o)}

\* Regression: the window is off by one.
SendableAtTheEdge(o, t) == orders[o].started <= t /\ t <= orders[o].started + Window

\* send_saved_payment replays a request while its age is inside the window, by the
\* caller's reading t of the clock.
Sendable(o, t) == orders[o].started <= t /\ t < orders[o].started + Window

\* What a caller that holds the order's row gets: GET when bound, else POST.
Ask(o, outcome) ==
  IF orders[o].charge # None THEN {[charges |-> charges, charge |-> orders[o].charge]}
  ELSE Post(o, outcome)

Askable(o, t) == orders[o].charge # None \/ Sendable(o, t)

-----------------------------------------------------------------------------
\* Applying a verdict.  A transaction is a set of results; none: it is rolled back.

StartPaid(row, saved) ==
  [row EXCEPT !.status = "active", !.auto = row.auto /\ saved, !.method = row.auto /\ saved,
              !.end = now + Period, !.next = IF row.auto /\ saved THEN now + Period ELSE None,
              !.grace = None, !.cancelAtEnd = FALSE]

Expired(row) == [row EXCEPT !.status = "expired", !.auto = FALSE, !.cancelAtEnd = FALSE,
                            !.next = None]

activate_initial_payment(s) ==
  IF subs[s].status # "pending_payment" THEN {}
  ELSE {[x \in DOMAIN subs |-> IF x = s THEN StartPaid(subs[s], saved)
                               ELSE IF Live(x) THEN Expired(subs[x]) ELSE subs[x]]
        : saved \in (IF subs[s].auto THEN BOOLEAN ELSE {FALSE})}

\* `seen` is the session's copy of the row: the row itself, unless the session
\* had loaded the subscription before.
Renewed(seen) == [seen EXCEPT !.status = "active", !.end = seen.end + Period,
                              !.next = IF seen.auto THEN seen.end + Period ELSE None,
                              !.grace = None, !.cancelAtEnd = FALSE]

activate_renewal_payment(s, seen) ==
  IF seen.status \notin LIVE_SUBSCRIPTION_STATUSES THEN {}
  ELSE {[subs EXCEPT ![s] = WriteBack(@, seen, Renewed(seen))]}

cancel_pending_subscription(p) ==
  IF p.purpose = "subscription_initial" /\ subs[p.sub].status = "pending_payment"
  THEN [subs EXCEPT ![p.sub].status = "canceled"] ELSE subs

SubsAfter(p, state, seen) ==
  CASE state = "succeeded" /\ p.purpose = "subscription_initial" -> activate_initial_payment(p.sub)
    [] state = "succeeded" /\ p.purpose = "subscription_renewal" ->
         activate_renewal_payment(p.sub, seen)
    [] state = "cancelled" -> {cancel_pending_subscription(p)}
    [] OTHER -> {subs}

\* The order takes the verdict, except that "pending" changes no status; the
\* provider's payload replaces the review mark, and the order is bound.
\* `covers` is the period_end of the units granted for the payment.
OrderAfter(p, state, c, rows, seen) ==
  [p EXCEPT !.status = IF state = "pending" THEN @ ELSE state,
            !.charge = c, !.review = FALSE, !.started = None,
            !.covers = CASE state # "succeeded" \/ p.sub = None -> @
                         [] p.purpose = "subscription_initial" -> rows[p.sub].end
                         [] OTHER -> seen.end + Period]

\* Regression: an order that already succeeded is applied again.
ApplyAgain(o, state, c, seen) ==
  {[orders |-> [orders EXCEPT ![o] = OrderAfter(orders[o], state, c, rows, seen)],
    subs   |-> rows] : rows \in SubsAfter(orders[o], state, seen)}

apply_provider_state(o, state, c, seen) ==
  IF orders[o].status = "succeeded" THEN {[orders |-> orders, subs |-> subs]}
  ELSE ApplyAgain(o, state, c, seen)

\* The session's copy of a subscription nobody loaded earlier is the row itself.
Fresh(o) == IF orders[o].sub = None THEN NoPlan ELSE subs[orders[o].sub]

\* What applying a verdict locks: the rows activation selects FOR UPDATE.
LocksFree(o) ==
  CASE orders[o].purpose = "wallet_topup" -> TRUE
    [] orders[o].purpose = "subscription_renewal" -> ~Locked(orders[o].sub)
    [] OTHER -> \A s \in {Free} \cup Plans : ~Locked(s)

\* Committing one of the results the unique indexes allow, or rolling back.
Allowed(dbs) == {db \in dbs : IndexesHold(db.orders, db.subs)}
Commit(dbs) == IF Allowed(dbs) = {} THEN UNCHANGED <<orders, subs>>
               ELSE \E db \in Allowed(dbs) : orders' = db.orders /\ subs' = db.subs

\* A caller with a session of its own applies what the provider said.
Settle(o, state, c) == LocksFree(o) /\ Commit(apply_provider_state(o, state, c, Fresh(o)))

require_manual_review(o) == orders' = [orders EXCEPT ![o].review = TRUE]

-----------------------------------------------------------------------------
Init ==
  /\ now = 0
  /\ orders = [o \in Orders |-> NoOrder]
  /\ subs = [s \in {Free} \cup Plans |->
               IF s = Free THEN [NoPlan EXCEPT !.status = "active"] ELSE NoPlan]
  /\ charges = <<>>
  /\ hooks = {}
  /\ pass = [w \in Workers |-> Idle]
  /\ faults = 0

-----------------------------------------------------------------------------
\* The customer.

FreshOrders == {o \in Orders : orders[o].status = "none"}
NextOrder   == CHOOSE o \in FreshOrders : \A x \in FreshOrders : o <= x
NewOrder(purpose, s, due, t) ==
  [orders EXCEPT ![NextOrder] =
     [NoOrder EXCEPT !.purpose = purpose, !.sub = s, !.status = "pending",
                     !.started = t, !.due = due]]

Placed(purpose) == {o \in Orders : orders[o].status # "none" /\ orders[o].purpose = purpose}
InMix(purpose) == \E mix \in Mixes :
  purpose \in mix /\ \A other \in RECONCILED_PURPOSES \ mix : Placed(other) = {}

\* The order and its exact request are one durable transaction.
create_payment ==
  /\ FreshOrders # {} /\ InMix("wallet_topup") /\ Cardinality(Placed("wallet_topup")) < MaxTopUps
  /\ orders' = NewOrder("wallet_topup", None, None, now)
  /\ UNCHANGED <<now, subs, charges, hooks, pass, faults>>

\* Plans are not told apart: buying while one is active is buying another plan.
create_subscription_checkout(s, auto) ==
  /\ FreshOrders # {} /\ InMix("subscription_initial") /\ subs[s].status = "none"
  /\ \A o \in Orders : orders[o].purpose = "subscription_initial" => ~Open(o)
  /\ \A x \in LivePlans : ~Locked(x)
  /\ orders' = NewOrder("subscription_initial", s, None, now)
  /\ subs' = [subs EXCEPT ![s].status = "pending_payment", ![s].auto = auto]
  /\ UNCHANGED <<now, charges, hooks, pass, faults>>

\* The checkout's own call, its retry under the same key, and the reconcile
\* button of an order that is not bound.
resume_checkout(o, outcome) ==
  /\ orders[o].status = "pending" /\ orders[o].charge = None /\ Sendable(o, now)
  /\ outcome \in Outcomes \ {"unsent"}
  /\ \E r \in Post(o, outcome) :
       /\ charges' = r.charges
       /\ CASE outcome = "answered" -> Settle(o, r.charges[r.charge].state, r.charge)
            [] outcome = "refused"  -> require_manual_review(o) /\ UNCHANGED subs
            [] OTHER -> UNCHANGED <<orders, subs>>
  /\ faults' = faults + Cost(outcome)
  /\ UNCHANGED <<now, hooks, pass>>

cancel_renewal(s) ==
  /\ Live(s) /\ subs[s].end # None /\ ~Locked(s)
  /\ subs' = [subs EXCEPT ![s].auto = FALSE, ![s].cancelAtEnd = TRUE, ![s].next = None]
  /\ UNCHANGED <<now, orders, charges, hooks, pass, faults>>

restore_renewal(s) ==
  /\ Live(s) /\ subs[s].end > now /\ subs[s].method /\ ~Locked(s)
  /\ subs' = [subs EXCEPT ![s].auto = TRUE, ![s].cancelAtEnd = FALSE, ![s].next = subs[s].end]
  /\ UNCHANGED <<now, orders, charges, hooks, pass, faults>>

Customer ==
  \/ create_payment
  \/ \E s \in Plans, auto \in BOOLEAN : create_subscription_checkout(s, auto)
  \/ \E o \in Orders, outcome \in Outcomes : resume_checkout(o, outcome)
  \/ \E s \in Plans : cancel_renewal(s) \/ restore_renewal(s)

-----------------------------------------------------------------------------
\* Notifications; they may come late, more than once or never.

\* A notification is not believed: the payment is read from the provider.
\* Regression: the state the notification claims is applied.
ClaimedState(c) == "succeeded"
VerifiedState(c) == charges[c].state

\* The row is found by the provider's id and locked, then the provider is read:
\* a notification, or the reconcile button of a bound order.
notify_bound(o) ==
  /\ orders[o].charge # None
  /\ Settle(o, VerifiedState(orders[o].charge), orders[o].charge)
  /\ UNCHANGED <<now, charges, hooks, pass, faults>>

\* No row has this id yet: the provider is read before any row is locked.
notify_read(c) ==
  /\ \A o \in Orders : orders[o].charge # c
  /\ Cardinality(hooks) < MaxHooks
  /\ hooks' = hooks \cup {[charge |-> c, state |-> VerifiedState(c)]}
  /\ UNCHANGED <<now, orders, subs, charges, pass, faults>>

notify_apply(h) ==
  LET o == charges[h.charge].order IN
  /\ IF orders[o].charge \in {None, h.charge} THEN Settle(o, h.state, h.charge)
     ELSE UNCHANGED <<orders, subs>>
  /\ hooks' = hooks \ {h}
  /\ UNCHANGED <<now, charges, pass, faults>>

yookassa_webhook ==
  \/ \E o \in Orders : notify_bound(o)
  \/ \E c \in DOMAIN charges : notify_read(c)
  \/ \E h \in hooks : notify_apply(h)

\* The customer pays or lets the payment lapse; a charge to a saved card settles.
ProviderMoves(c, state) ==
  /\ \/ charges[c].state = "pending" /\ state # "pending"
     \/ charges[c].state = "waiting_for_capture" /\ state \in {"succeeded", "cancelled"}
  /\ charges' = [charges EXCEPT ![c].state = state]
  /\ UNCHANGED <<now, orders, subs, hooks, pass, faults>>

-----------------------------------------------------------------------------
\* The billing pass: process_subscription_cycle, then reconcile_pending_payments.

Due(s, t) == Live(s) /\ subs[s].end # None /\ subs[s].end <= t

\* Regression: an order the provider has put on hold is taken for closed.
OnlyPending(t) == {o \in Orders : /\ orders[o].status = "pending" /\ ~orders[o].review
                                  /\ orders[o].purpose \in RECONCILED_PURPOSES
                                  /\ orders[o].started <= t}

\* The ids the sweep lists; a renewal belongs to the cycle.
Unsettled(t) == {o \in Orders : /\ Open(o) /\ ~orders[o].review
                                /\ orders[o].purpose \in RECONCILED_PURPOSES
                                /\ orders[o].started <= t}

Goes(w, to) == pass' = [pass EXCEPT ![w] = to]
SweepNext(w) ==
  LET listed == Unsettled(pass[w].clock)
  IN Goes(w, IF listed = {} THEN Idle
             ELSE [Idle EXCEPT !.at = "sweep", !.clock = pass[w].clock, !.todo = listed])

\* run_billing_tick reads the clock, then settles the builds (GenerationUnits).
PassStarts(w) ==
  /\ pass[w].at = "idle"
  /\ Goes(w, [Idle EXCEPT !.at = "started", !.clock = now])
  /\ UNCHANGED <<now, orders, subs, charges, hooks, faults>>

\* One SELECT ... FOR UPDATE SKIP LOCKED; the copy it loads serves the whole pass.
\* The commit of an account that comes earlier in the pass releases every row.
PassSelects(w) ==
  /\ pass[w].at = "started"
  /\ LET due == {s \in Plans : Due(s, pass[w].clock) /\ ~Locked(s)}
     IN \/ \E s \in due, at \in IF Crowded THEN {"locked", "unlocked"} ELSE {"locked"} :
             Goes(w, [pass[w] EXCEPT !.at = at, !.sub = s, !.seen = subs[s]])
        \/ due = {} /\ SweepNext(w)
  /\ UNCHANGED <<now, orders, subs, charges, hooks, faults>>

Handles(w) == /\ pass[w].at \in {"locked", "unlocked"}
              /\ \A x \in Workers \ {w} : ~HeldBy(pass[w].sub, x)

GraceIsOver(seen, t) == seen.grace # None /\ seen.grace <= t

\* Regression: the grace period is not looked at before a pending charge.
OnlyUserEnds(seen, t) == seen.cancelAtEnd \/ ~seen.auto
PlanEnds(seen, t)  == seen.cancelAtEnd \/ ~seen.auto \/ GraceIsOver(seen, t)
ChargeIsDue(seen, t) == seen.next = None \/ seen.next <= t
PendingRenewals(s) == {o \in Orders : /\ orders[o].purpose = "subscription_renewal"
                                      /\ orders[o].sub = s /\ Open(o)}

\* Regression: the account is left without a plan.
ExpireOnly(s, seen) ==
  [subs EXCEPT ![s] = WriteBack(@, seen, [Expired(seen) EXCEPT !.grace = None])]
DowngradedRows(s, seen) ==
  [ExpireOnly(s, seen) EXCEPT ![Free] = [NoPlan EXCEPT !.status = "active"]]

\* A transaction of the cycle: an error ends the whole pass.
CycleCommits(w, dbs) ==
  /\ Commit(dbs)
  /\ IF Allowed(dbs) = {} THEN Goes(w, Idle) ELSE SweepNext(w)

downgrade_to_free(w) ==
  /\ Handles(w) /\ PlanEnds(pass[w].seen, pass[w].clock)
  /\ CycleCommits(w, {[orders |-> orders, subs |-> DowngradedRows(pass[w].sub, pass[w].seen)]})
  /\ UNCHANGED <<now, charges, hooks, faults>>

\* Not due for a retry; or the bound on orders is reached.
cycle_skips(w) ==
  /\ Handles(w) /\ ~PlanEnds(pass[w].seen, pass[w].clock)
  /\ \/ ~ChargeIsDue(pass[w].seen, pass[w].clock)
     \/ PendingRenewals(pass[w].sub) = {} /\ FreshOrders = {}
  /\ SweepNext(w)
  /\ UNCHANGED <<now, orders, subs, charges, hooks, faults>>

\* A new numbered attempt for the period, committed before it is sent.
renew_subscription(w) ==
  LET s == pass[w].sub
      seen == pass[w].seen
      t == pass[w].clock
  IN /\ Handles(w) /\ ~PlanEnds(seen, t) /\ ChargeIsDue(seen, t)
     /\ PendingRenewals(s) = {} /\ FreshOrders # {}
     /\ orders' = NewOrder("subscription_renewal", s, seen.end, t)
     /\ Goes(w, [pass[w] EXCEPT !.at = "created", !.order = NextOrder])
     /\ UNCHANGED <<now, subs, charges, hooks, faults>>

PastDue(seen, t) ==
  [seen EXCEPT !.status = "past_due", !.next = t + Retry,
               !.grace = IF @ = None THEN seen.end + Grace ELSE @]
MarkPastDue(rows, s, seen, t) == [rows EXCEPT ![s] = WriteBack(@, seen, PastDue(seen, t))]

\* Without an answer the same operation stays pending, to be replayed.
\* Regression: an answer that was lost closes the operation.
CloseUnanswered(o, refused) == [orders EXCEPT ![o].status = "cancelled"]
\* Regression: a refused replay is taken for proof that there is no payment.
FailRefused(o, refused) == IF refused THEN [orders EXCEPT ![o].status = "failed"] ELSE orders
KeepUnanswered(o, refused) == IF refused THEN [orders EXCEPT ![o].review = TRUE] ELSE orders

Unanswered(o, s, seen, t, refused) ==
  {[orders |-> KeepUnanswered(o, refused), subs |-> MarkPastDue(subs, s, seen, t)]}
Answered(o, s, seen, t, state, c) ==
  {[db EXCEPT !.subs = IF state = "succeeded" THEN @ ELSE MarkPastDue(@, s, seen, t)]
   : db \in apply_provider_state(o, state, c, seen)}

\* _resolve_renewal_payment, with the pass's copy of the subscription.
ResolveRenewal(w, o, outcome) ==
  LET s == pass[w].sub
      seen == pass[w].seen
      t == pass[w].clock
  IN \/ /\ ~Open(o) /\ outcome = "answered"
        /\ SweepNext(w) /\ UNCHANGED <<orders, subs, charges>>
     \/ /\ Open(o) /\ ~Askable(o, t) /\ outcome = "answered"
        /\ CycleCommits(w, Unanswered(o, s, seen, t, TRUE)) /\ UNCHANGED charges
     \/ /\ Open(o) /\ Askable(o, t)
        /\ \E r \in Ask(o, outcome) :
             /\ charges' = r.charges
             /\ CycleCommits(w, IF outcome = "answered"
                                THEN Answered(o, s, seen, t, r.charges[r.charge].state, r.charge)
                                ELSE Unanswered(o, s, seen, t, outcome = "refused"))

resolve_renewal_payment(w, outcome) ==
  /\ \/ /\ Handles(w) /\ ~PlanEnds(pass[w].seen, pass[w].clock)
        /\ ChargeIsDue(pass[w].seen, pass[w].clock)
        /\ \E o \in PendingRenewals(pass[w].sub) : ResolveRenewal(w, o, outcome)
     \/ /\ pass[w].at = "created" /\ ~Locked(pass[w].sub)
        /\ ResolveRenewal(w, pass[w].order, outcome)
  /\ faults' = faults + Cost(outcome)
  /\ UNCHANGED <<now, hooks>>

\* The oldest order left: one transaction.  An outage or a refused verdict ends
\* the sweep; an order for review does not.
reconcile_pending_payments(w, outcome) ==
  LET o    == CHOOSE x \in pass[w].todo : \A y \in pass[w].todo : x <= y
      left == pass[w].todo \ {o}
      continue == Goes(w, IF left = {} THEN Idle ELSE [pass[w] EXCEPT !.todo = left])
  IN /\ pass[w].at = "sweep"
     /\ \/ /\ ~Open(o) /\ outcome = "answered"
           /\ continue /\ UNCHANGED <<orders, subs, charges>>
        \/ /\ Open(o) /\ ~Askable(o, pass[w].clock) /\ outcome = "answered"
           /\ require_manual_review(o) /\ continue /\ UNCHANGED <<subs, charges>>
        \/ /\ Open(o) /\ Askable(o, pass[w].clock)
           /\ \E r \in Ask(o, outcome) :
                LET dbs == apply_provider_state(o, r.charges[r.charge].state, r.charge, Fresh(o))
                IN /\ charges' = r.charges
                   /\ CASE outcome = "answered" ->
                             /\ LocksFree(o) /\ Commit(dbs)
                             /\ IF Allowed(dbs) = {} THEN Goes(w, Idle) ELSE continue
                        [] outcome = "refused" ->
                             require_manual_review(o) /\ UNCHANGED subs /\ continue
                        [] OTHER -> UNCHANGED <<orders, subs>> /\ Goes(w, Idle)
     /\ faults' = faults + Cost(outcome)
     /\ UNCHANGED <<now, hooks>>

\* The process stops, or an error ends the pass: what is not committed is lost.
PassFails(w) ==
  /\ pass[w].at # "idle" /\ faults < MaxFaults
  /\ Goes(w, Idle) /\ faults' = faults + 1
  /\ UNCHANGED <<now, orders, subs, charges, hooks>>

PassGoesOn(w) ==
  \/ PassStarts(w)
  \/ PassSelects(w)
  \/ downgrade_to_free(w)
  \/ cycle_skips(w)
  \/ renew_subscription(w)
  \/ \E outcome \in Outcomes : resolve_renewal_payment(w, outcome)
  \/ \E outcome \in Outcomes : reconcile_pending_payments(w, outcome)

\* Time passes also while a pass is under way, up to Lag.
Tick ==
  /\ now < MaxTime /\ \A w \in Workers : pass[w].at # "idle" => now < pass[w].clock + Lag
  /\ now' = now + 1
  /\ UNCHANGED <<orders, subs, charges, hooks, pass, faults>>

-----------------------------------------------------------------------------
Next ==
  \/ Customer
  \/ yookassa_webhook
  \/ \E c \in DOMAIN charges, state \in Verdicts : ProviderMoves(c, state)
  \/ \E w \in Workers : PassGoesOn(w) \/ PassFails(w)
  \/ Tick

Spec == Init /\ [][Next]_vars

\* run_billing_loop outlives a failing pass and begins another.
FairSpec == Spec /\ \A w \in Workers : WF_vars(PassGoesOn(w))

-----------------------------------------------------------------------------
\* Safety.

\* A pass ends before what it found inside the window can be forgotten: in the code,
\* the minute between _REPLAY_WINDOW and the day a key lives.  Nothing enforces it.
PassesAreShort == Window + Lag <= KeyLife

\* However often answers are lost and requests replayed, by the checkout, the
\* reconcile button, the sweep or the renewal, the provider never holds two payments
\* of one order, as long as passes are short (send_saved_payment): a pass judges the
\* age of a request by the clock it read when it started and sends it later.
OneChargePerOrder ==
  \A a, b \in DOMAIN charges : charges[a].order = charges[b].order => a = b

Paid(s, purpose) ==
  {o \in Orders : orders[o].sub = s /\ orders[o].purpose = purpose
                  /\ orders[o].status = "succeeded"}

\* A subscription is paid through the month its first payment opened and one
\* month more for every renewal that succeeded: late, repeated and racing
\* verdicts neither lose a month nor give one twice.
PaidThrough ==
  \A s \in Plans : \A first \in Paid(s, "subscription_initial") :
    subs[s].end = orders[first].covers
                    + Period * Cardinality(Paid(s, "subscription_renewal"))

\* The customer is not charged twice for one period of one subscription: a
\* second attempt is numbered only after the provider closed the first.
PeriodChargedOnce ==
  \A a, b \in DOMAIN charges :
    LET p == orders[charges[a].order]
        q == orders[charges[b].order]
    IN /\ {charges[a].state, charges[b].state} = {"succeeded"}
       /\ {p.purpose, q.purpose} = {"subscription_renewal"}
       /\ p.sub = q.sub /\ p.due = q.due
       => a = b

\* Whatever expires, fails or is bought meanwhile, the account is on exactly one
\* plan; _active_subscription answers 404 without one.
ExactlyOnePlan == Cardinality(LivePlans) = 1

\* What was granted was paid: an order succeeds only on a payment of its own that
\* the provider confirms, and a plan is live only if such an order opened it.
GrantIsPaid ==
  /\ \A o \in Orders : orders[o].status = "succeeded" =>
       /\ orders[o].charge \in DOMAIN charges
       /\ charges[orders[o].charge].order = o /\ charges[orders[o].charge].state = "succeeded"
  /\ \A s \in Plans \cap LivePlans : Paid(s, "subscription_initial") # {}

\* What the commerce plan says of cancelling: no charge follows.  No renewal is ordered
\* for a subscription whose owner had cancelled renewal, nor for one that is over.  It
\* does not hold of a pass that has other accounts due before this one.
RenewalIsWanted ==
  [][\A o \in Orders :
       orders[o].status = "none" /\ orders'[o].purpose = "subscription_renewal" =>
         /\ Live(orders'[o].sub) /\ subs[orders'[o].sub].auto
         /\ ~subs[orders'[o].sub].cancelAtEnd]_vars

-----------------------------------------------------------------------------
\* Liveness.

HasPaid(o) == \E c \in DOMAIN charges : charges[c].order = o /\ charges[c].state = "succeeded"

\* An order the customer paid is settled, or set aside for review, although the
\* answer and every notification were lost (a lost webhook must not leave a
\* paid order unfulfilled).
PaidOrderIsSettled ==
  \A o \in Orders :
    (HasPaid(o) /\ orders[o].purpose \in RECONCILED_PURPOSES) ~>
    (orders[o].status = "succeeded" \/ orders[o].review)

\* A subscription whose grace period is over does not stay: it is renewed or ends.
GraceIsEnforced ==
  \A s \in Plans : (Live(s) /\ GraceIsOver(subs[s], now)) ~> ~(Live(s) /\ GraceIsOver(subs[s], now))

=============================================================================
