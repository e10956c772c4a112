--------------------------- MODULE PaymentsProofs ---------------------------
(***************************************************************************)
(* Theorems about Payments, for any number of billing processes, orders,   *)
(* plans, notifications and failures.                                      *)
(*                                                                         *)
(* Every handler ends in one transaction that changes the two tables, so   *)
(* the lemmas of the first sections say once what a good result is (Good)  *)
(* and that each way to a result gives a good one.  NextMoves then says of *)
(* every action that it is such a move (Moves), and the theorems never     *)
(* look at the actions again.                                              *)
(*                                                                         *)
(* NoSecondCharge and AloneChargesOnce assume that passes are short, which *)
(* nothing in the code enforces.                                           *)
(*                                                                         *)
(* The last part is about an account that comes alone in its passes        *)
(* (~Crowded).  AloneMove says what a move may do to the period of a       *)
(* renewal, to what a success covers and to the end of a plan, and that a  *)
(* pass keeps its copy true; AloneInv, which is inductive under it, says   *)
(* that a plan has run to where its renewals begin and a month on for each *)
(* one that is paid.                                                       *)
(***************************************************************************)
EXTENDS Payments, FiniteSums, SequenceTheorems

\* Typing of the two tables.
SubsType(rows) == rows \in [{Free} \cup Plans -> Subscription]
OrdersType(ords) == ords \in [Orders -> Order]

\* The next order is one that does not exist yet.
LEMMA NextOrderIsFresh ==
  ASSUME FreshOrders # {}
  PROVE  NextOrder \in FreshOrders
<1>1. FreshOrders \in SUBSET Nat
  BY PaymentBounds DEF FreshOrders, Orders
<1> QED
  BY <1>1, SmallestNumber DEF NextOrder

\* A session that writes back the columns it changed leaves a row of the table.
LEMMA WriteBackType ==
  ASSUME NEW row \in Subscription, NEW seen \in Subscription, NEW set \in Subscription
  PROVE  WriteBack(row, seen, set) \in Subscription
BY DEF WriteBack, Subscription

\* The rows activation, expiry and a failed renewal write.
LEMMA RowTypes ==
  ASSUME TypeOK, NEW row \in Subscription, NEW saved \in BOOLEAN, NEW t \in Nat
  PROVE  /\ StartPaid(row, saved) \in Subscription
         /\ Expired(row) \in Subscription
         /\ Renewed(row) \in Subscription
         /\ PastDue(row, t) \in Subscription
<1>1. /\ now + Period \in Nat /\ t + Retry \in Nat
      /\ row.end + Period \in Nat /\ row.end + Grace \in Nat /\ None \in Nat
  BY Durations DEF TypeOK, Subscription, None
<1>2. (row.auto /\ saved) \in BOOLEAN
  OBVIOUS
<1>3. StartPaid(row, saved) \in Subscription
  BY <1>1, <1>2 DEF StartPaid, Subscription
<1>4. Expired(row) \in Subscription
  BY <1>1 DEF Expired, Subscription
<1>5. Renewed(row) \in Subscription
  BY <1>1 DEF Renewed, Subscription
<1>6. PastDue(row, t) \in Subscription
  BY <1>1 DEF PastDue, Subscription
<1> QED
  BY <1>3, <1>4, <1>5, <1>6

\* Applying a verdict leaves the table of subscriptions typed ...
LEMMA SubsAfterType ==
  ASSUME TypeOK, NEW p \in Order, NEW state \in Verdicts, NEW seen \in Subscription,
         NEW rows \in SubsAfter(p, state, seen)
  PROVE  SubsType(rows)
<1>1. ASSUME rows \in activate_initial_payment(p.sub) PROVE SubsType(rows)
  <2>1. PICK saved \in BOOLEAN :
          rows = [x \in DOMAIN subs |-> IF x = p.sub THEN StartPaid(subs[p.sub], saved)
                               ELSE IF Live(x) THEN Expired(subs[x]) ELSE subs[x]]
    BY <1>1 DEF activate_initial_payment
  <2>2. p.sub \in {Free} \cup Plans
    BY DEF Order, Free, None
  <2> QED
    BY <2>1, <2>2, RowTypes DEF TypeOK, SubsType
<1>2. ASSUME rows \in activate_renewal_payment(p.sub, seen) PROVE SubsType(rows)
  <2>1. p.sub \in {Free} \cup Plans /\ Renewed(seen) \in Subscription
    BY RowTypes DEF Order, Free, None
  <2>2. rows = [subs EXCEPT ![p.sub] = WriteBack(subs[p.sub], seen, Renewed(seen))]
    BY <1>2 DEF activate_renewal_payment
  <2>3. WriteBack(subs[p.sub], seen, Renewed(seen)) \in Subscription
    BY <2>1, WriteBackType DEF TypeOK
  <2> QED
    BY <2>2, <2>3 DEF TypeOK, SubsType
<1>3. ASSUME rows = cancel_pending_subscription(p) PROVE SubsType(rows)
  <2>1. p.sub \in {Free} \cup Plans
    BY DEF Order, Free, None
  <2>2. [subs[p.sub] EXCEPT !.status = "canceled"] \in Subscription
    BY <2>1 DEF TypeOK, Subscription
  <2> QED
    BY <1>3, <2>1, <2>2 DEF cancel_pending_subscription, TypeOK, SubsType
<1>4. SubsType(subs)
  BY DEF SubsType, TypeOK
<1>5. \/ rows \in activate_initial_payment(p.sub)
      \/ rows \in activate_renewal_payment(p.sub, seen)
      \/ rows = cancel_pending_subscription(p)
      \/ rows = subs
  BY DEF SubsAfter
<1> QED
  BY <1>1, <1>2, <1>3, <1>4, <1>5

\* ... and binds the order to the payment, with its old status or the verdict.
LEMMA OrderAfterType ==
  ASSUME TypeOK, NEW p \in Order, NEW state \in Verdicts, NEW c \in Nat, NEW rows, SubsType(rows),
         NEW seen \in Subscription
  PROVE  /\ OrderAfter(p, state, c, rows, seen) \in Order
         /\ OrderAfter(p, state, c, rows, seen).charge = c
         /\ OrderAfter(p, state, c, rows, seen).status \in {p.status, state}
<1>1. p.sub \in {Free} \cup Plans
  BY DEF Order, Free, None
<1>2. seen.end + Period \in Nat /\ rows[p.sub].end \in Nat
  BY <1>1, Durations DEF Subscription, SubsType
<1> DEFINE covers == CASE state # "succeeded" \/ p.sub = None -> p.covers
                         [] p.purpose = "subscription_initial" -> rows[p.sub].end
                         [] OTHER -> seen.end + Period
<1>3. covers \in Nat
  BY <1>2 DEF Order
<1> HIDE DEF covers
<1>4. OrderAfter(p, state, c, rows, seen) =
       [p EXCEPT !.status = IF state = "pending" THEN p.status ELSE state,
            !.charge = c, !.review = FALSE, !.started = None,
            !.covers = covers]
  BY DEF OrderAfter, covers
<1>5. (IF state = "pending" THEN p.status ELSE state) \in {p.status, state}
  OBVIOUS
<1>6. (IF state = "pending" THEN p.status ELSE state) \in Verdicts \cup {"none"}
  BY DEF Order
<1>7. None \in Nat
  BY DEF None
<1> DEFINE status == IF state = "pending" THEN p.status ELSE state
<1> HIDE DEF status
<1>8. [p EXCEPT !.status = status, !.charge = c, !.review = FALSE, !.started = None, !.covers = covers] \in Order
  BY <1>3, <1>6, <1>7 DEF Order, status
<1> QED
  BY <1>4, <1>5, <1>8 DEF Order, status

-----------------------------------------------------------------------------
\* A plan that is live in `rows`, and one a first payment opened in `ords`.
LiveIn(rows, s) == rows[s].status \in LIVE_SUBSCRIPTION_STATUSES
Rows == {Free} \cup Plans
Opened(ords, s) == \E o \in Orders : /\ ords[o].sub = s /\ ords[o].status = "succeeded"
                                     /\ ords[o].purpose = "subscription_initial"
\* What a transaction may do to an order: keep it, up to the review mark; place it;
\* bind it to a payment of its own.
Kept(p, q) == /\ q.status = p.status /\ q.charge = p.charge /\ q.started = p.started
              /\ q.purpose = p.purpose /\ q.sub = p.sub
New(p, q) == p.status = "none" /\ q.status = "pending" /\ q.charge = None
BoundTo(o, p, q, cs) ==
  /\ p.status \notin {"none", "succeeded"} /\ q.status # "none"
  /\ q.purpose = p.purpose /\ q.sub = p.sub /\ p.charge \in {None, q.charge}
  /\ q.charge \in DOMAIN cs /\ cs[q.charge].order = o
  /\ q.status = "succeeded" => cs[q.charge].state = "succeeded"
OrdersMove(ords, cs) ==
  \A o \in Orders : \/ Kept(orders[o], ords[o]) \/ New(orders[o], ords[o])
                    \/ BoundTo(o, orders[o], ords[o], cs)
\* What a transaction may do to the plans: none becomes live without its first payment,
\* and the account is not left without one.
RowsMove(rows, ords) ==
  /\ \A s \in Plans : LiveIn(rows, s) => LiveIn(subs, s) \/ Opened(ords, s)
  /\ (\E s \in Rows : LiveIn(subs, s)) => \E s \in Rows : LiveIn(rows, s)
\* A good result, given the payments `cs` that exist after it.
Good(ords, rows, cs) ==
  OrdersType(ords) /\ SubsType(rows) /\ OrdersMove(ords, cs) /\ RowsMove(rows, ords)
\* At most one plan is live.
OneLive(rows) == \A s, u \in Rows : LiveIn(rows, s) /\ LiveIn(rows, u) => s = u

\* A first payment that succeeded stays: no step takes an order's success back.
LEMMA OpenedStays ==
  ASSUME NEW ords, NEW cs, OrdersMove(ords, cs), NEW s, Opened(orders, s)
  PROVE  Opened(ords, s)
BY DEF OrdersMove, Opened, Kept, New, BoundTo

\* Leaving both tables alone is a good result.
LEMMA SameIsGood == ASSUME TypeOK, NEW cs PROVE Good(orders, subs, cs)
BY DEF TypeOK, Good, OrdersType, SubsType, OrdersMove, RowsMove, Kept

\* Activation, renewal and the cancellation of a pending plan never leave the account
\* without a plan, and a plan becomes live only through a first payment that succeeded.
LEMMA SubsAfterMove ==
  ASSUME TypeOK, NEW p \in Order, NEW state \in Verdicts, NEW seen \in Subscription,
         NEW rows \in SubsAfter(p, state, seen), NEW ords,
         state = "succeeded" /\ p.purpose = "subscription_initial" => Opened(ords, p.sub),
         seen.status \in LIVE_SUBSCRIPTION_STATUSES /\ p.sub \in Plans
           => LiveIn(subs, p.sub) \/ Opened(ords, p.sub)
  PROVE  RowsMove(rows, ords)
<1>0. p.sub \in Rows /\ DOMAIN subs = Rows
  BY DEF Order, Free, None, Rows, TypeOK
<1>1. ASSUME rows \in activate_initial_payment(p.sub), Opened(ords, p.sub)
      PROVE  RowsMove(rows, ords)
  <2>1. PICK saved \in BOOLEAN :
          rows = [x \in DOMAIN subs |-> IF x = p.sub THEN StartPaid(subs[p.sub], saved)
                               ELSE IF Live(x) THEN Expired(subs[x]) ELSE subs[x]]
    BY <1>1 DEF activate_initial_payment
  <2>2. StartPaid(subs[p.sub], saved).status = "active"
    BY <1>0 DEF StartPaid, TypeOK, Subscription, Rows
  <2>3. \A x \in Rows : Expired(subs[x]).status = "expired"
    BY DEF Expired, TypeOK, Subscription, Rows
  <2>4. LiveIn(rows, p.sub)
    BY <1>0, <2>1, <2>2 DEF LiveIn, LIVE_SUBSCRIPTION_STATUSES
  <2>5. \A s \in Rows : s # p.sub => ~LiveIn(rows, s)
    BY <1>0, <2>1, <2>3 DEF LiveIn, LIVE_SUBSCRIPTION_STATUSES, Live
  <2> QED
    BY <1>0, <1>1, <2>4, <2>5 DEF RowsMove, Rows
<1>2. ASSUME rows \in activate_renewal_payment(p.sub, seen)
      PROVE  RowsMove(rows, ords)
  <2>1. /\ rows = [subs EXCEPT ![p.sub] = WriteBack(subs[p.sub], seen, Renewed(seen))]
        /\ seen.status \in LIVE_SUBSCRIPTION_STATUSES
    BY <1>2 DEF activate_renewal_payment
  <2>2. Renewed(seen).status = "active"
    BY DEF Renewed, Subscription
  <2>3. WriteBack(subs[p.sub], seen, Renewed(seen)).status \in {"active", subs[p.sub].status}
    BY <1>0, <2>2 DEF WriteBack, TypeOK, Subscription, Rows
  <2>4. \A s \in Rows : s # p.sub => rows[s] = subs[s]
    BY <1>0, <2>1
  <2>5. rows[p.sub].status \in {"active", subs[p.sub].status}
    BY <1>0, <2>1, <2>3
  <2> QED
    BY <1>0, <2>1, <2>4, <2>5 DEF RowsMove, LiveIn, LIVE_SUBSCRIPTION_STATUSES, Rows
<1>3. ASSUME rows = cancel_pending_subscription(p) PROVE RowsMove(rows, ords)
  <2>1. subs[p.sub].status = "pending_payment" =>
          [subs EXCEPT ![p.sub].status = "canceled"][p.sub].status = "canceled"
    BY <1>0 DEF TypeOK, Subscription, Rows
  <2>2. \A s \in Rows : LiveIn(rows, s) <=> LiveIn(subs, s)
    BY <1>0, <1>3, <2>1 DEF cancel_pending_subscription, LiveIn, LIVE_SUBSCRIPTION_STATUSES
  <2> QED
    BY <2>2 DEF RowsMove, Rows
<1>4. RowsMove(subs, ords)
  BY DEF RowsMove
<1>5. \/ rows \in activate_initial_payment(p.sub) /\ Opened(ords, p.sub)
      \/ rows \in activate_renewal_payment(p.sub, seen)
      \/ rows = cancel_pending_subscription(p)
      \/ rows = subs
  BY DEF SubsAfter
<1> QED
  BY <1>1, <1>2, <1>3, <1>4, <1>5

\* apply_provider_state is good if the verdict is what the provider says of a payment
\* of that order, and the session's copy of the subscription is not live without payment.
LEMMA ApplyIsGood ==
  ASSUME TypeOK, NEW o \in Orders, orders[o].status # "none", NEW state \in Verdicts,
         NEW cs, NEW c \in DOMAIN cs, c \in Nat, cs[c].order = o,
         orders[o].charge \in {None, c},
         state = "succeeded" => cs[c].state = "succeeded",
         NEW seen \in Subscription,
         seen.status \in LIVE_SUBSCRIPTION_STATUSES /\ orders[o].sub \in Plans
           => LiveIn(subs, orders[o].sub) \/ Opened(orders, orders[o].sub),
         NEW db \in apply_provider_state(o, state, c, seen)
  PROVE  Good(db.orders, db.subs, cs)
<1> DEFINE p == orders[o]
<1>0. p \in Order
  BY DEF TypeOK
<1>1. CASE orders[o].status = "succeeded"
  <2>1. db = [orders |-> orders, subs |-> subs]
    BY <1>1 DEF apply_provider_state
  <2> QED
    BY <2>1, SameIsGood
<1>2. CASE orders[o].status # "succeeded"
  <2>1. PICK rows \in SubsAfter(p, state, seen) :
          db = [orders |-> [orders EXCEPT ![o] = OrderAfter(p, state, c, rows, seen)],
                subs |-> rows]
    BY <1>2 DEF apply_provider_state, ApplyAgain
  <2> DEFINE q == OrderAfter(p, state, c, rows, seen)
  <2>2. SubsType(rows)
    BY <1>0, SubsAfterType
  <2>3. q \in Order /\ q.charge = c /\ q.status \in {p.status, state}
    BY <1>0, <2>2, OrderAfterType
  <2>4. q.purpose = p.purpose /\ q.sub = p.sub /\ (state # "pending" => q.status = state)
    BY <1>0 DEF OrderAfter, Order
  <2>5. BoundTo(o, p, q, cs)
    BY <1>2, <2>3, <2>4 DEF BoundTo, Verdicts
  <2>6. db.orders = [orders EXCEPT ![o] = q] /\ db.subs = rows
    BY <2>1
  <2> HIDE DEF q
  <2>7. db.orders[o] = q /\ \A x \in Orders : x # o => db.orders[x] = orders[x]
    BY <2>6 DEF TypeOK
  <2>8. OrdersMove(db.orders, cs) /\ OrdersType(db.orders)
    BY <2>3, <2>5, <2>6, <2>7 DEF OrdersMove, Kept, OrdersType, TypeOK
  <2>9. state = "succeeded" /\ p.purpose = "subscription_initial" => Opened(db.orders, p.sub)
    BY <2>4, <2>7 DEF Opened
  <2>10. RowsMove(rows, db.orders)
    BY <1>0, <2>8, <2>9, OpenedStays, SubsAfterMove
  <2> QED
    BY <2>2, <2>6, <2>8, <2>10 DEF Good
<1> QED
  BY <1>1, <1>2

\* A commit keeps at most one plan live, because the partial unique index does.
LEMMA CommitIsGood ==
  ASSUME TypeOK, NEW cs, NEW dbs, \A db \in dbs : Good(db.orders, db.subs, cs),
         OneLive(subs), Commit(dbs)
  PROVE  Good(orders', subs', cs) /\ OneLive(subs')
<1>1. CASE Allowed(dbs) = {}
  BY <1>1, SameIsGood DEF Commit
<1>2. CASE Allowed(dbs) # {}
  <2>1. PICK db \in Allowed(dbs) : orders' = db.orders /\ subs' = db.subs
    BY <1>2 DEF Commit
  <2>2. db \in dbs /\ IndexesHold(db.orders, db.subs)
    BY DEF Allowed
  <2>3. OneLive(db.subs)
    BY <2>2 DEF IndexesHold, OneLive, LiveIn, Rows
  <2> QED
    BY <2>1, <2>2, <2>3
<1> QED
  BY <1>1, <1>2

\* Marking a paid plan past due neither kills nor creates a plan.
LEMMA PastDueIsGood ==
  ASSUME TypeOK, NEW cs, NEW ords, NEW rows, Good(ords, rows, cs),
         NEW s \in Rows, NEW seen \in Subscription, s \in Plans => Opened(orders, s),
         NEW t \in Nat
  PROVE  Good(ords, MarkPastDue(rows, s, seen, t), cs)
<1> DEFINE row == WriteBack(rows[s], seen, PastDue(seen, t))
<1>1. PastDue(seen, t) \in Subscription /\ rows[s] \in Subscription
  BY RowTypes DEF Good, SubsType, Rows
<1>2. row \in Subscription
  BY <1>1, WriteBackType
<1>3. PastDue(seen, t).status = "past_due"
  BY DEF PastDue, Subscription
<1>4. row.status \in {"past_due", rows[s].status}
  BY <1>1, <1>3 DEF WriteBack, Subscription
<1> HIDE DEF row
<1>5. MarkPastDue(rows, s, seen, t) = [rows EXCEPT ![s] = row]
  BY DEF MarkPastDue, row
<1>6. SubsType([rows EXCEPT ![s] = row])
  BY <1>2 DEF SubsType, Good
<1>7. /\ [rows EXCEPT ![s] = row][s] = row
      /\ \A u \in Rows : u # s => [rows EXCEPT ![s] = row][u] = rows[u]
  BY DEF SubsType, Good, Rows
<1>8. \A u \in Rows : LiveIn(rows, u) => LiveIn([rows EXCEPT ![s] = row], u)
  BY <1>4, <1>7 DEF LiveIn, LIVE_SUBSCRIPTION_STATUSES
<1>9. \A u \in Rows : LiveIn([rows EXCEPT ![s] = row], u) => LiveIn(rows, u) \/ u = s
  BY <1>7 DEF LiveIn
<1>10. s \in Plans => Opened(ords, s)
  BY OpenedStays DEF Good
<1>11. RowsMove([rows EXCEPT ![s] = row], ords)
  BY <1>8, <1>9, <1>10 DEF Good, RowsMove, Rows
<1> QED
  BY <1>5, <1>6, <1>11 DEF Good

-----------------------------------------------------------------------------
\* What a submission may do to the provider's payments.
NewCharge(o, state) == [order |-> o, state |-> state, born |-> now]
Grown(o, cs) == \/ cs = charges
                \/ /\ Known(o) = {}
                   /\ \E state \in Verdicts : cs = Append(charges, NewCharge(o, state))

\* Typing of the provider's payments.
LEMMA ChargeType ==
  ASSUME TypeOK
  PROVE  /\ DOMAIN charges = 1..Len(charges) /\ Len(charges) \in Nat
         /\ \A c \in DOMAIN charges : charges[c] \in Charge /\ c \in Nat \ {0}
<1>1. DOMAIN charges = 1..Len(charges) /\ Len(charges) \in Nat
  BY LenProperties DEF TypeOK
<1>2. \A c \in 1..Len(charges) : charges[c] \in Charge
  BY ElementOfSeq DEF TypeOK
<1> QED
  BY <1>1, <1>2

\* What appending one payment does.
LEMMA AppendCharge ==
  ASSUME TypeOK, NEW o \in Orders, NEW state \in Verdicts, NEW cs,
         cs = Append(charges, NewCharge(o, state))
  PROVE  /\ cs \in Seq(Charge) /\ DOMAIN cs = 1..(Len(charges) + 1)
         /\ cs[Len(charges) + 1] = NewCharge(o, state)
         /\ \A c \in DOMAIN charges : cs[c] = charges[c]
<1>1. NewCharge(o, state) \in Charge
  BY DEF NewCharge, Charge, TypeOK
<1>2. cs \in Seq(Charge) /\ Len(cs) = Len(charges) + 1
  BY <1>1 DEF TypeOK
<1>3. DOMAIN cs = 1..Len(cs)
  BY <1>2, LenProperties
<1>4. cs[Len(charges) + 1] = NewCharge(o, state) /\ \A c \in 1..Len(charges) : cs[c] = charges[c]
  BY DEF TypeOK
<1> QED
  BY <1>2, <1>3, <1>4, ChargeType

\* A submission leaves the payments that exist alone.
LEMMA GrownKeeps ==
  ASSUME TypeOK, NEW o \in Orders, NEW cs, Grown(o, cs)
  PROVE  /\ cs \in Seq(Charge) /\ DOMAIN charges \subseteq DOMAIN cs
         /\ \A c \in DOMAIN charges : cs[c] = charges[c]
         /\ \A c \in DOMAIN cs : c \in Nat \ {0} /\ cs[c].state \in Verdicts
<1>1. CASE cs = charges
  BY <1>1, ChargeType DEF TypeOK, Charge
<1>2. CASE \E state \in Verdicts : cs = Append(charges, NewCharge(o, state))
  <2>1. PICK state \in Verdicts : cs = Append(charges, NewCharge(o, state))
    BY <1>2
  <2>2. cs \in Seq(Charge) /\ DOMAIN charges \subseteq DOMAIN cs
        /\ \A c \in DOMAIN charges : cs[c] = charges[c]
    <3>1. /\ cs \in Seq(Charge) /\ DOMAIN cs = 1..(Len(charges) + 1)
          /\ \A c \in DOMAIN charges : cs[c] = charges[c]
      BY <2>1, AppendCharge
    <3> QED
      BY <3>1, ChargeType
  <2>3. \A c \in DOMAIN cs : c \in Nat \ {0} /\ cs[c] \in Charge
    BY <2>2, LenProperties, ElementOfSeq
  <2> QED
    BY <2>2, <2>3 DEF Charge
<1> QED
  BY <1>1, <1>2 DEF Grown

\* What POST does: at most one new payment, only if the provider knows none under the
\* key; a caller that was answered holds a payment of its order.
LEMMA PostGrows ==
  ASSUME TypeOK, NEW o \in Orders, NEW outcome \in Outcomes, NEW r \in Post(o, outcome)
  PROVE  /\ Grown(o, r.charges)
         /\ outcome \in {"answered", "lost"} =>
              r.charge \in DOMAIN r.charges /\ r.charges[r.charge].order = o
<1>1. CASE outcome \in {"unsent", "refused"}
  <2>1. r = [charges |-> charges, charge |-> None]
    BY <1>1 DEF Post
  <2> QED
    BY <1>1, <2>1 DEF Grown
<1>2. CASE outcome \in {"answered", "lost"} /\ Known(o) # {}
  <2>1. PICK c \in Known(o) : r = [charges |-> charges, charge |-> c]
    BY <1>2 DEF Post
  <2>2. r.charges = charges /\ r.charge = c
    BY <2>1
  <2>3. c \in DOMAIN charges /\ charges[c].order = o
    BY DEF Known
  <2> QED
    BY <2>2, <2>3 DEF Grown
<1>3. CASE outcome \in {"answered", "lost"} /\ Known(o) = {}
  <2>1. PICK state \in FirstStates(o) :
          r = [charges |-> Append(charges, NewCharge(o, state)), charge |-> Len(charges) + 1]
    BY <1>3 DEF Post, NewCharge
  <2>2. state \in Verdicts
    BY DEF FirstStates, Verdicts
  <2>3. r.charges = Append(charges, NewCharge(o, state)) /\ r.charge = Len(charges) + 1
    BY <2>1
  <2>4. r.charge \in DOMAIN r.charges /\ r.charges[r.charge].order = o
    BY <2>2, <2>3, AppendCharge, ChargeType DEF NewCharge
  <2> QED
    BY <1>3, <2>2, <2>3, <2>4 DEF Grown
<1> QED
  BY <1>1, <1>2, <1>3 DEF Outcomes

-----------------------------------------------------------------------------
\* The links between tables, provider, notifications and passes. Every payment belongs to
\* an order that exists ...
ChargeLinks == \A c \in DOMAIN charges : orders[charges[c].order].status # "none"
\* ... an order is bound to a payment of its own ...
BoundLinks  == \A o \in Orders : orders[o].charge # None =>
                 orders[o].charge \in DOMAIN charges /\ charges[orders[o].charge].order = o
\* ... a notification carries a state its payment still has if it is final success ...
HookLinks   == \A h \in hooks :
                 /\ h.charge \in DOMAIN charges
                 /\ h.state = "succeeded" => charges[h.charge].state = "succeeded"
\* ... a pass reads the clock when it starts and ends within Lag, and handles a plan that
\* was paid, and an order of that plan ...
PassLinked(p, ords) ==
  /\ p.at # "idle" => p.clock <= now /\ now <= p.clock + Lag
  /\ p.at = "sweep" => p.todo # {}
  /\ p.at \in {"locked", "unlocked", "created"} =>
       p.sub \in Plans /\ Opened(ords, p.sub)
  /\ p.at = "created" => /\ p.order \in Orders /\ ords[p.order].sub = p.sub
                         /\ ords[p.order].status # "none"
PassLinks == \A w \in Workers : PassLinked(pass[w], orders)
\* ... an order succeeded only on a payment that succeeded ...
PaidLinks == \A o \in Orders : orders[o].status = "succeeded" =>
               orders[o].charge # None /\ charges[orders[o].charge].state = "succeeded"
\* ... and exactly one plan is live, opened by its first payment.
PlanLinks == /\ OneLive(subs) /\ \E s \in Rows : LiveIn(subs, s)
             /\ \A s \in Plans : LiveIn(subs, s) => Opened(orders, s)
Linked == ChargeLinks /\ BoundLinks /\ HookLinks /\ PassLinks /\ PaidLinks /\ PlanLinks

\* How the payments at the provider may change in a step: one is added only by a request
\* whose age is judged by a reading of the clock at most Lag old.
Timely(o) == \E t \in Nat : Sendable(o, t) /\ t <= now /\ now <= t + Lag
Appended == \E o \in Orders, state \in Verdicts :
  /\ orders[o].status # "none" /\ orders[o].charge = None /\ Timely(o) /\ Known(o) = {}
  /\ charges' = Append(charges, NewCharge(o, state))
Settled == \E c \in DOMAIN charges, state \in Verdicts :
  charges[c].state \in OPEN_PAYMENT_STATUSES /\ charges' = [charges EXCEPT ![c].state = state]
ChargesMove == charges' = charges \/ Appended \/ Settled
\* How notifications and passes may change in a step.
HooksMove == \A h \in hooks' :
  \/ h \in hooks
  \/ \E c \in DOMAIN charges : h = [charge |-> c, state |-> charges[c].state]
PassMove == \E f \in [Workers -> Pass] :
  pass' = f /\ \A w \in Workers : f[w] = pass[w] \/ PassLinked(f[w], orders')
\* Every step but the clock's.
Moves == /\ now' = now /\ faults' \in 0..MaxFaults
         /\ Good(orders', subs', charges') /\ OneLive(subs')
         /\ ChargesMove /\ HooksMove /\ PassMove

\* The budget of failures is never overdrawn.
LEMMA CostIsCounted ==
  ASSUME TypeOK, NEW outcome \in Outcomes
  PROVE  faults + Cost(outcome) \in 0..MaxFaults
BY PaymentBounds DEF TypeOK, Outcomes, Cost

\* A step that leaves the passes alone.
LEMMA SamePass == TypeOK /\ pass' = pass => PassMove
BY DEF TypeOK, PassMove

\* A step that leaves the failures alone.
LEMMA SameFaults == TypeOK => faults \in 0..MaxFaults
BY DEF TypeOK

\* An idle pass.
LEMMA IdleIsTyped == Idle \in Pass /\ Idle.at = "idle"
<1>1. NoPlan \in Subscription
  BY DEF NoPlan, Subscription, None
<1> QED
  BY <1>1 DEF Idle, Pass, None

\* Ending a pass.
LEMMA IdleMove ==
  ASSUME TypeOK, NEW w \in Workers, Goes(w, Idle)
  PROVE  PassMove
<1>1. PassLinked(Idle, orders')
  BY IdleIsTyped DEF PassLinked
<1> QED
  BY <1>1, IdleIsTyped DEF Goes, PassMove, TypeOK

\* Going on to the sweep, or ending when no order is left.
LEMMA SweepMove ==
  ASSUME TypeOK, Linked, NEW w \in Workers, pass[w].at # "idle", SweepNext(w)
  PROVE  PassMove
<1> DEFINE t == pass[w].clock
           listed == Unsettled(t)
<1>0. t \in Nat /\ t <= now /\ now <= t + Lag
  BY DEF TypeOK, Pass, Linked, PassLinks, PassLinked
<1>1. CASE listed = {}
  BY <1>1, IdleMove DEF SweepNext
<1>2. CASE listed # {}
  <2> DEFINE p == [Idle EXCEPT !.at = "sweep", !.clock = t, !.todo = listed]
  <2>0. listed \in SUBSET Orders
    BY DEF Unsettled
  <2>1. p \in Pass /\ p.at = "sweep" /\ p.todo = listed /\ p.clock = t
    <3> HIDE DEF t, listed
    <3> QED
      BY <1>0, <2>0, IdleIsTyped DEF Pass
  <2>2. pass' = [pass EXCEPT ![w] = p]
    BY <1>2 DEF SweepNext, Goes
  <2> HIDE DEF p, listed, t
  <2>3. PassLinked(p, orders')
    BY <1>0, <1>2, <2>1 DEF PassLinked
  <2> QED
    BY <2>1, <2>2, <2>3 DEF PassMove, TypeOK
<1> QED
  BY <1>1, <1>2

-----------------------------------------------------------------------------
\* A new order: pending, unbound, its request just prepared.
LEMMA NewOrderIsGood ==
  ASSUME TypeOK, FreshOrders # {}, NEW purpose \in Purposes, NEW s \in {None} \cup Plans,
         NEW due \in Nat, NEW t \in Nat, NEW cs
  PROVE  /\ OrdersType(NewOrder(purpose, s, due, t))
         /\ OrdersMove(NewOrder(purpose, s, due, t), cs)
         /\ NextOrder \in Orders
         /\ NewOrder(purpose, s, due, t)[NextOrder].sub = s
         /\ NewOrder(purpose, s, due, t)[NextOrder].status # "none"
<1> DEFINE q == [NoOrder EXCEPT !.purpose = purpose, !.sub = s, !.status = "pending",
                             !.started = t, !.due = due]
<1>1. q \in Order /\ q.status = "pending" /\ q.charge = None /\ q.sub = s
  <2>1. None \in Nat /\ "pending" \in Verdicts
    BY DEF None, Verdicts
  <2>2. NoOrder \in Order /\ NoOrder.charge = None
    BY <2>1 DEF NoOrder, Order, Purposes
  <2>3. q \in Order
    BY <2>1, <2>2 DEF Order
  <2>4. q.charge = NoOrder.charge
    BY <2>2 DEF Order
  <2>5. q.status = "pending" /\ q.sub = s
    BY <2>2 DEF Order
  <2> QED
    BY <2>2, <2>3, <2>4, <2>5
<1>2. NewOrder(purpose, s, due, t) = [orders EXCEPT ![NextOrder] = q]
  BY DEF NewOrder
<1> HIDE DEF q
<1>3. NextOrder \in Orders /\ orders[NextOrder].status = "none"
  BY NextOrderIsFresh DEF FreshOrders
<1> DEFINE ords == [orders EXCEPT ![NextOrder] = q]
<1>4. ords[NextOrder] = q /\ \A x \in Orders : x # NextOrder => ords[x] = orders[x]
  BY <1>3 DEF TypeOK
<1>5. OrdersType(ords)
  BY <1>1 DEF OrdersType, TypeOK
<1> HIDE DEF ords
<1>6. OrdersMove(ords, cs)
  BY <1>1, <1>3, <1>4 DEF OrdersMove, Kept, New
<1> QED
  BY <1>1, <1>2, <1>3, <1>4, <1>5, <1>6 DEF ords

\* A top-up is ordered.
LEMMA CreatePaymentMoves == TypeOK /\ Linked /\ create_payment => Moves
<1> SUFFICES ASSUME TypeOK, Linked, create_payment PROVE Moves
  OBVIOUS
<1>1. OrdersType(orders') /\ OrdersMove(orders', charges')
  <2>1. "wallet_topup" \in Purposes /\ None \in Nat /\ now \in Nat
    BY DEF Purposes, None, TypeOK
  <2> QED
    BY <2>1, NewOrderIsGood DEF create_payment
<1>2. Good(orders', subs', charges')
  BY <1>1 DEF create_payment, Good, RowsMove, SubsType, TypeOK
<1> QED
  BY <1>2, SamePass DEF create_payment, Moves, Linked, PlanLinks, ChargesMove, HooksMove, TypeOK

\* A plan is ordered.
LEMMA CheckoutMoves ==
  ASSUME TypeOK, Linked, NEW s \in Plans, NEW auto \in BOOLEAN,
         create_subscription_checkout(s, auto)
  PROVE  Moves
<1>1. OrdersType(orders') /\ OrdersMove(orders', charges')
  <2>1. "subscription_initial" \in Purposes /\ None \in Nat /\ now \in Nat
    BY DEF Purposes, None, TypeOK
  <2> QED
    BY <2>1, NewOrderIsGood DEF create_subscription_checkout
<1>2. subs' = [subs EXCEPT ![s] = [@ EXCEPT !.status = "pending_payment", !.auto = auto]]
  BY DEF create_subscription_checkout, TypeOK
<1>3. SubsType(subs')
  BY <1>2 DEF SubsType, TypeOK, Subscription
<1>4. subs'[s].status = "pending_payment" /\ subs[s].status = "none"
  BY <1>2 DEF create_subscription_checkout, TypeOK, Subscription
<1>5. \A x \in Rows : LiveIn(subs', x) <=> LiveIn(subs, x)
  BY <1>2, <1>4 DEF LiveIn, LIVE_SUBSCRIPTION_STATUSES, Rows, TypeOK
<1>6. Good(orders', subs', charges') /\ OneLive(subs')
  BY <1>1, <1>3, <1>5 DEF Good, RowsMove, OneLive, Linked, PlanLinks, Rows
<1> QED
  BY <1>6, SamePass
  DEF create_subscription_checkout, Moves, ChargesMove, HooksMove, TypeOK

\* The owner's change of renewal leaves the statuses alone.
LEMMA RenewalSwitchMoves ==
  ASSUME TypeOK, Linked, NEW s \in Plans, NEW row \in Subscription, row.status = subs[s].status,
         subs' = [subs EXCEPT ![s] = row],
         UNCHANGED <<now, orders, charges, hooks, pass, faults>>
  PROVE  Moves
<1>1. \A x \in Rows : LiveIn(subs', x) <=> LiveIn(subs, x)
  BY DEF LiveIn, Rows, TypeOK
<1>2. Good(orders', subs', charges') /\ OneLive(subs')
  BY <1>1 DEF Good, RowsMove, OneLive, Linked, PlanLinks, Rows, SubsType, OrdersType, OrdersMove,
              Kept, TypeOK
<1> QED
  BY <1>2, SamePass DEF Moves, ChargesMove, HooksMove, TypeOK

\* Renewal is cancelled.
LEMMA CancelRenewalMoves ==
  ASSUME TypeOK, Linked, NEW s \in Plans, cancel_renewal(s)
  PROVE  Moves
<1> DEFINE row == [subs[s] EXCEPT !.auto = FALSE, !.cancelAtEnd = TRUE, !.next = None]
<1>1. row \in Subscription /\ row.status = subs[s].status
  BY DEF TypeOK, Subscription, None
<1>2. subs' = [subs EXCEPT ![s] = row]
  BY DEF cancel_renewal, TypeOK
<1> QED
  BY <1>1, <1>2, RenewalSwitchMoves DEF cancel_renewal

\* Renewal is restored.
LEMMA RestoreRenewalMoves ==
  ASSUME TypeOK, Linked, NEW s \in Plans, restore_renewal(s)
  PROVE  Moves
<1> DEFINE row == [subs[s] EXCEPT !.auto = TRUE, !.cancelAtEnd = FALSE, !.next = subs[s].end]
<1>1. row \in Subscription /\ row.status = subs[s].status
  BY DEF TypeOK, Subscription
<1>2. subs' = [subs EXCEPT ![s] = row]
  BY DEF restore_renewal, TypeOK
<1> QED
  BY <1>1, <1>2, RenewalSwitchMoves DEF restore_renewal

-----------------------------------------------------------------------------
\* What asking the provider about an order may do to its payments.
Asked(o, cs) == Grown(o, cs) /\ (cs # charges => orders[o].charge = None /\ Timely(o))

\* What a caller that holds an open order's row does to the provider's payments.
LEMMA AskedMoves ==
  ASSUME TypeOK, NEW o \in Orders, orders[o].status # "none", Asked(o, charges')
  PROVE  ChargesMove
BY DEF Asked, Grown, ChargesMove, Appended

\* A caller is answered about a payment of its own order, bound or not.
LEMMA AskIsAsked ==
  ASSUME TypeOK, Linked, NEW o \in Orders, NEW t \in Nat, Askable(o, t), t <= now, now <= t + Lag,
         NEW outcome \in Outcomes, NEW r \in Ask(o, outcome)
  PROVE  /\ Asked(o, r.charges)
         /\ outcome \in {"answered", "lost"} =>
              /\ r.charge \in DOMAIN r.charges /\ r.charges[r.charge].order = o
              /\ r.charge \in Nat /\ r.charges[r.charge].state \in Verdicts
              /\ orders[o].charge \in {None, r.charge}
<1>1. CASE orders[o].charge # None
  <2>1. r.charges = charges /\ r.charge = orders[o].charge
    BY <1>1 DEF Ask
  <2>2. r.charge \in DOMAIN charges /\ charges[r.charge].order = o
    BY <1>1, <2>1 DEF Linked, BoundLinks
  <2> QED
    BY <2>1, <2>2, ChargeType DEF Asked, Grown, Charge
<1>2. CASE orders[o].charge = None
  <2>1. r \in Post(o, outcome) /\ Timely(o)
    BY <1>2 DEF Ask, Askable, Timely
  <2>2. /\ Grown(o, r.charges)
        /\ outcome \in {"answered", "lost"} =>
             r.charge \in DOMAIN r.charges /\ r.charges[r.charge].order = o
    BY <2>1, PostGrows
  <2> QED
    BY <1>2, <2>1, <2>2, GrownKeeps DEF Asked
<1> QED
  BY <1>1, <1>2

\* The copy of a subscription nobody loaded earlier is its row.
LEMMA FreshIsTyped ==
  ASSUME TypeOK, NEW o \in Orders
  PROVE  /\ Fresh(o) \in Subscription
         /\ orders[o].sub \in Plans => Fresh(o) = subs[orders[o].sub]
<1>1. NoPlan \in Subscription
  BY DEF NoPlan, Subscription, None
<1>2. orders[o].sub \in {None} \cup Plans
  BY DEF TypeOK, Order
<1> QED
  BY <1>1, <1>2, PaymentBounds DEF Fresh, TypeOK, Plans, None

\* Applying a verdict with a fresh copy of the subscription.
LEMMA FreshIsGood ==
  ASSUME TypeOK, NEW o \in Orders, orders[o].status # "none", NEW state \in Verdicts,
         NEW cs, NEW c \in DOMAIN cs, c \in Nat, cs[c].order = o,
         orders[o].charge \in {None, c},
         state = "succeeded" => cs[c].state = "succeeded",
         NEW db \in apply_provider_state(o, state, c, Fresh(o))
  PROVE  Good(db.orders, db.subs, cs)
BY FreshIsTyped, ApplyIsGood DEF LiveIn

\* A caller with a session of its own applies what the provider said.
LEMMA SettleIsGood ==
  ASSUME TypeOK, Linked, NEW o \in Orders, orders[o].status # "none", NEW state \in Verdicts,
         NEW cs, NEW c \in DOMAIN cs, c \in Nat, cs[c].order = o,
         orders[o].charge \in {None, c},
         state = "succeeded" => cs[c].state = "succeeded",
         Settle(o, state, c)
  PROVE  Good(orders', subs', cs) /\ OneLive(subs')
<1>1. \A db \in apply_provider_state(o, state, c, Fresh(o)) : Good(db.orders, db.subs, cs)
  BY FreshIsGood
<1> QED
  BY <1>1, CommitIsGood DEF Settle, Linked, PlanLinks

\* Setting an order aside for review changes nothing else.
LEMMA ReviewIsGood ==
  ASSUME TypeOK, NEW o \in Orders, NEW cs
  PROVE  Good([orders EXCEPT ![o].review = TRUE], subs, cs)
<1> DEFINE q == [orders[o] EXCEPT !.review = TRUE]
<1>1. q \in Order /\ Kept(orders[o], q)
  BY DEF TypeOK, Order, Kept
<1> HIDE DEF q
<1> DEFINE ords == [orders EXCEPT ![o] = q]
<1>2. ords \in [Orders -> Order] /\ ords[o] = q /\ \A x \in Orders : x # o => ords[x] = orders[x]
  BY <1>1 DEF TypeOK
<1>3. [orders EXCEPT ![o].review = TRUE] = ords
  BY DEF q
<1> HIDE DEF ords
<1>4. OrdersMove(ords, cs)
  BY <1>1, <1>2 DEF OrdersMove, Kept
<1> QED
  BY <1>2, <1>3, <1>4 DEF Good, OrdersType, SubsType, RowsMove, TypeOK

\* The checkout's call, its retry and the reconcile button of an unbound order.
LEMMA ResumeMoves ==
  ASSUME TypeOK, Linked, NEW o \in Orders, NEW outcome \in Outcomes, resume_checkout(o, outcome)
  PROVE  Moves
<1>1. orders[o].status = "pending" /\ orders[o].charge = None /\ Sendable(o, now)
  BY DEF resume_checkout
<1>2. PICK r \in Post(o, outcome) :
        /\ charges' = r.charges
        /\ CASE outcome = "answered" -> Settle(o, r.charges[r.charge].state, r.charge)
             [] outcome = "refused"  -> require_manual_review(o) /\ UNCHANGED subs
             [] OTHER -> UNCHANGED <<orders, subs>>
  BY DEF resume_checkout
<1>3. /\ r \in Ask(o, outcome) /\ Askable(o, now)
      /\ now \in Nat /\ now <= now /\ now <= now + Lag
  BY <1>1, PaymentBounds DEF Ask, Askable, TypeOK
<1>4. ChargesMove
  BY <1>1, <1>2, <1>3, AskIsAsked, AskedMoves
<1>5. Good(orders', subs', charges') /\ OneLive(subs')
  <2>1. CASE outcome = "answered"
    <3>1. Settle(o, r.charges[r.charge].state, r.charge)
      BY <1>2, <2>1
    <3>2. /\ r.charge \in DOMAIN r.charges /\ r.charges[r.charge].order = o
          /\ r.charge \in Nat /\ r.charges[r.charge].state \in Verdicts
      BY <1>3, <2>1, AskIsAsked
    <3> QED
      BY <1>1, <1>2, <3>1, <3>2, SettleIsGood
  <2>2. CASE outcome = "refused"
    BY <1>2, <2>2, ReviewIsGood DEF require_manual_review, Linked, PlanLinks
  <2>3. CASE outcome \notin {"answered", "refused"}
    BY <1>2, <2>3, SameIsGood DEF Linked, PlanLinks
  <2> QED
    BY <2>1, <2>2, <2>3
<1> QED
  BY <1>4, <1>5, SamePass, CostIsCounted DEF resume_checkout, Moves, HooksMove

\* A notification, or the reconcile button, of a bound order.
LEMMA NotifyBoundMoves ==
  ASSUME TypeOK, Linked, NEW o \in Orders, notify_bound(o)
  PROVE  Moves
<1> DEFINE c == orders[o].charge
<1>1. c \in DOMAIN charges /\ charges[c].order = o
  BY DEF notify_bound, Linked, BoundLinks
<1>2. c \in Nat /\ charges[c].state \in Verdicts /\ orders[o].status # "none"
  BY <1>1, ChargeType DEF Charge, Linked, ChargeLinks
<1>3. Settle(o, charges[c].state, c) /\ charges' = charges
  BY DEF notify_bound, VerifiedState
<1>4. Good(orders', subs', charges') /\ OneLive(subs')
  BY <1>1, <1>2, <1>3, SettleIsGood
<1> QED
  BY <1>4, SamePass, SameFaults DEF notify_bound, Moves, ChargesMove, HooksMove

\* A notification of an order not yet bound reads the provider.
LEMMA NotifyReadMoves ==
  ASSUME TypeOK, Linked, NEW c \in DOMAIN charges, notify_read(c)
  PROVE  Moves
<1>1. HooksMove
  BY DEF notify_read, HooksMove, VerifiedState
<1> QED
  BY <1>1, SameIsGood, SamePass, SameFaults
  DEF notify_read, Moves, ChargesMove, Linked, PlanLinks

\* ... and applies what it read, however late: a payment that succeeded stays so.
LEMMA NotifyApplyMoves ==
  ASSUME TypeOK, Linked, NEW h \in hooks, notify_apply(h)
  PROVE  Moves
<1> DEFINE o == charges[h.charge].order
<1>1. /\ h.charge \in DOMAIN charges /\ h.state \in Verdicts /\ h.charge \in Nat
      /\ h.state = "succeeded" => charges[h.charge].state = "succeeded"
  BY DEF Linked, HookLinks, TypeOK
<1>2. o \in Orders /\ orders[o].status # "none"
  BY <1>1, ChargeType DEF Charge, Linked, ChargeLinks
<1>3. \/ orders[o].charge \in {None, h.charge} /\ Settle(o, h.state, h.charge)
      \/ UNCHANGED <<orders, subs>>
  BY DEF notify_apply
<1>4. Good(orders', subs', charges) /\ OneLive(subs')
  BY <1>1, <1>2, <1>3, SettleIsGood, SameIsGood DEF Linked, PlanLinks
<1>5. charges' = charges /\ hooks' \subseteq hooks
  BY DEF notify_apply
<1> QED
  BY <1>4, <1>5, SamePass, SameFaults DEF notify_apply, Moves, ChargesMove, HooksMove

\* A payment settles at the provider.
LEMMA ProviderMovesMoves ==
  ASSUME TypeOK, Linked, NEW c \in DOMAIN charges, NEW state \in Verdicts, ProviderMoves(c, state)
  PROVE  Moves
<1>1. ChargesMove
  BY DEF ProviderMoves, ChargesMove, Settled, OPEN_PAYMENT_STATUSES
<1> QED
  BY <1>1, SameIsGood, SamePass, SameFaults DEF ProviderMoves, Moves, HooksMove, Linked, PlanLinks

-----------------------------------------------------------------------------
\* A pass reads the clock.
LEMMA StartsMoves ==
  ASSUME TypeOK, Linked, NEW w \in Workers, PassStarts(w)
  PROVE  Moves
<1> DEFINE p == [Idle EXCEPT !.at = "started", !.clock = now]
<1>1. now \in Nat /\ now <= now + Lag
  BY PaymentBounds DEF TypeOK
<1>2. p \in Pass /\ p.at = "started" /\ p.clock = now
  BY <1>1, IdleIsTyped DEF Pass
<1>3. pass' = [pass EXCEPT ![w] = p]
  BY DEF PassStarts, Goes
<1> HIDE DEF p
<1>4. PassLinked(p, orders')
  BY <1>1, <1>2 DEF PassLinked
<1>5. PassMove
  BY <1>2, <1>3, <1>4 DEF PassMove, TypeOK
<1> QED
  BY <1>5, SameIsGood, SameFaults DEF PassStarts, Moves, ChargesMove, HooksMove, Linked, PlanLinks

\* A pass selects a due subscription, or the open orders.
LEMMA SelectsMoves ==
  ASSUME TypeOK, Linked, NEW w \in Workers, PassSelects(w)
  PROVE  Moves
<1>0. /\ pass[w].at = "started" /\ pass[w] \in Pass
      /\ pass[w].clock <= now /\ now <= pass[w].clock + Lag
  BY DEF PassSelects, TypeOK, Linked, PassLinks, PassLinked
<1>1. CASE SweepNext(w)
  BY <1>0, <1>1, SweepMove, SameIsGood, SameFaults
  DEF PassSelects, Moves, ChargesMove, HooksMove, Linked, PlanLinks
<1>2. ASSUME NEW s \in Plans, Due(s, pass[w].clock), NEW at \in {"locked", "unlocked"},
             Goes(w, [pass[w] EXCEPT !.at = at, !.sub = s, !.seen = subs[s]])
      PROVE  Moves
  <2> DEFINE p == [pass[w] EXCEPT !.at = at, !.sub = s, !.seen = subs[s]]
  <2>2. subs[s] \in Subscription
    BY DEF TypeOK
  <2>3. p \in Pass /\ p.at = at /\ p.sub = s /\ p.clock = pass[w].clock
    BY <1>0, <2>2 DEF Pass
  <2> HIDE DEF p
  <2>4. PassLinked(p, orders')
    BY <1>0, <1>2, <2>3 DEF PassLinked, PassSelects, Linked, PlanLinks, Due, Live, LiveIn, Opened
  <2>5. pass' = [pass EXCEPT ![w] = p]
    BY <1>2 DEF Goes, p
  <2>6. PassMove
    BY <2>3, <2>4, <2>5 DEF PassMove, TypeOK
  <2> QED
    BY <2>6, SameIsGood, SameFaults
    DEF PassSelects, Moves, ChargesMove, HooksMove, Linked, PlanLinks
<1> QED
  BY <1>1, <1>2 DEF PassSelects

\* What a pass that handles a subscription knows of it, however stale its copy is.
LEMMA HandledIsLinked ==
  ASSUME TypeOK, Linked, NEW w \in Workers, pass[w].at \in {"locked", "unlocked", "created"}
  PROVE  /\ pass[w].sub \in Plans /\ pass[w].sub \in Rows /\ Opened(orders, pass[w].sub)
         /\ pass[w].seen \in Subscription /\ pass[w].at # "idle" /\ pass[w].clock \in Nat
         /\ pass[w].clock <= now /\ now <= pass[w].clock + Lag
BY DEF Linked, PassLinks, PassLinked, TypeOK, Pass, Rows

\* A transaction of the cycle.
LEMMA CycleCommitsMoves ==
  ASSUME TypeOK, Linked, NEW w \in Workers, NEW dbs,
         \A db \in dbs : Good(db.orders, db.subs, charges'), pass[w].at # "idle",
         CycleCommits(w, dbs)
  PROVE  Good(orders', subs', charges') /\ OneLive(subs') /\ PassMove
<1>1. Good(orders', subs', charges') /\ OneLive(subs')
  BY CommitIsGood DEF CycleCommits, Linked, PlanLinks
<1>2. PassMove
  BY IdleMove, SweepMove DEF CycleCommits
<1> QED
  BY <1>1, <1>2

\* The downgrade opens the free plan in the transaction that expires the paid one.
LEMMA DowngradeMoves ==
  ASSUME TypeOK, Linked, NEW w \in Workers, downgrade_to_free(w)
  PROVE  Moves
<1> DEFINE s == pass[w].sub
           seen == pass[w].seen
           rows == DowngradedRows(s, seen)
           row == WriteBack(subs[s], seen, [Expired(seen) EXCEPT !.grace = None])
           free == [NoPlan EXCEPT !.status = "active"]
<1>1. /\ s \in Plans /\ s \in Rows /\ seen \in Subscription /\ subs[s] \in Subscription
      /\ pass[w].at # "idle"
  BY HandledIsLinked DEF downgrade_to_free, Handles, TypeOK, Rows
<1>2. [Expired(seen) EXCEPT !.grace = None] \in Subscription
  <2>1. Expired(seen) \in Subscription
    BY <1>1, RowTypes
  <2> QED
    BY <2>1 DEF Subscription, None
<1>3. [Expired(seen) EXCEPT !.grace = None].status = "expired"
  BY <1>1 DEF Expired, Subscription
<1>4. row \in Subscription
  BY <1>1, <1>2, WriteBackType
<1>5. row.status \in {"expired", subs[s].status}
  BY <1>1, <1>3 DEF WriteBack, Subscription
<1>6. free \in Subscription /\ free.status = "active"
  BY DEF NoPlan, Subscription, None
<1>7. rows = [[subs EXCEPT ![s] = row] EXCEPT ![Free] = free]
  BY DEF DowngradedRows, ExpireOnly
<1> HIDE DEF s, seen, rows, row, free
<1>8. Free \notin Plans
  BY PaymentBounds DEF Free, Plans
<1>9. /\ SubsType(rows) /\ rows[Free] = free /\ rows[s] = row
      /\ \A x \in Plans : x # s => rows[x] = subs[x]
  BY <1>1, <1>4, <1>6, <1>7, <1>8 DEF SubsType, TypeOK
<1>10. RowsMove(rows, orders)
  BY <1>1, <1>5, <1>6, <1>8, <1>9 DEF RowsMove, LiveIn, LIVE_SUBSCRIPTION_STATUSES, Rows
<1>11. Good(orders, rows, charges')
  BY <1>9, <1>10, SameIsGood DEF Good
<1>12. CycleCommits(w, {[orders |-> orders, subs |-> rows]})
  BY DEF downgrade_to_free, s, seen, rows
<1>13. Good(orders', subs', charges') /\ OneLive(subs') /\ PassMove
  BY <1>1, <1>11, <1>12, CycleCommitsMoves
<1> QED
  BY <1>13, SameFaults DEF downgrade_to_free, Moves, ChargesMove, HooksMove

\* A subscription not due for a retry is passed over.
LEMMA SkipsMoves ==
  ASSUME TypeOK, Linked, NEW w \in Workers, cycle_skips(w)
  PROVE  Moves
<1>1. pass[w].at # "idle"
  BY DEF cycle_skips, Handles
<1> QED
  BY <1>1, SweepMove, SameIsGood, SameFaults
  DEF cycle_skips, Moves, ChargesMove, HooksMove, Linked, PlanLinks

\* A renewal is ordered.
LEMMA RenewMoves ==
  ASSUME TypeOK, Linked, NEW w \in Workers, renew_subscription(w)
  PROVE  Moves
<1> DEFINE s == pass[w].sub
           seen == pass[w].seen
           t == pass[w].clock
           p == [pass[w] EXCEPT !.at = "created", !.order = NextOrder]
<1>1. /\ s \in Plans /\ Opened(orders, s) /\ seen \in Subscription
      /\ t \in Nat /\ t <= now /\ now <= t + Lag
  BY HandledIsLinked DEF renew_subscription, Handles
<1>2. orders' = NewOrder("subscription_renewal", s, seen.end, t) /\ FreshOrders # {}
  BY DEF renew_subscription
<1>3. "subscription_renewal" \in Purposes /\ seen.end \in Nat
  BY <1>1 DEF Purposes, Subscription
<1>4. /\ OrdersType(orders') /\ OrdersMove(orders', charges') /\ NextOrder \in Orders
      /\ orders'[NextOrder].sub = s /\ orders'[NextOrder].status # "none"
  BY <1>1, <1>2, <1>3, NewOrderIsGood
<1>5. Opened(orders', s)
  BY <1>1, <1>4, OpenedStays
<1>6. p \in Pass /\ p.at = "created" /\ p.order = NextOrder /\ p.sub = s /\ p.clock = t
  BY <1>4 DEF TypeOK, Pass
<1>7. pass' = [pass EXCEPT ![w] = p]
  BY DEF renew_subscription, Goes
<1> HIDE DEF p
<1>8. PassLinked(p, orders')
  BY <1>1, <1>4, <1>5, <1>6 DEF PassLinked
<1>9. PassMove
  BY <1>6, <1>7, <1>8 DEF PassMove, TypeOK
<1>10. Good(orders', subs', charges')
  BY <1>4 DEF Good, SubsType, TypeOK, RowsMove, renew_subscription
<1> QED
  BY <1>9, <1>10, SameFaults
  DEF renew_subscription, Moves, ChargesMove, HooksMove, Linked, PlanLinks

\* A pass stops.
LEMMA FailsMoves ==
  ASSUME TypeOK, Linked, NEW w \in Workers, PassFails(w)
  PROVE  Moves
<1>1. PassMove
  BY IdleMove DEF PassFails
<1>2. faults' \in 0..MaxFaults
  BY PaymentBounds DEF PassFails, TypeOK
<1> QED
  BY <1>1, <1>2, SameIsGood DEF PassFails, Moves, ChargesMove, HooksMove, Linked, PlanLinks

\* A renewal without an answer keeps its order open and becomes past due.
LEMMA UnansweredIsGood ==
  ASSUME TypeOK, NEW o \in Orders, NEW s \in Rows, NEW seen \in Subscription,
         s \in Plans => Opened(orders, s), NEW t \in Nat, NEW refused, NEW cs,
         NEW db \in Unanswered(o, s, seen, t, refused)
  PROVE  Good(db.orders, db.subs, cs)
<1>1. db.orders = KeepUnanswered(o, refused) /\ db.subs = MarkPastDue(subs, s, seen, t)
  BY DEF Unanswered
<1>2. Good(KeepUnanswered(o, refused), subs, cs)
  BY SameIsGood, ReviewIsGood DEF KeepUnanswered
<1> QED
  BY <1>1, <1>2, PastDueIsGood

\* A renewal with an answer.
LEMMA AnsweredIsGood ==
  ASSUME TypeOK, NEW o \in Orders, orders[o].status # "none", NEW s \in Plans, orders[o].sub = s,
         NEW seen \in Subscription, Opened(orders, s), NEW state \in Verdicts,
         NEW cs, NEW c \in DOMAIN cs, c \in Nat, cs[c].order = o,
         orders[o].charge \in {None, c},
         state = "succeeded" => cs[c].state = "succeeded",
         NEW t \in Nat, NEW db \in Answered(o, s, seen, t, state, c)
  PROVE  Good(db.orders, db.subs, cs)
<1>1. PICK applied \in apply_provider_state(o, state, c, seen) :
        db = [applied EXCEPT !.subs = IF state = "succeeded" THEN @ ELSE MarkPastDue(@, s, seen, t)]
  BY DEF Answered
<1>2. Good(applied.orders, applied.subs, cs)
  BY ApplyIsGood
<1>3. Good(applied.orders, MarkPastDue(applied.subs, s, seen, t), cs)
  BY <1>2, PastDueIsGood DEF Rows
<1>4. DOMAIN applied = {"orders", "subs"}
  BY DEF apply_provider_state, ApplyAgain
<1>5. /\ db.orders = applied.orders
      /\ db.subs \in {applied.subs, MarkPastDue(applied.subs, s, seen, t)}
  BY <1>1, <1>4
<1> QED
  BY <1>2, <1>3, <1>5

\* _resolve_renewal_payment, with the pass's copy of the subscription.
LEMMA ResolveIsGood ==
  ASSUME TypeOK, Linked, NEW w \in Workers, pass[w].at \in {"locked", "unlocked", "created"},
         NEW o \in Orders, orders[o].sub = pass[w].sub, orders[o].status # "none",
         NEW outcome \in Outcomes, ResolveRenewal(w, o, outcome)
  PROVE  Good(orders', subs', charges') /\ OneLive(subs') /\ PassMove /\ ChargesMove
<1> DEFINE s == pass[w].sub
           seen == pass[w].seen
           t == pass[w].clock
<1>1. /\ s \in Plans /\ s \in Rows /\ Opened(orders, s) /\ seen \in Subscription
      /\ t \in Nat /\ t <= now /\ now <= t + Lag
  BY HandledIsLinked
<1>2. CASE SweepNext(w) /\ UNCHANGED <<orders, subs, charges>>
  BY <1>2, SweepMove, SameIsGood DEF ChargesMove, Linked, PlanLinks
<1>3. CASE CycleCommits(w, Unanswered(o, s, seen, t, TRUE)) /\ UNCHANGED charges
  <2>1. \A db \in Unanswered(o, s, seen, t, TRUE) : Good(db.orders, db.subs, charges')
    BY <1>1, UnansweredIsGood
  <2> QED
    BY <1>3, <2>1, CycleCommitsMoves DEF ChargesMove
<1>4. ASSUME Askable(o, t), NEW r \in Ask(o, outcome), charges' = r.charges,
             CycleCommits(w, IF outcome = "answered"
                             THEN Answered(o, s, seen, t, r.charges[r.charge].state, r.charge)
                             ELSE Unanswered(o, s, seen, t, outcome = "refused"))
      PROVE  /\ Good(orders', subs', charges') /\ OneLive(subs')
             /\ PassMove /\ ChargesMove
  <2>1. ChargesMove
    BY <1>1, <1>4, AskIsAsked, AskedMoves
  <2>2. CASE outcome = "answered"
    <3> DEFINE state == r.charges[r.charge].state
    <3>1. /\ r.charge \in DOMAIN r.charges /\ r.charges[r.charge].order = o
          /\ r.charge \in Nat /\ state \in Verdicts /\ orders[o].charge \in {None, r.charge}
      BY <1>1, <1>4, <2>2, AskIsAsked
    <3>2. \A db \in Answered(o, s, seen, t, state, r.charge) : Good(db.orders, db.subs, charges')
      BY <1>1, <1>4, <3>1, AnsweredIsGood
    <3>3. CycleCommits(w, Answered(o, s, seen, t, state, r.charge))
      BY <1>4, <2>2
    <3> QED
      BY <2>1, <3>2, <3>3, CycleCommitsMoves
  <2>3. CASE outcome # "answered"
    <3>1. \A db \in Unanswered(o, s, seen, t, outcome = "refused") :
            Good(db.orders, db.subs, charges')
      BY <1>1, UnansweredIsGood
    <3>2. CycleCommits(w, Unanswered(o, s, seen, t, outcome = "refused"))
      BY <1>4, <2>3
    <3> QED
      BY <2>1, <3>1, <3>2, CycleCommitsMoves
  <2> QED
    BY <2>2, <2>3
<1> QED
  BY <1>2, <1>3, <1>4 DEF ResolveRenewal

\* The renewal step of a pass.
LEMMA ResolveMoves ==
  ASSUME TypeOK, Linked, NEW w \in Workers, NEW outcome \in Outcomes,
         resolve_renewal_payment(w, outcome)
  PROVE  Moves
<1>1. PICK o \in Orders :
        /\ pass[w].at \in {"locked", "unlocked", "created"}
        /\ orders[o].sub = pass[w].sub /\ orders[o].status # "none"
        /\ ResolveRenewal(w, o, outcome)
  <2>1. CASE Handles(w) /\ \E o \in PendingRenewals(pass[w].sub) : ResolveRenewal(w, o, outcome)
    BY <2>1 DEF Handles, PendingRenewals, Open, OPEN_PAYMENT_STATUSES
  <2>2. CASE pass[w].at = "created" /\ ResolveRenewal(w, pass[w].order, outcome)
    BY <2>2 DEF Linked, PassLinks, PassLinked
  <2> QED
    BY <2>1, <2>2 DEF resolve_renewal_payment
<1>2. Good(orders', subs', charges') /\ OneLive(subs') /\ PassMove /\ ChargesMove
  BY <1>1, ResolveIsGood
<1> QED
  BY <1>2, CostIsCounted DEF resolve_renewal_payment, Moves, HooksMove

\* The sweep goes on to its next order.
LEMMA ContinueMove ==
  ASSUME TypeOK, Linked, NEW w \in Workers, pass[w].at = "sweep", NEW left \in SUBSET pass[w].todo,
         Goes(w, IF left = {} THEN Idle ELSE [pass[w] EXCEPT !.todo = left])
  PROVE  PassMove
<1>1. CASE left = {}
  BY <1>1, IdleMove
<1>2. CASE left # {}
  <2> DEFINE p == [pass[w] EXCEPT !.todo = left]
  <2>1. p \in Pass /\ p.at = "sweep" /\ p.todo = left /\ p.clock = pass[w].clock
    BY DEF TypeOK, Pass
  <2>2. pass' = [pass EXCEPT ![w] = p]
    BY <1>2 DEF Goes
  <2> HIDE DEF p
  <2>3. PassLinked(p, orders')
    BY <1>2, <2>1 DEF PassLinked, Linked, PassLinks
  <2> QED
    BY <2>1, <2>2, <2>3 DEF PassMove, TypeOK
<1> QED
  BY <1>1, <1>2

\* One order of the sweep.
LEMMA SweepOrderMoves ==
  ASSUME TypeOK, Linked, NEW w \in Workers, NEW outcome \in Outcomes,
         reconcile_pending_payments(w, outcome)
  PROVE  Moves
<1> DEFINE o    == CHOOSE x \in pass[w].todo : \A y \in pass[w].todo : x <= y
           left == pass[w].todo \ {o}
           continue == Goes(w, IF left = {} THEN Idle ELSE [pass[w] EXCEPT !.todo = left])
           t == pass[w].clock
<1>1. pass[w].at = "sweep" /\ t \in Nat /\ t <= now /\ now <= t + Lag
  BY DEF reconcile_pending_payments, TypeOK, Pass, Linked, PassLinks, PassLinked
<1>2. o \in Orders
  <2>1. pass[w].todo # {} /\ pass[w].todo \subseteq Orders
    BY <1>1 DEF Linked, PassLinks, PassLinked, TypeOK, Pass
  <2>2. pass[w].todo \in SUBSET Nat
    BY <2>1, PaymentBounds DEF Orders
  <2>3. o \in pass[w].todo
    BY <2>1, <2>2, SmallestNumber
  <2> QED
    BY <2>1, <2>3
<1>3. continue => PassMove
  <2>1. left \in SUBSET pass[w].todo
    OBVIOUS
  <2> HIDE DEF left
  <2> QED
    BY <1>1, <2>1, ContinueMove
<1>4. \/ continue /\ UNCHANGED <<orders, subs, charges>>
      \/ require_manual_review(o) /\ continue /\ UNCHANGED <<subs, charges>>
      \/ /\ Open(o) /\ Askable(o, t)
         /\ \E r \in Ask(o, outcome) :
              LET dbs == apply_provider_state(o, r.charges[r.charge].state, r.charge, Fresh(o))
              IN /\ charges' = r.charges
                 /\ \/ /\ outcome = "answered" /\ Commit(dbs)
                       /\ Goes(w, Idle) \/ continue
                    \/ require_manual_review(o) /\ UNCHANGED subs /\ continue
                    \/ UNCHANGED <<orders, subs>> /\ Goes(w, Idle)
  BY DEF reconcile_pending_payments
<1> HIDE DEF o, continue, t
<1>5. Good(orders', subs', charges') /\ OneLive(subs') /\ PassMove /\ ChargesMove
  <2>1. CASE continue /\ UNCHANGED <<orders, subs, charges>>
    BY <1>3, <2>1, SameIsGood DEF ChargesMove, Linked, PlanLinks
  <2>2. CASE require_manual_review(o) /\ continue /\ UNCHANGED <<subs, charges>>
    BY <1>2, <1>3, <2>2, ReviewIsGood DEF require_manual_review, ChargesMove, Linked, PlanLinks
  <2>3. ASSUME Open(o), Askable(o, t), NEW r \in Ask(o, outcome), charges' = r.charges,
               \/ /\ outcome = "answered"
                  /\ Commit(apply_provider_state(o, r.charges[r.charge].state, r.charge, Fresh(o)))
                  /\ Goes(w, Idle) \/ continue
               \/ require_manual_review(o) /\ UNCHANGED subs /\ continue
               \/ UNCHANGED <<orders, subs>> /\ Goes(w, Idle)
        PROVE  Good(orders', subs', charges') /\ OneLive(subs') /\ PassMove /\ ChargesMove
    <3>1. orders[o].status # "none"
      BY <2>3 DEF Open, OPEN_PAYMENT_STATUSES
    <3>2. ChargesMove
      BY <1>1, <1>2, <2>3, <3>1, AskIsAsked, AskedMoves
    <3>3. PassMove
      BY <1>3, <2>3, IdleMove
    <3> DEFINE state == r.charges[r.charge].state
               dbs == apply_provider_state(o, state, r.charge, Fresh(o))
    <3>4. CASE outcome = "answered" /\ Commit(dbs)
      <4>1. /\ r.charge \in DOMAIN charges' /\ charges'[r.charge].order = o
            /\ r.charge \in Nat /\ state \in Verdicts
            /\ state = charges'[r.charge].state /\ orders[o].charge \in {None, r.charge}
        BY <1>1, <1>2, <2>3, <3>4, AskIsAsked
      <4> HIDE DEF state
      <4>2. \A db \in dbs : Good(db.orders, db.subs, charges')
        BY <1>2, <3>1, <4>1, FreshIsGood
      <4> QED
        BY <3>2, <3>3, <3>4, <4>2, CommitIsGood DEF Linked, PlanLinks
    <3>5. CASE require_manual_review(o) /\ UNCHANGED subs
      BY <1>2, <3>2, <3>3, <3>5, ReviewIsGood DEF require_manual_review, Linked, PlanLinks
    <3>6. CASE UNCHANGED <<orders, subs>>
      BY <3>2, <3>3, <3>6, SameIsGood DEF Linked, PlanLinks
    <3> QED
      BY <2>3, <3>4, <3>5, <3>6
  <2> QED
    BY <1>4, <2>1, <2>2, <2>3
<1> QED
  BY <1>5, CostIsCounted DEF reconcile_pending_payments, Moves, HooksMove

-----------------------------------------------------------------------------
\* Every step but the clock's is such a move.
LEMMA NextMoves == TypeOK /\ Linked /\ Next => Moves \/ Tick
<1> SUFFICES ASSUME TypeOK, Linked, Next PROVE Moves \/ Tick
  OBVIOUS
<1>1. CASE Customer
  <2>1. ASSUME create_payment PROVE Moves
    BY <2>1, CreatePaymentMoves
  <2> QED
    BY <1>1, <2>1, CheckoutMoves, ResumeMoves, CancelRenewalMoves, RestoreRenewalMoves DEF Customer
<1>2. CASE yookassa_webhook
  BY <1>2, NotifyBoundMoves, NotifyReadMoves, NotifyApplyMoves DEF yookassa_webhook
<1>3. ASSUME NEW c \in DOMAIN charges, NEW state \in Verdicts, ProviderMoves(c, state)
      PROVE  Moves
  BY <1>3, ProviderMovesMoves
<1>4. ASSUME NEW w \in Workers, PassGoesOn(w) \/ PassFails(w)
      PROVE  Moves
  BY <1>4, StartsMoves, SelectsMoves, DowngradeMoves, SkipsMoves, RenewMoves, ResolveMoves,
     SweepOrderMoves, FailsMoves DEF PassGoesOn
<1> QED
  BY <1>1, <1>2, <1>3, <1>4 DEF Next

\* The payments that exist are only added to, and one that is final stays so.
LEMMA ChargesKept ==
  ASSUME TypeOK, ChargesMove
  PROVE  /\ charges' \in Seq(Charge) /\ DOMAIN charges \subseteq DOMAIN charges'
         /\ \A c \in DOMAIN charges :
              /\ charges'[c].order = charges[c].order /\ charges'[c].born = charges[c].born
              /\ charges[c].state \in {"succeeded", "cancelled"} =>
                   charges'[c].state = charges[c].state
         /\ \A c \in DOMAIN charges' \ DOMAIN charges :
              \E o \in Orders : /\ orders[o].status # "none" /\ orders[o].charge = None
                                /\ Timely(o) /\ Known(o) = {}
                                /\ charges'[c].order = o /\ charges'[c].born = now
                                /\ c = Len(charges) + 1
<1>1. CASE charges' = charges
  BY <1>1 DEF TypeOK
<1>2. CASE Appended
  <2>1. PICK o \in Orders, state \in Verdicts :
          /\ orders[o].status # "none" /\ orders[o].charge = None /\ Timely(o) /\ Known(o) = {}
          /\ charges' = Append(charges, NewCharge(o, state))
    BY <1>2 DEF Appended
  <2>2. /\ charges' \in Seq(Charge) /\ DOMAIN charges' = 1..(Len(charges) + 1)
        /\ charges'[Len(charges) + 1] = NewCharge(o, state)
        /\ \A c \in DOMAIN charges : charges'[c] = charges[c]
    BY <2>1, AppendCharge
  <2>3. DOMAIN charges = 1..Len(charges) /\ Len(charges) \in Nat
    BY ChargeType
  <2>4. \A c \in DOMAIN charges' \ DOMAIN charges : c = Len(charges) + 1
    BY <2>2, <2>3
  <2>5. NewCharge(o, state).order = o /\ NewCharge(o, state).born = now
    BY DEF NewCharge
  <2> QED
    BY <2>1, <2>2, <2>3, <2>4, <2>5
<1>3. CASE Settled
  <2>1. PICK c \in DOMAIN charges, state \in Verdicts :
          /\ charges[c].state \notin {"succeeded", "cancelled"}
          /\ charges' = [charges EXCEPT ![c].state = state]
    BY <1>3 DEF Settled, OPEN_PAYMENT_STATUSES
  <2> DEFINE q == [charges[c] EXCEPT !.state = state]
  <2>2. q \in Charge /\ q.order = charges[c].order /\ q.born = charges[c].born
    BY ChargeType DEF Charge
  <2>3. charges' = [charges EXCEPT ![c] = q]
    BY <2>1
  <2> HIDE DEF q
  <2>4. /\ charges' \in Seq(Charge) /\ DOMAIN charges' = DOMAIN charges
        /\ \A x \in DOMAIN charges : charges'[x] = IF x = c THEN q ELSE charges[x]
    BY <2>2, <2>3, ExceptSeq, ChargeType DEF TypeOK
  <2> QED
    BY <2>1, <2>2, <2>4
<1> QED
  BY <1>1, <1>2, <1>3 DEF ChargesMove

\* A move keeps the types.
LEMMA MovesAreTyped == ASSUME TypeOK, Linked, Moves PROVE TypeOK'
<1>1. charges' \in Seq(Charge)
  BY ChargesKept DEF Moves
<1>2. hooks' \subseteq [charge : Nat, state : Verdicts]
  BY ChargeType DEF Moves, HooksMove, TypeOK, Charge
<1>3. pass' \in [Workers -> Pass]
  BY DEF Moves, PassMove
<1> QED
  BY <1>1, <1>2, <1>3 DEF Moves, TypeOK, Good, OrdersType, SubsType

\* A move keeps the links between the tables, the passes and the provider.
LEMMA MovesKeepLinks == ASSUME TypeOK, Linked, Moves PROVE Linked'
<1>0. /\ OrdersMove(orders', charges') /\ RowsMove(subs', orders') /\ OneLive(subs')
      /\ ChargesMove /\ HooksMove /\ PassMove /\ now' = now
  BY DEF Moves, Good
<1>1. ChargeLinks'
  <2>1. \A o \in Orders : orders[o].status # "none" => orders'[o].status # "none"
    BY <1>0 DEF OrdersMove, Kept, New, BoundTo
  <2>2. \A c \in DOMAIN charges : charges[c].order \in Orders
    BY ChargeType DEF Charge
  <2> QED
    BY <1>0, <2>1, <2>2, ChargesKept DEF ChargeLinks, Linked
<1>2. BoundLinks'
  BY <1>0, ChargesKept DEF BoundLinks, Linked, OrdersMove, Kept, New, BoundTo
<1>3. HookLinks'
  <2>1. \A h \in hooks' : h.charge \in DOMAIN charges
          /\ (h.state = "succeeded" => charges[h.charge].state = "succeeded")
    BY <1>0 DEF HooksMove, HookLinks, Linked
  <2> QED
    BY <1>0, <2>1, ChargesKept DEF HookLinks
<1>4. PassLinks'
  <2>1. ASSUME NEW w \in Workers PROVE PassLinked(pass'[w], orders')
    <3>1. CASE pass'[w] = pass[w]
      <4>1. PassLinked(pass[w], orders)
        BY DEF Linked, PassLinks
      <4>2. \A s : Opened(orders, s) => Opened(orders', s)
        BY <1>0, OpenedStays
      <4>3. \A o \in Orders : orders[o].status # "none" =>
              orders'[o].status # "none" /\ orders'[o].sub = orders[o].sub
        BY <1>0 DEF OrdersMove, Kept, New, BoundTo
      <4> QED
        BY <3>1, <4>1, <4>2, <4>3 DEF PassLinked
    <3>2. CASE pass'[w] # pass[w]
      BY <1>0, <3>2 DEF PassMove
    <3> QED
      BY <3>1, <3>2
  <2> QED
    BY <1>0, <2>1 DEF PassLinks, PassLinked
<1>5. PaidLinks'
  <2>1. ASSUME NEW o \in Orders, orders'[o].status = "succeeded"
        PROVE  orders'[o].charge # None /\ charges'[orders'[o].charge].state = "succeeded"
    <3>1. CASE Kept(orders[o], orders'[o])
      <4>1. orders[o].charge # None /\ charges[orders[o].charge].state = "succeeded"
        BY <2>1, <3>1 DEF Kept, Linked, PaidLinks
      <4>2. orders[o].charge \in DOMAIN charges
        BY <4>1 DEF Linked, BoundLinks
      <4> QED
        BY <1>0, <3>1, <4>1, <4>2, ChargesKept DEF Kept
    <3>2. CASE BoundTo(o, orders[o], orders'[o], charges')
      <4>1. orders'[o].charge \in DOMAIN charges'
        BY <3>2 DEF BoundTo
      <4>2. orders'[o].charge # None
        BY <1>0, <4>1, ChargesKept, LenProperties DEF None
      <4> QED
        BY <2>1, <3>2, <4>2 DEF BoundTo
    <3> QED
      BY <1>0, <2>1, <3>1, <3>2 DEF OrdersMove, New
  <2> QED
    BY <2>1 DEF PaidLinks
<1>6. PlanLinks'
  <2>1. \A s : Opened(orders, s) => Opened(orders', s)
    BY <1>0, OpenedStays
  <2>2. \A s \in Plans : LiveIn(subs', s) => Opened(orders', s)
    BY <1>0, <2>1 DEF RowsMove, Linked, PlanLinks
  <2>3. \E s \in Rows : LiveIn(subs', s)
    BY <1>0 DEF RowsMove, Linked, PlanLinks
  <2> QED
    BY <1>0, <2>2, <2>3 DEF PlanLinks
<1> QED
  BY <1>1, <1>2, <1>3, <1>4, <1>5, <1>6 DEF Linked

-----------------------------------------------------------------------------
\* The clock keeps types and links: it does not run further than Lag from where a pass
\* has read it.
LEMMA TickIsTyped == ASSUME TypeOK, Linked, Tick PROVE TypeOK' /\ Linked'
<1>0. /\ now' = now + 1 /\ now' \in 0..MaxTime
      /\ UNCHANGED <<orders, subs, charges, hooks, pass, faults>>
  BY PaymentBounds DEF Tick, TypeOK
<1>1. TypeOK'
  BY <1>0 DEF TypeOK
<1>2. ChargeLinks' /\ BoundLinks' /\ PaidLinks' /\ HookLinks' /\ PlanLinks'
  BY <1>0 DEF Linked, ChargeLinks, BoundLinks, PaidLinks, HookLinks, PlanLinks
<1>3. PassLinks'
  <2>1. ASSUME NEW w \in Workers, pass[w].at # "idle"
        PROVE  pass[w].clock <= now + 1 /\ now + 1 <= pass[w].clock + Lag
    <3>1. pass[w].clock \in Nat /\ now \in Nat /\ pass[w].clock <= now
      BY <2>1 DEF TypeOK, Pass, Linked, PassLinks, PassLinked
    <3>2. now < pass[w].clock + Lag
      BY <2>1 DEF Tick
    <3> QED
      BY <3>1, <3>2, PaymentBounds
  <2> QED
    BY <1>0, <2>1 DEF Linked, PassLinks, PassLinked
<1> QED
  BY <1>1, <1>2, <1>3 DEF Linked

\* Types and links hold at the start.
LEMMA InitIsTyped == Init => TypeOK /\ Linked
<1> SUFFICES ASSUME Init PROVE TypeOK /\ Linked
  OBVIOUS
<1>1. NoOrder \in Order /\ NoOrder.status = "none" /\ NoOrder.charge = None
  BY Durations DEF NoOrder, Order, None, Purposes
<1>2. NoPlan \in Subscription /\ NoPlan.status = "none"
  BY DEF NoPlan, Subscription, None
<1>3. /\ [NoPlan EXCEPT !.status = "active"] \in Subscription
      /\ [NoPlan EXCEPT !.status = "active"].status = "active"
  BY <1>2 DEF Subscription
<1>4. Idle \in Pass /\ PassLinked(Idle, orders)
  BY IdleIsTyped DEF PassLinked
<1>5. charges \in Seq(Charge) /\ DOMAIN charges = {}
  BY EmptySeq DEF Init
<1>6. TypeOK
  BY <1>1, <1>2, <1>3, <1>4, <1>5, PaymentBounds DEF Init, TypeOK
<1>7. ChargeLinks /\ BoundLinks /\ HookLinks /\ PassLinks /\ PaidLinks
  BY <1>1, <1>4, <1>5 DEF Init, ChargeLinks, BoundLinks, HookLinks, PassLinks, PaidLinks
<1>8. \A s \in Rows : LiveIn(subs, s) <=> s = Free
  BY <1>2, <1>3 DEF Init, Rows, LiveIn, LIVE_SUBSCRIPTION_STATUSES
<1>9. PlanLinks
  BY <1>8, PaymentBounds DEF PlanLinks, OneLive, Rows, Free, Plans
<1> QED
  BY <1>6, <1>7, <1>9 DEF Linked

\* Types and links are inductive.
LEMMA StepIsTyped == TypeOK /\ Linked /\ [Next]_vars => TypeOK' /\ Linked'
<1> SUFFICES ASSUME TypeOK, Linked, [Next]_vars PROVE TypeOK' /\ Linked'
  OBVIOUS
<1>1. CASE Next
  BY <1>1, NextMoves, MovesAreTyped, MovesKeepLinks, TickIsTyped
<1>2. CASE UNCHANGED vars
  BY <1>2 DEF vars, TypeOK, Linked, ChargeLinks, BoundLinks, HookLinks, PassLinks, PassLinked,
              PaidLinks, PlanLinks
<1> QED
  BY <1>1, <1>2

\* Types and links always hold.
LEMMA AlwaysLinked == Spec => [](TypeOK /\ Linked)
BY InitIsTyped, StepIsTyped, PTL DEF Spec

\* Every row, payment, notification and pass is typed, for any number of orders, plans
\* and billing processes.
THEOREM TypeCorrect == Spec => []TypeOK
BY AlwaysLinked, PTL

\* What was granted was paid, for any number of orders, plans, notifications, failures
\* and billing processes: apply_provider_state acts on what the provider says of a payment
\* of that very order, even with a copy of the subscription that is stale.
THEOREM SuccessIsPaid == Spec => []GrantIsPaid
<1>1. TypeOK /\ Linked => GrantIsPaid
  <2> SUFFICES ASSUME TypeOK, Linked PROVE GrantIsPaid
    OBVIOUS
  <2>1. \A o \in Orders : orders[o].status = "succeeded" =>
          /\ orders[o].charge \in DOMAIN charges
          /\ charges[orders[o].charge].order = o /\ charges[orders[o].charge].state = "succeeded"
    BY DEF Linked, BoundLinks, PaidLinks
  <2>2. \A s \in Plans \cap LivePlans : Paid(s, "subscription_initial") # {}
    BY DEF Linked, PlanLinks, LivePlans, Live, LiveIn, Opened, Paid
  <2> QED
    BY <2>1, <2>2 DEF GrantIsPaid
<1> QED
  BY <1>1, AlwaysLinked, PTL

\* The account is on exactly one plan, whatever expires, is bought or fails meanwhile:
\* activation and downgrade_to_free replace the plan in one transaction, and the partial
\* unique index forbids a second one, so _active_subscription always finds one.
THEOREM AlwaysOnePlan == Spec => []ExactlyOnePlan
<1>1. TypeOK /\ Linked => ExactlyOnePlan
  <2> SUFFICES ASSUME TypeOK, Linked PROVE ExactlyOnePlan
    OBVIOUS
  <2>1. PICK s \in Rows : LiveIn(subs, s)
    BY DEF Linked, PlanLinks
  <2>2. LivePlans = {s}
    BY <2>1 DEF Linked, PlanLinks, OneLive, LivePlans, Live, LiveIn, Rows
  <2> QED
    BY <2>2, FS_Singleton DEF ExactlyOnePlan
<1> QED
  BY <1>1, AlwaysLinked, PTL

-----------------------------------------------------------------------------
\* The strengthening of OneChargePerOrder: the payments of an order not yet bound are no
\* older than its request, hence known under its key while the request may be sent.
KeysKnown == \A c \in DOMAIN charges :
  orders[charges[c].order].charge = None => orders[charges[c].order].started <= charges[c].born
OneIInv == PassesAreShort /\ TypeOK /\ Linked /\ KeysKnown /\ OneChargePerOrder

\* When a request is sent, by a reading of the clock not older than Lag, the provider still
\* knows every payment it made.
LEMMA KeysAreKnown ==
  ASSUME PassesAreShort, TypeOK, KeysKnown, NEW o \in Orders, orders[o].charge = None,
         Timely(o), Known(o) = {}
  PROVE  \A c \in DOMAIN charges : charges[c].order # o
<1>1. ASSUME NEW c \in DOMAIN charges, charges[c].order = o PROVE FALSE
  <2>1. PICK t \in Nat : Sendable(o, t) /\ t <= now /\ now <= t + Lag
    BY DEF Timely
  <2>2. t < orders[o].started + Window /\ orders[o].started <= charges[c].born
    BY <1>1, <2>1 DEF KeysKnown, Sendable
  <2>3. orders[o].started \in Nat /\ charges[c].born \in Nat /\ now \in Nat
    <3>1. charges[c] \in Charge /\ orders[o] \in Order
      BY ChargeType DEF TypeOK
    <3> QED
      BY <3>1 DEF Charge, Order, TypeOK
  <2>4. now < charges[c].born + KeyLife
    BY <2>1, <2>2, <2>3, Durations, PaymentBounds DEF PassesAreShort
  <2> QED
    BY <1>1, <2>4 DEF Known
<1> QED
  BY <1>1

\* A move never makes a second payment of an order.
LEMMA MovesKeepKeys == ASSUME OneIInv, Moves PROVE KeysKnown' /\ OneChargePerOrder'
<1>0. TypeOK /\ Linked /\ ChargesMove /\ OrdersMove(orders', charges')
  BY DEF OneIInv, Moves, Good
<1>1. \A c \in DOMAIN charges' \ DOMAIN charges :
        /\ charges'[c].born = now /\ c = Len(charges) + 1 /\ charges'[c].order \in Orders
        /\ orders[charges'[c].order].charge = None
        /\ orders[charges'[c].order].status # "none" /\ Timely(charges'[c].order)
        /\ \A x \in DOMAIN charges : charges[x].order # charges'[c].order
  BY <1>0, ChargesKept, KeysAreKnown DEF OneIInv
<1>2. OneChargePerOrder'
  BY <1>0, <1>1, ChargesKept DEF OneIInv, OneChargePerOrder
<1>3. ASSUME NEW o \in Orders, orders[o].status # "none", orders'[o].charge = None
      PROVE  Kept(orders[o], orders'[o])
  <2>1. \A x \in DOMAIN charges' : x # None
    BY <1>0, ChargesKept, LenProperties DEF None
  <2>2. ~BoundTo(o, orders[o], orders'[o], charges')
    BY <1>3, <2>1 DEF BoundTo
  <2> QED
    BY <1>0, <1>3, <2>2 DEF OrdersMove, New
<1>4. KeysKnown'
  <2> SUFFICES ASSUME NEW c \in DOMAIN charges', orders'[charges'[c].order].charge = None
               PROVE  orders'[charges'[c].order].started <= charges'[c].born
    BY DEF KeysKnown
  <2> DEFINE o == charges'[c].order
  <2>1. CASE c \notin DOMAIN charges
    <3>1. orders'[o].started = orders[o].started
      BY <1>1, <1>3, <2>1 DEF Kept
    <3>2. PICK t \in Nat : orders[o].started <= t /\ t <= now
      BY <1>1, <2>1 DEF Timely, Sendable
    <3>3. orders[o].started \in Nat /\ now \in Nat
      BY <1>0, <1>1, <2>1 DEF TypeOK, Order
    <3> QED
      BY <1>1, <2>1, <3>1, <3>2, <3>3
  <2>2. CASE c \in DOMAIN charges
    <3>1. o = charges[c].order /\ charges'[c].born = charges[c].born /\ o \in Orders
      BY <1>0, <2>2, ChargesKept, ChargeType DEF Charge
    <3>2. orders[o].status # "none"
      BY <1>0, <2>2, <3>1 DEF Linked, ChargeLinks
    <3>3. orders'[o].started = orders[o].started /\ orders[o].charge = None
      BY <1>3, <3>1, <3>2 DEF Kept
    <3> QED
      BY <2>2, <3>1, <3>3 DEF OneIInv, KeysKnown
  <2> QED
    BY <2>1, <2>2
<1> QED
  BY <1>2, <1>4

\* As long as passes are short the provider never holds two payments of one order, for any
\* window, life of an idempotency key and number of processes: whoever sends a request
\* judged its age by a reading of the clock at most Lag old, and every payment it made is
\* still known under its key (send_saved_payment). Without PassesAreShort it is not so
\* (README, section 9).
THEOREM NoSecondCharge == PassesAreShort /\ Spec => []OneChargePerOrder
<1>1. PassesAreShort /\ Init => OneIInv
  <2>1. Init => DOMAIN charges = {}
    BY EmptySeq DEF Init
  <2> QED
    BY <2>1, InitIsTyped DEF OneIInv, KeysKnown, OneChargePerOrder
<1>2. OneIInv /\ [Next]_vars => OneIInv'
  <2> SUFFICES ASSUME OneIInv, [Next]_vars PROVE OneIInv'
    OBVIOUS
  <2>1. TypeOK' /\ Linked' /\ PassesAreShort'
    BY StepIsTyped DEF OneIInv, PassesAreShort
  <2>2. CASE Moves
    BY <2>1, <2>2, MovesKeepKeys DEF OneIInv
  <2>3. CASE UNCHANGED <<orders, charges>>
    BY <2>1, <2>3 DEF OneIInv, KeysKnown, OneChargePerOrder
  <2> QED
    BY <2>2, <2>3, NextMoves DEF OneIInv, Tick, vars
<1>3. OneIInv => OneChargePerOrder
  BY DEF OneIInv
<1> QED
  BY <1>1, <1>2, <1>3, PTL DEF Spec
-----------------------------------------------------------------------------
\* What follows is about an account that comes alone in its passes (~Crowded): no commit of
\* another account releases the row lock of a pass before it is done with its copy.

\* Statuses of a plan that was opened by its first payment.
OPENED_STATUSES == {"active", "past_due", "expired"}
\* Order o renews plan s; its payment is closed, and no verdict can make it a success.
Renews(ords, o, s) == /\ ords[o].status # "none" /\ ords[o].sub = s
                      /\ ords[o].purpose = "subscription_renewal"
Dead(ords, cs, o) == ords[o].charge \in DOMAIN cs /\ cs[ords[o].charge].state = "cancelled"
Decided(ords, cs, o) == ords[o].status = "succeeded" \/ Dead(ords, cs, o)

\* What a transaction then does to the orders: it keeps the period of an
\* order and what a success covers, and closes an order only if its payment is closed ...
Steady(ords, cs) == \A o \in Orders :
  /\ orders[o].status # "none" => ords[o].due = orders[o].due
  /\ orders[o].status = "succeeded" => ords[o].covers = orders[o].covers
  /\ ords[o].status = "cancelled" => orders[o].status = "cancelled" \/ Dead(ords, cs, o)
\* ... it orders no renewal ...
NoRenewal(ords) == \A o \in Orders :
  orders[o].status = "none" => ords[o].purpose # "subscription_renewal"
\* ... and a plan rests, is started by its first payment or gets one month for one renewal.
Won(ords, s) == {o \in Orders : /\ ords[o].sub = s /\ ords[o].purpose # "wallet_topup"
                                /\ ords[o].status = "succeeded" /\ orders[o].status # "succeeded"}
Rests(ords, rows, s) == Won(ords, s) = {} /\ rows[s].end = subs[s].end
Starts(ords, rows, s) ==
  /\ subs[s].status = "pending_payment" /\ rows[s].status \in OPENED_STATUSES
  /\ \E o \in Orders : /\ Won(ords, s) = {o} /\ ords[o].purpose = "subscription_initial"
                       /\ ords[o].covers = rows[s].end
Prolongs(ords, rows, s) ==
  /\ rows[s].end = subs[s].end + Period
  /\ \E o \in Orders : Won(ords, s) = {o} /\ ords[o].purpose = "subscription_renewal"
Pays(ords, rows) == \A s \in Plans :
  /\ subs[s].status \in OPENED_STATUSES => rows[s].status \in OPENED_STATUSES
  /\ Rests(ords, rows, s) \/ Starts(ords, rows, s) \/ Prolongs(ords, rows, s)
Sound(ords, rows, cs) == Steady(ords, cs) /\ NoRenewal(ords) /\ Pays(ords, rows)
\* The rows that passes have locked are left alone; every row but one is.
LockedKept(rows) == \A s \in Plans : Locked(s) => rows[s] = subs[s]
OthersKept(s, rows) == \A x \in Plans : x # s => rows[x] = subs[x]
\* A renewal exists, and is of a plan.
RenewalsReal == \A o \in Orders :
  orders[o].purpose = "subscription_renewal" => orders[o].status # "none" /\ orders[o].sub \in Plans

\* Leaving both tables alone is sound.
LEMMA SameIsSound ==
  ASSUME RenewalsReal, NEW cs
  PROVE  Sound(orders, subs, cs) /\ LockedKept(subs) /\ \A s : OthersKept(s, subs)
<1>1. \A s \in Plans : Won(orders, s) = {}
  BY DEF Won
<1> QED
  BY <1>1 DEF RenewalsReal, Sound, Steady, NoRenewal, Pays, Rests, LockedKept, OthersKept

\* Setting an order aside for review is sound.
LEMMA ReviewIsSound ==
  ASSUME TypeOK, RenewalsReal, NEW o \in Orders, NEW cs
  PROVE  Sound([orders EXCEPT ![o].review = TRUE], subs, cs)
<1> DEFINE ords == [orders EXCEPT ![o].review = TRUE]
<1>1. \A x \in Orders : /\ ords[x].status = orders[x].status /\ ords[x].due = orders[x].due
                        /\ ords[x].covers = orders[x].covers /\ ords[x].sub = orders[x].sub
                        /\ ords[x].purpose = orders[x].purpose
  BY DEF TypeOK, Order
<1> HIDE DEF ords
<1>2. \A s \in Plans : Won(ords, s) = {}
  BY <1>1 DEF Won
<1> QED
  BY <1>1, <1>2 DEF RenewalsReal, Sound, Steady, NoRenewal, Pays, Rests, ords

\* What a renewal writes back of the plan's row, with a copy whose end is the row's.
LEMMA RenewedRow ==
  ASSUME TypeOK, NEW row \in Subscription, NEW seen \in Subscription, seen.end = row.end
  PROVE  /\ WriteBack(row, seen, Renewed(seen)).end = row.end + Period
         /\ WriteBack(row, seen, Renewed(seen)).status \in {"active", row.status}
<1>1. Renewed(seen).end = seen.end + Period /\ Renewed(seen).status = "active"
  BY DEF Renewed, Subscription
<1>2. seen.end + Period # seen.end
  BY Durations DEF Subscription
<1>3. DOMAIN row = {"status", "auto", "cancelAtEnd", "end", "next", "grace", "method"}
  BY DEF Subscription
<1>4. WriteBack(row, seen, Renewed(seen)).end =
        IF Renewed(seen).end # seen.end THEN Renewed(seen).end ELSE row.end
  BY <1>3 DEF WriteBack
<1>5. WriteBack(row, seen, Renewed(seen)).status =
        IF Renewed(seen).status # seen.status THEN Renewed(seen).status ELSE row.status
  BY <1>3 DEF WriteBack
<1> QED
  BY <1>1, <1>2, <1>4, <1>5

\* What a failed renewal writes back.
LEMMA PastDueRow ==
  ASSUME TypeOK, NEW row \in Subscription, NEW seen \in Subscription, NEW t \in Nat
  PROVE  /\ WriteBack(row, seen, PastDue(seen, t)).end = row.end
         /\ WriteBack(row, seen, PastDue(seen, t)).status \in {"past_due", row.status}
<1>1. PastDue(seen, t).end = seen.end /\ PastDue(seen, t).status = "past_due"
  BY DEF PastDue, Subscription
<1>3. DOMAIN row = {"status", "auto", "cancelAtEnd", "end", "next", "grace", "method"}
  BY DEF Subscription
<1>4. WriteBack(row, seen, PastDue(seen, t)).end =
        IF PastDue(seen, t).end # seen.end THEN PastDue(seen, t).end ELSE row.end
  BY <1>3 DEF WriteBack
<1>5. WriteBack(row, seen, PastDue(seen, t)).status =
        IF PastDue(seen, t).status # seen.status THEN PastDue(seen, t).status ELSE row.status
  BY <1>3 DEF WriteBack
<1> QED
  BY <1>1, <1>4, <1>5

\* The rows a verdict leaves: which plan it starts or prolongs.
LEMMA VerdictRows ==
  ASSUME TypeOK, NEW p \in Order, NEW state \in Verdicts, NEW seen \in Subscription,
         state = "succeeded" /\ p.purpose = "subscription_renewal" /\ p.sub \in Plans
           => seen.end = subs[p.sub].end,
         NEW rows \in SubsAfter(p, state, seen), NEW s \in Plans
  PROVE  /\ subs[s].status \in OPENED_STATUSES => rows[s].status \in OPENED_STATUSES
         /\ \/ rows[s].end = subs[s].end
               /\ ~(state = "succeeded" /\ p.sub = s /\ p.purpose # "wallet_topup")
            \/ /\ state = "succeeded" /\ p.sub = s /\ p.purpose = "subscription_initial"
               /\ subs[s].status = "pending_payment" /\ rows[s].status \in OPENED_STATUSES
            \/ /\ state = "succeeded" /\ p.sub = s /\ p.purpose = "subscription_renewal"
               /\ rows[s].end = subs[s].end + Period
<1>0. s \in Rows /\ p.sub \in Rows /\ DOMAIN subs = Rows /\ \A x \in Rows : subs[x] \in Subscription
  BY DEF Order, Free, None, Rows, TypeOK
<1>1. CASE state = "succeeded" /\ p.purpose = "subscription_initial"
  <2>1. rows \in activate_initial_payment(p.sub)
    BY <1>1 DEF SubsAfter
  <2>2. PICK saved \in BOOLEAN :
          /\ subs[p.sub].status = "pending_payment"
          /\ rows = [x \in DOMAIN subs |-> IF x = p.sub THEN StartPaid(subs[p.sub], saved)
                               ELSE IF Live(x) THEN Expired(subs[x]) ELSE subs[x]]
    BY <2>1 DEF activate_initial_payment
  <2>3. rows[s] = IF s = p.sub THEN StartPaid(subs[p.sub], saved)
                  ELSE IF Live(s) THEN Expired(subs[s]) ELSE subs[s]
    BY <1>0, <2>2
  <2>4. StartPaid(subs[p.sub], saved).status = "active"
    BY <1>0 DEF StartPaid, Subscription
  <2>5. Expired(subs[s]).status = "expired" /\ Expired(subs[s]).end = subs[s].end
    BY <1>0 DEF Expired, Subscription
  <2> QED
    BY <1>1, <2>2, <2>3, <2>4, <2>5 DEF OPENED_STATUSES
<1>2. CASE state = "succeeded" /\ p.purpose = "subscription_renewal"
  <2> DEFINE row == WriteBack(subs[p.sub], seen, Renewed(seen))
  <2>1. rows = [subs EXCEPT ![p.sub] = row]
    BY <1>2 DEF SubsAfter, activate_renewal_payment
  <2>2. rows[s] = IF s = p.sub THEN row ELSE subs[s]
    BY <1>0, <2>1
  <2>3. s = p.sub => row.end = subs[s].end + Period /\ row.status \in {"active", subs[s].status}
    BY <1>0, <1>2, RenewedRow
  <2> QED
    BY <1>2, <2>2, <2>3 DEF OPENED_STATUSES
<1>3. CASE ~(state = "succeeded" /\ p.purpose # "wallet_topup")
  <2>0. rows = subs \/ rows = cancel_pending_subscription(p)
    <3>1. state = "succeeded" => p.purpose \notin {"subscription_initial", "subscription_renewal"}
      BY <1>3
    <3> QED
      BY <3>1 DEF SubsAfter
  <2>1. \/ rows = subs
        \/ /\ subs[p.sub].status = "pending_payment"
           /\ rows = [subs EXCEPT ![p.sub] = [subs[p.sub] EXCEPT !.status = "canceled"]]
    <3>1. CASE p.purpose = "subscription_initial" /\ subs[p.sub].status = "pending_payment"
      BY <1>0, <2>0, <3>1 DEF cancel_pending_subscription
    <3>2. CASE ~(p.purpose = "subscription_initial" /\ subs[p.sub].status = "pending_payment")
      BY <2>0, <3>2 DEF cancel_pending_subscription
    <3> QED
      BY <3>1, <3>2
  <2>2. rows[s].end = subs[s].end
    BY <1>0, <2>1 DEF Subscription
  <2>3. subs[s].status \in OPENED_STATUSES => rows[s].status = subs[s].status
    BY <1>0, <2>1 DEF Subscription, OPENED_STATUSES
  <2> QED
    BY <1>3, <2>2, <2>3
<1> QED
  BY <1>1, <1>2, <1>3 DEF Order, Purposes
\* Applying a verdict is sound, if a success finds the end of the row in its copy.
LEMMA ApplyIsSound ==
  ASSUME TypeOK, RenewalsReal, NEW o \in Orders, orders[o].status # "none", NEW state \in Verdicts,
         NEW cs, NEW c \in DOMAIN cs, c \in Nat, state = "cancelled" => cs[c].state = "cancelled",
         NEW seen \in Subscription,
         /\ state = "succeeded" /\ orders[o].purpose = "subscription_renewal"
         /\ orders[o].sub \in Plans
         => seen.end = subs[orders[o].sub].end,
         NEW db \in apply_provider_state(o, state, c, seen)
  PROVE  /\ Sound(db.orders, db.subs, cs)
         /\ LocksFree(o) => LockedKept(db.subs)
         /\ orders[o].purpose = "subscription_renewal" => OthersKept(orders[o].sub, db.subs)
<1> DEFINE p == orders[o]
<1>0. p \in Order
  BY DEF TypeOK
<1>1. CASE p.status = "succeeded"
  <2>1. db = [orders |-> orders, subs |-> subs]
    BY <1>1 DEF apply_provider_state
  <2> QED
    BY <2>1, SameIsSound
<1>2. CASE p.status # "succeeded"
  <2>1. PICK rows \in SubsAfter(p, state, seen) :
          db = [orders |-> [orders EXCEPT ![o] = OrderAfter(p, state, c, rows, seen)],
                subs |-> rows]
    BY <1>2 DEF apply_provider_state, ApplyAgain
  <2> DEFINE q == OrderAfter(p, state, c, rows, seen)
  <2>2. SubsType(rows)
    BY <1>0, SubsAfterType
  <2>3. q \in Order /\ q.charge = c
    BY <1>0, <2>2, OrderAfterType
  <2>4. /\ q.purpose = p.purpose /\ q.sub = p.sub /\ q.due = p.due
        /\ q.status = IF state = "pending" THEN p.status ELSE state
        /\ state = "succeeded" /\ p.sub # None /\ p.purpose = "subscription_initial" =>
             q.covers = rows[p.sub].end
    BY <1>0 DEF OrderAfter, Order
  <2>5. db.orders = [orders EXCEPT ![o] = q] /\ db.subs = rows
    BY <2>1
  <2> HIDE DEF q
  <2>6. db.orders[o] = q /\ \A x \in Orders : x # o => db.orders[x] = orders[x]
    BY <2>5 DEF TypeOK
  <2>7. Steady(db.orders, cs)
    <3>1. q.status = "cancelled" => p.status = "cancelled" \/ Dead(db.orders, cs, o)
      BY <2>3, <2>4, <2>6 DEF Dead
    <3> QED
      BY <1>2, <2>4, <2>6, <3>1 DEF Steady
  <2>8. NoRenewal(db.orders)
    BY <2>6 DEF RenewalsReal, NoRenewal
  <2>9. Pays(db.orders, rows)
    <3> SUFFICES ASSUME NEW s \in Plans
                 PROVE  /\ subs[s].status \in OPENED_STATUSES => rows[s].status \in OPENED_STATUSES
                        /\ \/ Rests(db.orders, rows, s) \/ Starts(db.orders, rows, s)
                           \/ Prolongs(db.orders, rows, s)
      BY DEF Pays
    <3>1. Won(db.orders, s) =
            IF state = "succeeded" /\ p.sub = s /\ p.purpose # "wallet_topup" THEN {o} ELSE {}
      BY <1>2, <2>4, <2>6 DEF Won
    <3>2. s # None
      BY PaymentBounds DEF Plans, None
    <3>3. /\ subs[s].status \in OPENED_STATUSES => rows[s].status \in OPENED_STATUSES
          /\ \/ rows[s].end = subs[s].end
                /\ ~(state = "succeeded" /\ p.sub = s /\ p.purpose # "wallet_topup")
             \/ /\ state = "succeeded" /\ p.sub = s /\ p.purpose = "subscription_initial"
                /\ subs[s].status = "pending_payment" /\ rows[s].status \in OPENED_STATUSES
             \/ /\ state = "succeeded" /\ p.sub = s /\ p.purpose = "subscription_renewal"
                /\ rows[s].end = subs[s].end + Period
      BY <1>0, VerdictRows
    <3>4. CASE rows[s].end = subs[s].end
               /\ ~(state = "succeeded" /\ p.sub = s /\ p.purpose # "wallet_topup")
      BY <3>1, <3>3, <3>4 DEF Rests
    <3>5. CASE /\ state = "succeeded" /\ p.sub = s /\ p.purpose = "subscription_initial"
               /\ subs[s].status = "pending_payment" /\ rows[s].status \in OPENED_STATUSES
      <4>1. Won(db.orders, s) = {o} /\ db.orders[o].purpose = "subscription_initial"
            /\ db.orders[o].covers = rows[s].end
        BY <2>4, <2>6, <3>1, <3>2, <3>5
      <4> QED
        BY <3>5, <4>1 DEF Starts
    <3>6. CASE /\ state = "succeeded" /\ p.sub = s /\ p.purpose = "subscription_renewal"
               /\ rows[s].end = subs[s].end + Period
      <4>1. Won(db.orders, s) = {o} /\ db.orders[o].purpose = "subscription_renewal"
        BY <2>4, <2>6, <3>1, <3>6
      <4> QED
        BY <3>3, <3>6, <4>1 DEF Prolongs
    <3> QED
      BY <3>3, <3>4, <3>5, <3>6
  <2>11. p.purpose = "subscription_renewal" => OthersKept(p.sub, rows)
    <3>0. p.sub \in Rows
      BY <1>0 DEF Order, Free, None, Rows
    <3>1. p.purpose = "subscription_renewal" =>
            rows = subs \/ rows = [subs EXCEPT ![p.sub] = WriteBack(@, seen, Renewed(seen))]
      BY DEF SubsAfter, cancel_pending_subscription, activate_renewal_payment
    <3> QED
      BY <3>0, <3>1 DEF OthersKept, TypeOK
  <2>10. LocksFree(o) => LockedKept(rows)
    <3> SUFFICES ASSUME LocksFree(o), NEW s \in Plans, Locked(s) PROVE rows[s] = subs[s]
      BY DEF LockedKept
    <3>0. s \in Rows /\ p.sub \in Rows
      BY <1>0 DEF Order, Free, None, Rows
    <3>1. CASE p.purpose = "wallet_topup"
      <4>1. rows = subs
        BY <3>1 DEF SubsAfter, cancel_pending_subscription
      <4> QED
        BY <4>1
    <3>2. CASE p.purpose = "subscription_renewal"
      <4>1. s # p.sub
        BY <3>2 DEF LocksFree
      <4>2. rows = subs \/ rows = [subs EXCEPT ![p.sub] = WriteBack(@, seen, Renewed(seen))]
        BY <3>2 DEF SubsAfter, cancel_pending_subscription, activate_renewal_payment
      <4> QED
        BY <3>0, <4>1, <4>2 DEF TypeOK
    <3>3. CASE p.purpose = "subscription_initial"
      BY <3>3 DEF LocksFree, Plans
    <3> QED
      BY <1>0, <3>1, <3>2, <3>3 DEF Order, Purposes
  <2> QED
    BY <2>5, <2>7, <2>8, <2>9, <2>10, <2>11 DEF Sound
<1> QED
  BY <1>1, <1>2

\* Marking a plan past due after it is sound.
LEMMA PastDueIsSound ==
  ASSUME TypeOK, NEW cs, NEW ords, NEW rows, SubsType(rows), Sound(ords, rows, cs),
         NEW s \in Plans, NEW seen \in Subscription, NEW t \in Nat
  PROVE  /\ Sound(ords, MarkPastDue(rows, s, seen, t), cs)
         /\ OthersKept(s, rows) => OthersKept(s, MarkPastDue(rows, s, seen, t))
<1> DEFINE row == WriteBack(rows[s], seen, PastDue(seen, t))
           more == MarkPastDue(rows, s, seen, t)
<1>1. row.end = rows[s].end /\ row.status \in {"past_due", rows[s].status}
  BY PastDueRow DEF SubsType
<1>2. more = [rows EXCEPT ![s] = row]
  BY DEF MarkPastDue
<1>3. \A x \in Plans : more[x] = IF x = s THEN row ELSE rows[x]
  BY <1>2 DEF SubsType
<1> HIDE DEF row, more
<1>4. \A x \in Plans : /\ more[x].end = rows[x].end
                       /\ rows[x].status \in OPENED_STATUSES => more[x].status \in OPENED_STATUSES
  BY <1>1, <1>3 DEF OPENED_STATUSES
<1>5. Pays(ords, more)
  <2> SUFFICES ASSUME NEW x \in Plans
               PROVE  /\ subs[x].status \in OPENED_STATUSES => more[x].status \in OPENED_STATUSES
                      /\ Rests(ords, more, x) \/ Starts(ords, more, x) \/ Prolongs(ords, more, x)
    BY DEF Pays
  <2>1. /\ subs[x].status \in OPENED_STATUSES => rows[x].status \in OPENED_STATUSES
        /\ Rests(ords, rows, x) \/ Starts(ords, rows, x) \/ Prolongs(ords, rows, x)
    BY DEF Sound, Pays
  <2>2. /\ Rests(ords, rows, x) => Rests(ords, more, x)
        /\ Starts(ords, rows, x) => Starts(ords, more, x)
        /\ Prolongs(ords, rows, x) => Prolongs(ords, more, x)
    BY <1>4 DEF Rests, Starts, Prolongs
  <2> QED
    BY <1>4, <2>1, <2>2
<1>6. OthersKept(s, rows) => OthersKept(s, more)
  BY <1>3 DEF OthersKept
<1> QED
  BY <1>5, <1>6 DEF Sound, more

\* A commit of sound results is sound.
LEMMA CommitIsSound ==
  ASSUME RenewalsReal, NEW cs, NEW dbs, \A db \in dbs : Sound(db.orders, db.subs, cs), Commit(dbs)
  PROVE  /\ Sound(orders', subs', cs)
         /\ (\A db \in dbs : LockedKept(db.subs)) => LockedKept(subs')
         /\ \A s : (\A db \in dbs : OthersKept(s, db.subs)) => OthersKept(s, subs')
<1>1. CASE Allowed(dbs) = {}
  BY <1>1, SameIsSound DEF Commit
<1>2. CASE Allowed(dbs) # {}
  BY <1>2 DEF Commit, Allowed
<1> QED
  BY <1>1, <1>2
-----------------------------------------------------------------------------
\* A pass that has read the plan's row holds it, and while its renewal is being sent and
\* undecided nothing else can move the end of the plan.
CopyHolds(p, ords, rows, cs) ==
  /\ p.at # "unlocked"
  /\ p.at = "locked" => p.seen = rows[p.sub] /\ LiveIn(rows, p.sub)
  /\ p.at = "created" => ords[p.order].purpose = "subscription_renewal"
  /\ p.at = "created" /\ ~Decided(ords, cs, p.order) =>
       /\ rows[p.sub].end = p.seen.end
       /\ \A b \in Orders : Renews(ords, b, p.sub) /\ b # p.order => Decided(ords, cs, b)
Copies == \A w \in Workers : CopyHolds(pass[w], orders, subs, charges)
\* A notification that read a closed payment still says so, and a cancelled order's payment
\* is closed.
HooksFinal == \A h \in hooks : h.state = "cancelled" => charges[h.charge].state = "cancelled"
CancelledIsDead == \A o \in Orders : orders[o].status = "cancelled" => Dead(orders, charges, o)
\* Only a plan that was opened is renewed, and it is not pending any more.
Begun == \A s \in Plans :
  /\ (\E o \in Orders : Renews(orders, o, s)) => Opened(orders, s)
  /\ Opened(orders, s) => subs[s].status \in OPENED_STATUSES
\* A plan has run to where each of its renewals begins, and a month on if that is paid ...
Dues == \A s \in Plans : \A o \in Orders : Renews(orders, o, s) =>
  /\ orders[o].due <= subs[s].end
  /\ orders[o].status = "succeeded" => orders[o].due + Period <= subs[s].end
\* ... and of two renewals that begin at one time one can never be paid.
DueOnce == \A s \in Plans : \A a, b \in Orders :
  /\ Renews(orders, a, s) /\ Renews(orders, b, s) /\ orders[a].due = orders[b].due /\ a # b
  => Dead(orders, charges, a) \/ Dead(orders, charges, b)
AloneInv == /\ ~Crowded /\ TypeOK /\ Linked /\ RenewalsReal /\ Copies /\ HooksFinal /\ CancelledIsDead
           /\ Begun /\ Dues /\ DueOnce /\ PaidThrough

\* A renewal is ordered of a live plan, from where the plan ends, when every earlier renewal
\* of it is decided, and with nothing else.
Wanted(o, ords) ==
  LET s == ords[o].sub
  IN /\ s \in Plans /\ LiveIn(subs, s)
     /\ ords[o].status = "pending" /\ ords[o].due = subs[s].end
     /\ \A b \in Orders : Renews(orders, b, s) => Decided(orders, charges, b)
     /\ \A b \in Orders : b # o => ords[b] = orders[b]
OrdersWanted(ords) == \A o \in Orders :
  orders[o].status = "none" /\ ords[o].purpose = "subscription_renewal" => Wanted(o, ords)
\* What every step but the clock's does.
AloneMove == Steady(orders', charges') /\ OrdersWanted(orders') /\ Pays(orders', subs') /\ Copies'
\* What a step of no pass does, and one that leads pass w away from the plan.
Outside == pass' = pass /\ Sound(orders', subs', charges') /\ LockedKept(subs')
\* Pass v goes on and finds the row it has locked as it was.
Undisturbed(v) ==
  /\ pass'[v] = pass[v]
  /\ pass[v].at = "locked" => subs'[pass[v].sub] = subs[pass[v].sub]
Passed(w) == /\ Sound(orders', subs', charges')
             /\ pass'[w].at \in {"idle", "sweep"}
             /\ \A v \in Workers \ {w} : Undisturbed(v)

\* A new order of the customer is sound.
LEMMA NewOrderIsSound ==
  ASSUME TypeOK, RenewalsReal, FreshOrders # {}, NEW purpose \in Purposes, NEW s, NEW due, NEW t
  PROVE  LET ords == NewOrder(purpose, s, due, t)
         IN /\ NextOrder \in Orders /\ orders[NextOrder].status = "none"
            /\ ords[NextOrder].purpose = purpose /\ ords[NextOrder].status = "pending"
            /\ ords[NextOrder].sub = s /\ ords[NextOrder].due = due
            /\ \A x \in Orders : x # NextOrder => ords[x] = orders[x]
            /\ \A cs : Steady(ords, cs)
            /\ \A x \in Plans : Won(ords, x) = {}
            /\ purpose # "subscription_renewal" => NoRenewal(ords)
<1> DEFINE q == [NoOrder EXCEPT !.purpose = purpose, !.sub = s, !.status = "pending",
                             !.started = t, !.due = due]
           ords == NewOrder(purpose, s, due, t)
<1>1. q.purpose = purpose /\ q.status = "pending" /\ q.sub = s /\ q.due = due
  BY DEF NoOrder
<1>2. ords = [orders EXCEPT ![NextOrder] = q]
  BY DEF NewOrder
<1> HIDE DEF q, ords
<1>3. NextOrder \in Orders /\ orders[NextOrder].status = "none"
  BY NextOrderIsFresh DEF FreshOrders
<1>4. ords[NextOrder] = q /\ \A x \in Orders : x # NextOrder => ords[x] = orders[x]
  BY <1>2, <1>3 DEF TypeOK
<1>5. \A cs : Steady(ords, cs)
  BY <1>1, <1>3, <1>4 DEF Steady
<1>6. \A x \in Plans : Won(ords, x) = {}
  BY <1>1, <1>4 DEF Won
<1>7. purpose # "subscription_renewal" => NoRenewal(ords)
  BY <1>1, <1>4 DEF RenewalsReal, NoRenewal
<1> QED
  BY <1>1, <1>3, <1>4, <1>5, <1>6, <1>7 DEF ords

\* A top-up is ordered.
LEMMA CreatePaymentOutside == AloneInv /\ create_payment => Outside
<1> SUFFICES ASSUME AloneInv, create_payment PROVE Outside
  OBVIOUS
<1>1. TypeOK /\ RenewalsReal /\ FreshOrders # {} /\ "wallet_topup" \in Purposes
  BY DEF AloneInv, create_payment, Purposes
<1>2. /\ \A cs : Steady(orders', cs)
      /\ \A x \in Plans : Won(orders', x) = {}
      /\ NoRenewal(orders')
  BY <1>1, NewOrderIsSound DEF create_payment
<1> QED
  BY <1>2 DEF create_payment, Outside, Sound, Pays, Rests, LockedKept

\* A plan is ordered: a row that was never used.
LEMMA CheckoutOutside ==
  ASSUME AloneInv, NEW s \in Plans, NEW auto \in BOOLEAN, create_subscription_checkout(s, auto)
  PROVE  Outside
<1>1. TypeOK /\ Linked /\ RenewalsReal /\ Copies /\ FreshOrders # {} /\ "subscription_initial" \in Purposes
  BY DEF AloneInv, create_subscription_checkout, Purposes
<1>2. /\ \A cs : Steady(orders', cs)
      /\ \A x \in Plans : Won(orders', x) = {}
      /\ NoRenewal(orders')
  BY <1>1, NewOrderIsSound DEF create_subscription_checkout
<1>3. subs' = [subs EXCEPT ![s] = [@ EXCEPT !.status = "pending_payment", !.auto = auto]]
  BY <1>1 DEF create_subscription_checkout, TypeOK
<1>4. subs[s].status = "none" /\ subs'[s].end = subs[s].end /\ \A x \in Plans : x # s => subs'[x] = subs[x]
  BY <1>1, <1>3 DEF create_subscription_checkout, TypeOK, Subscription
<1>5. ~Locked(s)
  BY <1>1, <1>4 DEF Locked, HeldBy, Copies, CopyHolds, LiveIn, LIVE_SUBSCRIPTION_STATUSES
<1>6. Pays(orders', subs')
  BY <1>2, <1>4 DEF Pays, Rests, OPENED_STATUSES
<1>7. LockedKept(subs')
  BY <1>4, <1>5 DEF LockedKept
<1> QED
  BY <1>2, <1>6, <1>7 DEF create_subscription_checkout, Outside, Sound

\* The owner's change of renewal leaves the end and the status of the plan alone.
LEMMA SwitchOutside ==
  ASSUME AloneInv, NEW s \in Plans, ~Locked(s), NEW row \in Subscription,
         row.status = subs[s].status, row.end = subs[s].end,
         subs' = [subs EXCEPT ![s] = row], UNCHANGED <<orders, charges, pass>>
  PROVE  Outside
<1>1. TypeOK /\ RenewalsReal
  BY DEF AloneInv
<1>2. \A x \in Plans : subs'[x] = IF x = s THEN row ELSE subs[x]
  BY <1>1 DEF TypeOK
<1>3. Steady(orders, charges) /\ NoRenewal(orders) /\ \A x \in Plans : Won(orders, x) = {}
  BY <1>1 DEF Steady, NoRenewal, RenewalsReal, Won
<1>4. Pays(orders, subs')
  BY <1>2, <1>3 DEF Pays, Rests
<1> QED
  BY <1>2, <1>3, <1>4 DEF Outside, Sound, LockedKept

\* Renewal is cancelled.
LEMMA CancelRenewalOutside ==
  ASSUME AloneInv, NEW s \in Plans, cancel_renewal(s)
  PROVE  Outside
<1> DEFINE row == [subs[s] EXCEPT !.auto = FALSE, !.cancelAtEnd = TRUE, !.next = None]
<1>1. row \in Subscription /\ row.status = subs[s].status /\ row.end = subs[s].end
  BY DEF AloneInv, TypeOK, Subscription, None
<1>2. subs' = [subs EXCEPT ![s] = row]
  BY DEF cancel_renewal, AloneInv, TypeOK
<1> QED
  BY <1>1, <1>2, SwitchOutside DEF cancel_renewal

\* Renewal is restored.
LEMMA RestoreRenewalOutside ==
  ASSUME AloneInv, NEW s \in Plans, restore_renewal(s)
  PROVE  Outside
<1> DEFINE row == [subs[s] EXCEPT !.auto = TRUE, !.cancelAtEnd = FALSE, !.next = subs[s].end]
<1>1. row \in Subscription /\ row.status = subs[s].status /\ row.end = subs[s].end
  BY DEF AloneInv, TypeOK, Subscription
<1>2. subs' = [subs EXCEPT ![s] = row]
  BY DEF restore_renewal, AloneInv, TypeOK
<1> QED
  BY <1>1, <1>2, SwitchOutside DEF restore_renewal

\* A caller with a session of its own applies what the provider said.
LEMMA SettleIsSound ==
  ASSUME TypeOK, RenewalsReal, NEW o \in Orders, orders[o].status # "none", NEW state \in Verdicts,
         NEW cs, NEW c \in DOMAIN cs, c \in Nat, state = "cancelled" => cs[c].state = "cancelled",
         Settle(o, state, c)
  PROVE  Sound(orders', subs', cs) /\ LockedKept(subs')
<1> DEFINE dbs == apply_provider_state(o, state, c, Fresh(o))
<1>1. LocksFree(o) /\ Commit(dbs)
  BY DEF Settle
<1>2. Fresh(o) \in Subscription /\ (orders[o].sub \in Plans => Fresh(o).end = subs[orders[o].sub].end)
  BY FreshIsTyped
<1>3. \A db \in dbs : Sound(db.orders, db.subs, cs) /\ LockedKept(db.subs)
  BY <1>1, <1>2, ApplyIsSound
<1> HIDE DEF dbs
<1> QED
  BY <1>1, <1>3, CommitIsSound

\* The checkout's call, its retry and the reconcile button of an unbound order.
LEMMA ResumeOutside ==
  ASSUME AloneInv, NEW o \in Orders, NEW outcome \in Outcomes, resume_checkout(o, outcome)
  PROVE  Outside
<1>0. TypeOK /\ Linked /\ RenewalsReal
  BY DEF AloneInv
<1>1. orders[o].status = "pending" /\ orders[o].charge = None /\ Sendable(o, now) /\ pass' = pass
  BY DEF resume_checkout
<1>2. PICK r \in Post(o, outcome) :
        /\ charges' = r.charges
        /\ CASE outcome = "answered" -> Settle(o, r.charges[r.charge].state, r.charge)
             [] outcome = "refused"  -> require_manual_review(o) /\ UNCHANGED subs
             [] OTHER -> UNCHANGED <<orders, subs>>
  BY DEF resume_checkout
<1>3. /\ r \in Ask(o, outcome) /\ Askable(o, now)
      /\ now \in Nat /\ now <= now /\ now <= now + Lag
  BY <1>0, <1>1, PaymentBounds DEF Ask, Askable, TypeOK
<1>4. Sound(orders', subs', charges') /\ LockedKept(subs')
  <2>1. CASE outcome = "answered"
    <3>1. Settle(o, r.charges[r.charge].state, r.charge)
      BY <1>2, <2>1
    <3>2. /\ r.charge \in DOMAIN r.charges
          /\ r.charge \in Nat /\ r.charges[r.charge].state \in Verdicts
      BY <1>0, <1>3, <2>1, AskIsAsked
    <3> QED
      BY <1>0, <1>1, <1>2, <3>1, <3>2, SettleIsSound
  <2>2. CASE outcome = "refused"
    BY <1>0, <1>2, <2>2, ReviewIsSound DEF require_manual_review, LockedKept
  <2>3. CASE outcome \notin {"answered", "refused"}
    BY <1>0, <1>2, <2>3, SameIsSound
  <2> QED
    BY <2>1, <2>2, <2>3
<1> QED
  BY <1>1, <1>4 DEF Outside

\* A notification, or the reconcile button, of a bound order.
LEMMA NotifyBoundOutside ==
  ASSUME AloneInv, NEW o \in Orders, notify_bound(o)
  PROVE  Outside
<1> DEFINE c == orders[o].charge
<1>0. TypeOK /\ Linked /\ RenewalsReal
  BY DEF AloneInv
<1>1. c \in DOMAIN charges /\ charges[c].order = o
  BY <1>0 DEF notify_bound, Linked, BoundLinks
<1>2. c \in Nat /\ charges[c].state \in Verdicts /\ orders[o].status # "none"
  BY <1>0, <1>1, ChargeType DEF Charge, Linked, ChargeLinks
<1>3. Settle(o, charges[c].state, c) /\ charges' = charges /\ pass' = pass
  BY DEF notify_bound, VerifiedState
<1> QED
  BY <1>0, <1>1, <1>2, <1>3, SettleIsSound DEF Outside

\* A late notification applies what it read: a payment that was closed stays so.
LEMMA NotifyApplyOutside ==
  ASSUME AloneInv, NEW h \in hooks, notify_apply(h)
  PROVE  Outside
<1> DEFINE o == charges[h.charge].order
<1>0. TypeOK /\ Linked /\ RenewalsReal
  BY DEF AloneInv
<1>1. /\ h.charge \in DOMAIN charges /\ h.state \in Verdicts /\ h.charge \in Nat
      /\ h.state = "cancelled" => charges[h.charge].state = "cancelled"
  BY <1>0 DEF Linked, HookLinks, TypeOK, AloneInv, HooksFinal
<1>2. o \in Orders /\ orders[o].status # "none"
  BY <1>0, <1>1, ChargeType DEF Charge, Linked, ChargeLinks
<1>3. Settle(o, h.state, h.charge) \/ UNCHANGED <<orders, subs>>
  BY DEF notify_apply
<1>4. Sound(orders', subs', charges) /\ LockedKept(subs')
  <2>1. CASE Settle(o, h.state, h.charge)
    BY <1>0, <1>1, <1>2, <2>1, SettleIsSound
  <2>2. CASE UNCHANGED <<orders, subs>>
    BY <1>0, <2>2, SameIsSound
  <2> QED
    BY <1>3, <2>1, <2>2
<1> QED
  BY <1>4 DEF notify_apply, Outside

\* Steps that leave both tables and the passes alone.
LEMMA CalmOutside ==
  ASSUME AloneInv, UNCHANGED <<orders, subs, pass>>
  PROVE  Outside
BY SameIsSound DEF AloneInv, Outside

-----------------------------------------------------------------------------
\* Where a pass goes, and that no other pass moves then.
LEMMA GoesIs ==
  ASSUME AloneInv, NEW w \in Workers, NEW p, Goes(w, p)
  PROVE  pass'[w] = p /\ \A v \in Workers \ {w} : pass'[v] = pass[v]
BY DEF AloneInv, TypeOK, Goes

\* Ending a pass, or going on to the sweep, leaves the plan behind.
LEMMA LeavesPlan ==
  ASSUME AloneInv, NEW w \in Workers, Goes(w, Idle) \/ SweepNext(w)
  PROVE  pass'[w].at \in {"idle", "sweep"} /\ \A v \in Workers \ {w} : pass'[v] = pass[v]
<1> DEFINE p == [Idle EXCEPT !.at = "sweep", !.clock = pass[w].clock,
                             !.todo = Unsettled(pass[w].clock)]
<1>1. Idle.at = "idle" /\ p.at = "sweep"
  BY DEF Idle
<1>2. Goes(w, Idle) \/ Goes(w, p)
  BY DEF SweepNext
<1> HIDE DEF p
<1> QED
  BY <1>1, <1>2, GoesIs

\* A pass that holds a row finds it as it was, if the rows others hold are left alone ...
LEMMA LockedUndisturbed ==
  ASSUME AloneInv, LockedKept(subs'), NEW v \in Workers, pass'[v] = pass[v]
  PROVE  Undisturbed(v)
<1>1. pass[v].at = "locked" => pass[v].sub \in Plans /\ Locked(pass[v].sub)
  BY DEF AloneInv, Linked, PassLinks, PassLinked, Locked, HeldBy
<1> QED
  BY <1>1 DEF Undisturbed, LockedKept

\* ... or every row but one that it does not hold.
LEMMA OthersUndisturbed ==
  ASSUME AloneInv, NEW s, OthersKept(s, subs'), NEW v \in Workers, pass'[v] = pass[v],
         ~HeldBy(s, v)
  PROVE  Undisturbed(v)
<1>1. pass[v].at = "locked" => pass[v].sub \in Plans
  BY DEF AloneInv, Linked, PassLinks, PassLinked
<1> QED
  BY <1>1 DEF Undisturbed, OthersKept, HeldBy

\* A transaction of the cycle, which touches the row of no plan but one.
LEMMA CycleCommitsPassed ==
  ASSUME AloneInv, NEW w \in Workers, NEW s, \A v \in Workers \ {w} : ~HeldBy(s, v), NEW dbs,
         \A db \in dbs : Sound(db.orders, db.subs, charges') /\ OthersKept(s, db.subs),
         CycleCommits(w, dbs)
  PROVE  Passed(w)
<1>1. Sound(orders', subs', charges') /\ OthersKept(s, subs')
  BY CommitIsSound DEF CycleCommits, AloneInv
<1>2. pass'[w].at \in {"idle", "sweep"} /\ \A v \in Workers \ {w} : pass'[v] = pass[v]
  BY LeavesPlan DEF CycleCommits
<1>3. \A v \in Workers \ {w} : Undisturbed(v)
  BY <1>1, <1>2, OthersUndisturbed
<1> QED
  BY <1>1, <1>2, <1>3 DEF Passed

\* A pass stops, or passes the subscription over.
LEMMA CalmPassed ==
  ASSUME AloneInv, NEW w \in Workers, Goes(w, Idle) \/ SweepNext(w), UNCHANGED <<orders, subs>>
  PROVE  Passed(w)
<1>1. Sound(orders', subs', charges')
  BY SameIsSound DEF AloneInv
<1>2. pass'[w].at \in {"idle", "sweep"} /\ \A v \in Workers \ {w} : pass'[v] = pass[v]
  BY LeavesPlan
<1> QED
  BY <1>1, <1>2 DEF Passed, Undisturbed

\* The downgrade leaves the end of the plan alone.
LEMMA DowngradePassed ==
  ASSUME AloneInv, NEW w \in Workers, downgrade_to_free(w)
  PROVE  Passed(w)
<1> DEFINE s == pass[w].sub
           seen == pass[w].seen
           set == [Expired(seen) EXCEPT !.grace = None]
           row == WriteBack(subs[s], seen, set)
           rows == DowngradedRows(s, seen)
<1>0. TypeOK /\ Linked /\ RenewalsReal
  BY DEF AloneInv
<1>1. s \in Plans /\ s \in Rows /\ seen \in Subscription /\ subs[s] \in Subscription
  BY <1>0, HandledIsLinked DEF downgrade_to_free, Handles, TypeOK, Rows
<1>2. set.end = seen.end /\ set.status = "expired"
  BY <1>1 DEF Expired, Subscription
<1>3. DOMAIN subs[s] = {"status", "auto", "cancelAtEnd", "end", "next", "grace", "method"}
  BY <1>1 DEF Subscription
<1> HIDE DEF set
<1>4. row.end = subs[s].end /\ row.status \in {"expired", subs[s].status}
  BY <1>2, <1>3 DEF WriteBack
<1>5. rows = [[subs EXCEPT ![s] = row] EXCEPT ![Free] = [NoPlan EXCEPT !.status = "active"]]
  BY DEF DowngradedRows, ExpireOnly, set
<1>6. CycleCommits(w, {[orders |-> orders, subs |-> rows]})
      /\ \A v \in Workers \ {w} : ~HeldBy(s, v)
  BY DEF downgrade_to_free, Handles
<1> HIDE DEF row, s, seen, rows
<1>7. \A x \in Plans : x # Free /\ rows[x] = IF x = s THEN row ELSE subs[x]
  BY <1>0, <1>5, PaymentBounds DEF TypeOK, Free, Plans
<1>8. Steady(orders, charges') /\ NoRenewal(orders) /\ \A x \in Plans : Won(orders, x) = {}
  BY <1>0 DEF Steady, NoRenewal, RenewalsReal, Won
<1>9. Pays(orders, rows)
  BY <1>4, <1>7, <1>8 DEF Pays, Rests, OPENED_STATUSES
<1>10. Sound(orders, rows, charges') /\ OthersKept(s, rows)
  BY <1>7, <1>8, <1>9 DEF Sound, OthersKept
<1> QED
  BY <1>6, <1>10, CycleCommitsPassed

\* A renewal without an answer.
LEMMA UnansweredIsSound ==
  ASSUME TypeOK, RenewalsReal, NEW o \in Orders, NEW s \in Plans, NEW seen \in Subscription,
         NEW t \in Nat, NEW refused, NEW cs, NEW db \in Unanswered(o, s, seen, t, refused)
  PROVE  Sound(db.orders, db.subs, cs) /\ OthersKept(s, db.subs)
<1>1. db.orders = KeepUnanswered(o, refused) /\ db.subs = MarkPastDue(subs, s, seen, t)
  BY DEF Unanswered
<1>2. Sound(KeepUnanswered(o, refused), subs, cs) /\ OthersKept(s, subs)
  BY SameIsSound, ReviewIsSound DEF KeepUnanswered
<1> QED
  BY <1>1, <1>2, PastDueIsSound DEF SubsType, TypeOK

\* A renewal with an answer; if it is a success, the copy has the end of the row.
LEMMA AnsweredIsSound ==
  ASSUME TypeOK, RenewalsReal, NEW o \in Orders, orders[o].status # "none",
         orders[o].purpose = "subscription_renewal", NEW s \in Plans, orders[o].sub = s,
         NEW seen \in Subscription, NEW state \in Verdicts,
         state = "succeeded" => seen.end = subs[s].end,
         NEW cs, NEW c \in DOMAIN cs, c \in Nat, state = "cancelled" => cs[c].state = "cancelled",
         \A db \in apply_provider_state(o, state, c, seen) : SubsType(db.subs),
         NEW t \in Nat, NEW db \in Answered(o, s, seen, t, state, c)
  PROVE  Sound(db.orders, db.subs, cs) /\ OthersKept(s, db.subs)
<1>1. PICK applied \in apply_provider_state(o, state, c, seen) :
        db = [applied EXCEPT !.subs = IF state = "succeeded" THEN @ ELSE MarkPastDue(@, s, seen, t)]
  BY DEF Answered
<1>2. Sound(applied.orders, applied.subs, cs) /\ SubsType(applied.subs) /\ OthersKept(s, applied.subs)
  BY ApplyIsSound
<1>3. /\ Sound(applied.orders, MarkPastDue(applied.subs, s, seen, t), cs)
      /\ OthersKept(s, MarkPastDue(applied.subs, s, seen, t))
  BY <1>2, PastDueIsSound
<1>4. DOMAIN applied = {"orders", "subs"}
  BY DEF apply_provider_state, ApplyAgain
<1>5. /\ db.orders = applied.orders
      /\ db.subs \in {applied.subs, MarkPastDue(applied.subs, s, seen, t)}
  BY <1>1, <1>4
<1> QED
  BY <1>2, <1>3, <1>5

\* Applying a verdict leaves the plans typed.
LEMMA ApplyIsTyped ==
  ASSUME TypeOK, NEW o \in Orders, NEW state \in Verdicts, NEW c, NEW seen \in Subscription,
         NEW db \in apply_provider_state(o, state, c, seen)
  PROVE  SubsType(db.subs)
<1>1. orders[o] \in Order /\ SubsType(subs)
  BY DEF TypeOK, SubsType
<1> QED
  BY <1>1, SubsAfterType DEF apply_provider_state, ApplyAgain

\* The renewal step of a pass.
LEMMA ResolvePassed ==
  ASSUME AloneInv, NEW w \in Workers, NEW outcome \in Outcomes, resolve_renewal_payment(w, outcome)
  PROVE  Passed(w)
<1> DEFINE s == pass[w].sub
           seen == pass[w].seen
           t == pass[w].clock
<1>0. TypeOK /\ Linked /\ RenewalsReal
  BY DEF AloneInv
<1>1. PICK o \in Orders :
        /\ pass[w].at \in {"locked", "unlocked", "created"}
        /\ orders[o].sub = s /\ orders[o].status # "none"
        /\ orders[o].purpose = "subscription_renewal"
        /\ \A v \in Workers \ {w} : ~HeldBy(s, v)
        /\ Open(o) /\ ~Dead(orders, charges, o) => seen.end = subs[s].end
        /\ ResolveRenewal(w, o, outcome)
  <2>1. CASE Handles(w) /\ \E o \in PendingRenewals(pass[w].sub) : ResolveRenewal(w, o, outcome)
    <3>1. pass[w].at = "locked" /\ seen = subs[s] /\ \A v \in Workers \ {w} : ~HeldBy(s, v)
      BY <2>1 DEF Handles, AloneInv, Copies, CopyHolds
    <3> QED
      BY <2>1, <3>1 DEF PendingRenewals, Open, OPEN_PAYMENT_STATUSES
  <2>2. CASE pass[w].at = "created" /\ ~Locked(pass[w].sub) /\ ResolveRenewal(w, pass[w].order, outcome)
    <3>1. pass[w].order \in Orders /\ orders[pass[w].order].sub = s /\ orders[pass[w].order].status # "none"
      BY <1>0, <2>2 DEF Linked, PassLinks, PassLinked
    <3>2. /\ orders[pass[w].order].purpose = "subscription_renewal"
          /\ ~Decided(orders, charges, pass[w].order) => subs[s].end = seen.end
      BY <2>2 DEF AloneInv, Copies, CopyHolds
    <3>3. \A v \in Workers \ {w} : ~HeldBy(s, v)
      BY <2>2 DEF Locked
    <3> QED
      BY <2>2, <3>1, <3>2, <3>3 DEF Open, OPEN_PAYMENT_STATUSES, Decided
  <2> QED
    BY <2>1, <2>2 DEF resolve_renewal_payment
<1>2. s \in Plans /\ seen \in Subscription /\ t \in Nat /\ t <= now /\ now <= t + Lag
  BY <1>0, <1>1, HandledIsLinked
<1>3. CASE SweepNext(w) /\ UNCHANGED <<orders, subs, charges>>
  BY <1>3, CalmPassed
<1>4. CASE CycleCommits(w, Unanswered(o, s, seen, t, TRUE)) /\ UNCHANGED charges
  <2>1. \A db \in Unanswered(o, s, seen, t, TRUE) :
          Sound(db.orders, db.subs, charges') /\ OthersKept(s, db.subs)
    BY <1>0, <1>2, UnansweredIsSound
  <2> DEFINE dbs == Unanswered(o, s, seen, t, TRUE)
  <2>2. CycleCommits(w, dbs)
    BY <1>4
  <2> HIDE DEF dbs, s, seen, t
  <2>3. \A db \in dbs : Sound(db.orders, db.subs, charges') /\ OthersKept(s, db.subs)
    BY <2>1 DEF dbs
  <2> QED
    BY <1>1, <2>2, <2>3, CycleCommitsPassed
<1>5. ASSUME Open(o), Askable(o, t), NEW r \in Ask(o, outcome), charges' = r.charges,
             CycleCommits(w, IF outcome = "answered"
                             THEN Answered(o, s, seen, t, r.charges[r.charge].state, r.charge)
                             ELSE Unanswered(o, s, seen, t, outcome = "refused"))
      PROVE  Passed(w)
  <2>2. CASE outcome = "answered"
    <3> DEFINE state == r.charges[r.charge].state
    <3>1. r.charge \in DOMAIN r.charges /\ r.charge \in Nat /\ state \in Verdicts
      BY <1>0, <1>2, <1>5, <2>2, AskIsAsked
    <3>2. \A db \in apply_provider_state(o, state, r.charge, seen) : SubsType(db.subs)
      BY <1>0, <1>2, <3>1, ApplyIsTyped
    <3>5. state = "succeeded" => seen.end = subs[s].end
      <4>1. CASE Dead(orders, charges, o)
        <5>1. orders[o].charge # None
          BY <1>0, <4>1, ChargeType DEF Dead, None
        <5>2. r.charges = charges /\ r.charge = orders[o].charge
          BY <1>5, <5>1 DEF Ask
        <5> QED
          BY <4>1, <5>2 DEF Dead
      <4>2. CASE ~Dead(orders, charges, o)
        BY <1>1, <1>5, <4>2
      <4> QED
        BY <4>1, <4>2
    <3>6. state = r.charges[r.charge].state /\ charges' = r.charges
      BY <1>5
    <3> DEFINE dbs == Answered(o, s, seen, t, state, r.charge)
    <3>4. CycleCommits(w, dbs)
      BY <1>5, <2>2
    <3> HIDE DEF state, s, seen, t
    <3>3. \A db \in dbs : Sound(db.orders, db.subs, charges') /\ OthersKept(s, db.subs)
      BY <1>0, <1>1, <1>2, <3>1, <3>2, <3>5, <3>6, AnsweredIsSound
    <3> HIDE DEF dbs
    <3> QED
      BY <1>1, <3>3, <3>4, CycleCommitsPassed
  <2>3. CASE outcome # "answered"
    <3> DEFINE dbs == Unanswered(o, s, seen, t, outcome = "refused")
    <3>1. \A db \in dbs : Sound(db.orders, db.subs, charges') /\ OthersKept(s, db.subs)
      BY <1>0, <1>2, UnansweredIsSound
    <3>2. CycleCommits(w, dbs)
      BY <1>5, <2>3
    <3> HIDE DEF dbs, s, seen, t
    <3> QED
      BY <1>1, <3>1, <3>2, CycleCommitsPassed
  <2> QED
    BY <2>2, <2>3
<1> QED
  BY <1>1, <1>3, <1>4, <1>5 DEF ResolveRenewal

\* One order of the sweep.
LEMMA SweepOrderPassed ==
  ASSUME AloneInv, NEW w \in Workers, NEW outcome \in Outcomes,
         reconcile_pending_payments(w, outcome)
  PROVE  Passed(w)
<1> DEFINE o    == CHOOSE x \in pass[w].todo : \A y \in pass[w].todo : x <= y
           left == pass[w].todo \ {o}
           continue == Goes(w, IF left = {} THEN Idle ELSE [pass[w] EXCEPT !.todo = left])
           t == pass[w].clock
<1>0. TypeOK /\ Linked /\ RenewalsReal
  BY DEF AloneInv
<1>1. pass[w].at = "sweep" /\ t \in Nat /\ t <= now /\ now <= t + Lag
  BY <1>0 DEF reconcile_pending_payments, TypeOK, Pass, Linked, PassLinks, PassLinked
<1>2. o \in Orders
  <2>1. pass[w].todo # {} /\ pass[w].todo \subseteq Orders
    BY <1>0, <1>1 DEF Linked, PassLinks, PassLinked, TypeOK, Pass
  <2>2. pass[w].todo \in SUBSET Nat
    BY <2>1, PaymentBounds DEF Orders
  <2>3. o \in pass[w].todo
    BY <2>1, <2>2, SmallestNumber
  <2> QED
    BY <2>1, <2>3
<1>3. continue \/ Goes(w, Idle) => /\ pass'[w].at \in {"idle", "sweep"}
                                   /\ \A v \in Workers \ {w} : pass'[v] = pass[v]
  <2> DEFINE p == [pass[w] EXCEPT !.todo = left]
  <2>1. p.at = "sweep"
    BY <1>0, <1>1 DEF TypeOK, Pass
  <2>2. continue => Goes(w, Idle) \/ Goes(w, p)
    OBVIOUS
  <2> HIDE DEF p, continue
  <2> QED
    BY <2>1, <2>2, GoesIs, LeavesPlan
<1>4. \/ continue /\ UNCHANGED <<orders, subs, charges>>
      \/ require_manual_review(o) /\ continue /\ UNCHANGED <<subs, charges>>
      \/ /\ Open(o) /\ Askable(o, t)
         /\ \E r \in Ask(o, outcome) :
              LET dbs == apply_provider_state(o, r.charges[r.charge].state, r.charge, Fresh(o))
              IN /\ charges' = r.charges
                 /\ \/ /\ outcome = "answered" /\ LocksFree(o) /\ Commit(dbs)
                       /\ Goes(w, Idle) \/ continue
                    \/ require_manual_review(o) /\ UNCHANGED subs /\ continue
                    \/ UNCHANGED <<orders, subs>> /\ Goes(w, Idle)
  BY DEF reconcile_pending_payments
<1> HIDE DEF o, continue, t
<1>5. (continue \/ Goes(w, Idle)) /\ Sound(orders', subs', charges') /\ LockedKept(subs')
  <2>1. CASE continue /\ UNCHANGED <<orders, subs, charges>>
    BY <1>0, <2>1, SameIsSound
  <2>2. CASE require_manual_review(o) /\ continue /\ UNCHANGED <<subs, charges>>
    BY <1>0, <1>2, <2>2, ReviewIsSound DEF require_manual_review, LockedKept
  <2>3. ASSUME Open(o), Askable(o, t), NEW r \in Ask(o, outcome), charges' = r.charges,
               \/ /\ outcome = "answered" /\ LocksFree(o)
                  /\ Commit(apply_provider_state(o, r.charges[r.charge].state, r.charge, Fresh(o)))
                  /\ Goes(w, Idle) \/ continue
               \/ require_manual_review(o) /\ UNCHANGED subs /\ continue
               \/ UNCHANGED <<orders, subs>> /\ Goes(w, Idle)
        PROVE  (continue \/ Goes(w, Idle)) /\ Sound(orders', subs', charges') /\ LockedKept(subs')
    <3>1. orders[o].status # "none"
      BY <2>3 DEF Open, OPEN_PAYMENT_STATUSES
    <3> DEFINE state == r.charges[r.charge].state
               dbs == apply_provider_state(o, state, r.charge, Fresh(o))
    <3>4. CASE outcome = "answered" /\ LocksFree(o) /\ Commit(dbs) /\ (Goes(w, Idle) \/ continue)
      <4>1. r.charge \in DOMAIN charges' /\ r.charge \in Nat /\ state \in Verdicts
            /\ state = charges'[r.charge].state
        BY <1>0, <1>1, <1>2, <2>3, <3>4, AskIsAsked
      <4>2. Fresh(o) \in Subscription /\ (orders[o].sub \in Plans => Fresh(o).end = subs[orders[o].sub].end)
        BY <1>0, <1>2, FreshIsTyped
      <4> HIDE DEF state
      <4>3. \A db \in dbs : Sound(db.orders, db.subs, charges') /\ LockedKept(db.subs)
        BY <1>0, <1>2, <3>1, <3>4, <4>1, <4>2, ApplyIsSound
      <4> QED
        BY <1>0, <3>4, <4>3, CommitIsSound
    <3>5. CASE require_manual_review(o) /\ UNCHANGED subs /\ continue
      BY <1>0, <1>2, <3>5, ReviewIsSound DEF require_manual_review, LockedKept
    <3>6. CASE UNCHANGED <<orders, subs>> /\ Goes(w, Idle)
      BY <1>0, <3>6, SameIsSound
    <3> QED
      BY <2>3, <3>4, <3>5, <3>6
  <2> QED
    BY <1>4, <2>1, <2>2, <2>3
<1>6. \A v \in Workers \ {w} : Undisturbed(v)
  BY <1>3, <1>5, LockedUndisturbed
<1> QED
  BY <1>3, <1>5, <1>6 DEF Passed

-----------------------------------------------------------------------------
\* What holds of any move.
LEMMA MoveFacts ==
  ASSUME TypeOK, Linked, Moves
  PROVE  /\ TypeOK' /\ Linked'
         /\ ChargesMove /\ HooksMove
         /\ \A o \in Orders : orders[o].status # "none" =>
              /\ orders'[o].status # "none"
              /\ orders'[o].purpose = orders[o].purpose /\ orders'[o].sub = orders[o].sub
         /\ \A o \in Orders : orders[o].status = "succeeded" => orders'[o].status = "succeeded"
         /\ \A s : Opened(orders, s) => Opened(orders', s)
<1>1. TypeOK /\ Linked /\ ChargesMove /\ HooksMove /\ OrdersMove(orders', charges')
  BY DEF Moves, Good
<1>2. TypeOK' /\ Linked'
  BY <1>1, MovesAreTyped, MovesKeepLinks
<1>3. \A o \in Orders : orders[o].status # "none" =>
        /\ orders'[o].status # "none"
        /\ orders'[o].purpose = orders[o].purpose /\ orders'[o].sub = orders[o].sub
  BY <1>1 DEF OrdersMove, Kept, New, BoundTo
<1>4. \A o \in Orders : orders[o].status = "succeeded" => orders'[o].status = "succeeded"
  BY <1>1 DEF OrdersMove, Kept, New, BoundTo
<1>5. \A s : Opened(orders, s) => Opened(orders', s)
  BY <1>1, OpenedStays
<1> QED
  BY <1>1, <1>2, <1>3, <1>4, <1>5

\* An order whose payment is closed stays so: it is bound to no other payment.
LEMMA DeadStays ==
  ASSUME TypeOK, Linked, Moves, NEW o \in Orders, Dead(orders, charges, o)
  PROVE  Dead(orders', charges', o)
<1> DEFINE c == orders[o].charge
<1>0. ChargesMove /\ OrdersMove(orders', charges')
  BY DEF Moves, Good
<1>1. c \in DOMAIN charges /\ charges[c].state = "cancelled" /\ c # None
  BY ChargeType DEF Dead, None
<1>2. charges[c].order = o /\ orders[o].status # "none"
  BY <1>1 DEF Linked, BoundLinks, ChargeLinks
<1>3. c \in DOMAIN charges' /\ charges'[c].state = "cancelled" /\ charges'[c].order = o
  BY <1>0, <1>1, <1>2, ChargesKept
<1>4. orders'[o].charge = c
  <2>1. CASE Kept(orders[o], orders'[o])
    BY <2>1 DEF Kept
  <2>2. CASE BoundTo(o, orders[o], orders'[o], charges')
    BY <1>1, <2>2 DEF BoundTo
  <2> QED
    BY <1>0, <1>2, <2>1, <2>2 DEF OrdersMove, New
<1> QED
  BY <1>3, <1>4 DEF Dead

\* What is decided stays so, and a closed payment is no success.
LEMMA DecidedStays ==
  ASSUME TypeOK, Linked, Moves, NEW o \in Orders, Decided(orders, charges, o)
  PROVE  /\ Decided(orders', charges', o)
         /\ orders[o].status # "succeeded" => orders'[o].status # "succeeded"
<1>1. CASE orders[o].status = "succeeded"
  BY <1>1, MoveFacts DEF Decided
<1>2. CASE orders[o].status # "succeeded"
  <2>1. Dead(orders', charges', o)
    BY <1>2, DeadStays DEF Decided
  <2>2. PaidLinks'
    BY MoveFacts DEF Linked
  <2> QED
    BY <2>1, <2>2 DEF Dead, Decided, PaidLinks
<1> QED
  BY <1>1, <1>2

\* A pass that goes on undisturbed keeps its copy as good as it was, whatever others do.
LEMMA StaysGood ==
  ASSUME AloneInv, Moves, Steady(orders', charges'), OrdersWanted(orders'), Pays(orders', subs'),
         NEW v \in Workers, Undisturbed(v)
  PROVE  CopyHolds(pass'[v], orders', subs', charges')
<1> DEFINE p == pass[v]
           s == p.sub
<1>0. TypeOK /\ Linked /\ Begun
  BY DEF AloneInv
<1>1. pass'[v] = p /\ CopyHolds(p, orders, subs, charges) /\ PassLinked(p, orders)
  BY <1>0 DEF AloneInv, Copies, Linked, PassLinks, Undisturbed
<1>2. p.at = "locked" => p.seen = subs'[s] /\ LiveIn(subs', s)
  BY <1>1 DEF Undisturbed, CopyHolds, LiveIn
<1>3. ASSUME p.at = "created"
      PROVE  orders'[p.order].purpose = "subscription_renewal"
  BY <1>0, <1>1, <1>3, MoveFacts DEF PassLinked, CopyHolds
<1>4. ASSUME p.at = "created", ~Decided(orders', charges', p.order)
      PROVE  /\ subs'[s].end = p.seen.end
             /\ \A b \in Orders : Renews(orders', b, s) /\ b # p.order => Decided(orders', charges', b)
  <2>1. /\ s \in Plans /\ Opened(orders, s) /\ p.order \in Orders
        /\ orders[p.order].sub = s /\ orders[p.order].status # "none"
        /\ orders[p.order].purpose = "subscription_renewal"
    BY <1>1, <1>4 DEF PassLinked, CopyHolds
  <2>2. ~Decided(orders, charges, p.order)
    BY <1>0, <1>4, <2>1, DecidedStays
  <2>3. /\ subs[s].end = p.seen.end
        /\ \A b \in Orders : Renews(orders, b, s) /\ b # p.order => Decided(orders, charges, b)
    BY <1>1, <1>4, <2>2 DEF CopyHolds
  <2>4. ASSUME NEW b \in Orders, Renews(orders', b, s) PROVE Renews(orders, b, s)
    <3>1. CASE orders[b].status = "none"
      <4>1. \A x \in Orders : Renews(orders, x, s) => Decided(orders, charges, x)
        BY <2>4, <3>1 DEF OrdersWanted, Wanted, Renews
      <4> QED
        BY <2>1, <2>2, <4>1 DEF Renews
    <3>2. CASE orders[b].status # "none"
      BY <1>0, <2>4, <3>2, MoveFacts DEF Renews
    <3> QED
      BY <3>1, <3>2
  <2>5. \A b \in Orders : Renews(orders', b, s) /\ b # p.order => Decided(orders', charges', b)
    <3> TAKE b \in Orders
    <3> HAVE Renews(orders', b, s) /\ b # p.order
    <3>1. Decided(orders, charges, b)
      BY <2>3, <2>4
    <3> QED
      BY <1>0, <3>1, DecidedStays
  <2>6. ~Starts(orders', subs', s)
    <3>1. subs[s].status \in OPENED_STATUSES
      BY <1>0, <2>1 DEF Begun
    <3> QED
      BY <3>1 DEF Starts, OPENED_STATUSES
  <2>7. ~Prolongs(orders', subs', s)
    <3> SUFFICES ASSUME NEW o \in Orders, Won(orders', s) = {o},
                        orders'[o].purpose = "subscription_renewal"
                 PROVE  FALSE
      BY DEF Prolongs
    <3>1. /\ orders'[o].sub = s /\ orders'[o].status = "succeeded"
          /\ orders[o].status # "succeeded"
      BY DEF Won
    <3>2. Renews(orders, o, s) /\ o # p.order
      BY <1>4, <2>4, <3>1 DEF Renews, Decided
    <3>3. Decided(orders, charges, o)
      BY <2>3, <3>2
    <3> QED
      BY <1>0, <3>1, <3>3, DecidedStays
  <2>8. Rests(orders', subs', s)
    BY <2>1, <2>6, <2>7 DEF Pays
  <2> QED
    BY <2>3, <2>5, <2>8 DEF Rests
<1> QED
  BY <1>1, <1>2, <1>3, <1>4 DEF CopyHolds

\* What the passes of others, customers and notifications do leaves every copy good.
LEMMA OutsideIsAlone ==
  ASSUME AloneInv, Moves, Outside
  PROVE  AloneMove
<1>1. Steady(orders', charges') /\ OrdersWanted(orders') /\ Pays(orders', subs')
  BY DEF Outside, Sound, NoRenewal, OrdersWanted
<1>2. \A v \in Workers : Undisturbed(v)
  BY LockedUndisturbed DEF Outside
<1>3. Copies'
  BY <1>1, <1>2, StaysGood DEF Copies
<1> QED
  BY <1>1, <1>3 DEF AloneMove

\* A pass that leaves the plan has no copy to keep.
LEMMA PassedIsAlone ==
  ASSUME AloneInv, Moves, NEW w \in Workers, Passed(w)
  PROVE  AloneMove
<1>1. Steady(orders', charges') /\ OrdersWanted(orders') /\ Pays(orders', subs')
  BY DEF Passed, Sound, NoRenewal, OrdersWanted
<1>2. CopyHolds(pass'[w], orders', subs', charges')
  BY DEF Passed, CopyHolds
<1>3. \A v \in Workers \ {w} : CopyHolds(pass'[v], orders', subs', charges')
  BY <1>1, StaysGood DEF Passed
<1>4. Copies'
  BY <1>2, <1>3 DEF Copies
<1> QED
  BY <1>1, <1>4 DEF AloneMove

\* A pass that reads the clock has no copy yet.
LEMMA StartsIsAlone ==
  ASSUME AloneInv, Moves, NEW w \in Workers, PassStarts(w)
  PROVE  AloneMove
<1> DEFINE p == [Idle EXCEPT !.at = "started", !.clock = now]
<1>1. p.at = "started"
  BY DEF Idle
<1>2. pass'[w] = p /\ \A v \in Workers \ {w} : pass'[v] = pass[v]
  BY GoesIs DEF PassStarts
<1> HIDE DEF p
<1>3. UNCHANGED <<orders, subs, charges>>
  BY DEF PassStarts
<1>4. Sound(orders', subs', charges')
  BY <1>3, SameIsSound DEF AloneInv
<1>5. Steady(orders', charges') /\ OrdersWanted(orders') /\ Pays(orders', subs')
  BY <1>4 DEF Sound, NoRenewal, OrdersWanted
<1>6. CopyHolds(pass'[w], orders', subs', charges')
  BY <1>1, <1>2 DEF CopyHolds
<1>7. \A v \in Workers \ {w} : CopyHolds(pass'[v], orders', subs', charges')
  BY <1>2, <1>3, <1>5, StaysGood DEF Undisturbed
<1>8. Copies'
  BY <1>6, <1>7 DEF Copies
<1> QED
  BY <1>5, <1>8 DEF AloneMove

\* A pass that selects a plan holds the row it has just read.
LEMMA SelectsIsAlone ==
  ASSUME AloneInv, Moves, NEW w \in Workers, PassSelects(w)
  PROVE  AloneMove
<1>0. ~Crowded /\ UNCHANGED <<orders, subs, charges>>
  BY DEF AloneInv, PassSelects
<1>1. CASE SweepNext(w)
  <2>1. Passed(w)
    BY <1>0, <1>1, CalmPassed
  <2> QED
    BY <2>1, PassedIsAlone
<1>2. ASSUME NEW s \in Plans, Due(s, pass[w].clock),
             Goes(w, [pass[w] EXCEPT !.at = "locked", !.sub = s, !.seen = subs[s]])
      PROVE  AloneMove
  <2> DEFINE p == [pass[w] EXCEPT !.at = "locked", !.sub = s, !.seen = subs[s]]
  <2>1. p.at = "locked" /\ p.sub = s /\ p.seen = subs[s]
    BY DEF AloneInv, TypeOK, Pass
  <2> HIDE DEF p
  <2>2. pass'[w] = p /\ \A v \in Workers \ {w} : pass'[v] = pass[v]
    BY <1>2, GoesIs DEF p
  <2>3. Sound(orders', subs', charges')
    BY <1>0, SameIsSound DEF AloneInv
  <2>4. Steady(orders', charges') /\ OrdersWanted(orders') /\ Pays(orders', subs')
    BY <2>3 DEF Sound, NoRenewal, OrdersWanted
  <2>5. CopyHolds(pass'[w], orders', subs', charges')
    BY <1>0, <1>2, <2>1, <2>2 DEF CopyHolds, Due, Live, LiveIn
  <2>6. \A v \in Workers \ {w} : Undisturbed(v)
    BY <1>0, <2>2 DEF Undisturbed
  <2>7. \A v \in Workers \ {w} : CopyHolds(pass'[v], orders', subs', charges')
    BY <2>4, <2>6, StaysGood
  <2>8. Copies'
    BY <2>5, <2>7 DEF Copies
  <2> QED
    BY <2>4, <2>8 DEF AloneMove
<1> QED
  BY <1>0, <1>1, <1>2 DEF PassSelects

\* A renewal is ordered of the row the pass holds.
LEMMA RenewIsAlone ==
  ASSUME AloneInv, Moves, NEW w \in Workers, renew_subscription(w)
  PROVE  AloneMove
<1> DEFINE s == pass[w].sub
           seen == pass[w].seen
           p == [pass[w] EXCEPT !.at = "created", !.order = NextOrder]
           renewal == "subscription_renewal"
<1>0. TypeOK /\ Linked /\ RenewalsReal /\ CancelledIsDead
  BY DEF AloneInv
<1>1. s \in Plans /\ pass[w].at = "locked" /\ seen = subs[s] /\ LiveIn(subs, s)
  <2>1. pass[w].at \in {"locked", "unlocked"}
    BY DEF renew_subscription, Handles
  <2> QED
    BY <1>0, <2>1, HandledIsLinked DEF AloneInv, Copies, CopyHolds
<1>2. /\ orders' = NewOrder(renewal, s, seen.end, pass[w].clock) /\ FreshOrders # {} /\ renewal \in Purposes
      /\ PendingRenewals(s) = {} /\ UNCHANGED <<subs, charges>> /\ Goes(w, p)
  BY DEF renew_subscription, Purposes
<1>3. /\ NextOrder \in Orders /\ orders[NextOrder].status = "none"
      /\ orders'[NextOrder].purpose = renewal /\ orders'[NextOrder].status = "pending"
      /\ orders'[NextOrder].sub = s /\ orders'[NextOrder].due = seen.end
      /\ \A x \in Orders : x # NextOrder => orders'[x] = orders[x]
      /\ \A cs : Steady(orders', cs)
      /\ \A x \in Plans : Won(orders', x) = {}
  BY <1>0, <1>2, NewOrderIsSound
<1>4. \A b \in Orders : Renews(orders, b, s) => Decided(orders, charges, b)
  <2>1. ASSUME NEW b \in Orders, Renews(orders, b, s) PROVE Decided(orders, charges, b)
    <3>1. orders[b] \in Order /\ ~Open(b)
      BY <1>0, <1>2, <2>1 DEF TypeOK, Renews, PendingRenewals
    <3>2. orders[b].status \in {"succeeded", "cancelled"}
      BY <2>1, <3>1 DEF Renews, Open, OPEN_PAYMENT_STATUSES, Order, Verdicts
    <3> QED
      BY <1>0, <3>2 DEF Decided, CancelledIsDead
  <2> QED
    BY <2>1
<1>5. OrdersWanted(orders')
  <2> SUFFICES ASSUME NEW o \in Orders, orders[o].status = "none", orders'[o].purpose = renewal
               PROVE  Wanted(o, orders')
    BY DEF OrdersWanted
  <2>1. o = NextOrder
    BY <1>0, <1>3 DEF RenewalsReal
  <2> QED
    BY <1>1, <1>2, <1>3, <1>4, <2>1 DEF Wanted
<1>6. Pays(orders', subs')
  BY <1>2, <1>3 DEF Pays, Rests
<1>7. p.at = "created" /\ p.order = NextOrder /\ p.sub = s /\ p.seen = seen
  BY <1>0, <1>3 DEF TypeOK, Pass
<1>8. pass'[w] = p /\ \A v \in Workers \ {w} : pass'[v] = pass[v]
  BY <1>2, GoesIs
<1> HIDE DEF p
<1>9. Copies'
  <2>1. \A b \in Orders : Renews(orders', b, s) /\ b # NextOrder => Decided(orders', charges', b)
    BY <1>2, <1>3, <1>4 DEF Renews, Decided, Dead
  <2>2. CopyHolds(p, orders', subs', charges')
    BY <1>1, <1>2, <1>3, <1>7, <2>1 DEF CopyHolds
  <2>3. \A v \in Workers \ {w} : Undisturbed(v)
    BY <1>2, <1>8 DEF Undisturbed
  <2>4. Steady(orders', charges')
    BY <1>3
  <2>5. \A v \in Workers \ {w} : CopyHolds(pass'[v], orders', subs', charges')
    BY <1>5, <1>6, <2>3, <2>4, StaysGood
  <2> QED
    BY <1>8, <2>2, <2>5 DEF Copies
<1> QED
  BY <1>3, <1>5, <1>6, <1>9 DEF AloneMove

\* Every step but the clock's: it is one of the moves above.
LEMMA NextIsAlone == AloneInv /\ Next => (Moves /\ AloneMove) \/ Tick
<1> SUFFICES ASSUME AloneInv, Next, ~Tick PROVE Moves /\ AloneMove
  OBVIOUS
<1>0. TypeOK /\ Linked
  BY DEF AloneInv
<1>1. Moves
  BY <1>0, NextMoves
<1>2. CASE Customer
  <2>1. ASSUME create_payment PROVE Outside
    BY <2>1, CreatePaymentOutside
  <2>2. Outside
    BY <1>2, <2>1, CheckoutOutside, ResumeOutside, CancelRenewalOutside, RestoreRenewalOutside
    DEF Customer
  <2> QED
    BY <1>1, <2>2, OutsideIsAlone
<1>3. CASE yookassa_webhook
  <2>1. ASSUME NEW c \in DOMAIN charges, notify_read(c) PROVE Outside
    BY <2>1, CalmOutside DEF notify_read
  <2>2. Outside
    BY <1>3, <2>1, NotifyBoundOutside, NotifyApplyOutside DEF yookassa_webhook
  <2> QED
    BY <1>1, <2>2, OutsideIsAlone
<1>4. ASSUME NEW c \in DOMAIN charges, NEW state \in Verdicts, ProviderMoves(c, state)
      PROVE  AloneMove
  <2>1. Outside
    BY <1>4, CalmOutside DEF ProviderMoves
  <2> QED
    BY <1>1, <2>1, OutsideIsAlone
<1>5. ASSUME NEW w \in Workers, PassGoesOn(w) \/ PassFails(w)
      PROVE  AloneMove
  <2>1. ASSUME PassFails(w) \/ cycle_skips(w) PROVE Passed(w)
    BY <2>1, CalmPassed DEF PassFails, cycle_skips
  <2>2. CASE PassStarts(w) \/ PassSelects(w)
    BY <1>1, <2>2, StartsIsAlone, SelectsIsAlone
  <2>3. CASE renew_subscription(w)
    BY <1>1, <2>3, RenewIsAlone
  <2>4. CASE ~PassStarts(w) /\ ~PassSelects(w) /\ ~renew_subscription(w)
    <3>1. Passed(w)
      BY <1>5, <2>1, <2>4, DowngradePassed, ResolvePassed, SweepOrderPassed DEF PassGoesOn
    <3> QED
      BY <1>1, <3>1, PassedIsAlone
  <2> QED
    BY <2>2, <2>3, <2>4
<1> QED
  BY <1>1, <1>2, <1>3, <1>4, <1>5 DEF Next
-----------------------------------------------------------------------------
\* Which plan a new success belongs to.
LEMMA WonIs ==
  ASSUME AloneInv, Moves, AloneMove, NEW s \in Plans, NEW o \in Orders, orders'[o].sub = s,
         orders'[o].purpose \in {"subscription_initial", "subscription_renewal"},
         orders'[o].status = "succeeded"
  PROVE  \/ /\ orders[o].status = "succeeded" /\ orders[o].sub = s
            /\ orders[o].purpose = orders'[o].purpose /\ orders'[o].covers = orders[o].covers
         \/ /\ orders[o].status # "succeeded" /\ Won(orders', s) = {o}
            /\ \/ /\ Starts(orders', subs', s) /\ orders'[o].purpose = "subscription_initial"
                  /\ orders'[o].covers = subs'[s].end
               \/ Prolongs(orders', subs', s) /\ orders'[o].purpose = "subscription_renewal"
<1>1. CASE orders[o].status = "succeeded"
  BY <1>1, MoveFacts DEF AloneInv, AloneMove, Steady
<1>2. CASE orders[o].status # "succeeded"
  <2>1. o \in Won(orders', s)
    BY <1>2 DEF Won
  <2>2. Starts(orders', subs', s) \/ Prolongs(orders', subs', s)
    BY <2>1 DEF AloneMove, Pays, Rests
  <2>3. CASE Starts(orders', subs', s)
    <3>1. PICK x \in Orders : /\ Won(orders', s) = {x} /\ orders'[x].purpose = "subscription_initial"
                              /\ orders'[x].covers = subs'[s].end
      BY <2>3 DEF Starts
    <3>2. x = o
      BY <2>1, <3>1
    <3> QED
      BY <1>2, <2>3, <3>1, <3>2
  <2>4. CASE Prolongs(orders', subs', s)
    <3>1. PICK x \in Orders : Won(orders', s) = {x} /\ orders'[x].purpose = "subscription_renewal"
      BY <2>4 DEF Prolongs
    <3>2. x = o
      BY <2>1, <3>1
    <3> QED
      BY <1>2, <2>4, <3>1, <3>2
  <2> QED
    BY <2>2, <2>3, <2>4
<1> QED
  BY <1>1, <1>2

\* A move keeps what it means to be opened, and starts no plan twice.
LEMMA MovesKeepBegun ==
  ASSUME AloneInv, Moves, AloneMove
  PROVE  /\ Begun'
         /\ \A s \in Plans : Opened(orders, s) => ~Starts(orders', subs', s)
<1>0. TypeOK /\ Linked /\ Begun
  BY DEF AloneInv
<1>1. ASSUME NEW s \in Plans, NEW o \in Orders, Renews(orders', o, s) PROVE Opened(orders', s)
  <2>1. CASE orders[o].status = "none"
    <3>1. LiveIn(subs, s)
      BY <1>1, <2>1 DEF AloneMove, OrdersWanted, Wanted, Renews
    <3>2. Opened(orders, s)
      BY <1>0, <3>1 DEF Linked, PlanLinks
    <3> QED
      BY <1>0, <3>2, MoveFacts
  <2>2. CASE orders[o].status # "none"
    <3>1. Renews(orders, o, s)
      BY <1>0, <1>1, <2>2, MoveFacts DEF Renews
    <3> QED
      BY <1>0, <3>1, MoveFacts DEF Begun
  <2> QED
    BY <2>1, <2>2
<1>2. ASSUME NEW s \in Plans, Opened(orders', s) PROVE subs'[s].status \in OPENED_STATUSES
  <2>1. PICK o \in Orders : /\ orders'[o].sub = s /\ orders'[o].status = "succeeded"
                            /\ orders'[o].purpose = "subscription_initial"
    BY <1>2 DEF Opened
  <2>2. \/ orders[o].status = "succeeded" /\ orders[o].sub = s
           /\ orders[o].purpose = "subscription_initial"
        \/ Starts(orders', subs', s)
    BY <2>1, WonIs
  <2>3. CASE Starts(orders', subs', s)
    BY <2>3 DEF Starts
  <2>4. CASE Opened(orders, s)
    BY <1>0, <2>4 DEF Begun, AloneMove, Pays
  <2> QED
    BY <2>2, <2>3, <2>4 DEF Opened
<1>3. \A s \in Plans : Opened(orders, s) => ~Starts(orders', subs', s)
  BY <1>0 DEF Begun, Starts, OPENED_STATUSES
<1> QED
  BY <1>1, <1>2, <1>3 DEF Begun

\* What the numbers of a plan are.
LEMMA NumbersAre ==
  ASSUME TypeOK
  PROVE  /\ \A s \in Plans : subs[s].end \in Nat
         /\ \A o \in Orders : orders[o].due \in Nat /\ orders[o].covers \in Nat
         /\ Period \in Nat /\ Period > 0
BY Durations DEF TypeOK, Subscription, Order

\* A move keeps the time of each renewal within what the plan has run to.
LEMMA MovesKeepDues == ASSUME AloneInv, Moves, AloneMove PROVE Dues'
<1>0. TypeOK /\ Linked /\ Begun /\ Dues /\ TypeOK'
  BY MoveFacts DEF AloneInv
<1> SUFFICES ASSUME NEW s \in Plans, NEW o \in Orders, Renews(orders', o, s)
             PROVE  /\ orders'[o].due <= subs'[s].end
                    /\ orders'[o].status = "succeeded" => orders'[o].due + Period <= subs'[s].end
  BY DEF Dues
<1>1. /\ subs[s].end \in Nat /\ subs'[s].end \in Nat /\ Period \in Nat
      /\ orders[o].due \in Nat /\ orders'[o].due \in Nat
  BY <1>0, NumbersAre DEF TypeOK, Order, Subscription
<1>2. CASE orders[o].status = "none"
  <2>1. /\ orders'[o].status = "pending" /\ orders'[o].due = subs[s].end
        /\ \A b \in Orders : b # o => orders'[b] = orders[b]
        /\ Opened(orders, s)
    BY <1>0, <1>2 DEF AloneMove, OrdersWanted, Wanted, Renews, Linked, PlanLinks
  <2>2. Won(orders', s) = {}
    BY <2>1 DEF Won
  <2>3. subs'[s].end = subs[s].end
    BY <2>2 DEF AloneMove, Pays, Rests, Starts, Prolongs
  <2> QED
    BY <1>1, <2>1, <2>3
<1>3. CASE orders[o].status # "none"
  <2>1. Renews(orders, o, s) /\ orders'[o].due = orders[o].due
    BY <1>0, <1>3, MoveFacts DEF Renews, AloneMove, Steady
  <2>2. /\ orders[o].due <= subs[s].end
        /\ orders[o].status = "succeeded" => orders[o].due + Period <= subs[s].end
    BY <1>0, <2>1 DEF Dues
  <2>3. Opened(orders, s) /\ ~Starts(orders', subs', s)
    BY <1>0, <2>1, MovesKeepBegun DEF Begun
  <2>4. subs'[s].end = subs[s].end \/ subs'[s].end = subs[s].end + Period
    BY <2>3 DEF AloneMove, Pays, Rests, Prolongs
  <2>5. CASE orders'[o].status # "succeeded" \/ orders[o].status = "succeeded"
    BY <1>1, <2>1, <2>2, <2>4, <2>5
  <2>6. CASE orders'[o].status = "succeeded" /\ orders[o].status # "succeeded"
    <3>1. Prolongs(orders', subs', s)
      BY <2>3, <2>6, WonIs DEF Renews
    <3> QED
      BY <1>1, <2>1, <2>2, <3>1 DEF Prolongs
  <2> QED
    BY <2>5, <2>6
<1> QED
  BY <1>2, <1>3

\* A move numbers a renewal of a time only when the earlier one of that time is closed.
LEMMA MovesKeepDueOnce == ASSUME AloneInv, Moves, AloneMove PROVE DueOnce'
<1>0. TypeOK /\ Linked /\ Dues /\ DueOnce
  BY DEF AloneInv
<1>1. \A s \in Plans : \A o \in Orders : Renews(orders', o, s) /\ orders[o].status # "none" =>
        Renews(orders, o, s) /\ orders'[o].due = orders[o].due
  BY <1>0, MoveFacts DEF Renews, AloneMove, Steady
<1>2. ASSUME NEW s \in Plans, NEW a \in Orders, NEW b \in Orders,
             Renews(orders', a, s), Renews(orders', b, s), orders'[a].due = orders'[b].due, a # b,
             orders[a].status = "none"
      PROVE  Dead(orders', charges', b)
  <2>1. /\ orders'[a].due = subs[s].end
        /\ \A x \in Orders : Renews(orders, x, s) => Decided(orders, charges, x)
        /\ \A x \in Orders : x # a => orders'[x] = orders[x]
    BY <1>2 DEF AloneMove, OrdersWanted, Wanted, Renews
  <2>2. Renews(orders, b, s) /\ orders'[b] = orders[b]
    BY <1>2, <2>1 DEF Renews
  <2>3. orders[b].status # "succeeded"
    <3> SUFFICES ASSUME orders[b].status = "succeeded" PROVE FALSE
      OBVIOUS
    <3>1. orders[b].due + Period <= subs[s].end
      BY <1>0, <2>2 DEF Dues
    <3>2. orders[b].due = subs[s].end
      BY <1>2, <2>1, <2>2
    <3> QED
      BY <1>0, <3>1, <3>2, NumbersAre
  <2>4. Dead(orders, charges, b)
    BY <2>1, <2>2, <2>3 DEF Decided
  <2> QED
    BY <1>0, <2>4, DeadStays
<1>3. ASSUME NEW s \in Plans, NEW a \in Orders, NEW b \in Orders,
             Renews(orders', a, s), Renews(orders', b, s), orders'[a].due = orders'[b].due, a # b
      PROVE  Dead(orders', charges', a) \/ Dead(orders', charges', b)
  <2>1. CASE orders[a].status = "none"
    BY <1>2, <1>3, <2>1
  <2>2. CASE orders[b].status = "none"
    BY <1>2, <1>3, <2>2
  <2>3. CASE orders[a].status # "none" /\ orders[b].status # "none"
    <3>1. Dead(orders, charges, a) \/ Dead(orders, charges, b)
      BY <1>0, <1>1, <1>3, <2>3 DEF DueOnce
    <3> QED
      BY <1>0, <3>1, DeadStays
  <2> QED
    BY <2>1, <2>2, <2>3
<1> QED
  BY <1>3 DEF DueOnce

\* The renewals and first payments of a plan are finitely many.
LEMMA PaidIsFinite == \A s, purpose : IsFiniteSet(Paid(s, purpose)) /\ Cardinality(Paid(s, purpose)) \in Nat
<1>1. IsFiniteSet(Orders)
  BY PaymentBounds, FS_Interval DEF Orders
<1>2. \A s, purpose : Paid(s, purpose) \subseteq Orders
  BY DEF Paid
<1> QED
  BY <1>1, <1>2, FS_Subset, FS_CardinalityType

\* A move adds a month for a renewal that succeeds, and for nothing else.
LEMMA MovesKeepPaid == ASSUME AloneInv, Moves, AloneMove PROVE PaidThrough'
<1>0. TypeOK /\ Linked /\ Begun /\ PaidThrough /\ TypeOK'
  BY MoveFacts DEF AloneInv
<1> SUFFICES ASSUME NEW s \in Plans, NEW first \in Paid(s, "subscription_initial")'
             PROVE  subs'[s].end = orders'[first].covers
                                     + Period * Cardinality(Paid(s, "subscription_renewal")')
  BY DEF PaidThrough
<1> DEFINE old == Paid(s, "subscription_renewal")
           new == Paid(s, "subscription_renewal")'
<1>1. /\ first \in Orders /\ orders'[first].sub = s
      /\ orders'[first].purpose = "subscription_initial" /\ orders'[first].status = "succeeded"
  BY DEF Paid
<1>2. \A o \in Orders : orders[o].status = "succeeded" =>
        orders'[o].status = "succeeded" /\ orders'[o].sub = orders[o].sub /\ orders'[o].purpose = orders[o].purpose
  BY <1>0, MoveFacts
<1>3. old \subseteq new
  BY <1>2 DEF Paid
<1>4. \A o \in new \ old : /\ o \in Orders /\ Won(orders', s) = {o} /\ Prolongs(orders', subs', s)
                           /\ orders'[o].purpose = "subscription_renewal"
  <2>1. ASSUME NEW o \in new \ old
        PROVE  /\ o \in Orders /\ Won(orders', s) = {o} /\ Prolongs(orders', subs', s)
               /\ orders'[o].purpose = "subscription_renewal"
    <3>1. /\ o \in Orders /\ orders'[o].sub = s /\ orders'[o].status = "succeeded"
          /\ orders'[o].purpose = "subscription_renewal"
      BY DEF Paid
    <3>2. ~(orders[o].status = "succeeded" /\ orders[o].sub = s
            /\ orders[o].purpose = "subscription_renewal")
      BY <2>1 DEF Paid
    <3> QED
      BY <3>1, <3>2, WonIs
  <2> QED
    BY <2>1
<1>5. CASE Opened(orders, s)
  <2>1. ~Starts(orders', subs', s)
    BY <1>5, MovesKeepBegun
  <2>2. first \in Paid(s, "subscription_initial") /\ orders'[first].covers = orders[first].covers
    BY <1>1, <2>1, WonIs DEF Paid
  <2>3. subs[s].end = orders[first].covers + Period * Cardinality(old)
    BY <1>0, <2>2 DEF PaidThrough
  <2>4. CASE new = old
    <3>1. Won(orders', s) = {}
      <4> SUFFICES ASSUME NEW o \in Won(orders', s) PROVE FALSE
        OBVIOUS
      <4>1. /\ o \in Orders /\ orders'[o].sub = s /\ orders'[o].status = "succeeded"
            /\ orders[o].status # "succeeded" /\ orders'[o].purpose # "wallet_topup"
        BY DEF Won
      <4>2. orders'[o].purpose \in {"subscription_initial", "subscription_renewal"}
        BY <1>0, <4>1 DEF TypeOK, Order, Purposes
      <4>3. orders'[o].purpose = "subscription_renewal"
        BY <2>1, <4>1, <4>2, WonIs
      <4> QED
        BY <2>4, <4>1, <4>3 DEF Paid
    <3>2. subs'[s].end = subs[s].end
      BY <2>1, <3>1 DEF AloneMove, Pays, Rests, Prolongs
    <3> QED
      BY <2>2, <2>3, <2>4, <3>2
  <2>5. CASE new # old
    <3>1. PICK o \in new : o \notin old
      BY <1>3, <2>5
    <3>2. new = old \cup {o}
      BY <1>3, <1>4, <3>1
    <3>3. subs'[s].end = subs[s].end + Period
      BY <1>4, <3>1 DEF Prolongs
    <3>4. IsFiniteSet(old) /\ Cardinality(old) \in Nat
      BY PaidIsFinite
    <3> HIDE DEF old, new
    <3>5. Cardinality(new) = Cardinality(old) + 1
      BY <3>1, <3>2, <3>4, FS_AddElement
    <3>6. \A n \in Nat : Period * (n + 1) = Period * n + Period
      BY Durations
    <3>7. Period * Cardinality(new) = Period * Cardinality(old) + Period
      BY <3>4, <3>5, <3>6
    <3>8. Period * Cardinality(old) \in Nat /\ orders[first].covers \in Nat /\ Period \in Nat
      BY <1>0, <1>1, <3>4, NumbersAre
    <3>9. subs'[s].end = orders'[first].covers + Period * Cardinality(new)
      BY <2>2, <2>3, <3>3, <3>7, <3>8
    <3> QED
      BY <3>9 DEF new
  <2> QED
    BY <2>4, <2>5
<1>6. CASE ~Opened(orders, s)
  <2>1. orders[first].status # "succeeded" \/ orders[first].sub # s
        \/ orders[first].purpose # "subscription_initial"
    BY <1>1, <1>6 DEF Opened
  <2>2. Won(orders', s) = {first} /\ orders'[first].covers = subs'[s].end
    BY <1>1, <2>1, WonIs
  <2>3. old = {}
    BY <1>0, <1>6 DEF Paid, Begun, Renews
  <2>4. new = {}
    BY <1>1, <1>4, <2>2, <2>3
  <2>5. Cardinality(new) = 0
    BY <2>4, FS_EmptySet
  <2>6. orders'[first].covers \in Nat /\ Period \in Nat
    BY <1>0, <1>1, Durations DEF TypeOK, Order
  <2> HIDE DEF new
  <2>7. Period * Cardinality(new) = 0
    BY <2>5, <2>6
  <2>8. subs'[s].end = orders'[first].covers + Period * Cardinality(new)
    BY <2>2, <2>6, <2>7
  <2> QED
    BY <2>8 DEF new
<1> QED
  BY <1>5, <1>6

\* A move keeps the rest.
LEMMA MovesKeepAlone == ASSUME AloneInv, Moves, AloneMove PROVE AloneInv'
<1>0. TypeOK /\ Linked /\ ~Crowded /\ CancelledIsDead /\ HooksFinal
  BY DEF AloneInv
<1>1. TypeOK' /\ Linked'
  BY <1>0, MoveFacts
<1>2. RenewalsReal'
  <2> SUFFICES ASSUME NEW o \in Orders, orders'[o].purpose = "subscription_renewal"
               PROVE  orders'[o].status # "none" /\ orders'[o].sub \in Plans
    BY DEF RenewalsReal
  <2>1. CASE orders[o].status = "none"
    BY <2>1 DEF AloneMove, OrdersWanted, Wanted
  <2>2. CASE orders[o].status # "none"
    BY <1>0, <2>2, MoveFacts DEF AloneInv, RenewalsReal
  <2> QED
    BY <2>1, <2>2
<1>3. HooksFinal'
  <2>1. \A h \in hooks' : /\ h.charge \in DOMAIN charges
                          /\ h.state = "cancelled" => charges[h.charge].state = "cancelled"
    BY <1>0, MoveFacts DEF HooksMove, HooksFinal, Linked, HookLinks
  <2> QED
    BY <1>0, <2>1, MoveFacts, ChargesKept DEF HooksFinal
<1>4. CancelledIsDead'
  <2> SUFFICES ASSUME NEW o \in Orders, orders'[o].status = "cancelled"
               PROVE  Dead(orders', charges', o)
    BY DEF CancelledIsDead
  <2>1. CASE orders[o].status = "cancelled"
    BY <1>0, <2>1, DeadStays DEF CancelledIsDead
  <2>2. CASE orders[o].status # "cancelled"
    BY <2>2 DEF AloneMove, Steady
  <2> QED
    BY <2>1, <2>2
<1>5. Copies'
  BY DEF AloneMove
<1> QED
  BY <1>0, <1>1, <1>2, <1>3, <1>4, <1>5, MovesKeepBegun, MovesKeepDues, MovesKeepDueOnce, MovesKeepPaid
  DEF AloneInv

\* The clock changes nothing else.
LEMMA TickKeepsAlone == ASSUME AloneInv, Tick PROVE AloneInv'
<1>1. TypeOK' /\ Linked'
  BY TickIsTyped DEF AloneInv
<1>2. UNCHANGED <<orders, subs, charges, hooks, pass>>
  BY DEF Tick
<1> QED
  BY <1>1, <1>2 DEF AloneInv, RenewalsReal, Copies, HooksFinal, CancelledIsDead, Begun, Dues,
                    DueOnce, PaidThrough, Paid
-----------------------------------------------------------------------------
\* The invariant holds at the start.
LEMMA InitIsAlone == ~Crowded /\ Init => AloneInv
<1> SUFFICES ASSUME ~Crowded, Init PROVE AloneInv
  OBVIOUS
<1>1. DOMAIN charges = {} /\ hooks = {}
  BY EmptySeq DEF Init
<1>2. TypeOK /\ Linked
  BY InitIsTyped
<1>3. \A o \in Orders : orders[o].status = "none" /\ orders[o].purpose = "wallet_topup"
  BY DEF Init, NoOrder
<1>4. \A w \in Workers : pass[w].at = "idle"
  BY DEF Init, Idle
<1>5. RenewalsReal /\ CancelledIsDead /\ HooksFinal
  BY <1>1, <1>3 DEF RenewalsReal, CancelledIsDead, HooksFinal
<1>6. Copies
  BY <1>4 DEF Copies, CopyHolds
<1>7. Begun /\ Dues /\ DueOnce /\ PaidThrough
  BY <1>3 DEF Begun, Dues, DueOnce, PaidThrough, Renews, Opened, Paid
<1> QED
  BY <1>2, <1>5, <1>6, <1>7 DEF AloneInv

\* The invariant is inductive.
LEMMA StepIsAlone == AloneInv /\ [Next]_vars => AloneInv'
<1> SUFFICES ASSUME AloneInv, [Next]_vars PROVE AloneInv'
  OBVIOUS
<1>1. CASE Next
  BY <1>1, NextIsAlone, MovesKeepAlone, TickKeepsAlone
<1>2. CASE UNCHANGED vars
  BY <1>2 DEF vars, AloneInv, TypeOK, Linked, ChargeLinks, BoundLinks, HookLinks,
              PassLinks, PassLinked, PaidLinks, PlanLinks, RenewalsReal, Copies,
              HooksFinal, CancelledIsDead, Begun, Dues, DueOnce, PaidThrough, Paid
<1> QED
  BY <1>1, <1>2

\* The invariant always holds of an account that comes alone.
LEMMA AlwaysAlone == ~Crowded /\ Spec => []AloneInv
BY InitIsAlone, StepIsAlone, PTL DEF Spec

\* For an account that comes alone in its passes no paid month is lost and none given
\* twice, for any number of billing processes, orders, plans, notifications and failures,
\* any length of a month and passes however slow: only activate_initial_payment and
\* activate_renewal_payment move the end of a plan, and the copy a renewal adds its month to
\* still has the end of the row.
THEOREM AloneKeepsMonths == ~Crowded /\ Spec => []PaidThrough
<1>1. AloneInv => PaidThrough
  BY DEF AloneInv
<1> QED
  BY <1>1, AlwaysAlone, PTL

\* Such an account is not charged twice for a period, as long as passes are short: a second
\* attempt is numbered only when the provider has closed the payment of the first, and a
\* closed payment never succeeds.  In a crowded pass the first commit releases the row
\* locks, the copies are not read again, and two processes charge twice (run
\* two_billing_workers).
THEOREM AloneChargesOnce == PassesAreShort /\ ~Crowded /\ Spec => []PeriodChargedOnce
<1>1. AloneInv /\ OneChargePerOrder => PeriodChargedOnce
  <2> SUFFICES ASSUME AloneInv, OneChargePerOrder, NEW a \in DOMAIN charges, NEW b \in DOMAIN charges,
                      charges[a].state = "succeeded", charges[b].state = "succeeded",
                      orders[charges[a].order].purpose = "subscription_renewal",
                      orders[charges[b].order].purpose = "subscription_renewal",
                      orders[charges[a].order].sub = orders[charges[b].order].sub,
                      orders[charges[a].order].due = orders[charges[b].order].due
               PROVE  a = b
    BY DEF PeriodChargedOnce
  <2> DEFINE x == charges[a].order
             y == charges[b].order
             s == orders[x].sub
  <2>0. TypeOK /\ Linked /\ RenewalsReal /\ DueOnce
    BY DEF AloneInv
  <2>1. x \in Orders /\ y \in Orders
    BY <2>0, ChargeType DEF Charge
  <2>2. s \in Plans /\ Renews(orders, x, s) /\ Renews(orders, y, s)
    BY <2>0, <2>1 DEF Linked, ChargeLinks, RenewalsReal, Renews
  <2>3. \A c \in DOMAIN charges : charges[c].state = "succeeded" => ~Dead(orders, charges, charges[c].order)
    <3> SUFFICES ASSUME NEW c \in DOMAIN charges, charges[c].state = "succeeded",
                        Dead(orders, charges, charges[c].order)
                 PROVE  FALSE
      OBVIOUS
    <3> DEFINE d == orders[charges[c].order].charge
    <3>1. d \in DOMAIN charges /\ charges[d].state = "cancelled" /\ d # None /\ charges[c].order \in Orders
      BY <2>0, ChargeType DEF Dead, None, Charge
    <3>2. charges[d].order = charges[c].order
      BY <2>0, <3>1 DEF Linked, BoundLinks
    <3>3. d = c
      BY <2>0, <3>1, <3>2 DEF OneChargePerOrder
    <3> QED
      BY <3>1, <3>3
  <2>4. x = y
    BY <2>0, <2>1, <2>2, <2>3 DEF DueOnce
  <2> QED
    BY <2>0, <2>4 DEF OneChargePerOrder
<1> QED
  BY <1>1, AlwaysAlone, NoSecondCharge, PTL
=============================================================================
