--------------------------- MODULE GenerationUnits ---------------------------
(***************************************************************************)
(* What a generation costs the billing account of its owner.               *)
(*                                                                         *)
(* A run is paid with units, held when it is admitted and consumed or      *)
(* released when it ends, or in roubles, by an intent frozen when it ends  *)
(* and debited later by the billing tick.  Units come in grants that lapse *)
(* with the period or the plan they belong to.  Whoever reads the          *)
(* inventory locks the account's row until it commits; admission is the    *)
(* long such transaction and is two steps here, the others are one.        *)
(*                                                                         *)
(* The runs themselves are modelled in GenerationRuns: here a run may      *)
(* publish, end, or end on a path that does not seal its bill.             *)
(***************************************************************************)
EXTENDS Naturals, Sequences, FiniteSets, FiniteSetsExt

CONSTANTS InitialUnits,   \* flexible units of a first build (5 in the code)
          Packages,       \* what is on sale: records of a bucket and its units
          PeriodUnits,    \* units a metered plan gives for a month, in either bucket
          ReservedBalance,\* RESERVED_BALANCE: roubles the wallet must show
          Endings,        \* bound: the ways a run ends; failing costs what stopping does
          MaxRuns,        \* bound: generations, numbered as they are admitted
          MaxProjects,    \* bound: projects, numbered as they are first worked on
          MaxGrants,      \* bound: grants of the account
          MaxPackages,    \* bound: packages bought
          MaxPeriods,     \* bound: paid periods
          MaxDebits,      \* bound: administrative debits
          MaxUsage,       \* bound: cost of the calls of a run
          MaxFunds        \* bound: roubles in the wallet

ASSUME UnitPrices == /\ InitialUnits \in Nat \ {0} /\ Packages \subseteq [bucket : {"flexible", "edit_only"}, units : Nat \ {0}]
                     /\ PeriodUnits \in Nat /\ ReservedBalance \in Nat
ASSUME UnitBounds == /\ Endings \subseteq {"completed", "failed", "cancelled"}
                     /\ MaxRuns \in Nat /\ MaxProjects \in Nat /\ MaxGrants \in Nat
                     /\ MaxPackages \in Nat /\ MaxPeriods \in Nat /\ MaxDebits \in Nat
                     /\ MaxUsage \in Nat /\ MaxFunds \in Nat

VARIABLES
  plan,     \* the live subscription: its period (0: the free plan) and whether it is over
  grants,   \* generation_credit_grants, in the order of their creation
  debits,   \* generation_credit_adjustments, each with its reversal
  run,      \* generation_runs, with the policy fixed at admission
  tx,       \* what an open admission has read and decided
  lock,     \* the run whose admission holds the account's row lock
  hold,     \* generation_credit_reservations
  intent,   \* generation_billing_intents, with the outbox row
  wallet    \* roubles

vars == <<plan, grants, debits, run, tx, lock, hold, intent, wallet>>

Runs     == 1..MaxRuns
Projects == 1..MaxProjects
NoProject == 0
Grants   == 1..MaxGrants
Modes    == {"build", "edit"}
Terminal == {"completed", "failed", "cancelled"}
Kinds    == {"initial", "edit"}
Alloc    == [Grants -> Nat]
NoUnits  == [g \in Grants |-> 0]

Grant  == [bucket : {"initial", "edit", "flexible", "edit_only"},
           scope : {"free", "period", "package"}, period : 0..MaxPeriods, units : Nat]
Run    == [status : {"none", "reserving", "active"} \cup Terminal,
           project : Projects \cup {NoProject}, mode : Modes,
           funding : {"none", "units", "rub", "free"},
           published : {"none", "plain", "proven"}, usage : 0..MaxUsage]
Tx     == [kind : Kinds, alloc : Alloc, adds : Seq(Grant)]
Hold   == [state : {"none", "held", "consumed", "released"}, kind : Kinds, alloc : Alloc]
Intent == [outcome : {"none", "billable", "waived"}, amount : 0..MaxUsage, settled : BOOLEAN]

NoRun    == [status |-> "none", project |-> NoProject, mode |-> "build", funding |-> "none",
             published |-> "none", usage |-> 0]
NoTx     == [kind |-> "edit", alloc |-> NoUnits, adds |-> <<>>]
NoHold   == [state |-> "none", kind |-> "edit", alloc |-> NoUnits]
NoIntent == [outcome |-> "none", amount |-> 0, settled |-> FALSE]

TypeOK ==
  /\ plan \in [period : 0..MaxPeriods, metered : BOOLEAN, over : BOOLEAN]
  /\ grants \in Seq(Grant)
  /\ debits \in Seq([alloc : Alloc, reversed : BOOLEAN])
  /\ run \in [Runs -> Run]
  /\ tx \in [Runs -> Tx]
  /\ lock \subseteq Runs
  /\ hold \in [Runs -> Hold]
  /\ intent \in [Runs -> Intent]
  /\ wallet \in 0..MaxFunds

-----------------------------------------------------------------------------
\* The inventory.

UnitsIn(alloc) == MapThenSumSet(LAMBDA g : alloc[g], Grants)

Spent(g) ==
  MapThenSumSet(LAMBDA r : hold[r].alloc[g], {r \in Runs : hold[r].state \in {"held", "consumed"}})
  + MapThenSumSet(LAMBDA d : debits[d].alloc[g], {d \in DOMAIN debits : ~debits[d].reversed})

Usable(grant) ==
  CASE grant.scope = "free"   -> plan.period = 0
    [] grant.scope = "period" -> grant.period = plan.period /\ ~plan.over
    [] OTHER -> TRUE

\* A completed run of the project that left a version, proven or not.
Delivered(p) == {r \in Runs : /\ run[r].project = p /\ run[r].status = "completed"
                              /\ run[r].published # "none"}

\* The free allowance is granted the first time it is looked at.
FreeGrants ==
  LET made == \E g \in DOMAIN grants : grants[g].scope = "free"
      built == {r \in Runs : r \in Delivered(run[r].project)}
      edited == \/ \E r \in built : run[r].mode = "edit"
                \/ \E r, s \in built : r # s /\ run[r].project = run[s].project
      free(bucket, spent) == [bucket |-> bucket, scope |-> "free", period |-> 0,
                              units |-> IF spent THEN 0 ELSE 1]
  IN IF plan.period # 0 \/ made THEN <<>>
     ELSE <<free("initial", built # {}), free("edit", edited)>>

Stock == grants \o FreeGrants
Available(g) == Stock[g].units - Spent(g)
Usables(bucket) == {g \in DOMAIN Stock : Stock[g].bucket = bucket /\ Usable(Stock[g])}

\* The project's flag generation_initial_accepted repeats this from its history.
\* Regression: a version paid in roubles is forgotten.
InitialUntilUnits(p) ==
  \A r \in Runs : run[r].project = p => hold[r].state # "consumed" \/ hold[r].kind = "edit"
IsInitial(p) == InitialUntilUnits(p) /\ Delivered(p) = {}

\* Regression: a grant does not see what earlier grants have already given.
TakesAll(need, available, before) == IF available < need THEN available ELSE need
Takes(need, available, before) ==
  LET left == IF before < need THEN need - before ELSE 0
  IN IF available < left THEN available ELSE left

\* One unit of the kind's own bucket, or of the edits; else flexible units, oldest first.
Full(bucket) == {g \in Usables(bucket) : Available(g) >= 1}
One(g) == [NoUnits EXCEPT ![g] = 1]
allocate_units(kind) ==
  LET own  == IF kind = "edit" /\ Full("edit") = {} THEN Full("edit_only") ELSE Full(kind)
      need == IF kind = "initial" THEN InitialUnits ELSE 1
      flexible  == Usables("flexible")
      before(g) == MapThenSumSet(Available, {f \in flexible : f < g})
  IN IF own # {} THEN {One(Min(own))}
     ELSE IF MapThenSumSet(Available, flexible) < need THEN {}
     ELSE {[g \in Grants |-> IF g \in flexible THEN Takes(need, Available(g), before(g)) ELSE 0]}

-----------------------------------------------------------------------------
Init ==
  /\ plan = [period |-> 0, metered |-> TRUE, over |-> FALSE]
  /\ grants = <<>> /\ debits = <<>>
  /\ run = [r \in Runs |-> NoRun] /\ tx = [r \in Runs |-> NoTx] /\ lock = {}
  /\ hold = [r \in Runs |-> NoHold] /\ intent = [r \in Runs |-> NoIntent]
  /\ wallet = 0

-----------------------------------------------------------------------------
\* Admission.

Busy(p) == \E r \in Runs : run[r].project = p /\ run[r].status \in {"reserving", "active"}

\* Regression: the inventory is read without the account's row.
UnlockedRead == TRUE
AccountFree  == lock = {}

\* On a metered plan a run is paid with units or refused; elsewhere units bought
\* earlier come first, then the wallet, unless generation is free.
BeginAdmission(r, p, funding) ==
  LET kind == IF IsInitial(p) THEN "initial" ELSE "edit"
  IN /\ run[r].status = "none" /\ \A s \in Runs : s < r => run[s].status # "none"
     /\ ~Busy(p) /\ \A q \in Projects : q < p => \E s \in Runs : run[s].project = q
     /\ AccountFree /\ Len(Stock) <= MaxGrants
     /\ \/ funding = "units" /\ \E alloc \in allocate_units(kind) :
             tx' = [tx EXCEPT ![r] = [kind |-> kind, alloc |-> alloc, adds |-> FreeGrants]]
        \/ /\ ~plan.metered /\ allocate_units(kind) = {} /\ funding \in {"rub", "free"}
           /\ funding = "rub" => wallet >= ReservedBalance
           /\ UNCHANGED tx
     /\ run' = [run EXCEPT ![r] = [NoRun EXCEPT !.status = "reserving", !.project = p,
                                               !.funding = funding]]
     /\ lock' = lock \cup {r}
     /\ UNCHANGED <<plan, grants, debits, hold, intent, wallet>>

\* Hold, policy and run are committed together.
Admit(r) ==
  /\ run[r].status = "reserving"
  /\ run' = [run EXCEPT ![r].status = "active"]
  /\ grants' = grants \o tx[r].adds
  /\ hold' = IF run[r].funding = "units"
             THEN [hold EXCEPT ![r] = [state |-> "held", kind |-> tx[r].kind, alloc |-> tx[r].alloc]]
             ELSE hold
  /\ tx' = [tx EXCEPT ![r] = NoTx] /\ lock' = lock \ {r}
  /\ UNCHANGED <<plan, debits, intent, wallet>>

AdmissionFails(r) ==
  /\ run[r].status = "reserving"
  /\ run' = [run EXCEPT ![r] = NoRun]
  /\ tx' = [tx EXCEPT ![r] = NoTx] /\ lock' = lock \ {r}
  /\ UNCHANGED <<plan, grants, debits, hold, intent, wallet>>

-----------------------------------------------------------------------------
\* The run.

\* Receipts of provider calls are recorded while it works and after it ended; only
\* a bill in roubles looks at them.
RecordUsage(r) ==
  /\ run[r].funding = "rub" /\ run[r].status \in {"active"} \cup Terminal /\ run[r].usage < MaxUsage
  /\ run' = [run EXCEPT ![r].usage = @ + 1]
  /\ UNCHANGED <<plan, grants, debits, tx, lock, hold, intent, wallet>>

\* The snapshot transaction; a proven build leaves its candidate in agent_state.  The
\* mode of a run, chosen after its admission, is told apart once it has a version.
record_accepted_candidate(r, published, mode) ==
  /\ run[r].status = "active" /\ run[r].published = "none"
  /\ run' = [run EXCEPT ![r].published = published, ![r].mode = mode]
  /\ UNCHANGED <<plan, grants, debits, tx, lock, hold, intent, wallet>>

\* Regression: a recorded candidate is charged although the run was stopped.
EligibleOnceProven(r, status) == run[r].funding # "free" /\ run[r].published = "proven"
Eligible(r, status) ==
  /\ status = "completed" /\ run[r].published = "proven" /\ run[r].funding # "free"
  /\ run[r].mode = "build" \/ run[r].funding = "units"

settle_generation_units(r, accepted) ==
  hold' = [hold EXCEPT ![r].state = IF accepted THEN "consumed" ELSE "released"]

\* Regression: the amount is taken from the receipts each time the bill is looked at.
SealAgain(r, status) ==
  LET billable == Eligible(r, status) /\ run[r].funding = "rub"
  IN [intent[r] EXCEPT !.outcome = IF billable THEN "billable" ELSE "waived",
                       !.amount = IF billable THEN run[r].usage ELSE 0]
SealedIntent(r, status) == IF intent[r].outcome # "none" THEN intent[r] ELSE SealAgain(r, status)

\* The caller holds the run's row and has chosen its terminal status.
seal_terminal_locked(r, status) ==
  IF run[r].funding = "units" /\ intent[r].outcome = "none"
  THEN AccountFree /\ settle_generation_units(r, Eligible(r, status))
  ELSE UNCHANGED hold

terminalize_generation_run_locked(r, status) ==
  /\ run[r].status = "active"
  /\ run' = [run EXCEPT ![r].status = status]
  /\ seal_terminal_locked(r, status)
  /\ intent' = [intent EXCEPT ![r] = SealedIntent(r, status)]
  /\ UNCHANGED <<plan, grants, debits, tx, lock, wallet>>

\* A restoration activation that is cancelled ends its run without sealing the bill.
CancelActivation(r) ==
  /\ run[r].status = "active" /\ run[r].published = "none"
  /\ run' = [run EXCEPT ![r].status = "cancelled"]
  /\ UNCHANGED <<plan, grants, debits, tx, lock, hold, intent, wallet>>

-----------------------------------------------------------------------------
\* reconcile_generation_billing, for one of the runs it selects.

\* Regressions: a run is selected only with an intent, or only without one.
UnpaidIntent(r) == intent[r].outcome = "billable" /\ ~intent[r].settled
Unsealed(r)     == intent[r].outcome = "none"
NeedsSettlement(r) == UnpaidIntent(r) \/ Unsealed(r)

\* Regression: the wallet is not looked at.
OnCredit(amount)   == TRUE
Affordable(amount) == wallet >= amount

_settle_terminal_locked(r) ==
  LET sealed == SealedIntent(r, run[r].status)
      pays == sealed.outcome = "billable" /\ ~sealed.settled /\ Affordable(sealed.amount)
  IN /\ run[r].status \in Terminal /\ NeedsSettlement(r)
     /\ UnpaidIntent(r) => Affordable(intent[r].amount)     \* else nothing changes
     /\ seal_terminal_locked(r, run[r].status)
     /\ intent' = [intent EXCEPT ![r] = [sealed EXCEPT !.settled = @ \/ pays]]
     /\ wallet' = IF pays THEN wallet - sealed.amount ELSE wallet
     /\ UNCHANGED <<plan, grants, debits, run, tx, lock>>

-----------------------------------------------------------------------------
\* Purchases, the passing of a period and administration.

AddGrants(new) == Len(grants) + Len(new) <= MaxGrants /\ grants' = grants \o new

grant_payment_units(package) ==
  /\ AccountFree
  /\ Cardinality({g \in DOMAIN grants : grants[g].scope = "package"}) < MaxPackages
  /\ AddGrants(<<[bucket |-> package.bucket, scope |-> "package", period |-> 0, units |-> package.units]>>)
  /\ UNCHANGED <<plan, debits, run, tx, lock, hold, intent, wallet>>

grant_subscription_units(metered) ==
  LET next == plan.period + 1
      of(bucket) == [bucket |-> bucket, scope |-> "period", period |-> next, units |-> PeriodUnits]
  IN /\ AccountFree /\ next \in 1..MaxPeriods
     /\ \A g \in DOMAIN grants : grants[g].scope = "period" => grants[g].period < next
     /\ plan' = [period |-> next, metered |-> metered, over |-> FALSE]
     /\ AddGrants(IF metered THEN <<of("initial"), of("edit")>> ELSE <<>>)
     /\ UNCHANGED <<debits, run, tx, lock, hold, intent, wallet>>

\* The month ends: renewed by the action above, or back to the free plan.
PeriodEnds ==
  /\ plan.period > 0
  /\ plan' = IF plan.over THEN [period |-> 0, metered |-> TRUE, over |-> FALSE]
             ELSE [plan EXCEPT !.over = TRUE]
  /\ UNCHANGED <<grants, debits, run, tx, lock, hold, intent, wallet>>

\* Bound: the wallet is filled where roubles are about to be spent.
TopUp ==
  /\ wallet' = MaxFunds /\ wallet < MaxFunds
  /\ \/ \E r \in Runs : UnpaidIntent(r)
     \/ ~plan.metered /\ \E r \in Runs : run[r].status = "none"
  /\ UNCHANGED <<plan, grants, debits, run, tx, lock, hold, intent>>

Idle == /\ AccountFree /\ plan.metered
        /\ \A r \in Runs : hold[r].state # "held" /\ run[r].status # "active"

\* Bound: debits are made while only units are in play; they do not touch roubles.
exhaust_available_credits ==
  LET left == [g \in Grants |-> IF g \in DOMAIN Stock /\ Usable(Stock[g]) THEN Available(g) ELSE 0]
  IN /\ Idle /\ Len(debits) < MaxDebits /\ Len(Stock) <= MaxGrants
     /\ \A r \in Runs : run[r].funding \in {"none", "units"}
     /\ debits' = Append(debits, [alloc |-> left, reversed |-> FALSE])
     /\ grants' = Stock
     /\ UNCHANGED <<plan, run, tx, lock, hold, intent, wallet>>

restore_exhausted_credits(d) ==
  /\ Idle /\ ~debits[d].reversed /\ Len(Stock) <= MaxGrants
  /\ debits' = [debits EXCEPT ![d].reversed = TRUE]
  /\ grants' = Stock
  /\ UNCHANGED <<plan, run, tx, lock, hold, intent, wallet>>

-----------------------------------------------------------------------------
Next ==
  \/ \E r \in Runs, p \in Projects, funding \in {"units", "rub", "free"} :
       BeginAdmission(r, p, funding)
  \/ \E r \in Runs : Admit(r) \/ AdmissionFails(r) \/ RecordUsage(r) \/ CancelActivation(r)
  \/ \E r \in Runs, published \in {"plain", "proven"}, mode \in Modes :
       record_accepted_candidate(r, published, mode)
  \/ \E r \in Runs, status \in Endings : terminalize_generation_run_locked(r, status)
  \/ \E r \in Runs : _settle_terminal_locked(r)
  \/ \E package \in Packages : grant_payment_units(package)
  \/ \E metered \in BOOLEAN : grant_subscription_units(metered)
  \/ PeriodEnds \/ TopUp \/ exhaust_available_credits
  \/ \E d \in DOMAIN debits : restore_exhausted_credits(d)

Spec == Init /\ [][Next]_vars

\* The billing loop comes back to every run, and a row lock is granted in the order
\* it was asked for.
FairSpec == Spec /\ \A r \in Runs : /\ SF_vars(_settle_terminal_locked(r))
                                    /\ WF_vars(Admit(r) \/ AdmissionFails(r))

-----------------------------------------------------------------------------
\* Safety.

\* No grant gives more units than it has, whatever runs, lapses and administrators
\* do at once; the code finds out on the next read and refuses everything after it
\* ("Credit ledger overspent").
NeverOverspent == \A g \in Grants :
  Spent(g) <= IF g \in DOMAIN grants THEN grants[g].units ELSE 0

\* Units are consumed exactly for a completed run that published a proven version;
\* every other sealed bill gave them back and asks for no roubles.
PaidForProvenOnly ==
  \A r \in Runs :
    LET proven == run[r].status = "completed" /\ run[r].published = "proven"
    IN /\ hold[r].state = "consumed" \/ intent[r].outcome = "billable" => proven
       /\ intent[r].outcome # "none" =>
            /\ run[r].status \in Terminal /\ hold[r].state # "held"
            /\ hold[r].state = "released" => ~proven

\* A run holds one unit of a bucket meant for it, or its price in flexible units,
\* however that is spread over grants.
PriceIsExact ==
  \A r \in Runs : hold[r].state # "none" =>
    LET from == {g \in Grants : hold[r].alloc[g] > 0}
    IN IF \A g \in from : grants[g].bucket = "flexible"
       THEN UnitsIn(hold[r].alloc) = IF hold[r].kind = "initial" THEN InitialUnits ELSE 1
       ELSE /\ Cardinality(from) = 1 /\ UnitsIn(hold[r].alloc) = 1
            /\ \A g \in from : grants[g].bucket \in {"edit_only", hold[r].kind}
            /\ hold[r].kind = "initial" => \A g \in from : grants[g].bucket = "initial"

\* The price of a first build is asked only while the project has no version,
\* however an earlier one was paid for, and consumed at most once for a project.
InitialPaidOnce ==
  \A r \in Runs : hold[r].kind = "initial" =>
    /\ hold[r].state = "held" /\ run[r].status = "active" => Delivered(run[r].project) = {}
    /\ hold[r].state = "consumed" =>
         \A s \in Runs \ {r} : hold[s].state = "consumed" /\ hold[s].kind = "initial" =>
           run[s].project # run[r].project

\* What a terminal run was found to owe is final: a later receipt, a retry of the
\* tick or a new plan changes neither the outcome nor the amount.
BillIsFinal ==
  [][\A r \in Runs :
       /\ hold[r].state \in {"consumed", "released"} => hold'[r] = hold[r]
       /\ intent[r].outcome # "none" =>
            /\ intent'[r].outcome = intent[r].outcome /\ intent'[r].amount = intent[r].amount
            /\ intent[r].settled => intent'[r].settled]_vars

-----------------------------------------------------------------------------
\* Liveness.

\* An ended run does not keep units, though the path it ended on sealed no bill.
EndedRunKeepsNoUnits ==
  \A r \in Runs : (run[r].status \in Terminal) ~> (hold[r].state # "held")

\* An accepted build the wallet can pay is debited.
AcceptedBuildIsDebited ==
  \A r \in Runs : UnpaidIntent(r) ~> (~UnpaidIntent(r) \/ wallet < intent[r].amount)

=============================================================================
