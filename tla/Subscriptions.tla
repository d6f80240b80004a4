----------------------------- MODULE Subscriptions -----------------------------
(* A platform-billed subscription: how it starts, is charged from a wallet or *)
(* by payment orders, runs into arrears and ends; the payment callbacks that  *)
(* renew it; and the row locks two nested transactions and a callback take in *)
(* opposite orders.  Subscriptions share no state, so one of them is enough.  *)
EXTENDS Integers, FiniteSets

CONSTANTS
    MaxAttempts,  \* maxBillingOrderAttempts: orders of one billing cycle
    MaxCycles,    \* bound: time stops after this many cycles
    MaxErrors     \* bound: database, provider or process failures

ASSUME SubscriptionAssumption ==
    MaxAttempts \in Nat \ {0} /\ MaxCycles \in Nat \ {0} /\ MaxErrors \in Nat

VARIABLES
    plan,      \* how the plan is charged, and whether it starts with a trial
    sub,       \* the subscriptions row
    wallet,    \* the price is one unit of the billing asset
    bills,     \* cycles charged to the wallet, by the key of the asset ledger
    orders,    \* payment_orders.status of each cycle and attempt
    sessions,  \* external: orders the buyer can pay
    notices,   \* external: payments reported, not yet accepted
    job,       \* the transaction that places an order, with its row lock
    callback,  \* the callback that holds an order and waits for the row
    atCancel,  \* observed: what stood when the owner cancelled
    errors     \* what MaxErrors has left

vars == <<plan, sub, wallet, bills, orders, sessions, notices, job, callback, atCancel,
          errors>>

\* The activation is cycle 0; each later one is named by the period it ends.
OrderKey == (0 .. MaxCycles) \X (1 .. MaxAttempts)

Live == {"trialing", "active", "past_due"}
Dead == {"canceled", "expired"}
Lapsed == {"failed", "closed"}

None == <<>>
NoJob == [pc |-> "none", key |-> None]

\* A row lock is held for as long as its transaction runs.
RowFree == job = NoJob

\* left counts the periods that have begun or were bought and have not ended:
\* current_period_end has come when there is none.
PeriodDue == sub.left = 0

Fresh == [status |-> "new", cycle |-> 1, left |-> 1, cancel |-> FALSE, graceOver |-> FALSE]

Init ==
    /\ plan \in [billing : {"free", "wallet", "order"}, trial : BOOLEAN]
    /\ sub = Fresh
    /\ wallet \in {0, 1}
    /\ bills = {}
    /\ orders = [k \in OrderKey |-> "absent"]
    /\ sessions = {} /\ notices = {}
    /\ job = NoJob
    /\ callback = None /\ atCancel = None
    /\ errors = 0

Books == <<orders, sessions, notices>>

Paid == {k \in OrderKey : orders[k] = "paid"}

\* The orders the buyer can pay or has paid.
Payable == sessions \cup notices \cup Paid

-----------------------------------------------------------------------------
(* Billing orders.  The order is inserted in a transaction of its own, the    *)
(* provider is called, and a second transaction records the session: all of   *)
(* it inside the transaction of the subscription, whose row stays locked.     *)

\* Faulty variant: an order that waits for its payment is given up.
NextAttemptImpatient(c) ==
    LET open == {a \in 1 .. MaxAttempts : orders[<<c, a>>] \notin Lapsed \cup {"paying"}}
    IN IF open = {} THEN 0 ELSE CHOOSE a \in open : \A b \in open : a <= b

\* createBillingOrder goes past the lapsed orders of the cycle.
NextAttempt(c) ==
    LET open == {a \in 1 .. MaxAttempts : orders[<<c, a>>] \notin Lapsed}
    IN IF open = {} THEN 0 ELSE CHOOSE a \in open : \A b \in open : a <= b

PlaceOrder(c) ==
    LET k == <<c, NextAttempt(c)>> IN
    /\ k \in OrderKey
    /\ orders[k] \in {"absent", "created"}
    /\ orders' = [orders EXCEPT ![k] = "created"]
    /\ job' = [pc |-> "placed", key |-> k]

CreatePayment ==
    /\ job.pc = "placed"
    /\ sessions' = sessions \cup {job.key}
    /\ job' = [job EXCEPT !.pc = "opened"]
    /\ UNCHANGED <<plan, atCancel, sub, wallet, bills, orders, notices, callback, errors>>

\* The second transaction waits for the order; with it the outer one commits,
\* and a new subscription becomes visible.
RecordSession ==
    /\ job.pc = "opened"
    /\ callback # job.key
    /\ orders' = [orders EXCEPT ![job.key] = IF @ = "created" THEN "paying" ELSE @]
    /\ sub' = [sub EXCEPT !.status = IF @ = "new" THEN "trialing" ELSE @]
    /\ job' = NoJob
    /\ UNCHANGED <<plan, atCancel, wallet, bills, sessions, notices, callback, errors>>

\* The outer transaction rolls back; what the inner ones committed stays.
Rollback ==
    /\ job' = NoJob
    /\ sub' = [sub EXCEPT !.status = IF @ = "new" THEN "gone" ELSE @]
    /\ UNCHANGED <<plan, atCancel, wallet, bills, Books, callback>>

JobFails ==
    /\ job # NoJob
    /\ errors < MaxErrors /\ errors' = errors + 1
    /\ Rollback

-----------------------------------------------------------------------------
(* What a charge does to the row *)

\* Faulty variant: the end of the grace period is kept.
ExtendedKeepsGrace(s) ==
    [s EXCEPT !.status = "active", !.cycle = @ + 1, !.left = @ + 1]

\* applySuccess: the next period starts at the end of the current one, or now
\* when that has passed, and its benefits are granted.
Extended(s) ==
    [s EXCEPT !.status = "active", !.cycle = @ + 1, !.left = @ + 1, !.graceOver = FALSE]

\* markPastDue
InArrears(s) ==
    IF s.status = "past_due" THEN s
    ELSE [s EXCEPT !.status = "past_due", !.graceOver = FALSE]

Ended(s, status) == [s EXCEPT !.status = status, !.cancel = FALSE, !.graceOver = FALSE]

-----------------------------------------------------------------------------
(* Subscribe *)

\* A trial and a free plan start at once, and so does one paid from the wallet;
\* without enough in it the transaction rolls back.
SubscribeNow ==
    /\ sub.status = "new" /\ RowFree
    /\ \/ /\ plan.trial \/ plan.billing = "free"
          /\ sub' = [sub EXCEPT !.status = IF plan.trial THEN "trialing" ELSE "active"]
          /\ UNCHANGED <<wallet, bills>>
       \/ /\ ~plan.trial /\ plan.billing = "wallet"
          /\ wallet > 0
          /\ wallet' = wallet - 1
          /\ bills' = bills \cup {0}
          /\ sub' = [sub EXCEPT !.status = "active"]
    /\ UNCHANGED <<plan, atCancel, Books, job, callback, errors>>

\* Otherwise it waits, as trialing, for the payment of its first order.
SubscribeByOrder ==
    /\ sub.status = "new" /\ RowFree
    /\ ~plan.trial /\ plan.billing = "order"
    /\ PlaceOrder(0)
    /\ UNCHANGED <<plan, atCancel, sub, wallet, bills, sessions, notices, callback, errors>>

-----------------------------------------------------------------------------
(* The billing cycle of the worker: processDue *)

Due ==
    /\ sub.status \in Live
    /\ PeriodDue \/ sub.status = "past_due"

\* Faulty variant: a cancellation is left to the next period.
EndsNowArrears ==
    IF sub.status = "past_due" /\ sub.graceOver THEN "expired" ELSE "no"

\* A cancelled subscription ends with its period, one in arrears with its grace.
EndsNow ==
    IF sub.cancel /\ PeriodDue THEN "canceled"
    ELSE IF sub.status = "past_due" /\ sub.graceOver THEN "expired"
    ELSE "no"

EndSubscription ==
    /\ Due /\ RowFree
    /\ EndsNow # "no"
    /\ sub' = Ended(sub, EndsNow)
    /\ UNCHANGED <<plan, atCancel, wallet, bills, Books, job, callback, errors>>

\* The charge, the row and the benefits are one transaction.
ChargeWallet ==
    /\ Due /\ RowFree /\ EndsNow = "no"
    /\ \/ plan.billing = "free" /\ sub' = Extended(sub) /\ UNCHANGED <<wallet, bills>>
       \/ /\ plan.billing = "wallet"
          /\ IF wallet > 0 \/ sub.cycle \in bills
             THEN /\ wallet' = IF sub.cycle \in bills THEN wallet ELSE wallet - 1
                  /\ bills' = bills \cup {sub.cycle}
                  /\ sub' = Extended(sub)
             ELSE sub' = InArrears(sub) /\ UNCHANGED <<wallet, bills>>
    /\ UNCHANGED <<plan, atCancel, Books, job, callback, errors>>

\* Faulty variant: an order that was placed counts as a charge.
ChargeByOrderOnTrust ==
    /\ Due /\ RowFree /\ EndsNow = "no"
    /\ plan.billing = "order"
    /\ PlaceOrder(sub.cycle)
    /\ sub' = Extended(sub)
    /\ UNCHANGED <<plan, atCancel, wallet, bills, sessions, notices, callback, errors>>

\* An order that is being paid is waited for; a new or an abandoned one is
\* taken to the provider.
ChargeByOrder ==
    /\ Due /\ RowFree /\ EndsNow = "no"
    /\ plan.billing = "order"
    /\ PlaceOrder(sub.cycle)
    /\ UNCHANGED <<plan, atCancel, sub, wallet, bills, sessions, notices, callback, errors>>

\* Faulty variant: without another attempt the subscription is left alone.
ExhaustedStays ==
    /\ Due /\ RowFree /\ EndsNow = "no"
    /\ plan.billing = "order"
    /\ NextAttempt(sub.cycle) = 0
    /\ UNCHANGED vars

\* errBillingOrderExhausted
OrdersExhausted ==
    /\ Due /\ RowFree /\ EndsNow = "no"
    /\ plan.billing = "order"
    /\ NextAttempt(sub.cycle) = 0
    /\ sub' = InArrears(sub)
    /\ UNCHANGED <<plan, atCancel, wallet, bills, Books, job, callback, errors>>

Bill == EndSubscription \/ ChargeWallet \/ ChargeByOrder \/ OrdersExhausted

-----------------------------------------------------------------------------
(* Payments: the callback locks the order first, then the subscription *)

\* As soon as the provider has opened the session: callbacks that early are
\* expected by the code.
PayOrder(k) ==
    /\ k \in sessions
    /\ notices' = notices \cup {k}
    /\ sessions' = sessions \ {k}
    /\ UNCHANGED <<plan, atCancel, sub, wallet, bills, orders, job, callback, errors>>

\* An order that is paid, or has lapsed, ignores the payment.
CallbackLocksOrder(k) ==
    /\ k \in notices
    /\ callback = None
    /\ IF orders[k] \in Lapsed \cup {"paid"}
       THEN notices' = notices \ {k} /\ UNCHANGED callback
       ELSE callback' = k /\ UNCHANGED notices
    /\ UNCHANGED <<plan, atCancel, sub, wallet, bills, orders, sessions, job, errors>>

\* FulfillPaidOrder: a subscription that has ended, or whose period is paid,
\* takes the money and gives nothing for it.
CallbackFulfils ==
    /\ callback # None
    /\ RowFree
    /\ sub.status \in Live \cup Dead
    /\ orders' = [orders EXCEPT ![callback] = "paid"]
    /\ notices' = notices \ {callback}
    /\ sub' = IF sub.status \in Dead \/ (sub.status = "active" /\ ~PeriodDue)
              THEN sub ELSE Extended(sub)
    /\ callback' = None
    /\ UNCHANGED <<plan, atCancel, wallet, bills, sessions, job, errors>>

\* The subscription was rolled back, or is not committed: an error, the
\* notice comes again.
CallbackFindsNone ==
    /\ callback # None
    /\ sub.status \in {"new", "gone"}
    /\ callback' = None
    /\ UNCHANGED <<plan, atCancel, sub, wallet, bills, Books, job, errors>>

CallbackFails ==
    /\ callback # None
    /\ errors < MaxErrors /\ errors' = errors + 1
    /\ callback' = None
    /\ UNCHANGED <<plan, atCancel, sub, wallet, bills, Books, job>>

\* CloseExpiredInProject skips the rows somebody has locked.
LapseOrder(k) ==
    /\ orders[k] \in {"created", "paying"}
    /\ callback # k
    /\ \E s \in Lapsed : orders' = [orders EXCEPT ![k] = s]
    /\ sessions' = sessions \ {k}
    /\ UNCHANGED <<plan, atCancel, sub, wallet, bills, notices, job, callback, errors>>

\* The inner transaction waits for the order, the callback that has it for the
\* row the outer transaction holds: the database sees no cycle.
CircularWait == job.pc = "opened" /\ callback = job.key /\ sub.status \in Live

\* The connection's read timeout ends the wait of one of them.
ReadTimeout ==
    /\ CircularWait
    /\ \/ Rollback
       \/ /\ callback' = None
          /\ UNCHANGED <<plan, atCancel, sub, wallet, bills, Books, job>>
    /\ UNCHANGED errors

-----------------------------------------------------------------------------
(* The owner, the administrator and time *)

CancelAtPeriodEnd ==
    /\ RowFree
    /\ sub.status \in Live /\ ~sub.cancel
    /\ sub' = [sub EXCEPT !.cancel = TRUE]
    /\ atCancel' = [cycle |-> sub.cycle, bills |-> bills, payable |-> Payable,
                    paid |-> Cardinality(Paid)]
    /\ UNCHANGED <<plan, wallet, bills, Books, job, callback, errors>>

\* ForceCancel, ForceExpire
ForceTerminal ==
    /\ RowFree
    /\ sub.status \in Live
    /\ \E s \in Dead : sub' = Ended(sub, s)
    /\ UNCHANGED <<plan, atCancel, wallet, bills, Books, job, callback, errors>>

TopUp ==
    /\ wallet = 0 /\ plan.billing = "wallet"
    /\ wallet' = 1
    /\ UNCHANGED <<plan, atCancel, sub, bills, Books, job, callback, errors>>

PeriodEnds ==
    /\ sub.status \in Live
    /\ sub.left > 0
    /\ sub.cycle < MaxCycles
    /\ sub' = [sub EXCEPT !.left = @ - 1]
    /\ UNCHANGED <<plan, atCancel, wallet, bills, Books, job, callback, errors>>

GraceEnds ==
    /\ sub.status = "past_due" /\ ~sub.graceOver
    /\ sub' = [sub EXCEPT !.graceOver = TRUE]
    /\ UNCHANGED <<plan, atCancel, wallet, bills, Books, job, callback, errors>>

-----------------------------------------------------------------------------

Subscribe == SubscribeNow \/ SubscribeByOrder

Callback ==
    \/ \E k \in notices : CallbackLocksOrder(k)
    \/ CallbackFulfils \/ CallbackFindsNone \/ CallbackFails

Environment ==
    \/ \E k \in OrderKey : PayOrder(k) \/ LapseOrder(k)
    \/ CancelAtPeriodEnd \/ ForceTerminal \/ TopUp \/ PeriodEnds \/ GraceEnds

Next ==
    \/ Subscribe \/ Bill \/ CreatePayment \/ RecordSession \/ JobFails
    \/ Callback \/ ReadTimeout \/ Environment

Spec == Init /\ [][Next]_vars

\* The worker's ticker bills what is due and closes expired orders; the provider
\* answers; a transaction times out; grace runs out; and whoever waits in the
\* queue of a row lock gets the row when its holder gives it up.
Fairness ==
    /\ WF_vars(Bill) /\ WF_vars(CreatePayment) /\ WF_vars(ReadTimeout)
    /\ SF_vars(RecordSession) /\ SF_vars(CallbackFulfils)
    /\ WF_vars(GraceEnds)
    /\ \A k \in OrderKey : WF_vars(LapseOrder(k))

FairSpec == Spec /\ Fairness

-----------------------------------------------------------------------------
(* Properties *)

\* Every variable keeps its type, and only a subscription in arrears has a
\* grace period that can be over.
TypeOK ==
    /\ sub.graceOver => sub.status = "past_due"
    /\ plan \in [billing : {"free", "wallet", "order"}, trial : BOOLEAN]
    /\ sub \in [status : {"new", "gone"} \cup Live \cup Dead, cycle : Nat \ {0},
                left : Nat, cancel : BOOLEAN, graceOver : BOOLEAN]
    /\ wallet \in {0, 1}
    /\ bills \subseteq Nat
    /\ orders \in [OrderKey -> {"absent", "created", "paying", "paid"} \cup Lapsed]
    /\ sessions \in SUBSET OrderKey /\ notices \in SUBSET OrderKey
    /\ job \in [pc : {"placed", "opened"}, key : OrderKey] \cup {NoJob}
    /\ callback \in OrderKey \cup {None}
    /\ atCancel \in [cycle : Nat, bills : SUBSET Nat, payable : SUBSET OrderKey, paid : Nat]
                   \cup {None}
    /\ errors \in 0 .. MaxErrors

\* A wallet is charged exactly for the periods it was granted, and no order-billed
\* subscription is renewed more often than it was paid for, whatever is retried,
\* rolled back or confirmed late.  The first period is outside: it is the trial,
\* bought from the wallet at once, or, on an order-billed plan without a trial,
\* the one the row waits in for its first payment, which buys the next period.
RenewalsPaid ==
    LET renewals == sub.cycle - 1
        bought   == IF plan.trial \/ sub.status = "new" THEN renewals ELSE renewals + 1
    IN  /\ plan.billing = "wallet" => bought = Cardinality(bills)
        /\ plan.billing = "order" => renewals <= Cardinality(Paid)

\* A cycle never has two orders that are paid or can still be: a lapsed one is
\* replaced, one in flight never is.
SingleCharge ==
    \A c \in 0 .. MaxCycles :
      Cardinality({a \in 1 .. MaxAttempts :
                     orders[<<c, a>>] \in {"created", "paying", "paid"}}) <= 1

\* Once the owner has cancelled, while the period lasts and after the end: the
\* wallet is not charged, nothing becomes payable that was not, and the period is
\* only prolonged by a payment of such an order, once for each.
NothingNewAfterCancel ==
    atCancel # None =>
      /\ bills = atCancel.bills
      /\ Payable \subseteq atCancel.payable
      /\ sub.cycle - atCancel.cycle <= Cardinality(Paid) - atCancel.paid

\* A period that has ended is renewed, or the subscription ends: no shortage,
\* no dead order and no lost call leaves it due for ever.
DueIsResolved == Due ~> ~Due
=============================================================================
