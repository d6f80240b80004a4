-------------------------- MODULE SubscriptionsProofs --------------------------
(* Proofs about Subscriptions for any number of attempts, cycles and errors:  *)
(* the safety of its charges, which no schedule of the worker, the callbacks  *)
(* and the owner breaks.                                                      *)
EXTENDS Subscriptions, FiniteSetTheorems, WellFoundedInduction, TLAPS

Subs == [status : {"new", "gone"} \cup Live \cup Dead, cycle : Nat \ {0},
         left : Nat, cancel : BOOLEAN, graceOver : BOOLEAN]

OrderStatus == {"absent", "created", "paying", "paid"} \cup Lapsed

Row == sub \in Subs /\ (sub.graceOver => sub.status = "past_due")

Register ==
    /\ orders \in [OrderKey -> OrderStatus]
    /\ sessions \in SUBSET OrderKey /\ notices \in SUBSET OrderKey
    /\ job \in [pc : {"placed", "opened"}, key : OrderKey] \cup {NoJob}
    /\ callback \in OrderKey \cup {None}

\* What has been shown to the provider was placed, and an order that a callback
\* has locked is open.
Placed ==
    /\ \A k \in sessions \cup notices : orders[k] # "absent"
    /\ job # NoJob => orders[job.key] # "absent" /\ plan.billing = "order"
    /\ callback # None => callback \in notices /\ orders[callback] \in {"created", "paying"}
    /\ \A k \in OrderKey : orders[k] # "absent" => plan.billing = "order"

\* An attempt is only placed after all those before it have lapsed.
Ordered ==
    \A c \in 0 .. MaxCycles, a \in 1 .. MaxAttempts, b \in 1 .. MaxAttempts :
      a < b /\ orders[<<c, b>>] # "absent" => orders[<<c, a>>] \in Lapsed

\* The wallet is charged from the activation on.
FromFirst == plan.billing = "wallet" /\ ~plan.trial

Covered == IF FromFirst /\ sub.status # "new" THEN 0 ELSE 1

Accounts ==
    /\ IsFiniteSet(bills) /\ IsFiniteSet(Paid)
    /\ sub.status = "new" => bills = {} /\ sub.cycle = 1
    /\ bills \subseteq Nat /\ \A b \in bills : b < sub.cycle
    /\ plan.billing = "wallet" => sub.cycle - Covered = Cardinality(bills)
    /\ plan.billing = "order" => sub.cycle - 1 <= Cardinality(Paid)

\* A subscription only runs into arrears when its period has ended.
Arrears == sub.status = "past_due" => PeriodDue

Cancellation ==
    [cycle : Nat, bills : SUBSET Nat, payable : SUBSET OrderKey, paid : Nat]

\* No transaction that places an order runs any more, and none will: the
\* subscription has ended, or ends at its next round.
Cancelled ==
    atCancel # None =>
      /\ atCancel \in Cancellation
      /\ job = NoJob
      /\ sub.status \in Live \cup Dead /\ (sub.status \in Live => sub.cancel)
      /\ bills = atCancel.bills
      /\ Payable \subseteq atCancel.payable
      /\ sub.cycle - atCancel.cycle <= Cardinality(Paid) - atCancel.paid

IInv == Row /\ Register /\ Placed /\ Ordered /\ Accounts /\ Arrears /\ Cancelled

-----------------------------------------------------------------------------
(* The row *)

LEMMA RowChanges ==
    ASSUME Row
    PROVE  /\ Extended(sub) \in Subs /\ Extended(sub).status = "active"
           /\ Extended(sub).cycle = sub.cycle + 1 /\ Extended(sub).graceOver = FALSE
           /\ \A s \in Dead : /\ Ended(sub, s) \in Subs /\ Ended(sub, s).status = s
                              /\ Ended(sub, s).cycle = sub.cycle
                              /\ Ended(sub, s).graceOver = FALSE
           /\ InArrears(sub) \in Subs /\ InArrears(sub).status = "past_due"
           /\ InArrears(sub).cycle = sub.cycle
<1>1. FALSE \in BOOLEAN /\ sub.cycle + 1 \in Nat \ {0} /\ sub.left + 1 \in Nat
  BY DEF Row, Subs
<1>2. /\ Extended(sub) \in Subs /\ Extended(sub).status = "active"
      /\ Extended(sub).cycle = sub.cycle + 1 /\ Extended(sub).graceOver = FALSE
  BY <1>1 DEF Row, Subs, Extended, Live
<1>3. ASSUME NEW s \in Dead
      PROVE  /\ Ended(sub, s) \in Subs /\ Ended(sub, s).status = s
             /\ Ended(sub, s).cycle = sub.cycle /\ Ended(sub, s).graceOver = FALSE
  BY <1>1 DEF Row, Subs, Ended, Live
<1>4. /\ InArrears(sub) \in Subs /\ InArrears(sub).status = "past_due"
      /\ InArrears(sub).cycle = sub.cycle
  BY <1>1 DEF Row, Subs, InArrears, Live
<1>5. QED
  BY <1>2, <1>3, <1>4

\* A new subscription becomes visible, or is rolled back.
LEMMA RowStarts ==
    ASSUME Row, NEW s \in {"gone", "trialing", "active"},
           sub' = [sub EXCEPT !.status = IF @ = "new" THEN s ELSE @]
    PROVE  /\ Row' /\ sub'.cycle = sub.cycle
           /\ sub'.status = IF sub.status = "new" THEN s ELSE sub.status
BY DEF Row, Subs, Live, Dead

LEMMA InitRow == Init => Row
BY DEF Init, Row, Subs, Fresh

LEMMA NextRow ==
    ASSUME Row, [Next]_vars PROVE Row'
<1>1. ASSUME sub' = Extended(sub) \/ sub' = InArrears(sub) \/ \E s \in Dead : sub' = Ended(sub, s)
      PROVE  Row'
  BY <1>1, RowChanges DEF Row
<1>2. CASE SubscribeNow
  BY <1>2 DEF SubscribeNow, Row, Subs, Live, Dead
<1>3. CASE Bill
  <2>1. EndsNow \in {"no"} \cup Dead
    BY DEF EndsNow, Dead
  <2>2. CASE sub' = sub
    BY <2>2 DEF Row
  <2>3. QED
    BY <1>1, <1>3, <2>1, <2>2
    DEF Bill, EndSubscription, ChargeWallet, ChargeByOrder, OrdersExhausted
<1>4. CASE RecordSession
  BY <1>4, RowStarts DEF RecordSession
<1>5. CASE Rollback
  BY <1>5, RowStarts DEF Rollback
<1>6. CASE CallbackFulfils
  BY <1>1, <1>6 DEF CallbackFulfils, Row
<1>7. CASE CancelAtPeriodEnd \/ PeriodEnds \/ GraceEnds
  <2>1. CASE CancelAtPeriodEnd
    <3>1. TRUE \in BOOLEAN /\ sub' = [sub EXCEPT !.cancel = TRUE]
      BY <2>1 DEF CancelAtPeriodEnd
    <3>2. QED
      BY <3>1 DEF Row, Subs
  <2>2. CASE PeriodEnds
    <3>1. sub.left - 1 \in Nat /\ sub' = [sub EXCEPT !.left = @ - 1]
      BY <2>2 DEF PeriodEnds, Row, Subs
    <3>2. QED
      BY <3>1 DEF Row, Subs
  <2>3. CASE GraceEnds
    <3>1. /\ TRUE \in BOOLEAN /\ sub.status = "past_due"
          /\ sub' = [sub EXCEPT !.graceOver = TRUE]
      BY <2>3 DEF GraceEnds
    <3>2. QED
      BY <3>1 DEF Row, Subs
  <2>4. QED
    BY <1>7, <2>1, <2>2, <2>3
<1>8. CASE ForceTerminal
  BY <1>1, <1>8 DEF ForceTerminal
<1>9. CASE UNCHANGED sub
  BY <1>9 DEF Row
<1>10. QED
  BY <1>2, <1>3, <1>4, <1>5, <1>6, <1>7, <1>8, <1>9
  DEF Next, Subscribe, SubscribeByOrder, CreatePayment, JobFails, Callback,
      CallbackLocksOrder, CallbackFindsNone, CallbackFails, ReadTimeout, Environment,
      PayOrder, LapseOrder, TopUp, vars

-----------------------------------------------------------------------------
(* The orders *)

LEMMA InitRegister == Init => Register /\ Placed /\ Ordered
BY SubscriptionAssumption
DEF Init, Register, Placed, Ordered, OrderStatus, NoJob, None, OrderKey

Less == {p \in Nat \X Nat : p[1] < p[2]}

LEMMA LessWellFounded == IsWellFoundedOn(Less, Nat)
BY NatLessThanWellFounded, Zenon DEF OpToRel, Less

\* The attempt that is placed: what comes before it has lapsed.
LEMMA Attempt ==
    ASSUME NEW c, <<c, NextAttempt(c)>> \in OrderKey
    PROVE  /\ orders[<<c, NextAttempt(c)>>] \notin Lapsed
           /\ \A a \in 1 .. MaxAttempts : a < NextAttempt(c) => orders[<<c, a>>] \in Lapsed
<1> DEFINE open == {a \in 1 .. MaxAttempts : orders[<<c, a>>] \notin Lapsed}
           first == CHOOSE a \in open : \A b \in open : a <= b
<1>1. open # {}
  BY SubscriptionAssumption DEF NextAttempt, OrderKey
<1>2. open \subseteq Nat
  BY SubscriptionAssumption
<1>3. \E a \in open : \A b \in open : ~(<<b, a>> \in Less)
  <2> HIDE DEF open
  <2>1. QED
    BY <1>1, <1>2, LessWellFounded, WFMin
<1>4. first \in open /\ \A b \in open : first <= b
  <2> HIDE DEF open
  <2>1. \A a \in open, b \in open : ~(<<b, a>> \in Less) => a <= b
    BY <1>2 DEF Less
  <2>2. \E a \in open : \A b \in open : a <= b
    BY <1>3, <2>1
  <2>3. QED
    BY <2>2
<1>5. NextAttempt(c) = first
  BY <1>1 DEF NextAttempt
<1>6. QED
  BY <1>4, <1>5, SubscriptionAssumption

\* How the orders change: one is placed, its session recorded, it lapses, or
\* the callback that holds it is done.
LEMMA PlaceKeeps ==
    ASSUME Register, Placed, Ordered, NEW c \in Nat, PlaceOrder(c), plan.billing = "order",
           UNCHANGED <<plan, sessions, notices, callback>>
    PROVE  Register' /\ Placed' /\ Ordered'
<1> DEFINE k == <<c, NextAttempt(c)>>
<1>1. /\ k \in OrderKey /\ orders[k] \in {"absent", "created"}
      /\ orders' = [orders EXCEPT ![k] = "created"] /\ job' = [pc |-> "placed", key |-> k]
  BY DEF PlaceOrder
<1>2. \A a \in 1 .. MaxAttempts : a < NextAttempt(c) => orders[<<c, a>>] \in Lapsed
  BY <1>1, Attempt
<1>3. Register'
  BY <1>1 DEF Register, OrderStatus
<1>4. Placed'
  BY <1>1 DEF Placed, Register, NoJob, None
<1>5. Ordered'
  <2> SUFFICES ASSUME NEW d \in 0 .. MaxCycles, NEW a \in 1 .. MaxAttempts,
                      NEW b \in 1 .. MaxAttempts, a < b, orders'[<<d, b>>] # "absent"
               PROVE  orders'[<<d, a>>] \in Lapsed
    BY DEF Ordered
  <2>1. <<d, a>> \in OrderKey /\ <<d, b>> \in OrderKey
    BY DEF OrderKey
  <2>2. orders[<<d, a>>] \in Lapsed
    <3>1. CASE <<d, b>> = k
      BY <1>2, <3>1
    <3>2. CASE <<d, b>> # k
      <4>1. orders[<<d, b>>] # "absent"
        BY <1>1, <2>1, <3>2 DEF Register
      <4>2. QED
        BY <4>1 DEF Ordered
    <3>3. QED
      BY <3>1, <3>2
  <2>3. <<d, a>> # k
    BY <1>1, <2>2 DEF Lapsed
  <2>4. QED
    BY <1>1, <2>1, <2>2, <2>3 DEF Register
<1>6. QED
  BY <1>3, <1>4, <1>5

LEMMA NextRegister ==
    ASSUME Row, Register, Placed, Ordered, [Next]_vars PROVE Register' /\ Placed' /\ Ordered'
<1> USE DEF Books
<1>1. CASE SubscribeByOrder \/ ChargeByOrder
  <2>1. PICK c \in Nat : PlaceOrder(c)
    BY <1>1 DEF SubscribeByOrder, ChargeByOrder, Row, Subs
  <2>2. plan.billing = "order" /\ UNCHANGED <<plan, sessions, notices, callback>>
    BY <1>1 DEF SubscribeByOrder, ChargeByOrder
  <2>3. QED
    BY <2>1, <2>2, PlaceKeeps
<1>2. ASSUME UNCHANGED <<orders, sessions, notices, job, plan>>, callback' \in {callback, None}
      PROVE  Register' /\ Placed' /\ Ordered'
  BY <1>2 DEF Register, Placed, Ordered
<1>3. ASSUME UNCHANGED <<orders, sessions, notices, callback, plan>>, job' = NoJob
      PROVE  Register' /\ Placed' /\ Ordered'
  BY <1>3 DEF Register, Placed, Ordered
<1>4. CASE CreatePayment
  <2>1. /\ job # NoJob /\ job.key \in OrderKey /\ sessions' = sessions \cup {job.key}
        /\ job' = [pc |-> "opened", key |-> job.key]
        /\ UNCHANGED <<plan, orders, notices, callback>>
    BY <1>4 DEF CreatePayment, Register, NoJob
  <2>2. QED
    BY <2>1 DEF Register, Placed, Ordered, NoJob
<1>5. CASE RecordSession
  <2>1. /\ job # NoJob /\ job.key \in OrderKey /\ job' = NoJob /\ callback # job.key
        /\ orders' = [orders EXCEPT ![job.key] = IF @ = "created" THEN "paying" ELSE @]
        /\ UNCHANGED <<plan, sessions, notices, callback>>
    BY <1>5 DEF RecordSession, Register, NoJob
  <2>2. \A k \in OrderKey : \/ orders'[k] = orders[k]
                            \/ orders[k] = "created" /\ orders'[k] = "paying"
    BY <2>1 DEF Register
  <2>3. Register'
    BY <2>1 DEF Register, OrderStatus
  <2>4. Placed'
    BY <2>1, <2>2 DEF Register, Placed
  <2>5. Ordered'
    BY <2>2 DEF Ordered, OrderKey, Lapsed
  <2>6. QED
    BY <2>3, <2>4, <2>5
<1>6. ASSUME NEW k \in OrderKey, PayOrder(k) PROVE Register' /\ Placed' /\ Ordered'
  BY <1>6 DEF PayOrder, Register, Placed, Ordered
<1>7. ASSUME NEW k \in notices, CallbackLocksOrder(k) PROVE Register' /\ Placed' /\ Ordered'
  <2>1. k \in OrderKey /\ orders[k] # "absent"
    BY DEF Register, Placed
  <2>2. UNCHANGED <<plan, orders, sessions, job>>
    BY <1>7 DEF CallbackLocksOrder
  <2>3. CASE orders[k] \in Lapsed \cup {"paid"}
    BY <1>7, <2>2, <2>3 DEF CallbackLocksOrder, Register, Placed, Ordered
  <2>4. CASE orders[k] \notin Lapsed \cup {"paid"}
    <3>1. callback' = k /\ notices' = notices /\ orders[k] \in {"created", "paying"}
      BY <1>7, <2>1, <2>4 DEF CallbackLocksOrder, Register, OrderStatus
    <3>2. QED
      BY <2>1, <2>2, <3>1 DEF Register, Placed, Ordered
  <2>5. QED
    BY <2>3, <2>4
<1>8. CASE CallbackFulfils
  <2>1. /\ callback \in OrderKey /\ orders[callback] \in {"created", "paying"} /\ callback' = None
        /\ orders' = [orders EXCEPT ![callback] = "paid"] /\ notices' \subseteq notices
        /\ UNCHANGED <<plan, sessions, job>>
    BY <1>8 DEF CallbackFulfils, Register, Placed
  <2>2. \A k \in OrderKey : orders'[k] = orders[k] \/ (k = callback /\ orders'[k] = "paid")
    BY <2>1 DEF Register
  <2>3. Register'
    BY <2>1 DEF Register, OrderStatus
  <2>4. Placed'
    BY <2>1, <2>2 DEF Register, Placed
  <2>5. Ordered'
    BY <2>1, <2>2 DEF Ordered, OrderKey, Lapsed
  <2>6. QED
    BY <2>3, <2>4, <2>5
<1>9. ASSUME NEW k \in OrderKey, LapseOrder(k) PROVE Register' /\ Placed' /\ Ordered'
  <2>1. PICK s \in Lapsed : orders' = [orders EXCEPT ![k] = s]
    BY <1>9 DEF LapseOrder
  <2>2. /\ orders[k] \in {"created", "paying"} /\ callback # k /\ sessions' \subseteq sessions
        /\ UNCHANGED <<plan, notices, job, callback>>
    BY <1>9 DEF LapseOrder
  <2>3. \A j \in OrderKey : orders'[j] = IF j = k THEN s ELSE orders[j]
    BY <2>1 DEF Register
  <2>4. Register'
    BY <2>1, <2>2 DEF Register, OrderStatus
  <2>5. Placed'
    BY <2>2, <2>3 DEF Register, Placed, Lapsed
  <2>6. Ordered'
    BY <2>2, <2>3 DEF Ordered, OrderKey
  <2>7. QED
    BY <2>4, <2>5, <2>6
<1>10. QED
  BY <1>1, <1>2, <1>3, <1>4, <1>5, <1>6, <1>7, <1>8, <1>9
  DEF Next, Subscribe, SubscribeNow, Bill, EndSubscription, ChargeWallet, OrdersExhausted,
      JobFails, Rollback, Callback, CallbackFindsNone, CallbackFails, ReadTimeout,
      Environment, CancelAtPeriodEnd, ForceTerminal, TopUp, PeriodEnds, GraceEnds, vars

-----------------------------------------------------------------------------
(* The accounts *)

LEMMA InitAccounts == Init => Accounts
<1> SUFFICES ASSUME Init PROVE Accounts
  OBVIOUS
<1>1. Paid = {} /\ bills = {} /\ sub.cycle = 1 /\ sub.status = "new"
  BY DEF Init, Paid, Fresh
<1>2. IsFiniteSet({}) /\ Cardinality({}) = 0
  BY FS_EmptySet
<1>3. Covered = 1
  BY <1>1 DEF Covered
<1>4. QED
  BY <1>1, <1>2, <1>3 DEF Accounts

LEMMA SamePaid ==
    ASSUME \A k \in OrderKey : orders'[k] = "paid" <=> orders[k] = "paid"
    PROVE  Paid' = Paid
BY DEF Paid

\* The count of the periods stays, or grows with what was paid for them.
LEMMA AccountsKept ==
    ASSUME Row, Accounts, UNCHANGED <<plan, bills>>, Paid' = Paid, sub'.cycle = sub.cycle,
           sub'.status = "new" => sub.status = "new",
           sub.status = "new" /\ sub'.status # "new" => ~FromFirst
    PROVE  Accounts'
<1>1. FromFirst' <=> FromFirst
  BY DEF FromFirst
<1>2. Covered' = Covered
  BY <1>1 DEF Covered
<1>3. QED
  BY <1>2 DEF Accounts

LEMMA AccountsGrow ==
    ASSUME Row, Accounts, plan' = plan, sub.status \in Live, sub' = Extended(sub),
           \/ plan.billing = "free" /\ bills' = bills /\ Paid' = Paid
           \/ plan.billing = "wallet" /\ bills' = bills \cup {sub.cycle} /\ Paid' = Paid
           \/ /\ plan.billing = "order" /\ bills' = bills
              /\ \E k : k \notin Paid /\ Paid' = Paid \cup {k}
    PROVE  Accounts'
<1>1. /\ sub'.cycle = sub.cycle + 1 /\ sub'.status = "active" /\ sub.cycle \in Nat
      /\ sub.status # "new"
  BY RowChanges DEF Row, Subs, Live
<1>2. FromFirst' <=> FromFirst
  BY DEF FromFirst
<1>3. Covered' = Covered /\ Covered \in {0, 1}
  BY <1>1, <1>2 DEF Covered
<1>4. Cardinality(bills) \in Nat /\ Cardinality(Paid) \in Nat
  BY FS_CardinalityType DEF Accounts
<1>5. CASE plan.billing = "free" /\ bills' = bills /\ Paid' = Paid
  BY <1>1, <1>5 DEF Accounts
<1>6. CASE plan.billing = "wallet" /\ bills' = bills \cup {sub.cycle} /\ Paid' = Paid
  <2>1. sub.cycle \notin bills
    BY <1>1 DEF Accounts
  <2>2. IsFiniteSet(bills') /\ Cardinality(bills') = Cardinality(bills) + 1
    BY <1>6, <2>1, FS_AddElement DEF Accounts
  <2>3. bills' \subseteq Nat /\ \A b \in bills' : b < sub'.cycle
    <3>1. bills \subseteq Nat /\ \A b \in bills : b < sub.cycle
      BY DEF Accounts
    <3>2. ASSUME NEW b \in bills' PROVE b \in Nat /\ b < sub.cycle + 1
      <4>1. b \in bills \/ b = sub.cycle
        BY <1>6
      <4>2. b \in Nat /\ (b < sub.cycle \/ b = sub.cycle)
        BY <1>1, <3>1, <4>1
      <4>3. QED
        BY <1>1, <4>2
    <3>3. QED
      BY <1>1, <3>2
  <2>4. QED
    BY <1>1, <1>3, <1>4, <1>6, <2>2, <2>3 DEF Accounts
<1>7. ASSUME plan.billing = "order", bills' = bills, NEW k, k \notin Paid, Paid' = Paid \cup {k} PROVE Accounts'
  <2>1. IsFiniteSet(Paid') /\ Cardinality(Paid') = Cardinality(Paid) + 1
    BY <1>7, FS_AddElement DEF Accounts
  <2>2. bills' \subseteq Nat /\ \A b \in bills' : b < sub'.cycle
    BY <1>1, <1>7 DEF Accounts
  <2>3. QED
    BY <1>1, <1>3, <1>4, <1>7, <2>1, <2>2 DEF Accounts
<1>8. QED
  BY <1>5, <1>6, <1>7

LEMMA SubscribeAccounts ==
    ASSUME Row, Accounts, SubscribeNow PROVE Accounts'
<1>1. Paid' = Paid /\ plan' = plan
  BY DEF SubscribeNow, Books, Paid
<1>2. /\ sub.status = "new" /\ sub'.status \in {"trialing", "active"}
      /\ sub'.cycle = sub.cycle
  BY DEF SubscribeNow, Row, Subs
<1>3. CASE bills' = bills /\ ~FromFirst
  BY <1>1, <1>2, <1>3, AccountsKept
<1>4. CASE bills' = bills \cup {0} /\ FromFirst
  <2>1. bills = {} /\ sub.cycle = 1
    BY <1>2 DEF Accounts
  <2>2. bills' = {0} /\ IsFiniteSet({0}) /\ Cardinality({0}) = 1
    BY <1>4, <2>1, FS_Singleton
  <2>3. Cardinality(Paid) \in Nat
    BY FS_CardinalityType DEF Accounts
  <2>4. Covered' = 0
    BY <1>1, <1>2, <1>4 DEF Covered, FromFirst
  <2>5. QED
    BY <1>1, <1>2, <1>4, <2>1, <2>2, <2>3, <2>4 DEF Accounts, FromFirst
<1>5. (bills' = bills /\ ~FromFirst) \/ (bills' = bills \cup {0} /\ FromFirst)
  BY DEF SubscribeNow, FromFirst
<1>6. QED
  BY <1>3, <1>4, <1>5

LEMMA NextAccounts ==
    ASSUME Row, Register, Placed, Accounts, [Next]_vars PROVE Accounts'
<1> USE DEF Books
<1>1. ASSUME UNCHANGED <<plan, bills>>, Paid' = Paid, sub.status \in Live,
             sub' = sub \/ sub' = InArrears(sub) \/ \E s \in Dead : sub' = Ended(sub, s)
      PROVE  Accounts'
  BY <1>1, RowChanges, AccountsKept DEF Live, Dead
<1>2. ASSUME UNCHANGED <<plan, bills, sub>>, Paid' = Paid PROVE Accounts'
  BY <1>2, AccountsKept
<1>3. orders' = orders => Paid' = Paid
  BY DEF Paid
<1>4. CASE SubscribeNow
  BY <1>4, SubscribeAccounts
<1>5. CASE SubscribeByOrder \/ ChargeByOrder
  <2>1. PICK c : PlaceOrder(c)
    BY <1>5 DEF SubscribeByOrder, ChargeByOrder
  <2>2. Paid' = Paid
    BY <2>1, SamePaid DEF PlaceOrder, Register
  <2>3. QED
    BY <1>2, <1>5, <2>2 DEF SubscribeByOrder, ChargeByOrder
<1>6. CASE EndSubscription \/ OrdersExhausted
  <2>1. EndsNow \in {"no"} \cup Dead
    BY DEF EndsNow, Dead
  <2>2. QED
    BY <1>1, <1>3, <1>6, <2>1 DEF EndSubscription, OrdersExhausted, Due
<1>7. CASE ChargeWallet
  <2>1. Paid' = Paid /\ plan' = plan /\ sub.status \in Live
    BY <1>3, <1>7 DEF ChargeWallet, Due
  <2>2. CASE sub' = Extended(sub) /\ plan.billing = "free" /\ bills' = bills
    BY <2>1, <2>2, AccountsGrow
  <2>3. CASE sub' = Extended(sub) /\ bills' = bills \cup {sub.cycle} /\ plan.billing = "wallet"
    BY <2>1, <2>3, AccountsGrow
  <2>4. CASE sub' = InArrears(sub) /\ bills' = bills
    BY <1>1, <2>1, <2>4
  <2>5. QED
    BY <1>7, <2>2, <2>3, <2>4 DEF ChargeWallet
<1>8. CASE RecordSession \/ (Rollback /\ job # NoJob)
  <2>1. plan.billing = "order" /\ UNCHANGED <<plan, bills>>
    BY <1>8 DEF RecordSession, Rollback, Placed, NoJob
  <2>2. Paid' = Paid
    <3>1. CASE RecordSession
      BY <3>1, SamePaid DEF RecordSession, Register
    <3>2. QED
      BY <1>3, <1>8, <3>1 DEF Rollback
  <2>3. sub'.cycle = sub.cycle /\ (sub'.status = "new" => sub.status = "new")
    BY <1>8, RowStarts DEF RecordSession, Rollback
  <2>4. ~FromFirst
    BY <2>1 DEF FromFirst
  <2>5. QED
    BY <2>1, <2>2, <2>3, <2>4, AccountsKept
<1>9. CASE CallbackFulfils
  <2>1. /\ callback \in OrderKey /\ orders[callback] # "paid" /\ UNCHANGED <<plan, bills>>
        /\ orders' = [orders EXCEPT ![callback] = "paid"]
    BY <1>9 DEF CallbackFulfils, Register, Placed
  <2>2. callback \notin Paid /\ Paid' = Paid \cup {callback}
    BY <2>1 DEF Paid, Register
  <2>a. plan.billing = "order"
    BY <1>9 DEF CallbackFulfils, Register, Placed
  <2>3. CASE sub' = Extended(sub) /\ sub.status \in Live
    BY <2>1, <2>2, <2>3, <2>a, AccountsGrow
  <2>4. CASE sub' = sub
    <3>1. /\ IsFiniteSet(Paid') /\ Cardinality(Paid') = Cardinality(Paid) + 1
          /\ Cardinality(Paid) \in Nat /\ Cardinality(bills) \in Nat
      BY <2>2, FS_AddElement, FS_CardinalityType DEF Accounts
    <3>2. Covered' = Covered /\ Covered \in {0, 1} /\ sub.cycle \in Nat
      BY <2>1, <2>4 DEF Covered, FromFirst, Row, Subs
    <3>3. QED
      BY <2>1, <2>4, <2>a, <3>1, <3>2 DEF Accounts
  <2>5. (sub' = Extended(sub) /\ sub.status \in Live) \/ sub' = sub
    BY <1>9 DEF CallbackFulfils
  <2>6. QED
    BY <2>3, <2>4, <2>5
<1>10. ASSUME NEW k \in OrderKey, LapseOrder(k) PROVE Accounts'
  <2>1. PICK s \in Lapsed : orders' = [orders EXCEPT ![k] = s]
    BY <1>10 DEF LapseOrder
  <2>2. Paid' = Paid
    BY <1>10, <2>1, SamePaid DEF LapseOrder, Register, Lapsed
  <2>3. QED
    BY <1>2, <1>10, <2>2 DEF LapseOrder
<1>11. CASE CancelAtPeriodEnd \/ PeriodEnds \/ GraceEnds
  <2>1. sub'.status = sub.status /\ sub'.cycle = sub.cycle
    BY <1>11 DEF CancelAtPeriodEnd, PeriodEnds, GraceEnds, Row, Subs
  <2>2. QED
    BY <1>3, <1>11, <2>1, AccountsKept DEF CancelAtPeriodEnd, PeriodEnds, GraceEnds
<1>12. CASE ForceTerminal
  BY <1>1, <1>3, <1>12 DEF ForceTerminal
<1>13. CASE CreatePayment \/ TopUp \/ CallbackFindsNone \/ CallbackFails \/ UNCHANGED vars
  BY <1>2, <1>3, <1>13 DEF CreatePayment, TopUp, CallbackFindsNone, CallbackFails, vars
<1>14. ASSUME NEW k, PayOrder(k) \/ CallbackLocksOrder(k) PROVE Accounts'
  BY <1>2, <1>3, <1>14 DEF PayOrder, CallbackLocksOrder
<1>15. CASE JobFails \/ ReadTimeout
  <2>1. CASE Rollback /\ job # NoJob
    BY <1>8, <2>1
  <2>2. CASE UNCHANGED <<plan, bills, sub, orders>>
    BY <1>2, <1>3, <2>2
  <2>3. QED
    BY <1>15, <2>1, <2>2 DEF JobFails, ReadTimeout, CircularWait, NoJob
<1>16. QED
  BY <1>4, <1>5, <1>6, <1>7, <1>8, <1>9, <1>10, <1>11, <1>12, <1>13, <1>14, <1>15
  DEF Next, Subscribe, Bill, Callback, Environment

-----------------------------------------------------------------------------
(* What follows a cancellation *)

LEMMA NextArrears ==
    ASSUME Row, Arrears, [Next]_vars PROVE Arrears'
<1>1. CASE OrdersExhausted \/ ChargeWallet
  <2>1. PeriodDue
    BY <1>1 DEF OrdersExhausted, ChargeWallet, Due, Arrears
  <2>2. sub' = Extended(sub) \/ sub' = InArrears(sub)
    BY <1>1 DEF OrdersExhausted, ChargeWallet
  <2>3. Extended(sub).status = "active" /\ InArrears(sub).left = sub.left
    BY DEF Extended, InArrears, Row, Subs
  <2>4. QED
    BY <2>1, <2>2, <2>3 DEF Arrears, PeriodDue
<1>2. ASSUME sub' = Extended(sub) \/ \E s \in Dead : sub' = Ended(sub, s) PROVE Arrears'
  BY <1>2, RowChanges DEF Arrears, Dead
<1>3. CASE SubscribeNow
  BY <1>3 DEF SubscribeNow, Arrears, Row, Subs
<1>4. ASSUME NEW s \in {"gone", "trialing", "active"},
             sub' = [sub EXCEPT !.status = IF @ = "new" THEN s ELSE @]
      PROVE  Arrears'
  <2>1. sub'.left = sub.left
    BY <1>4 DEF Row, Subs
  <2>2. QED
    BY <1>4, <2>1, RowStarts DEF Arrears, PeriodDue
<1>5. CASE EndSubscription
  <2>1. EndsNow \in {"no"} \cup Dead
    BY DEF EndsNow, Dead
  <2>2. QED
    BY <1>2, <1>5, <2>1 DEF EndSubscription
<1>6. CASE CancelAtPeriodEnd \/ PeriodEnds \/ GraceEnds
  BY <1>6 DEF CancelAtPeriodEnd, PeriodEnds, GraceEnds, Arrears, PeriodDue, Row, Subs
<1>7. CASE UNCHANGED sub
  BY <1>7 DEF Arrears, PeriodDue
<1>8. CASE CallbackFulfils \/ ForceTerminal
  BY <1>2, <1>7, <1>8 DEF CallbackFulfils, ForceTerminal
<1>9. CASE RecordSession \/ Rollback
  BY <1>4, <1>9 DEF RecordSession, Rollback
<1>10. QED
  BY <1>1, <1>3, <1>5, <1>6, <1>7, <1>8, <1>9
  DEF Next, Subscribe, SubscribeByOrder, Bill, ChargeByOrder, CreatePayment, JobFails,
      Callback, CallbackLocksOrder, CallbackFindsNone, CallbackFails, ReadTimeout,
      Environment, PayOrder, LapseOrder, TopUp, vars

\* The record made of the cancellation, which waits for a renewal that runs.
LEMMA CancelRecords ==
    ASSUME Row, Register, Accounts, CancelAtPeriodEnd PROVE Cancelled'
<1>1. /\ job = NoJob /\ job' = NoJob /\ UNCHANGED <<bills, orders, sessions, notices>>
      /\ sub' = [sub EXCEPT !.cancel = TRUE] /\ sub.status \in Live
      /\ atCancel' = [cycle |-> sub.cycle, bills |-> bills, payable |-> Payable,
                      paid |-> Cardinality(Paid)]
  BY DEF CancelAtPeriodEnd, RowFree, Books
<1>2. sub'.status = sub.status /\ sub'.cycle = sub.cycle /\ sub'.cancel = TRUE
  BY <1>1 DEF Row, Subs
<1>3. Paid' = Paid /\ Payable' = Payable
  BY <1>1 DEF Paid, Payable
<1>4. Cardinality(Paid) \in Nat /\ sub.cycle \in Nat
  BY FS_CardinalityType DEF Accounts, Row, Subs
<1>5. bills \in SUBSET Nat /\ Payable \in SUBSET OrderKey
  BY DEF Accounts, Payable, Paid, Register
<1>6. atCancel' \in Cancellation
  BY <1>1, <1>4, <1>5 DEF Cancellation
<1>7. QED
  BY <1>1, <1>2, <1>3, <1>4, <1>6 DEF Cancelled

LEMMA NextCancelled ==
    ASSUME Row, Register, Placed, Accounts, Arrears, Cancelled, [Next]_vars
    PROVE  Cancelled'
<1> USE DEF Books
<1>1. CASE CancelAtPeriodEnd
  BY <1>1, CancelRecords
<1>2. CASE ~CancelAtPeriodEnd
  <2>1. atCancel' = atCancel
    BY <1>2 DEF Next, Subscribe, SubscribeNow, SubscribeByOrder, Bill, EndSubscription,
      ChargeWallet, ChargeByOrder, OrdersExhausted, CreatePayment, RecordSession, JobFails,
      Rollback, Callback, CallbackLocksOrder, CallbackFulfils, CallbackFindsNone,
      CallbackFails, ReadTimeout, Environment, PayOrder, LapseOrder, ForceTerminal, TopUp,
      PeriodEnds, GraceEnds, vars
  <2>2. SUFFICES ASSUME atCancel # None PROVE Cancelled'
    BY <2>1 DEF Cancelled
  <2>3. /\ atCancel \in Cancellation /\ job = NoJob /\ bills = atCancel.bills
        /\ sub.status \in Live \cup Dead /\ (sub.status \in Live => sub.cancel)
        /\ Payable \subseteq atCancel.payable
        /\ sub.cycle - atCancel.cycle <= Cardinality(Paid) - atCancel.paid
    BY <2>2 DEF Cancelled
  <2>4. /\ sub.cycle \in Nat /\ Cardinality(Paid) \in Nat
        /\ atCancel.cycle \in Nat /\ atCancel.paid \in Nat
    BY <2>3, FS_CardinalityType DEF Accounts, Row, Subs, Cancellation
  \* Nothing moves but the row, which is neither renewed nor revived.
  <2>5. ASSUME UNCHANGED <<job, bills>>, Payable' \subseteq Payable, Paid' = Paid,
               sub'.cycle = sub.cycle, sub'.status \in Live \cup Dead,
               sub'.status \in Live => sub'.cancel
        PROVE  Cancelled'
    BY <2>1, <2>3, <2>5 DEF Cancelled
  <2>6. ASSUME UNCHANGED <<job, bills, sub>>, Payable' \subseteq Payable, Paid' = Paid
        PROVE  Cancelled'
    BY <2>3, <2>5, <2>6
  <2>7. orders' = orders => Paid' = Paid
    BY DEF Paid
  <2>8. UNCHANGED <<orders, sessions, notices>> => Payable' = Payable
    BY DEF Payable, Paid
  <2>9. CASE Subscribe \/ CreatePayment \/ RecordSession \/ JobFails \/ ReadTimeout
    BY <2>3, <2>9 DEF Subscribe, SubscribeNow, SubscribeByOrder, CreatePayment,
      RecordSession, JobFails, ReadTimeout, CircularWait, NoJob, Live, Dead
  <2>10. ASSUME NEW s \in Dead, sub' = Ended(sub, s),
                UNCHANGED <<job, bills, orders, sessions, notices>>
         PROVE  Cancelled'
    <3>1. sub'.status = s /\ sub'.cycle = sub.cycle /\ s \notin Live
      BY <2>10, RowChanges DEF Live, Dead
    <3>2. QED
      BY <2>5, <2>7, <2>8, <2>10, <3>1
  <2>11. CASE Bill
    <3>1. sub.status \in Live /\ PeriodDue /\ EndsNow = "canceled"
      BY <2>3, <2>11 DEF Bill, EndSubscription, ChargeWallet, ChargeByOrder,
        OrdersExhausted, Due, Arrears, EndsNow
    <3>2. EndSubscription
      BY <2>11, <3>1 DEF Bill, ChargeWallet, ChargeByOrder, OrdersExhausted
    <3>3. QED
      BY <2>10, <3>1, <3>2 DEF EndSubscription, Dead
  <2>12. CASE ForceTerminal
    BY <2>10, <2>12 DEF ForceTerminal
  <2>13. CASE PeriodEnds \/ GraceEnds
    <3>1. /\ UNCHANGED <<job, bills, orders, sessions, notices>>
          /\ sub'.cycle = sub.cycle /\ sub'.status = sub.status /\ sub'.cancel = sub.cancel
      BY <2>13 DEF PeriodEnds, GraceEnds, Row, Subs
    <3>2. QED
      BY <2>3, <2>5, <2>7, <2>8, <3>1
  <2>14. CASE TopUp \/ CallbackFindsNone \/ CallbackFails \/ UNCHANGED vars
    BY <2>6, <2>7, <2>8, <2>14 DEF TopUp, CallbackFindsNone, CallbackFails, vars
  <2>15. ASSUME NEW k, PayOrder(k) \/ CallbackLocksOrder(k) PROVE Cancelled'
    <3>1. UNCHANGED <<job, bills, sub, orders>> /\ Payable' \subseteq Payable
      BY <2>7, <2>15 DEF PayOrder, CallbackLocksOrder, Payable
    <3>2. QED
      BY <2>6, <2>7, <3>1
  <2>16. ASSUME NEW k \in OrderKey, LapseOrder(k) PROVE Cancelled'
    <3>1. PICK s \in Lapsed : orders' = [orders EXCEPT ![k] = s]
      BY <2>16 DEF LapseOrder
    <3>2. Paid' = Paid
      BY <2>16, <3>1, SamePaid DEF LapseOrder, Register, Lapsed
    <3>3. UNCHANGED <<job, bills, sub>> /\ Payable' \subseteq Payable
      BY <2>16, <3>2 DEF LapseOrder, Payable
    <3>4. QED
      BY <2>6, <3>2, <3>3
  <2>17. CASE CallbackFulfils
    <3>1. /\ callback \in notices /\ callback \in OrderKey /\ orders[callback] # "paid"
          /\ orders' = [orders EXCEPT ![callback] = "paid"]
          /\ notices' \subseteq notices /\ UNCHANGED <<job, bills, sessions>>
      BY <2>17 DEF CallbackFulfils, Register, Placed
    <3>2. callback \notin Paid /\ Paid' = Paid \cup {callback}
      BY <3>1 DEF Paid, Register
    <3>3. Cardinality(Paid') = Cardinality(Paid) + 1
      BY <3>2, FS_AddElement DEF Accounts
    <3>4. Payable' \subseteq Payable
      BY <3>1, <3>2 DEF Payable
    <3>5. /\ sub'.cycle \in {sub.cycle, sub.cycle + 1} /\ sub'.status \in Live \cup Dead
          /\ sub'.status \in Live => sub'.cancel
      <4>1. CASE sub' = sub
        BY <2>3, <4>1
      <4>2. CASE sub' = Extended(sub) /\ sub.status \in Live
        <5>1. sub'.cancel = sub.cancel
          BY <4>2 DEF Extended, Row, Subs
        <5>2. QED
          BY <2>3, <4>2, <5>1, RowChanges DEF Live
      <4>3. QED
        BY <2>17, <4>1, <4>2 DEF CallbackFulfils
    <3>6. QED
      BY <2>1, <2>3, <2>4, <3>1, <3>3, <3>4, <3>5 DEF Cancelled
  <2>18. QED
    BY <1>2, <2>9, <2>11, <2>12, <2>13, <2>14, <2>15, <2>16, <2>17
    DEF Next, Callback, Environment
<1>3. QED
  BY <1>1, <1>2

-----------------------------------------------------------------------------
(* Theorems *)

LEMMA Inductive == Spec => []IInv
<1>1. Init => IInv
  <2>1. Init => Arrears /\ Cancelled
    BY DEF Init, Fresh, Arrears, Cancelled
  <2>2. QED
    BY <2>1, InitRow, InitRegister, InitAccounts DEF IInv
<1>2. IInv /\ [Next]_vars => IInv'
  BY NextRow, NextRegister, NextAccounts, NextArrears, NextCancelled DEF IInv
<1>3. QED
  BY <1>1, <1>2, PTL DEF Spec

\* Every variable keeps its type, and a grace period is over in arrears only.
THEOREM TypeCorrect == Spec => []TypeOK
<1> DEFINE Rest == /\ plan \in [billing : {"free", "wallet", "order"}, trial : BOOLEAN]
                   /\ wallet \in {0, 1} /\ errors \in 0 .. MaxErrors
<1>1. Init => Rest
  BY SubscriptionAssumption DEF Init
<1>2. ASSUME Rest, [Next]_vars PROVE Rest'
  <2> USE DEF Books
  <2>1. plan' = plan
    BY <1>2 DEF Next, Subscribe, SubscribeNow, SubscribeByOrder, Bill, EndSubscription,
      ChargeWallet, ChargeByOrder, OrdersExhausted, CreatePayment, RecordSession, JobFails,
      Rollback, Callback, CallbackLocksOrder, CallbackFulfils, CallbackFindsNone,
      CallbackFails, ReadTimeout, Environment, PayOrder, LapseOrder, CancelAtPeriodEnd,
      ForceTerminal, TopUp, PeriodEnds, GraceEnds, vars
  <2>2. wallet' \in {0, 1}
    BY <1>2 DEF Next, Subscribe, SubscribeNow, SubscribeByOrder, Bill, EndSubscription,
      ChargeWallet, ChargeByOrder, OrdersExhausted, CreatePayment, RecordSession, JobFails,
      Rollback, Callback, CallbackLocksOrder, CallbackFulfils, CallbackFindsNone,
      CallbackFails, ReadTimeout, Environment, PayOrder, LapseOrder, CancelAtPeriodEnd,
      ForceTerminal, TopUp, PeriodEnds, GraceEnds, vars
  <2>3. errors' = errors \/ (errors < MaxErrors /\ errors' = errors + 1)
    BY <1>2 DEF Next, Subscribe, SubscribeNow, SubscribeByOrder, Bill, EndSubscription,
      ChargeWallet, ChargeByOrder, OrdersExhausted, CreatePayment, RecordSession, JobFails,
      Rollback, Callback, CallbackLocksOrder, CallbackFulfils, CallbackFindsNone,
      CallbackFails, ReadTimeout, Environment, PayOrder, LapseOrder, CancelAtPeriodEnd,
      ForceTerminal, TopUp, PeriodEnds, GraceEnds, vars
  <2>4. errors' \in 0 .. MaxErrors
    BY <1>2, <2>3, SubscriptionAssumption
  <2>5. QED
    BY <1>2, <2>1, <2>2, <2>4
<1>3. IInv /\ Rest => TypeOK
  BY DEF IInv, Row, Subs, Register, OrderStatus, Accounts, Cancelled, Cancellation, TypeOK
<1>4. QED
  BY <1>1, <1>2, <1>3, Inductive, PTL DEF Spec

\* A wallet is charged for exactly the periods it was granted, and an order-billed
\* subscription is renewed at most once for each order that was paid, whatever is
\* retried, rolled back or confirmed late, over any number of cycles.
THEOREM EveryRenewalPaid == Spec => []RenewalsPaid
<1>1. IInv => RenewalsPaid
  <2> SUFFICES ASSUME IInv PROVE RenewalsPaid
    OBVIOUS
  <2>1. sub.cycle \in Nat /\ Cardinality(bills) \in Nat
    BY FS_CardinalityType DEF IInv, Row, Subs, Accounts
  <2>2. CASE plan.billing = "wallet"
    <3>1. sub.cycle - Covered = Cardinality(bills)
      BY <2>2 DEF IInv, Accounts
    <3>2. Covered = IF plan.trial \/ sub.status = "new" THEN 1 ELSE 0
      BY <2>2 DEF Covered, FromFirst
    <3>3. QED
      BY <2>1, <2>2, <3>1, <3>2 DEF RenewalsPaid
  <2>3. CASE plan.billing # "wallet"
    BY <2>3 DEF RenewalsPaid, IInv, Accounts
  <2>4. QED
    BY <2>2, <2>3
<1>2. QED
  BY <1>1, Inductive, PTL

\* Of the attempts at a cycle at most one is paid or can still be, for any
\* number of attempts: each is placed only after those before it have lapsed,
\* and what has lapsed stays so.
THEOREM ChargedOnce == Spec => []SingleCharge
<1>1. IInv => SingleCharge
  <2> SUFFICES ASSUME IInv, NEW c \in 0 .. MaxCycles
               PROVE  Cardinality({a \in 1 .. MaxAttempts :
                        orders[<<c, a>>] \in {"created", "paying", "paid"}}) <= 1
    BY DEF SingleCharge
  <2> DEFINE S == {a \in 1 .. MaxAttempts :
                     orders[<<c, a>>] \in {"created", "paying", "paid"}}
  <2>1. ASSUME NEW a \in S, NEW b \in S PROVE a = b
    <3>1. a \in 1 .. MaxAttempts /\ b \in 1 .. MaxAttempts
      OBVIOUS
    <3>2. orders[<<c, a>>] \notin Lapsed \cup {"absent"} /\ orders[<<c, b>>] \notin Lapsed \cup {"absent"}
      BY DEF Lapsed
    <3>3. ~(a < b) /\ ~(b < a)
      BY <3>1, <3>2 DEF IInv, Ordered
    <3>4. QED
      BY <3>1, <3>3, SubscriptionAssumption
  <2>2. S = {} \/ \E x : S = {x}
    <3> HIDE DEF S
    <3>1. QED
      BY <2>1
  <2>3. Cardinality(S) <= 1
    <3> HIDE DEF S
    <3>1. CASE S = {}
      BY <3>1, FS_EmptySet
    <3>2. ASSUME NEW x, S = {x} PROVE Cardinality(S) <= 1
      <4>1. Cardinality({x}) = 1
        BY FS_Singleton
      <4>2. QED
        BY <3>2, <4>1
    <3>3. QED
      BY <2>2, <3>1, <3>2
  <2>4. QED
    BY <2>3
<1>2. QED
  BY <1>1, Inductive, PTL

\* After a cancellation the wallet is not charged, no order becomes payable that
\* was not, and each payment of an earlier one prolongs the period once at most,
\* for any number of cycles, attempts and errors: the renewal that runs is waited
\* for, and whoever looks at the row afterwards finds that it ends.
THEOREM CancelledForGood == Spec => []NothingNewAfterCancel
<1>1. IInv => NothingNewAfterCancel
  BY DEF IInv, Cancelled, NothingNewAfterCancel
<1>2. QED
  BY <1>1, Inductive, PTL
=============================================================================
