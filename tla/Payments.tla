------------------------------- MODULE Payments -------------------------------
(* One-off purchases: the order row, the recorded callbacks and the           *)
(* fulfilment row of a project; the payment provider with its notifications,  *)
(* which come late, twice, in any order, or after the order has lapsed; and   *)
(* the calls that talk to the provider between two transactions.              *)

CONSTANT Orders  \* orders, each with its idempotency key

VARIABLES
    channel,     \* external: paid through a checkout session or in an app store
    money,       \* external: what the provider has done with the money
    sent,        \* external: notifications the provider has issued
    status,      \* payment_orders.status
    seen,        \* payment_callback_events
    fulfilment,  \* payment_fulfillments.status
    ledger,      \* idempotency keys used in the asset ledger
    calls,       \* calls between their unlocked read and their transaction
    early        \* observed: orders whose refund was recorded before they were paid

vars == <<channel, money, sent, status, seen, fulfilment, ledger, calls, early>>

external == <<channel, money, sent>>
rows == <<status, seen, fulfilment, ledger, early>>

\* "receipt" is the notification an app presents itself; full says whether the
\* amount is the order's.
Event == [order : Orders, type : {"paid", "receipt", "failed", "refunded"},
          full : BOOLEAN]

Call == [order : Orders,
         pc : {"session open", "refund", "returned", "accepted", "manual"}]

\* The keys "fulfill:<order>" and "reverse:<order>".
Key == {"fulfill", "reverse"} \X Orders

Unpaid == {"created", "paying"}
PaidOnce == {"paid", "refunding", "refunded"}
Lapsed == {"failed", "closed"}

\* allowedTransitions
CanTransition(from, to) ==
    <<from, to>> \in
      (Unpaid \X ({"paid"} \cup Lapsed)) \cup {<<"created", "paying">>,
       <<"paid", "refunding">>, <<"paid", "refunded">>, <<"refunding", "refunded">>}

Transition(o, to) ==
    /\ CanTransition(status[o], to)
    /\ status' = [status EXCEPT ![o] = to]

Notice(o, type, full) == [order |-> o, type |-> type, full |-> full]

Init ==
    /\ channel \in [Orders -> {"checkout", "store"}]
    /\ money = [o \in Orders |-> "none"]
    /\ sent = {}
    /\ status = [o \in Orders |-> "absent"]
    /\ seen = {}
    /\ fulfilment = [o \in Orders |-> "absent"]
    /\ ledger = {}
    /\ calls = {}
    /\ early = {}

-----------------------------------------------------------------------------
(* The payment provider *)

\* The buyer pays, in full or, in a store with prices of its own, another
\* amount.
Pay(o) ==
    /\ money[o] = "payable"
    /\ \E full \in (IF channel[o] = "store" THEN BOOLEAN ELSE {TRUE}) :
         /\ money' = [money EXCEPT ![o] = IF full THEN "captured" ELSE "short"]
         /\ sent' = sent \cup
              {Notice(o, t, full) : t \in IF channel[o] = "store"
                                          THEN {"paid", "receipt"} ELSE {"paid"}}
    /\ UNCHANGED <<channel, rows, calls>>

\* A declined attempt; the buyer may try again.
DeclinePayment(o) ==
    /\ money[o] = "payable"
    /\ sent' = sent \cup {Notice(o, "failed", TRUE)}
    /\ UNCHANGED <<channel, money, rows, calls>>

\* An accepted refund is executed, or the provider refunds by itself.
ReturnMoney(o) ==
    /\ money[o] \in {"captured", "refunding"}
    /\ money' = [money EXCEPT ![o] = "returned"]
    /\ sent' = sent \cup {Notice(o, "refunded", TRUE)}
    /\ UNCHANGED <<channel, rows, calls>>

\* A part of the money goes back.
ReturnPart(o) ==
    /\ money[o] = "captured"
    /\ sent' = sent \cup {Notice(o, "refunded", FALSE)}
    /\ UNCHANGED <<channel, money, rows, calls>>

-----------------------------------------------------------------------------
(* Creating and closing an order *)

\* A retry under the same key finds the row and changes nothing.
InsertOrder(o) ==
    /\ status[o] = "absent"
    /\ status' = [status EXCEPT ![o] = "created"]
    /\ money' = [money EXCEPT ![o] = IF channel[o] = "store" THEN "payable" ELSE @]
    /\ UNCHANGED <<channel, sent, seen, fulfilment, ledger, early, calls>>

\* Outside of any transaction the provider opens the session, once per order;
\* from here on the buyer can pay.
OpenSession(o) ==
    /\ channel[o] = "checkout"
    /\ status[o] = "created"
    /\ money' = [money EXCEPT ![o] = IF @ = "none" THEN "payable" ELSE @]
    /\ calls' = calls \cup {[order |-> o, pc |-> "session open"]}
    /\ UNCHANGED <<channel, sent, rows>>

\* The second transaction: an order somebody else has moved stays as it is.
RecordSession(c) ==
    /\ c.pc = "session open"
    /\ IF status[c.order] = "created"
       THEN Transition(c.order, "paying")
       ELSE UNCHANGED status
    /\ calls' = calls \ {c}
    /\ UNCHANGED <<external, seen, fulfilment, ledger, early>>

\* CloseExpiredInProject, once the order has expired.
CloseExpired(o) ==
    /\ status[o] \in Unpaid
    /\ Transition(o, "closed")
    /\ UNCHANGED <<external, seen, fulfilment, ledger, early, calls>>

-----------------------------------------------------------------------------
(* Callbacks: one transaction, which records the event, locks the order and   *)
(* moves it.  A transaction that fails leaves no trace, the event included,   *)
(* and the provider sends the event again.                                    *)

Record(e) == e \notin seen /\ seen' = seen \cup {e}

\* Faulty variant: the row is not marked done.
FulfilPending(o) ==
    /\ ledger' = ledger \cup {<<"fulfill", o>>}
    /\ fulfilment' = [fulfilment EXCEPT ![o] = "pending"]

\* Grant by the key of the order, then the row is done.
Fulfil(o) ==
    /\ ledger' = ledger \cup {<<"fulfill", o>>}
    /\ fulfilment' = [fulfilment EXCEPT ![o] = "done"]

\* Faulty variant: only an order whose session was recorded can be paid.
ApplyPaidPaying(e) ==
    /\ e.type \in {"paid", "receipt"}
    /\ IF status[e.order] = "paying"
       THEN e.full /\ Transition(e.order, "paid") /\ Fulfil(e.order)
       ELSE UNCHANGED <<status, ledger, fulfilment>>
    /\ UNCHANGED early

\* applyPaid: an order that was paid before, or has lapsed, stays as it is;
\* another amount is an error.
ApplyPaid(e) ==
    /\ e.type \in {"paid", "receipt"}
    /\ IF status[e.order] \in Unpaid
       THEN e.full /\ Transition(e.order, "paid") /\ Fulfil(e.order)
       ELSE UNCHANGED <<status, ledger, fulfilment>>
    /\ UNCHANGED early

\* applyTerminal
ApplyFailed(e) ==
    /\ e.type = "failed"
    /\ IF CanTransition(status[e.order], "failed")
       THEN Transition(e.order, "failed")
       ELSE UNCHANGED status
    /\ UNCHANGED <<ledger, fulfilment, early>>

\* Faulty variant: a reversal that fails is only logged.
ReverseOrLog(o) ==
    \/ ledger' = ledger \cup {<<"reverse", o>>} /\ UNCHANGED fulfilment
    \/ UNCHANGED <<ledger, fulfilment>>

\* Reverse consumes what was granted, by a key of its own; when the buyer has
\* used the goods up, or their definition is archived, the debt is recorded.
ReverseOrOwe(o) ==
    \/ ledger' = ledger \cup {<<"reverse", o>>} /\ UNCHANGED fulfilment
    \/ fulfilment' = [fulfilment EXCEPT ![o] = "reverse_failed"] /\ UNCHANGED ledger

Refund(o) == Transition(o, "refunded") /\ ReverseOrOwe(o)

\* Faulty variant: an order whose refund was only accepted is not refunded.
ApplyRefundedPaidOnly(e) ==
    /\ e.type = "refunded"
    /\ IF status[e.order] = "paid" /\ e.full
       THEN Refund(e.order)
       ELSE UNCHANGED <<status, ledger, fulfilment>>
    /\ early' = IF status[e.order] \in Unpaid /\ e.full THEN early \cup {e.order} ELSE early

\* applyRefunded: an order that was never paid, and a partial refund, are left
\* alone; the event stays recorded.
ApplyRefunded(e) ==
    /\ e.type = "refunded"
    /\ IF status[e.order] \in {"paid", "refunding"} /\ e.full
       THEN Refund(e.order)
       ELSE UNCHANGED <<status, ledger, fulfilment>>
    /\ early' = IF status[e.order] \in Unpaid /\ e.full THEN early \cup {e.order} ELSE early

\* HandleCallback, VerifyReceipt
HandleCallback(e) ==
    /\ Record(e)
    /\ ApplyPaid(e) \/ ApplyFailed(e) \/ ApplyRefunded(e)
    /\ UNCHANGED <<external, calls>>

-----------------------------------------------------------------------------
(* Administrators: an unlocked read, a call, a transaction *)

\* Refund and ManualFulfill only start on an order they read as paid.
BeginCall(o, pc) ==
    /\ status[o] = "paid"
    /\ calls' = calls \cup {[order |-> o, pc |-> pc]}
    /\ UNCHANGED <<external, rows>>

\* The provider answers a refund at once or accepts it for later; the key of
\* the order makes a repeated request the same refund.
RequestRefund(c) ==
    LET o == c.order IN
    /\ c.pc = "refund"
    /\ \/ /\ money[o] \in {"captured", "returned"}
          /\ money' = [money EXCEPT ![o] = "returned"]
          /\ sent' = sent \cup {Notice(o, "refunded", TRUE)}
          /\ calls' = (calls \ {c}) \cup {[c EXCEPT !.pc = "returned"]}
       \/ /\ money[o] \in {"captured", "refunding"}
          /\ money' = [money EXCEPT ![o] = "refunding"]
          /\ calls' = (calls \ {c}) \cup {[c EXCEPT !.pc = "accepted"]}
          /\ UNCHANGED sent
    /\ UNCHANGED <<channel, rows>>

\* Faulty variant: a refund that was only accepted counts as done.
CommitRefundAtOnce(c) ==
    /\ c.pc \in {"returned", "accepted"}
    /\ IF status[c.order] = "paid"
       THEN Refund(c.order)
       ELSE UNCHANGED <<status, ledger, fulfilment>>
    /\ calls' = calls \ {c}
    /\ UNCHANGED <<external, seen, early>>

\* The transaction after it: whoever moved the order first has won.
CommitRefund(c) ==
    /\ c.pc \in {"returned", "accepted"}
    /\ IF status[c.order] # "paid"
       THEN UNCHANGED <<status, ledger, fulfilment>>
       ELSE IF c.pc = "returned"
            THEN Refund(c.order)
            ELSE Transition(c.order, "refunding") /\ UNCHANGED <<ledger, fulfilment>>
    /\ calls' = calls \ {c}
    /\ UNCHANGED <<external, seen, early>>

\* ManualFulfill: everything but a done row is fulfilled again and marked done,
\* without another look at the order.
CommitManual(c) ==
    /\ c.pc = "manual"
    /\ IF fulfilment[c.order] = "done"
       THEN UNCHANGED <<ledger, fulfilment>>
       ELSE Fulfil(c.order)
    /\ calls' = calls \ {c}
    /\ UNCHANGED <<external, status, seen, early>>

\* A call ends on an error, on a rolled back transaction, or with its process.
DropCall(c) ==
    /\ calls' = calls \ {c}
    /\ UNCHANGED <<external, rows>>

-----------------------------------------------------------------------------

Provider(o) == Pay(o) \/ DeclinePayment(o) \/ ReturnMoney(o) \/ ReturnPart(o)

Order(o) ==
    \/ InsertOrder(o) \/ OpenSession(o) \/ CloseExpired(o)
    \/ \E pc \in {"refund", "manual"} : BeginCall(o, pc)

Continue(c) ==
    \/ RecordSession(c) \/ RequestRefund(c) \/ CommitRefund(c)
    \/ CommitManual(c) \/ DropCall(c)

Next ==
    \/ \E o \in Orders : Provider(o) \/ Order(o)
    \/ \E e \in sent : HandleCallback(e)
    \/ \E c \in calls : Continue(c)

Spec == Init /\ [][Next]_vars

\* A provider repeats an event until it is answered; nobody else has to do
\* anything for a purchase to be resolved.
FairSpec == Spec /\ \A e \in Event : WF_vars(e \in sent /\ HandleCallback(e))

-----------------------------------------------------------------------------
(* Properties *)

\* Every variable keeps its type.
TypeOK ==
    /\ channel \in [Orders -> {"checkout", "store"}]
    /\ money \in [Orders -> {"none", "payable", "captured", "short", "refunding",
                             "returned"}]
    /\ sent \in SUBSET Event
    /\ status \in [Orders -> {"absent"} \cup Unpaid \cup PaidOnce \cup Lapsed]
    /\ seen \in SUBSET sent
    /\ fulfilment \in [Orders -> {"absent", "done", "reverse_failed"}]
    /\ ledger \in SUBSET Key
    /\ calls \in SUBSET Call
    /\ early \in SUBSET Orders

\* Goods are granted only for money that was captured in full, and taken back
\* only for money the provider has returned: an order created, paid, expired,
\* refunded and fulfilled by hand in any order never grants on trust.
GoodsFollowMoney ==
    \A o \in Orders :
      /\ <<"fulfill", o>> \in ledger => money[o] \in {"captured", "refunding", "returned"}
      /\ <<"reverse", o>> \in ledger =>
           money[o] = "returned" /\ <<"fulfill", o>> \in ledger

\* The purchase as its contract sees it.
Purse(o) ==
    CASE money[o] \in {"none", "payable", "short"} -> "buyer"
      [] money[o] \in {"captured", "refunding"} -> "shop"
      [] OTHER -> "returned"

Goods(o) ==
    CASE status[o] \in {"absent"} \cup Unpaid -> "ordered"
      [] status[o] \in Lapsed -> "lapsed"
      [] status[o] \in {"paid", "refunding"} -> "delivered"
      [] status[o] = "refunded" /\ <<"reverse", o>> \in ledger -> "taken back"
      [] status[o] = "refunded" /\ fulfilment[o] = "reverse_failed" -> "owed"
      [] OTHER -> "cleared"

Contract ==
    INSTANCE PurchaseContract WITH money <- [o \in Orders |-> Purse(o)],
                                   goods <- [o \in Orders |-> Goods(o)]

\* The machinery keeps the contract: in particular a refund that cannot take the
\* goods back leaves a record of the debt.
KeepsContract == Contract!Spec

\* A full payment is delivered, unless the order had lapsed before it came.
PaidIsResolved ==
    \A o \in Orders : money[o] = "captured" ~> status[o] \in PaidOnce \cup Lapsed

\* Returned money reaches the order, whatever call died on the way, unless the
\* refund overtook the payment.
RefundReaches ==
    \A o \in Orders :
      money[o] = "returned" ~> status[o] \in {"refunded"} \cup Lapsed \/ o \in early
=============================================================================
