---------------------------- MODULE PaymentsProofs ----------------------------
(* Proofs about Payments, for any set of orders: type correctness, that goods *)
(* follow the money, and that the machinery implements the contract of a      *)
(* purchase.  Both rest on an inductive invariant: what the provider has said *)
(* is true of the money, what a call has seen is still true of its order, and *)
(* status, ledger and money of an order agree.                                *)
EXTENDS Payments, TLAPS

\* The provider has had the whole price of an order.
HasPaid(o) == money[o] \in {"captured", "refunding", "returned"}

\* A notice, however late, is true of the money.
NoticesTrue ==
    \A e \in sent : e.full =>
      /\ e.type \in {"paid", "receipt"} => HasPaid(e.order)
      /\ e.type = "refunded" => money[e.order] = "returned"

\* Calls are made about orders that were paid, and what they were told is true.
CallsTrue ==
    \A c \in calls :
      /\ c.pc # "session open" => status[c.order] \in PaidOnce
      /\ c.pc = "returned" => money[c.order] = "returned"

\* The rows of an order agree with each other and with its money.
RowsAgree ==
    \A o \in Orders :
      /\ status[o] \in PaidOnce <=> <<"fulfill", o>> \in ledger
      /\ status[o] \in PaidOnce => HasPaid(o)
      /\ status[o] = "refunded" => money[o] = "returned"
      /\ <<"reverse", o>> \in ledger => status[o] = "refunded"
      /\ status[o] = "absent" => money[o] = "none"

IInv == NoticesTrue /\ CallsTrue /\ RowsAgree

-----------------------------------------------------------------------------
(* The transition table *)

\* What allowedTransitions says of each target the code moves an order to.
LEMMA TransitionTable ==
    ASSUME NEW from
    PROVE  /\ CanTransition(from, "paying") <=> from = "created"
           /\ CanTransition(from, "paid") <=> from \in Unpaid
           /\ CanTransition(from, "failed") <=> from \in Unpaid
           /\ CanTransition(from, "closed") <=> from \in Unpaid
           /\ CanTransition(from, "refunding") <=> from = "paid"
           /\ CanTransition(from, "refunded") <=> from \in {"paid", "refunding"}
  BY DEF CanTransition, Unpaid, Lapsed

-----------------------------------------------------------------------------
(* Type correctness *)

LEMMA TypeInit == Init => TypeOK
  BY DEF Init, TypeOK, Event, Call, Key, Unpaid, PaidOnce, Lapsed

\* The statuses, as one set.
Statuses == {"absent", "created", "paying", "paid", "refunding", "refunded",
             "failed", "closed"}

LEMMA StatusSet == {"absent"} \cup Unpaid \cup PaidOnce \cup Lapsed = Statuses
  BY DEF Unpaid, PaidOnce, Lapsed, Statuses

\* Setting the status of an order, recording a reversal and granting keep the
\* types of the rows.
LEMMA RefundTypes ==
    ASSUME TypeOK, NEW o \in Orders, Refund(o)
    PROVE  /\ status' \in [Orders -> Statuses]
           /\ fulfilment' \in [Orders -> {"absent", "done", "reverse_failed"}]
           /\ ledger' \in SUBSET Key
  <1>1. status \in [Orders -> Statuses]
    BY StatusSet DEF TypeOK
  <1>2. status' = [status EXCEPT ![o] = "refunded"]
    BY DEF Refund, Transition
  <1>3. status' \in [Orders -> Statuses]
    BY <1>1, <1>2 DEF Statuses
  <1>4. <<"reverse", o>> \in Key
    BY DEF Key
  <1> QED  BY <1>3, <1>4 DEF TypeOK, Refund, ReverseOrOwe

LEMMA FulfilTypes ==
    ASSUME TypeOK, NEW o \in Orders, Fulfil(o)
    PROVE  /\ fulfilment' \in [Orders -> {"absent", "done", "reverse_failed"}]
           /\ ledger' \in SUBSET Key
  <1>1. <<"fulfill", o>> \in Key
    BY DEF Key
  <1> QED  BY <1>1 DEF TypeOK, Fulfil

LEMMA TypeStep ==
    ASSUME TypeOK, [Next]_vars
    PROVE  TypeOK'
  <1> USE StatusSet
  <1> USE DEF external, rows
  <1>1. ASSUME NEW o \in Orders, Pay(o)  PROVE TypeOK'
    <2>1. \A f \in BOOLEAN, t \in {"paid", "receipt"} : Notice(o, t, f) \in Event
      BY DEF Notice, Event
    <2>2. PICK full \in BOOLEAN :
            /\ money' = [money EXCEPT ![o] = IF full THEN "captured" ELSE "short"]
            /\ sent' = sent \cup
                 {Notice(o, t, full) : t \in IF channel[o] = "store"
                                             THEN {"paid", "receipt"} ELSE {"paid"}}
      BY <1>1 DEF Pay
    <2>3. sent \in SUBSET Event /\ sent' \in SUBSET Event /\ sent \subseteq sent'
      BY <2>1, <2>2 DEF TypeOK
    <2>4. money' \in [Orders -> {"none", "payable", "captured", "short", "refunding",
                                 "returned"}]
      BY <2>2 DEF TypeOK
    <2> QED  BY <1>1, <2>3, <2>4 DEF Pay, TypeOK
  <1>2. ASSUME NEW o \in Orders, DeclinePayment(o)  PROVE TypeOK'
    <2>1. Notice(o, "failed", TRUE) \in Event
      BY DEF Notice, Event
    <2> QED  BY <1>2, <2>1 DEF DeclinePayment, TypeOK
  <1>3. ASSUME NEW o \in Orders, ReturnMoney(o)  PROVE TypeOK'
    <2>1. Notice(o, "refunded", TRUE) \in Event
      BY DEF Notice, Event
    <2> QED  BY <1>3, <2>1 DEF ReturnMoney, TypeOK
  <1>4. ASSUME NEW o \in Orders, ReturnPart(o)  PROVE TypeOK'
    <2>1. Notice(o, "refunded", FALSE) \in Event
      BY DEF Notice, Event
    <2> QED  BY <1>4, <2>1 DEF ReturnPart, TypeOK
  <1>5. ASSUME NEW o \in Orders, InsertOrder(o)  PROVE TypeOK'
    BY <1>5 DEF InsertOrder, TypeOK, Statuses
  <1>6. ASSUME NEW o \in Orders, OpenSession(o)  PROVE TypeOK'
    <2>1. [order |-> o, pc |-> "session open"] \in Call
      BY DEF Call
    <2> QED  BY <1>6, <2>1 DEF OpenSession, TypeOK
  <1>7. ASSUME NEW o \in Orders, CloseExpired(o)  PROVE TypeOK'
    BY <1>7 DEF CloseExpired, Transition, TypeOK, Statuses
  <1>8. ASSUME NEW o \in Orders, NEW pc \in {"refund", "manual"}, BeginCall(o, pc)
        PROVE  TypeOK'
    <2>1. [order |-> o, pc |-> pc] \in Call
      BY DEF Call
    <2> QED  BY <1>8, <2>1 DEF BeginCall, TypeOK
  <1>9. ASSUME NEW e \in sent, HandleCallback(e)  PROVE TypeOK'
    <2>1. e.order \in Orders
      BY DEF TypeOK, Event
    <2>2. seen' \in SUBSET sent'
      BY <1>9 DEF HandleCallback, Record, TypeOK
    <2>3. CASE ApplyPaid(e)
      <3>1. status' \in [Orders -> Statuses]
        BY <2>1, <2>3 DEF ApplyPaid, Transition, TypeOK, Statuses
      <3>2. /\ fulfilment' \in [Orders -> {"absent", "done", "reverse_failed"}]
            /\ ledger' \in SUBSET Key
        BY <2>1, <2>3, FulfilTypes DEF ApplyPaid, TypeOK
      <3> QED  BY <1>9, <2>2, <2>3, <3>1, <3>2 DEF HandleCallback, ApplyPaid, TypeOK
    <2>4. CASE ApplyFailed(e)
      <3>1. status' \in [Orders -> Statuses]
        BY <2>1, <2>4 DEF ApplyFailed, Transition, TypeOK, Statuses
      <3> QED  BY <1>9, <2>2, <2>4, <3>1 DEF HandleCallback, ApplyFailed, TypeOK
    <2>5. CASE ApplyRefunded(e)
      <3>1. /\ status' \in [Orders -> Statuses]
            /\ fulfilment' \in [Orders -> {"absent", "done", "reverse_failed"}]
            /\ ledger' \in SUBSET Key
        BY <2>1, <2>5, RefundTypes DEF ApplyRefunded, TypeOK
      <3> QED  BY <1>9, <2>1, <2>2, <2>5, <3>1 DEF HandleCallback, ApplyRefunded, TypeOK
    <2> QED  BY <1>9, <2>3, <2>4, <2>5 DEF HandleCallback
  <1>10. ASSUME NEW c \in calls, RecordSession(c)  PROVE TypeOK'
    <2>1. c.order \in Orders
      BY DEF TypeOK, Call
    <2> QED  BY <1>10, <2>1 DEF RecordSession, Transition, TypeOK, Statuses
  <1>11. ASSUME NEW c \in calls, RequestRefund(c)  PROVE TypeOK'
    <2>1. c \in Call /\ c.order \in Orders
      BY DEF TypeOK, Call
    <2>2. [c EXCEPT !.pc = "returned"] \in Call /\ [c EXCEPT !.pc = "accepted"] \in Call
      BY <2>1 DEF Call
    <2>3. Notice(c.order, "refunded", TRUE) \in Event
      BY <2>1 DEF Notice, Event
    <2> QED  BY <1>11, <2>1, <2>2, <2>3 DEF RequestRefund, TypeOK
  <1>12. ASSUME NEW c \in calls, CommitRefund(c)  PROVE TypeOK'
    <2>1. c.order \in Orders
      BY DEF TypeOK, Call
    <2>2. /\ status' \in [Orders -> Statuses]
          /\ fulfilment' \in [Orders -> {"absent", "done", "reverse_failed"}]
          /\ ledger' \in SUBSET Key
      BY <1>12, <2>1, RefundTypes DEF CommitRefund, Transition, TypeOK, Statuses
    <2> QED  BY <1>12, <2>2 DEF CommitRefund, TypeOK
  <1>13. ASSUME NEW c \in calls, CommitManual(c)  PROVE TypeOK'
    <2>1. c.order \in Orders
      BY DEF TypeOK, Call
    <2>2. /\ fulfilment' \in [Orders -> {"absent", "done", "reverse_failed"}]
          /\ ledger' \in SUBSET Key
      BY <1>13, <2>1, FulfilTypes DEF CommitManual, TypeOK
    <2> QED  BY <1>13, <2>2 DEF CommitManual, TypeOK
  <1>14. ASSUME NEW c \in calls, DropCall(c)  PROVE TypeOK'
    BY <1>14 DEF DropCall, TypeOK
  <1>15. CASE UNCHANGED vars
    BY <1>15 DEF vars, TypeOK
  <1> QED  BY <1>1, <1>2, <1>3, <1>4, <1>5, <1>6, <1>7, <1>8, <1>9, <1>10, <1>11,
              <1>12, <1>13, <1>14, <1>15 DEF Next, Provider, Order, Continue

\* Every variable keeps its type, whatever the provider sends and however the
\* administrators' calls overlap with it.
THEOREM TypeCorrect == Spec => []TypeOK
  BY TypeInit, TypeStep, PTL DEF Spec

-----------------------------------------------------------------------------
(* What a step does to an order *)

\* Nothing in the rows of an order has changed.
RowsSame(o) ==
    /\ status'[o] = status[o]
    /\ fulfilment'[o] = fulfilment[o]
    /\ <<"fulfill", o>> \in ledger' <=> <<"fulfill", o>> \in ledger
    /\ <<"reverse", o>> \in ledger' <=> <<"reverse", o>> \in ledger

Same(o) == money'[o] = money[o] /\ RowsSame(o)

MoneyMoves(o) ==
    /\ RowsSame(o)
    /\ status[o] # "absent"
    /\ \/ money[o] \in {"none", "payable"} /\ money'[o] \in {"payable", "captured", "short"}
       \/ money[o] \in {"captured", "refunding"} /\ money'[o] \in {"refunding", "returned"}

\* The order is inserted, its session is recorded, or its refund accepted.
OrderMoves(o) ==
    /\ \/ status[o] = "absent" /\ status'[o] = "created" /\ money'[o] \in {"none", "payable"}
       \/ status[o] = "created" /\ status'[o] = "paying" /\ money'[o] = money[o]
       \/ status[o] \in Unpaid /\ status'[o] \in Lapsed /\ money'[o] = money[o]
       \/ status[o] = "paid" /\ status'[o] = "refunding" /\ money'[o] = money[o]
    /\ fulfilment'[o] = fulfilment[o]
    /\ <<"fulfill", o>> \in ledger' <=> <<"fulfill", o>> \in ledger
    /\ <<"reverse", o>> \in ledger' <=> <<"reverse", o>> \in ledger

\* Paid in full, and fulfilled.
OrderPaid(o) ==
    /\ status[o] \in Unpaid /\ status'[o] = "paid"
    /\ HasPaid(o) /\ money'[o] = money[o]
    /\ <<"fulfill", o>> \in ledger'
    /\ <<"reverse", o>> \in ledger' <=> <<"reverse", o>> \in ledger

\* Refunded, with the goods taken back or the debt recorded.
OrderRefunded(o) ==
    /\ status[o] \in {"paid", "refunding"} /\ status'[o] = "refunded"
    /\ money[o] = "returned" /\ money'[o] = money[o]
    /\ <<"fulfill", o>> \in ledger' <=> <<"fulfill", o>> \in ledger
    /\ \/ <<"reverse", o>> \in ledger'
       \/ fulfilment'[o] = "reverse_failed" /\ <<"reverse", o>> \notin ledger'

\* Fulfilled by hand.
OrderFulfilled(o) ==
    /\ status[o] \in PaidOnce /\ status'[o] = status[o]
    /\ money'[o] = money[o]
    /\ <<"fulfill", o>> \in ledger'
    /\ <<"reverse", o>> \in ledger' <=> <<"reverse", o>> \in ledger
    /\ fulfilment[o] # "done" /\ fulfilment'[o] = "done"

Moves(o) ==
    \/ Same(o) \/ MoneyMoves(o) \/ OrderMoves(o) \/ OrderPaid(o)
    \/ OrderRefunded(o) \/ OrderFulfilled(o)

OthersSame(o) == \A p \in Orders : p # o => Same(p)

AllSame == \A o \in Orders : Same(o)

OneMoves == \E o \in Orders : Moves(o) /\ OthersSame(o)

\* Refund, on an order whose money is back.
LEMMA RefundMoves ==
    ASSUME TypeOK, RowsAgree, NEW o \in Orders, Refund(o),
           money[o] = "returned", UNCHANGED money
    PROVE  OrderRefunded(o) /\ OthersSame(o)
  <1>1. status' = [status EXCEPT ![o] = "refunded"] /\ status[o] \in {"paid", "refunding"}
    BY TransitionTable DEF Refund, Transition
  <1>2. <<"reverse", o>> \notin ledger
    BY <1>1 DEF RowsAgree
  <1> QED  BY <1>1, <1>2 DEF Refund, ReverseOrOwe, OrderRefunded, OthersSame, Same,
                             RowsSame, TypeOK

\* Every step leaves all orders but one alone, and moves that one by a known move.
LEMMA StepMoves ==
    ASSUME TypeOK, IInv, [Next]_vars
    PROVE  AllSame \/ OneMoves
  <1> USE DEF IInv, external, rows, OthersSame, AllSame, OneMoves, Same, RowsSame
  <1>1. ASSUME NEW o \in Orders, Pay(o)  PROVE MoneyMoves(o) /\ OthersSame(o)
    BY <1>1 DEF Pay, MoneyMoves, RowsAgree, TypeOK
  <1>2. ASSUME NEW o \in Orders, DeclinePayment(o) \/ ReturnPart(o)
        PROVE  AllSame
    BY <1>2 DEF DeclinePayment, ReturnPart
  <1>3. ASSUME NEW o \in Orders, ReturnMoney(o)  PROVE MoneyMoves(o) /\ OthersSame(o)
    BY <1>3 DEF ReturnMoney, MoneyMoves, RowsAgree, TypeOK
  <1>5. ASSUME NEW o \in Orders, InsertOrder(o)  PROVE OrderMoves(o) /\ OthersSame(o)
    BY <1>5 DEF InsertOrder, OrderMoves, RowsAgree, TypeOK
  <1>6. ASSUME NEW o \in Orders, OpenSession(o)
        PROVE  (Same(o) \/ MoneyMoves(o)) /\ OthersSame(o)
    BY <1>6 DEF OpenSession, MoneyMoves, TypeOK
  <1>7. ASSUME NEW o \in Orders, CloseExpired(o)  PROVE OrderMoves(o) /\ OthersSame(o)
    BY <1>7 DEF CloseExpired, Transition, OrderMoves, Lapsed, TypeOK
  <1>8. ASSUME NEW o \in Orders, NEW pc \in {"refund", "manual"}, BeginCall(o, pc)
        PROVE  AllSame
    BY <1>8 DEF BeginCall
  <1>9. ASSUME NEW e \in sent, HandleCallback(e)
        PROVE  Moves(e.order) /\ OthersSame(e.order)
    <2> DEFINE o == e.order
    <2>1. o \in Orders /\ UNCHANGED money
      BY <1>9 DEF TypeOK, Event, HandleCallback
    <2>2. CASE ApplyPaid(e)
      <3>1. CASE status[o] \in Unpaid
        <4>1. e.full /\ HasPaid(o)
          BY <2>2, <3>1 DEF ApplyPaid, NoticesTrue
        <4>2. status' = [status EXCEPT ![o] = "paid"] /\ Fulfil(o)
          BY <2>2, <3>1 DEF ApplyPaid, Transition
        <4>3. OrderPaid(o) /\ OthersSame(o)
          BY <2>1, <3>1, <4>1, <4>2 DEF OrderPaid, Fulfil, TypeOK
        <4> QED  BY <4>3 DEF Moves
      <3>2. CASE status[o] \notin Unpaid
        BY <2>1, <2>2, <3>2 DEF ApplyPaid, Moves
      <3> QED  BY <3>1, <3>2
    <2>3. CASE ApplyFailed(e)
      <3>1. CASE status[o] \in Unpaid
        <4>1. status' = [status EXCEPT ![o] = "failed"] /\ UNCHANGED <<ledger, fulfilment>>
          BY <2>3, <3>1, TransitionTable DEF ApplyFailed, Transition
        <4>2. OrderMoves(o) /\ OthersSame(o)
          BY <2>1, <3>1, <4>1 DEF OrderMoves, Lapsed, TypeOK
        <4> QED  BY <4>2 DEF Moves
      <3>2. CASE status[o] \notin Unpaid
        <4>1. UNCHANGED <<status, ledger, fulfilment>>
          BY <2>3, <3>2, TransitionTable DEF ApplyFailed
        <4> QED  BY <2>1, <4>1 DEF Moves
      <3> QED  BY <3>1, <3>2
    <2>4. CASE ApplyRefunded(e)
      <3>1. CASE status[o] \in {"paid", "refunding"} /\ e.full
        <4>1. money[o] = "returned" /\ Refund(o)
          BY <2>4, <3>1 DEF ApplyRefunded, NoticesTrue
        <4>2. OrderRefunded(o) /\ OthersSame(o)
          BY <2>1, <4>1, RefundMoves
        <4> QED  BY <4>2 DEF Moves
      <3>2. CASE ~(status[o] \in {"paid", "refunding"} /\ e.full)
        BY <2>1, <2>4, <3>2 DEF ApplyRefunded, Moves
      <3> QED  BY <3>1, <3>2
    <2> QED  BY <1>9, <2>2, <2>3, <2>4 DEF HandleCallback
  <1>10. ASSUME NEW c \in calls, RecordSession(c)
         PROVE  (Same(c.order) \/ OrderMoves(c.order)) /\ OthersSame(c.order)
    <2>1. c.order \in Orders
      BY DEF TypeOK, Call
    <2> QED  BY <1>10, <2>1 DEF RecordSession, Transition, OrderMoves, TypeOK
  <1>11. ASSUME NEW c \in calls, RequestRefund(c)
         PROVE  (Same(c.order) \/ MoneyMoves(c.order)) /\ OthersSame(c.order)
    <2>1. c.order \in Orders
      BY DEF TypeOK, Call
    <2> QED  BY <1>11, <2>1 DEF RequestRefund, MoneyMoves, RowsAgree, TypeOK
  <1>12. ASSUME NEW c \in calls, CommitRefund(c)
         PROVE  Moves(c.order) /\ OthersSame(c.order)
    <2> DEFINE o == c.order
    <2>1. o \in Orders /\ UNCHANGED money
      BY <1>12 DEF TypeOK, Call, CommitRefund
    <2>2. CASE status[o] # "paid"
      BY <1>12, <2>1, <2>2 DEF CommitRefund, Moves
    <2>3. CASE status[o] = "paid" /\ c.pc = "returned"
      <3>1. money[o] = "returned" /\ Refund(o)
        BY <1>12, <2>3 DEF CommitRefund, CallsTrue
      <3>2. OrderRefunded(o) /\ OthersSame(o)
        BY <2>1, <3>1, RefundMoves
      <3> QED  BY <3>2 DEF Moves
    <2>4. CASE status[o] = "paid" /\ c.pc # "returned"
      <3>1. OrderMoves(o) /\ OthersSame(o)
        BY <1>12, <2>1, <2>4 DEF CommitRefund, Transition, OrderMoves, TypeOK
      <3> QED  BY <3>1 DEF Moves
    <2> QED  BY <2>2, <2>3, <2>4
  <1>13. ASSUME NEW c \in calls, CommitManual(c)
         PROVE  (Same(c.order) \/ OrderFulfilled(c.order)) /\ OthersSame(c.order)
    <2>1. c.order \in Orders /\ status[c.order] \in PaidOnce
      BY <1>13 DEF TypeOK, Call, CommitManual, CallsTrue
    <2> QED  BY <1>13, <2>1 DEF CommitManual, Fulfil, OrderFulfilled, TypeOK
  <1>14. ASSUME NEW c \in calls, DropCall(c)  PROVE AllSame
    BY <1>14 DEF DropCall
  <1>15. CASE UNCHANGED vars
    BY <1>15 DEF vars
  <1>16. ASSUME NEW o \in Orders, Order(o)
         PROVE  AllSame \/ OneMoves
    BY <1>16, <1>5, <1>6, <1>7, <1>8 DEF Order, Moves
  <1>17. ASSUME NEW c \in calls, Continue(c)
         PROVE  AllSame \/ OneMoves
    <2>1. c.order \in Orders
      BY DEF TypeOK, Call
    <2> QED  BY <1>17, <2>1, <1>10, <1>11, <1>12, <1>13, <1>14 DEF Continue, Moves
  <1>18. \A e \in sent : e.order \in Orders
    BY DEF TypeOK, Event
  <1>19. ASSUME NEW o \in Orders, Provider(o)
         PROVE  AllSame \/ OneMoves
    BY <1>19, <1>1, <1>2, <1>3 DEF Provider, Moves
  <1>20. ASSUME NEW e \in sent, HandleCallback(e)
         PROVE  OneMoves
    BY <1>20, <1>9, <1>18
  <1>21. \/ UNCHANGED vars
         \/ \E o \in Orders : Provider(o) \/ Order(o)
         \/ \E e \in sent : HandleCallback(e)
         \/ \E c \in calls : Continue(c)
    BY DEF Next
  <1> HIDE DEF AllSame, OneMoves
  <1> QED  BY <1>15, <1>16, <1>17, <1>19, <1>20, <1>21

-----------------------------------------------------------------------------
(* The invariant *)

\* Money that was paid stays paid, money that was returned stays returned, and
\* an order that was paid once stays so.
LEMMA MovesForward ==
    ASSUME TypeOK, IInv, [Next]_vars, NEW o \in Orders
    PROVE  /\ HasPaid(o) => HasPaid(o)'
           /\ money[o] = "returned" => money'[o] = "returned"
           /\ status[o] \in PaidOnce => status'[o] \in PaidOnce
  <1>1. Moves(o)
    BY StepMoves DEF AllSame, OneMoves, OthersSame, Moves
  <1>2. IInv => RowsAgree
    BY DEF IInv
  <1> QED  BY <1>1, <1>2 DEF Moves, Same, RowsSame, MoneyMoves, OrderMoves, OrderPaid,
             OrderRefunded, OrderFulfilled, HasPaid, RowsAgree, PaidOnce, Unpaid, Lapsed

LEMMA RowsStep ==
    ASSUME TypeOK, IInv, [Next]_vars
    PROVE  RowsAgree'
  <1> SUFFICES ASSUME NEW o \in Orders
               PROVE  /\ status'[o] \in PaidOnce <=> <<"fulfill", o>> \in ledger'
                      /\ status'[o] \in PaidOnce => HasPaid(o)'
                      /\ status'[o] = "refunded" => money'[o] = "returned"
                      /\ <<"reverse", o>> \in ledger' => status'[o] = "refunded"
                      /\ status'[o] = "absent" => money'[o] = "none"
    BY DEF RowsAgree
  <1>1. Moves(o)
    BY StepMoves DEF AllSame, OneMoves, OthersSame, Moves
  <1>2. /\ status[o] \in PaidOnce <=> <<"fulfill", o>> \in ledger
        /\ status[o] \in PaidOnce => HasPaid(o)
        /\ status[o] = "refunded" => money[o] = "returned"
        /\ <<"reverse", o>> \in ledger => status[o] = "refunded"
        /\ status[o] = "absent" => money[o] = "none"
    BY DEF IInv, RowsAgree
  <1>3. CASE Same(o)
    BY <1>2, <1>3 DEF Same, RowsSame, HasPaid
  <1>4. CASE MoneyMoves(o)
    BY <1>2, <1>4 DEF MoneyMoves, RowsSame, HasPaid
  <1>5. CASE OrderMoves(o)
    BY <1>2, <1>5 DEF OrderMoves, HasPaid, PaidOnce, Unpaid, Lapsed
  <1>6. CASE OrderPaid(o)
    BY <1>2, <1>6 DEF OrderPaid, HasPaid, PaidOnce, Unpaid
  <1>7. CASE OrderRefunded(o)
    BY <1>2, <1>7 DEF OrderRefunded, HasPaid, PaidOnce
  <1>8. CASE OrderFulfilled(o)
    BY <1>2, <1>8 DEF OrderFulfilled, HasPaid, PaidOnce
  <1> QED  BY <1>1, <1>3, <1>4, <1>5, <1>6, <1>7, <1>8 DEF Moves

\* A notice is issued when the money has moved; later the money only moves on.
LEMMA NoticesStep ==
    ASSUME TypeOK, IInv, [Next]_vars
    PROVE  NoticesTrue'
  <1> USE DEF external, rows
  <1>1. ASSUME NEW e \in sent, e.full
        PROVE  /\ e.type \in {"paid", "receipt"} => HasPaid(e.order)'
               /\ e.type = "refunded" => money'[e.order] = "returned"
    <2>1. e.order \in Orders
      BY DEF TypeOK, Event
    <2>2. /\ e.type \in {"paid", "receipt"} => HasPaid(e.order)
          /\ e.type = "refunded" => money[e.order] = "returned"
      BY <1>1 DEF IInv, NoticesTrue
    <2> QED  BY <2>1, <2>2, MovesForward
  <1>2. ASSUME NEW e \in sent', e \notin sent, e.full
        PROVE  /\ e.type \in {"paid", "receipt"} => HasPaid(e.order)'
               /\ e.type = "refunded" => money'[e.order] = "returned"
    <2>1. ASSUME NEW o \in Orders, Pay(o)
          PROVE  HasPaid(e.order)' /\ e.type # "refunded"
      <3>1. PICK full \in BOOLEAN :
              /\ money' = [money EXCEPT ![o] = IF full THEN "captured" ELSE "short"]
              /\ sent' = sent \cup
                   {Notice(o, t, full) : t \in IF channel[o] = "store"
                                               THEN {"paid", "receipt"} ELSE {"paid"}}
        BY <2>1 DEF Pay
      <3>2. PICK t \in {"paid", "receipt"} : e = Notice(o, t, full)
        BY <1>2, <3>1
      <3>3. e.order = o /\ full = TRUE /\ e.type = t
        BY <1>2, <3>2 DEF Notice
      <3>4. money'[o] = "captured"
        BY <3>1, <3>3 DEF TypeOK
      <3> QED  BY <3>2, <3>3, <3>4 DEF HasPaid
    <2>2. ASSUME NEW o \in Orders, Provider(o), ~Pay(o)
          PROVE  /\ e.type \notin {"paid", "receipt"}
                 /\ e.type = "refunded" => money'[e.order] = "returned"
      BY <1>2, <2>2 DEF Provider, DeclinePayment, ReturnMoney, ReturnPart, Notice, TypeOK
    <2>3. ASSUME NEW o \in Orders, Order(o)  PROVE FALSE
      BY <1>2, <2>3 DEF Order, InsertOrder, OpenSession, CloseExpired, BeginCall
    <2>4. ASSUME NEW n \in sent, HandleCallback(n)  PROVE FALSE
      BY <1>2, <2>4 DEF HandleCallback
    <2>5. ASSUME NEW c \in calls, RequestRefund(c)
          PROVE  /\ e.type \notin {"paid", "receipt"}
                 /\ e.type = "refunded" => money'[e.order] = "returned"
      <3>1. c.order \in Orders
        BY DEF TypeOK, Call
      <3> QED  BY <1>2, <2>5, <3>1 DEF RequestRefund, Notice, TypeOK
    <2>6. ASSUME NEW c \in calls, Continue(c), ~RequestRefund(c)  PROVE FALSE
      BY <1>2, <2>6 DEF Continue, RecordSession, CommitRefund, CommitManual, DropCall
    <2>7. CASE UNCHANGED vars
      BY <1>2, <2>7 DEF vars
    <2> QED  BY <2>1, <2>2, <2>3, <2>4, <2>5, <2>6, <2>7 DEF Next, Provider
  <1> QED  BY <1>1, <1>2 DEF NoticesTrue

\* A call starts on a paid order, and is told that money was returned when it is.
LEMMA CallsStep ==
    ASSUME TypeOK, IInv, [Next]_vars
    PROVE  CallsTrue'
  <1> USE DEF external, rows
  <1>1. ASSUME NEW c \in calls
        PROVE  /\ c.pc # "session open" => status'[c.order] \in PaidOnce
               /\ c.pc = "returned" => money'[c.order] = "returned"
    <2>1. c.order \in Orders
      BY DEF TypeOK, Call
    <2>2. /\ c.pc # "session open" => status[c.order] \in PaidOnce
          /\ c.pc = "returned" => money[c.order] = "returned"
      BY DEF IInv, CallsTrue
    <2> QED  BY <2>1, <2>2, MovesForward
  <1>2. ASSUME NEW c \in calls', c \notin calls
        PROVE  /\ c.pc # "session open" => status'[c.order] \in PaidOnce
               /\ c.pc = "returned" => money'[c.order] = "returned"
    <2>1. ASSUME NEW o \in Orders, Provider(o)  PROVE FALSE
      BY <1>2, <2>1 DEF Provider, Pay, DeclinePayment, ReturnMoney, ReturnPart
    <2>2. ASSUME NEW o \in Orders, InsertOrder(o) \/ CloseExpired(o)  PROVE FALSE
      BY <1>2, <2>2 DEF InsertOrder, CloseExpired
    <2>3. ASSUME NEW o \in Orders, OpenSession(o)  PROVE c.pc = "session open"
      <3>1. c = [order |-> o, pc |-> "session open"]
        BY <1>2, <2>3 DEF OpenSession
      <3> QED  BY <3>1
    <2>4. ASSUME NEW o \in Orders, NEW pc \in {"refund", "manual"}, BeginCall(o, pc)
          PROVE  status'[c.order] \in PaidOnce /\ c.pc # "returned"
      BY <1>2, <2>4 DEF BeginCall, PaidOnce
    <2>5. ASSUME NEW e \in sent, HandleCallback(e)  PROVE FALSE
      BY <1>2, <2>5 DEF HandleCallback
    <2>6. ASSUME NEW d \in calls, RequestRefund(d)
          PROVE  /\ status'[c.order] \in PaidOnce
                 /\ c.pc = "returned" => money'[c.order] = "returned"
      <3>1. d \in Call /\ d.order \in Orders /\ d.pc = "refund"
        BY <2>6 DEF TypeOK, Call, RequestRefund
      <3>2. status[d.order] \in PaidOnce
        BY <3>1 DEF IInv, CallsTrue
      <3>3. UNCHANGED status /\ c.order = d.order
        BY <1>2, <2>6, <3>1 DEF RequestRefund, Call
      <3>4. c.pc = "returned" => money'[d.order] = "returned"
        <4>1. CASE c = [d EXCEPT !.pc = "accepted"]
          BY <3>1, <4>1 DEF Call
        <4>2. CASE c # [d EXCEPT !.pc = "accepted"]
          <5>1. money' = [money EXCEPT ![d.order] = "returned"]
            BY <1>2, <2>6, <4>2 DEF RequestRefund
          <5> QED  BY <3>1, <5>1 DEF TypeOK
        <4> QED  BY <4>1, <4>2
      <3> QED  BY <3>2, <3>3, <3>4
    <2>7. ASSUME NEW d \in calls, Continue(d), ~RequestRefund(d)  PROVE FALSE
      BY <1>2, <2>7 DEF Continue, RecordSession, CommitRefund, CommitManual, DropCall
    <2>8. CASE UNCHANGED vars
      BY <1>2, <2>8 DEF vars
    <2> QED  BY <2>1, <2>2, <2>3, <2>4, <2>5, <2>6, <2>7, <2>8 DEF Next, Order
  <1> QED  BY <1>1, <1>2 DEF CallsTrue

LEMMA InvInit == Init => IInv
  BY DEF Init, IInv, NoticesTrue, CallsTrue, RowsAgree, PaidOnce

LEMMA InvStep == TypeOK /\ IInv /\ [Next]_vars => IInv'
  BY RowsStep, NoticesStep, CallsStep DEF IInv

LEMMA Invariant == Spec => [](TypeOK /\ IInv)
  BY InvInit, InvStep, TypeInit, TypeStep, PTL DEF Spec

\* Goods are granted only for money captured in full and taken back only for
\* money returned, for any number of orders, notices and overlapping calls.
THEOREM GoodsSafe == Spec => []GoodsFollowMoney
  <1>1. IInv => GoodsFollowMoney
    BY DEF IInv, RowsAgree, GoodsFollowMoney, HasPaid, PaidOnce
  <1> QED  BY <1>1, Invariant, PTL

-----------------------------------------------------------------------------
(* The contract *)

\* An order nothing happens to looks the same to its contract.
LEMMA SameView ==
    ASSUME NEW o \in Orders, Same(o)
    PROVE  Purse(o)' = Purse(o) /\ Goods(o)' = Goods(o)
  <1>1. /\ money'[o] = money[o] /\ status'[o] = status[o]
        /\ fulfilment'[o] = fulfilment[o]
        /\ <<"reverse", o>> \in ledger' <=> <<"reverse", o>> \in ledger
    BY DEF Same, RowsSame
  <1>2. Purse(o)' = Purse(o)
    BY <1>1 DEF Purse
  <1>3. Goods(o)' = Goods(o)
    BY <1>1 DEF Goods
  <1> QED  BY <1>2, <1>3

\* What the contract sees of a move.
LEMMA MoveView ==
    ASSUME TypeOK, RowsAgree, NEW o \in Orders, Moves(o)
    PROVE  \/ Purse(o)' = Purse(o) /\ Goods(o)' = Goods(o)
           \/ Purse(o) = "buyer" /\ Purse(o)' = "shop" /\ Goods(o)' = Goods(o)
           \/ Purse(o) = "shop" /\ Purse(o)' = "returned" /\ Goods(o)' = Goods(o)
           \/ /\ Goods(o) = "ordered" /\ Goods(o)' = "delivered"
              /\ Purse(o) \in {"shop", "returned"} /\ Purse(o)' = Purse(o)
           \/ Goods(o) = "ordered" /\ Goods(o)' = "lapsed" /\ Purse(o)' = Purse(o)
           \/ /\ Goods(o) = "delivered" /\ Goods(o)' \in {"taken back", "owed"}
              /\ Purse(o) = "returned" /\ Purse(o)' = Purse(o)
           \/ Goods(o) = "owed" /\ Goods(o)' = "cleared" /\ Purse(o)' = Purse(o)
  <1>1. CASE Same(o)
    BY <1>1, SameView
  <1>2. CASE MoneyMoves(o)
    <2>1. Goods(o)' = Goods(o)
      BY <1>2 DEF MoneyMoves, RowsSame, Goods
    <2>2. \/ Purse(o) = "buyer" /\ Purse(o)' \in {"buyer", "shop"}
          \/ Purse(o) = "shop" /\ Purse(o)' \in {"shop", "returned"}
      BY <1>2 DEF MoneyMoves, Purse
    <2> QED  BY <2>1, <2>2
  <1>3. CASE OrderMoves(o)
    <2>1. Purse(o)' = Purse(o)
      BY <1>3 DEF OrderMoves, RowsAgree, Purse
    <2>2. \/ Goods(o)' = Goods(o)
          \/ Goods(o) = "ordered" /\ Goods(o)' = "lapsed"
      BY <1>3 DEF OrderMoves, Goods, Unpaid, Lapsed
    <2> QED  BY <2>1, <2>2
  <1>4. CASE OrderPaid(o)
    <2>1. Purse(o)' = Purse(o) /\ Purse(o) \in {"shop", "returned"}
      BY <1>4 DEF OrderPaid, HasPaid, Purse
    <2>2. Goods(o) = "ordered" /\ Goods(o)' = "delivered"
      BY <1>4 DEF OrderPaid, Goods, Unpaid, Lapsed
    <2> QED  BY <2>1, <2>2
  <1>5. CASE OrderRefunded(o)
    <2>1. Purse(o)' = Purse(o) /\ Purse(o) = "returned"
      BY <1>5 DEF OrderRefunded, Purse
    <2>2. Goods(o) = "delivered" /\ Goods(o)' \in {"taken back", "owed"}
      BY <1>5 DEF OrderRefunded, Goods, Unpaid, Lapsed
    <2> QED  BY <2>1, <2>2
  <1>6. CASE OrderFulfilled(o)
    <2>1. Purse(o)' = Purse(o)
      BY <1>6 DEF OrderFulfilled, Purse
    <2>2. \/ Goods(o)' = Goods(o)
          \/ Goods(o) = "owed" /\ Goods(o)' = "cleared"
      BY <1>6 DEF OrderFulfilled, Goods, Unpaid, Lapsed, PaidOnce
    <2> QED  BY <2>1, <2>2
  <1> QED  BY <1>1, <1>2, <1>3, <1>4, <1>5, <1>6 DEF Moves

LEMMA ContractInit == Init => Contract!Init
  <1> SUFFICES ASSUME Init  PROVE Contract!Init
    OBVIOUS
  <1>1. \A o \in Orders : Purse(o) = "buyer" /\ Goods(o) = "ordered"
    <2> TAKE o \in Orders
    <2>1. money[o] = "none" /\ status[o] = "absent"
      BY DEF Init
    <2>2. Purse(o) = "buyer"
      BY <2>1 DEF Purse
    <2>3. Goods(o) = "ordered"
      BY <2>1 DEF Goods, Unpaid, Lapsed
    <2> QED  BY <2>2, <2>3
  <1> QED  BY <1>1 DEF Contract!Init

\* Every step is a step of the contract, or does not touch it.
LEMMA ContractStep ==
    ASSUME TypeOK, IInv, [Next]_vars
    PROVE  [Contract!Next]_(Contract!vars)
  <1> DEFINE purses == [o \in Orders |-> Purse(o)]
             goods == [o \in Orders |-> Goods(o)]
  <1>1. CASE AllSame
    <2>1. \A o \in Orders : Purse(o)' = Purse(o) /\ Goods(o)' = Goods(o)
      BY <1>1, SameView DEF AllSame
    <2>2. purses' = purses /\ goods' = goods
      BY <2>1
    <2> QED  BY <2>2 DEF Contract!vars
  <1>2. ASSUME NEW o \in Orders, Moves(o), OthersSame(o)
        PROVE  [Contract!Next]_(Contract!vars)
    <2>1. \A p \in Orders : p # o => Purse(p)' = Purse(p) /\ Goods(p)' = Goods(p)
      BY <1>2, SameView DEF OthersSame
    <2>2. /\ purses' = [purses EXCEPT ![o] = Purse(o)']
          /\ goods' = [goods EXCEPT ![o] = Goods(o)']
      BY <2>1
    <2>3. purses[o] = Purse(o) /\ goods[o] = Goods(o)
      OBVIOUS
    <2>4. /\ Purse(o)' = Purse(o) => purses' = purses
          /\ Goods(o)' = Goods(o) => goods' = goods
      BY <2>2, <2>3
    <2>5. \/ purses' = purses /\ goods' = goods
          \/ Contract!Capture(o) \/ Contract!Return(o) \/ Contract!Deliver(o)
          \/ Contract!Lapse(o) \/ Contract!Settle(o) \/ Contract!Clear(o)
      <3>1. RowsAgree
        BY DEF IInv
      <3> QED  BY <1>2, <2>2, <2>3, <2>4, <3>1, MoveView
                  DEF Contract!Capture, Contract!Return, Contract!Deliver,
                      Contract!Lapse, Contract!Settle, Contract!Clear
    <2> QED  BY <2>5 DEF Contract!Next, Contract!vars
  <1> QED  BY <1>1, <1>2, StepMoves DEF OneMoves

\* The machinery implements the contract of a purchase.
THEOREM Implements == Spec => KeepsContract
  <1>1. TypeOK /\ IInv /\ [Next]_vars => [Contract!Next]_(Contract!vars)
    BY ContractStep
  <1>2. Spec => Contract!Init /\ [][Contract!Next]_(Contract!vars)
    BY <1>1, ContractInit, Invariant, PTL DEF Spec
  <1> QED  BY <1>2 DEF KeepsContract, Contract!Spec
=============================================================================
