--------------------------- MODULE PurchaseContract ---------------------------
(* What a purchase promises to the buyer and to the shop, whatever the        *)
(* provider, the callbacks and the administrators do: goods only for money,   *)
(* and goods taken back, or booked as owed, only for returned money.          *)

CONSTANT Orders  \* orders, each of one purchase

VARIABLES
    money,  \* where the money of each order is
    goods   \* what became of the goods of each order

vars == <<money, goods>>

Init ==
    /\ money = [o \in Orders |-> "buyer"]
    /\ goods = [o \in Orders |-> "ordered"]

\* The buyer pays in full.
Capture(o) ==
    /\ money[o] = "buyer"
    /\ money' = [money EXCEPT ![o] = "shop"]
    /\ UNCHANGED goods

\* The money goes back in full.
Return(o) ==
    /\ money[o] = "shop"
    /\ money' = [money EXCEPT ![o] = "returned"]
    /\ UNCHANGED goods

\* The goods are delivered for money that was paid; the purchase may have been
\* refunded in the meantime.
Deliver(o) ==
    /\ goods[o] = "ordered"
    /\ money[o] \in {"shop", "returned"}
    /\ goods' = [goods EXCEPT ![o] = "delivered"]
    /\ UNCHANGED money

\* The order fails or is closed, for good.
Lapse(o) ==
    /\ goods[o] = "ordered"
    /\ goods' = [goods EXCEPT ![o] = "lapsed"]
    /\ UNCHANGED money

\* Returned money: the goods are taken back, or the buyer owes them.
Settle(o) ==
    /\ goods[o] = "delivered"
    /\ money[o] = "returned"
    /\ \E g \in {"taken back", "owed"} : goods' = [goods EXCEPT ![o] = g]
    /\ UNCHANGED money

\* A debt is written off: the order was fulfilled by hand after it was refunded.
Clear(o) ==
    /\ goods[o] = "owed"
    /\ goods' = [goods EXCEPT ![o] = "cleared"]
    /\ UNCHANGED money

Next ==
    \E o \in Orders : \/ Capture(o) \/ Return(o) \/ Deliver(o)
                      \/ Lapse(o) \/ Settle(o) \/ Clear(o)

Spec == Init /\ [][Next]_vars
=============================================================================
