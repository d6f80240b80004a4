--------------------------- MODULE HoldingsContract ---------------------------
(* What the holdings of one asset promise to their owners, whatever buckets   *)
(* they are kept in and however the commands overlap: a key takes effect      *)
(* once, what is spent or sent is of use and goes down by exactly as much, a  *)
(* transfer hands on what it takes with its expiry, and nothing leaves an     *)
(* account behind its owner's back but what has lapsed.                       *)
EXTENDS Integers

CONSTANTS
    Owners,       \* who holds something
    Keys,         \* of the commands
    MaxQuantity,  \* the most a command moves
    MaxClock      \* bound: instants

VARIABLES
    left,   \* what an owner holds that expires after an instant
    begun,  \* when the transfers under way under a key looked at the clock
    done,   \* keys that have taken effect
    clock

vars == <<left, begun, done, clock>>

Instants == 0 .. MaxClock
Expiries == 1 .. MaxClock + 1
Quantity == 1 .. MaxQuantity

Init ==
    /\ left \in [Owners -> [Instants -> Nat]]
    /\ begun = [k \in Keys |-> {}] /\ done = {} /\ clock = 0

\* An account after an amount that expires at some instant was added or removed.
With(account, q, e) == [at \in Instants |-> account[at] + (IF at < e THEN q ELSE 0)]
Without(account, q, e) == [at \in Instants |-> account[at] - (IF at < e THEN q ELSE 0)]

\* What leaves an account of what expires after an instant.
Gone(o, at) == left[o][at] - left'[o][at]

\* A quantity leaves it that has not expired, all of it or nothing, of whatever
\* expiries.
Leaves(o, q, now) ==
    /\ \A at \in Instants : Gone(o, at) \in 0 .. q /\ (at <= now => Gone(o, at) = q)
    /\ \A at, then \in Instants : at <= then => Gone(o, then) <= Gone(o, at)

Grant(o, q, e) == left' = [left EXCEPT ![o] = With(@, q, e)]

\* Only what has not expired is spent.
Consume(o, q) ==
    /\ Leaves(o, q, clock)
    /\ \A u \in Owners \ {o} : left'[u] = left[u]

\* What has expired is sent only if it lapsed while the transfer was under way;
\* as much arrives as is sent, of every expiry.
Transfer(k, o, p, q) ==
    /\ o # p
    /\ \E now \in begun[k] : Leaves(o, q, now)
    /\ \A at \in Instants : left'[p][at] = left[p][at] + Gone(o, at)
    /\ \A u \in Owners \ {o, p} : left'[u] = left[u]

\* A new expiry for an amount.
Alter(o, q, f, e) == left' = [left EXCEPT ![o] = With(Without(@, q, f), q, e)]

\* An operator takes something away, expired or not.
Revoke(o, q, e) == left' = [left EXCEPT ![o] = Without(@, q, e)]

\* A key takes effect, and it had none before.
Command(k) ==
    /\ k \notin done /\ done' = done \cup {k}
    /\ \E o \in Owners, q \in Quantity :
         \/ Consume(o, q)
         \/ \E p \in Owners : Transfer(k, o, p, q)
         \/ \E e \in Expiries : \/ Grant(o, q, e) \/ Revoke(o, q, e)
                                \/ \E f \in Expiries : Alter(o, q, f, e)

\* What has lapsed is cleared away, and nothing else.
Sweep ==
    /\ UNCHANGED done
    /\ \A o \in Owners, at \in Instants :
         IF at >= clock THEN Gone(o, at) = 0 ELSE Gone(o, at) >= 0

Pass == clock' = clock + 1 /\ UNCHANGED <<left, done>>

\* Whatever happens, a transfer that begins looks at the clock of that moment.
Next ==
    /\ \A k \in Keys : begun'[k] \subseteq begun[k] \cup {clock}
    /\ \/ Pass
       \/ UNCHANGED clock /\ (Sweep \/ \E k \in Keys : Command(k))

Spec == Init /\ [][Next]_vars
=============================================================================
