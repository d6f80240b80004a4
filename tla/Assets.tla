-------------------------------- MODULE Assets --------------------------------
(* The holdings of one asset definition and their append-only ledger: grants, *)
(* first-expiring-first-out consumption, transfers, mutation and expiry, each *)
(* one transaction that is recognised by its idempotency key.  Transactions   *)
(* overlap: a list statement sees the rows committed before it and waits for  *)
(* their locks, so a row inserted meanwhile is not in it.  A transfer looks   *)
(* at the clock before it waits, the other commands after it.                 *)
EXTENDS Integers, Sequences, FiniteSets, FiniteSetsExt, SequencesExt

CONSTANTS
    Owners,       \* users
    Keys,         \* idempotency keys callers choose; a retry repeats its key
    Txs,          \* transactions that run at the same time
    MaxQuantity,  \* max_quantity of the definition; quantities go up to it
    GrantSizes,   \* bound: quantities that are granted
    MaxRows,      \* bound: rows ever inserted
    MaxClock      \* bound: instants

\* There is somebody to hold something, room for the two rows granted earlier,
\* and an instant between the expiry of one of them and never.
ASSUME AssetAssumption ==
    /\ Owners # {}
    /\ MaxQuantity \in Nat \ {0} /\ GrantSizes \subseteq 1 .. MaxQuantity
    /\ MaxRows \in Nat \ {0, 1} /\ MaxClock \in Nat \ {0}

VARIABLES
    class,   \* class of the definition
    rows,    \* asset_holdings
    book,    \* asset_ledger_entries
    txs,     \* open transactions with their commands and row locks
    clock

vars == <<class, rows, book, txs, clock>>

RowId == 1 .. MaxRows
Never == MaxClock + 1
Instant == 1 .. Never

NoRow == [qty |-> 0]
Row == [owner : Owners, expiry : Instant, qty : 1 .. MaxQuantity]

\* Callers' keys and those derived from them: "k#1", "k:in:2", "expire:<id>:<at>".
MainKey(k) == <<k, "main", 0>>

Command == [verb : {"grant", "consume", "transfer", "mutate", "expire"},
            owner : Owners, to : Owners, qty : 1 .. MaxQuantity,
            expiry : Instant, row : RowId]

Idle == [pc |-> "idle"]

FirstOwner == CHOOSE o \in Owners : TRUE

Held == {i \in RowId : rows[i] # NoRow}
OwnedBy(o) == {i \in Held : rows[i].owner = o}
Expired(i) == rows[i].expiry <= clock
Recorded(key) == \E p \in DOMAIN book : book[p].key = key

Entry(key, i, kind, delta, after) ==
    [key |-> key, row |-> i, kind |-> kind, delta |-> delta, after |-> after]

\* Every row is inserted with its first entry, and identifiers are never reused.
UsedIds == {book[p].row : p \in DOMAIN book}
FreshIds == RowId \ UsedIds
NewId(n) == SetToSeq(FreshIds)[n]

LockedBy(t) == IF txs[t].pc = "idle" THEN {} ELSE txs[t].locks
LockedByOthers(t) == UNION {LockedBy(u) : u \in Txs \ {t}}

\* Buckets of the first owner, granted before the keys in question.
EarlierGrants ==
    CASE class = "currency" -> <<Never>>
      [] class = "entitlement" -> <<>>
      [] OTHER -> <<1, Never>>

Init ==
    /\ class \in {"currency", "stack", "instance", "entitlement"}
    /\ rows = [i \in RowId |->
                 IF i \in DOMAIN EarlierGrants
                 THEN [owner |-> FirstOwner, expiry |-> EarlierGrants[i], qty |-> 1]
                 ELSE NoRow]
    /\ book = [i \in DOMAIN EarlierGrants |-> Entry(<<i, "earlier", 0>>, i, "grant", 1, 1)]
    /\ txs = [t \in Txs |-> Idle]
    /\ clock = 0

Tick ==
    /\ clock < MaxClock
    /\ clock' = clock + 1
    /\ UNCHANGED <<class, rows, book, txs>>

-----------------------------------------------------------------------------
(* The start of a transaction: the key is looked up, the rows are listed and  *)
(* locked.                                                                    *)

\* ValidateGrant, ValidateConsumeQuantity, ValidateMutateClass
Valid(c) ==
    CASE c.verb = "grant" ->
           /\ class = "currency" => c.expiry = Never
           /\ class = "entitlement" => c.expiry # Never
           /\ class \in {"instance", "entitlement"} => c.qty = 1
      [] c.verb = "transfer" -> class # "entitlement" /\ c.owner # c.to
      [] c.verb = "mutate" ->
           /\ class \in {"instance", "entitlement"}
           /\ class = "entitlement" => c.expiry # Never
      [] OTHER -> TRUE

\* Rows the first statement of a command is about.
FirstList(c) == IF c.verb \in {"mutate", "expire"} THEN {c.row} \cap Held ELSE OwnedBy(c.owner)

\* A key that is on record is answered from the ledger.
Begin(t, k, c) ==
    /\ txs[t].pc = "idle"
    /\ Valid(c) /\ ~Recorded(MainKey(k))
    /\ txs' = [txs EXCEPT ![t] = [pc |-> "listing", key |-> k, cmd |-> c,
                                  now |-> IF c.verb = "transfer" THEN clock ELSE Never,
                                  wants |-> FirstList(c), locks |-> {}]]
    /\ UNCHANGED <<class, rows, book, clock>>

\* ListForUpdate waits for every row it has seen; deleted ones drop out.
Lock(t) ==
    LET x == txs[t]
        got == x.locks \cup (x.wants \cap Held) IN
    /\ x.pc \in {"listing", "listing to"}
    /\ x.wants \cap Held \cap LockedByOthers(t) = {}
    /\ txs' = [txs EXCEPT ![t] =
                 IF x.cmd.verb = "transfer" /\ x.pc = "listing"
                 THEN [x EXCEPT !.pc = "listing to", !.locks = got, !.wants = OwnedBy(x.cmd.to)]
                 ELSE [x EXCEPT !.pc = "locked", !.locks = got, !.wants = {}]]
    /\ UNCHANGED <<class, rows, book, clock>>

\* An error, a detected deadlock, a lost connection, or a replayed key.
Rollback(t) ==
    /\ txs[t].pc # "idle"
    /\ txs' = [txs EXCEPT ![t] = Idle]
    /\ UNCHANGED <<class, rows, book, clock>>

-----------------------------------------------------------------------------
(* The end of a transaction: its entries and rows become visible at once.  An *)
(* entry whose key is on record answers the command from the ledger; a row    *)
(* that clashes with another one fails it.                                    *)

\* UNIQUE (owner, definition, expires_at, bucket_key); an instance is its own
\* bucket.
NoClash ==
    class # "instance" =>
      \A i, j \in Held : i # j => <<rows[i].owner, rows[i].expiry>> # <<rows[j].owner, rows[j].expiry>>

Commit(t, entries, new) ==
    /\ txs[t].pc = "locked"
    /\ ~Recorded(MainKey(txs[t].key))
    /\ book' = book \o entries
    /\ UNCHANGED <<class, clock>>
    /\ rows' = new /\ NoClash'
    /\ txs' = [txs EXCEPT ![t] = Idle]

\* ORDER BY expires_at, id: the n-th row has n - 1 rows in front of it.
InFront(i, j) ==
    rows[i].expiry < rows[j].expiry \/ (rows[i].expiry = rows[j].expiry /\ i < j)
SoonestFirst(ids) ==
    [n \in 1 .. Cardinality(ids) |->
       CHOOSE i \in ids : Cardinality({j \in ids : InFront(j, i)}) = n - 1]

\* Faulty variant: what has expired and was not swept yet is worked on as well.
LockedRows(t, o) == {i \in txs[t].locks : rows[i].owner = o}

\* The instant by which a command tells live rows from expired ones.
Judged(t) == IF txs[t].cmd.verb = "transfer" THEN txs[t].now ELSE clock

\* What a command of an owner works on: the live rows it has locked, the first
\* to expire in front.
LiveRows(t, o) == {i \in txs[t].locks : rows[i].owner = o /\ rows[i].expiry > Judged(t)}
Fefo(t, o) == SoonestFirst(LiveRows(t, o))

Total(ids) == SumFunctionOnSet([i \in RowId |-> rows[i].qty], ids)

\* Faulty variant: what is held already is not counted.
MayReceiveAny(t, o, qty) ==
    /\ qty <= MaxQuantity
    /\ class = "entitlement" => LiveRows(t, o) = {}

\* checkMaxQuantity, NaturalUniquePerOwner
MayReceive(t, o, qty) ==
    /\ Total(LiveRows(t, o)) + qty <= MaxQuantity
    /\ class = "entitlement" => LiveRows(t, o) = {}

\* The live row a quantity is added to, or a new one.
Target(t, o, expiry, fresh) ==
    LET same == {i \in LiveRows(t, o) : class # "instance" /\ rows[i].expiry = expiry}
    IN IF same = {} THEN fresh ELSE CHOOSE i \in same : TRUE

Grant(t) ==
    LET x == txs[t]
        c == x.cmd IN
    /\ x.pc = "locked" /\ c.verb = "grant"
    /\ MayReceive(t, c.owner, c.qty)
    /\ FreshIds # {}
    /\ LET i == Target(t, c.owner, c.expiry, NewId(1))
           after == rows[i].qty + c.qty
       IN Commit(t, <<Entry(MainKey(x.key), i, "grant", c.qty, after)>>,
                 [rows EXCEPT ![i] = [owner |-> c.owner, expiry |-> c.expiry, qty |-> after]])

Less(i, n) == IF rows[i].qty = n THEN NoRow ELSE [rows[i] EXCEPT !.qty = @ - n]

\* How much of each bucket a quantity takes, bucket by bucket until it is met.
Takes(t, o, qty) ==
    LET buckets == Fefo(t, o)
        before(n) == Total({buckets[m] : m \in 1 .. n - 1})
        used == {n \in DOMAIN buckets : before(n) < qty}
    IN [n \in 1 .. Cardinality(used) |->
          [row |-> buckets[n], qty |-> Min({rows[buckets[n]].qty, qty - before(n)})]]

Taken(takes) ==
    [i \in RowId |->
       IF \E n \in DOMAIN takes : takes[n].row = i
       THEN Less(i, takes[CHOOSE n \in DOMAIN takes : takes[n].row = i].qty)
       ELSE rows[i]]

DerivedKey(k, side, n) == IF n = 1 THEN MainKey(k) ELSE <<k, side, n - 1>>

TakeEntries(k, kind, takes) ==
    [n \in DOMAIN takes |->
       Entry(DerivedKey(k, kind, n), takes[n].row, kind, -takes[n].qty,
             rows[takes[n].row].qty - takes[n].qty)]

\* Faulty variant: the buckets of one consumption share its key, and only the
\* first entry is inserted.
ConsumeOneKey(t) ==
    LET x == txs[t]
        c == x.cmd
        takes == Takes(t, c.owner, c.qty) IN
    /\ x.pc = "locked" /\ c.verb = "consume"
    /\ c.qty <= Total(LiveRows(t, c.owner))
    /\ Commit(t, SubSeq(TakeEntries(x.key, "consume", takes), 1, 1), Taken(takes))

Consume(t) ==
    LET x == txs[t]
        c == x.cmd
        takes == Takes(t, c.owner, c.qty) IN
    /\ x.pc = "locked" /\ c.verb = "consume"
    /\ c.qty <= Total(LiveRows(t, c.owner))
    /\ Commit(t, TakeEntries(x.key, "consume", takes), Taken(takes))

\* Faulty variant: every bucket arrives with the quantity of the command.
MovesWhole(t, c, takes) ==
    [n \in DOMAIN takes |->
       [row |-> Target(t, c.to, rows[takes[n].row].expiry, NewId(n)),
        expiry |-> rows[takes[n].row].expiry, qty |-> c.qty]]

\* What arrives of each bucket, and in which row.
Moves(t, c, takes) ==
    [n \in DOMAIN takes |->
       [row |-> Target(t, c.to, rows[takes[n].row].expiry, NewId(n)),
        expiry |-> rows[takes[n].row].expiry, qty |-> takes[n].qty]]

Transfer(t) ==
    LET x == txs[t]
        c == x.cmd
        takes == Takes(t, c.owner, c.qty) IN
    /\ x.pc = "locked" /\ c.verb = "transfer"
    /\ c.qty <= Total(LiveRows(t, c.owner))
    /\ MayReceive(t, c.to, c.qty)
    /\ Cardinality(FreshIds) >= Len(takes)
    /\ LET moves == Moves(t, c, takes)
           after(n) == rows[moves[n].row].qty + moves[n].qty
           taken == Taken(takes)
       IN Commit(t,
            TakeEntries(x.key, "out", takes) \o
              [n \in DOMAIN moves |->
                 Entry(<<x.key, "in", Len(takes) + n - 1>>, moves[n].row, "in",
                       moves[n].qty, after(n))],
            [i \in RowId |->
               IF \E n \in DOMAIN moves : moves[n].row = i
               THEN LET n == CHOOSE n \in DOMAIN moves : moves[n].row = i
                    IN [owner |-> c.to, expiry |-> moves[n].expiry, qty |-> after(n)]
               ELSE taken[i]])

\* Only the row counts, expired or not.
Mutate(t) ==
    LET x == txs[t]
        c == x.cmd IN
    /\ x.pc = "locked" /\ c.verb = "mutate" /\ c.row \in x.locks
    /\ Commit(t, <<Entry(MainKey(x.key), c.row, "mutate", 0, rows[c.row].qty)>>,
              [rows EXCEPT ![c.row].expiry = c.expiry])

Expire(t) ==
    LET x == txs[t]
        c == x.cmd IN
    /\ x.pc = "locked" /\ c.verb = "expire" /\ c.row \in x.locks
    /\ Commit(t, <<Entry(MainKey(x.key), c.row, "expire", -rows[c.row].qty, 0)>>,
              [rows EXCEPT ![c.row] = NoRow])

\* The periodic scan takes expired rows nobody has locked, by keys of their own.
ExpireDue(ids) ==
    /\ ids # {}
    /\ \A i \in ids : Expired(i) /\ i \notin UNION {LockedBy(t) : t \in Txs}
    /\ book' = book \o [n \in 1 .. Cardinality(ids) |->
                 LET i == SoonestFirst(ids)[n]
                 IN Entry(<<i, "expire", rows[i].expiry>>, i, "expire", -rows[i].qty, 0)]
    /\ rows' = [i \in RowId |-> IF i \in ids THEN NoRow ELSE rows[i]]
    /\ UNCHANGED <<class, txs, clock>>

-----------------------------------------------------------------------------

\* Inputs a command does not look at are fixed.
Commands ==
    LET inputs(verb, from, to, qtys, expiries, ids) ==
          [verb : {verb}, owner : from, to : to, qty : qtys, expiry : expiries, row : ids]
        one == {FirstOwner}
        qtys == 1 .. MaxQuantity
    IN inputs("grant", Owners, one, GrantSizes, Instant, {1})
       \cup inputs("consume", Owners, one, qtys, {Never}, {1})
       \cup inputs("transfer", Owners, Owners, qtys, {Never}, {1})
       \cup inputs("mutate", one, one, {1}, Instant, Held)
       \cup inputs("expire", one, one, {1}, {Never}, Held)

Run(t) ==
    \/ Lock(t) \/ Rollback(t)
    \/ Grant(t) \/ Consume(t) \/ Transfer(t) \/ Mutate(t) \/ Expire(t)

Next ==
    \/ \E t \in Txs : \/ \E k \in Keys, c \in Commands : Begin(t, k, c)
                      \/ Run(t)
    \/ \E ids \in SUBSET Held : ExpireDue(ids)
    \/ Tick

Spec == Init /\ [][Next]_vars

-----------------------------------------------------------------------------
(* Properties *)

\* Every variable keeps its type; a row in the table holds something, and the
\* unique index of the buckets holds.
TypeOK ==
    /\ class \in {"currency", "stack", "instance", "entitlement"}
    /\ rows \in [RowId -> Row \cup {NoRow}] /\ NoClash
    /\ \A p \in DOMAIN book : book[p].row \in RowId /\ book[p].delta \in -MaxQuantity .. MaxQuantity
    /\ \A t \in Txs : txs[t].pc \in {"idle", "listing", "listing to", "locked"}
    /\ clock \in 0 .. MaxClock

Sum(positions) == SumFunctionOnSet([p \in DOMAIN book |-> book[p].delta], positions)

\* The reconciliation finds no drift: replaying the entries of a row, each leads
\* to the quantity it has written, and the last to the row as it stands.
ZeroDrift ==
    \A i \in RowId :
      LET chain == {p \in DOMAIN book : book[p].row = i} IN
      /\ \A p \in chain : book[p].after = Sum({q \in chain : q <= p})
      /\ rows[i].qty = Sum(chain)

\* Transfers, retries and overlapping commands neither make nor lose anything:
\* what is held was granted, and neither consumed nor expired.
Conserved ==
    Total(Held) = Sum({p \in DOMAIN book : book[p].kind \in {"grant", "consume", "expire"}})

\* What an owner holds that expires after an instant, summed over the buckets.
Left(o, at) == Total({i \in OwnedBy(o) : rows[i].expiry > at})

Transferring(k) == {t \in Txs : txs[t].pc # "idle" /\ txs[t].key = k /\ txs[t].cmd.verb = "transfer"}

Accounts == INSTANCE HoldingsContract WITH
    left <- [o \in Owners |-> [at \in 0 .. MaxClock |-> Left(o, at)]],
    begun <- [k \in Keys |-> {txs[t].now : t \in Transferring(k)}],
    done <- {k \in Keys : Recorded(MainKey(k))}

\* Buckets, derived keys, row locks and overlapping transactions keep the
\* accounts of the owners: a command takes effect once and moves exactly its
\* quantity of what has not expired or, in a transfer, what lapsed while it
\* waited, and only what has lapsed is cleared away.
KeepsAccounts == Accounts!Spec
=============================================================================
