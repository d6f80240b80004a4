--------------------------- MODULE EventPipeline ---------------------------
(* From a committed event to its subscribers: the transactional outbox, the  *)
(* workers that copy it to the Redis stream, the realtime server that marks  *)
(* rows published, and the consumer group of a subscription feature with its *)
(* watermark and its backfill (worker/webhook_events.go; event_triggers.go   *)
(* has the same structure under another group).                              *)
EXTENDS Integers, Sequences, FiniteSets

CONSTANTS
    Events,        \* events, named by the order in which they take numbers
    Workers,       \* outbox workers
    Consumers,     \* members of the subscription's consumer group
    NoRow,         \* no outbox row for an event
    MaxAttempts,   \* XADD failures after which a row is dead-lettered
    Keep,          \* entries a trim leaves in the stream
    Deployed,      \* does the group exist before the first event?
    LongOutage,    \* may an outage outlast the retention of published rows?
    WideTrim,      \* may a trim take what the backfill cannot give back?
    MaxReplays,    \* bound: replays of dead letters
    MaxStops,      \* bound: stops and crashes of consumers
    MaxTrims,      \* bound: trimmed entries
    MaxSweeps,     \* bound: sweeps of the idle group
    MaxErrors,     \* bound: failed deliveries and failed backfill scans
    MaxFaults      \* bound: other faults

ASSUME PipelineAssumption ==
    /\ Events \subseteq Nat
    /\ MaxAttempts \in Nat \ {0} /\ Keep \in Nat \ {0}
    /\ Deployed \in BOOLEAN /\ LongOutage \in BOOLEAN /\ WideTrim \in BOOLEAN
    /\ \A b \in {MaxReplays, MaxStops, MaxTrims, MaxSweeps, MaxErrors, MaxFaults} :
         b \in Nat

VARIABLES
    producer,   \* each event's transaction
    outbox,     \* document_events_outbox
    nextSeq,    \* the identity column's next value
    dead,       \* document_events_outbox_dead
    held,       \* row copies each outbox worker has claimed
    stream,     \* every entry ever added to the stream, oldest first
    trimmed,    \* how many of them are gone
    server,     \* the realtime server: entries read, marks not yet flushed
    group,      \* the consumer group: last delivered entry and pending entries
    consumer,   \* the members of the group
    watermark,  \* the group's own progress, a sequence number
    handled,    \* observed: events whose delivery rows exist
    spent       \* what each bound has left

producing == <<producer, nextSeq>>
consuming == <<group, consumer, watermark, handled>>
vars == <<producer, outbox, nextSeq, dead, held, stream, trimmed, server, group,
          consumer, watermark, handled, spent>>

Budgets == {"replay", "stop", "trim", "sweep", "error", "fault"}

Limit == [b \in Budgets |->
            CASE b = "replay" -> MaxReplays [] b = "stop"  -> MaxStops
              [] b = "trim"   -> MaxTrims   [] b = "sweep" -> MaxSweeps
              [] b = "error"  -> MaxErrors  [] b = "fault" -> MaxFaults]

Spend(b) == spent[b] < Limit[b] /\ spent' = [spent EXCEPT ![b] = @ + 1]

Row == [seq : Nat, attempts : Nat, dispatch : {"no", "yes", "stale"},
        published : BOOLEAN]

ASSUME NoRowAssumption == NoRow \notin Row

Copy == [event : Events, seq : Nat, attempts : Nat]

Envelope == [event : Events, seq : Nat]

NoGroup == [exists |-> FALSE, last |-> 0, pel |-> {}]

Idle == [pc |-> "stopped", todo |-> {}, ids |-> {}, top |-> 0, cursor |-> 0,
         upto |-> 0]

Visible(e) == outbox[e] # NoRow /\ producer[e] = "committed"

Retained == (trimmed + 1) .. Len(stream)

Larger(m, n) == IF m > n THEN m ELSE n

TopSeq(S) == IF S = {} THEN 0
             ELSE CHOOSE n \in {x.seq : x \in S} : \A x \in S : x.seq <= n

Init ==
    /\ producer = [e \in Events |-> "new"]
    /\ outbox = [e \in Events |-> NoRow]
    /\ nextSeq = 1
    /\ dead = {}
    /\ held = [w \in Workers |-> {}]
    /\ stream = << >>
    /\ trimmed = 0
    /\ server = [pos |-> 0, marks |-> {}]
    /\ group = [NoGroup EXCEPT !.exists = Deployed]
    /\ consumer = [c \in Consumers |-> Idle]
    /\ watermark = 0
    /\ handled = {}
    /\ spent = [b \in Budgets |-> 0]

-----------------------------------------------------------------------------
(* The producer *)

NewRow == [seq |-> nextSeq, attempts |-> 0, dispatch |-> "no", published |-> FALSE]

\* Publish: the row takes its sequence number inside the caller's transaction.
Publish(e) ==
    /\ producer[e] = "new"
    /\ \A d \in Events : d < e => producer[d] # "new"
    /\ producer' = [producer EXCEPT ![e] = "open"]
    /\ outbox' = [outbox EXCEPT ![e] = NewRow]
    /\ nextSeq' = nextSeq + 1
    /\ UNCHANGED <<dead, held, stream, trimmed, server, consuming, spent>>

\* The transaction ends, in any order relative to the others; a rollback
\* leaves a hole in the sequence.
EndTransaction(e) ==
    /\ producer[e] = "open"
    /\ \/ /\ producer' = [producer EXCEPT ![e] = "committed"]
          /\ UNCHANGED outbox
       \/ /\ producer' = [producer EXCEPT ![e] = "aborted"]
          /\ outbox' = [outbox EXCEPT ![e] = NoRow]
    /\ UNCHANGED <<nextSeq, dead, held, stream, trimmed, server, consuming, spent>>

\* Faulty variant: the dead letter stays beside the row it was replayed to.
ReplayKeepsDead(e) ==
    /\ e \in dead
    /\ Spend("replay")
    /\ outbox' = [outbox EXCEPT ![e] = IF @ = NoRow THEN NewRow ELSE @]
    /\ nextSeq' = nextSeq + 1
    /\ UNCHANGED <<producer, dead, held, stream, trimmed, server, consuming>>

\* ReplayDeadLetter: the event re-enters the outbox under a new number.
ReplayDeadLetter(e) ==
    /\ e \in dead
    /\ Spend("replay")
    /\ outbox' = [outbox EXCEPT ![e] = IF @ = NoRow THEN NewRow ELSE @]
    /\ nextSeq' = nextSeq + 1
    /\ dead' = dead \ {e}
    /\ UNCHANGED <<producer, held, stream, trimmed, server, consuming>>

-----------------------------------------------------------------------------
(* The outbox worker *)

\* Faulty variant: a row dispatched in vain is never claimed again.
ClaimableFresh == {e \in Events : /\ Visible(e)
                                  /\ ~outbox[e].published
                                  /\ outbox[e].dispatch = "no"}

\* Neither published nor dispatched within the last two minutes.
Claimable == {e \in Events : /\ Visible(e)
                             /\ ~outbox[e].published
                             /\ outbox[e].dispatch # "yes"}

\* claim: rows another statement has locked are skipped, and the batch is
\* limited, so any part of the claimable rows may be taken.
ClaimRows(w) ==
    /\ held[w] = {}
    /\ \E S \in SUBSET Claimable :
         /\ S # {}
         /\ outbox' = [e \in Events |-> IF e \in S
                          THEN [outbox[e] EXCEPT !.dispatch = "yes"]
                          ELSE outbox[e]]
         /\ held' = [held EXCEPT ![w] =
              {[event |-> e, seq |-> outbox[e].seq, attempts |-> outbox[e].attempts] :
                 e \in S}]
    /\ UNCHANGED <<producing, dead, stream, trimmed, server, consuming, spent>>

\* The claimed copies are dispatched in sequence order.
NextCopy(w) == CHOOSE r \in held[w] : \A q \in held[w] : r.seq <= q.seq

Added(r) == Append(stream, [event |-> r.event, seq |-> r.seq])

\* dispatch: the envelope is added to the stream; the row is left as it is.
Dispatch(w) ==
    /\ held[w] # {}
    /\ stream' = Added(NextCopy(w))
    /\ held' = [held EXCEPT ![w] = @ \ {NextCopy(w)}]
    /\ UNCHANGED <<producing, outbox, dead, trimmed, server, consuming, spent>>

\* Faulty variant: the last failure deletes the row and stores no dead letter.
FailRowDeletes(r) ==
    IF r.attempts + 1 >= MaxAttempts
    THEN /\ outbox' = [outbox EXCEPT ![r.event] = NoRow]
         /\ UNCHANGED dead
    ELSE /\ outbox' = [outbox EXCEPT ![r.event].attempts = @ + 1,
                                     ![r.event].dispatch = "no"]
         /\ UNCHANGED dead

\* failRow on a row that is still there: retry it, or move it to the dead
\* letters.  The decision is taken from the claimed copy.
FailRow(r) ==
    IF r.attempts + 1 >= MaxAttempts
    THEN /\ outbox' = [outbox EXCEPT ![r.event] = NoRow]
         /\ dead' = dead \cup {r.event}
    ELSE /\ outbox' = [outbox EXCEPT ![r.event].attempts = @ + 1,
                                     ![r.event].dispatch = "no"]
         /\ UNCHANGED dead

\* XADD reports an error, though the entry may have been added; the failure
\* is stored unless the row is gone or the statement fails too.
DispatchFails(w) ==
    /\ held[w] # {}
    /\ Spend("fault")
    /\ stream' \in {stream, Added(NextCopy(w))}
    /\ \/ UNCHANGED <<outbox, dead>>
       \/ outbox[NextCopy(w).event] # NoRow /\ FailRow(NextCopy(w))
    /\ held' = [held EXCEPT ![w] = @ \ {NextCopy(w)}]
    /\ UNCHANGED <<producing, trimmed, server, consuming>>

\* The worker dies: its copies are gone, the rows stay marked as dispatched.
WorkerStops(w) ==
    /\ held[w] # {}
    /\ Spend("fault")
    /\ held' = [held EXCEPT ![w] = {}]
    /\ UNCHANGED <<producing, outbox, dead, stream, trimmed, server, consuming>>

\* Somebody will still add the row to the stream or mark it published.
InProgress(e) ==
    \/ \E w \in Workers : \E r \in held[w] : r.event = e
    \/ \E i \in Retained : i > server.pos /\ stream[i].event = e
    \/ e \in server.marks

\* Faulty variant: the row's mark becomes one the claim does not know.
DispatchExpires(e) ==
    /\ Visible(e)
    /\ outbox[e].dispatch = "yes"
    /\ UNCHANGED spent
    /\ outbox' = [outbox EXCEPT ![e].dispatch = "expired"]
    /\ UNCHANGED <<producing, dead, held, stream, trimmed, server, consuming>>

\* Two minutes pass with the row dispatched and not published.  That the row
\* is still being worked on is the exception.
DispatchGrowsOld(e) ==
    /\ Visible(e)
    /\ ~outbox[e].published
    /\ outbox[e].dispatch = "yes"
    /\ IF InProgress(e) THEN Spend("fault") ELSE UNCHANGED spent
    /\ outbox' = [outbox EXCEPT ![e].dispatch = "stale"]
    /\ UNCHANGED <<producing, dead, held, stream, trimmed, server, consuming>>

\* cleanupOnce: published rows past their retention.  Within the documented
\* limits no outage lasts that long, so the event has been handled.
PurgePublished(e) ==
    /\ Visible(e)
    /\ outbox[e].published
    /\ LongOutage \/ e \in handled
    /\ outbox' = [outbox EXCEPT ![e] = NoRow]
    /\ UNCHANGED <<producing, dead, held, stream, trimmed, server, consuming, spent>>

\* cleanupOnce: dead letters past their retention.
PurgeDead(e) ==
    /\ e \in dead
    /\ LongOutage
    /\ dead' = dead \ {e}
    /\ UNCHANGED <<producing, outbox, held, stream, trimmed, server, consuming, spent>>

\* With the entries up to i gone, the backfill can still give back the kept
\* rows that were not delivered: it runs when a member starts, from the
\* watermark to the first number that is retained.
Recoverable(i) ==
    LET owed == {j \in 1 .. i : /\ Visible(stream[j].event)
                                /\ stream[j].event \notin handled} IN
    owed # {} =>
       /\ \A c \in Consumers : consumer[c].pc = "stopped"
       /\ \A j \in owed : watermark < stream[j].seq /\ stream[j].seq < stream[i + 1].seq

\* cleanupOnce: the stream is trimmed by length, whoever has read it.
Trim ==
    /\ Cardinality(Retained) > Keep
    /\ Spend("trim")
    /\ WideTrim \/ Recoverable(trimmed + 1)
    /\ trimmed' = trimmed + 1
    /\ UNCHANGED <<producing, outbox, dead, held, stream, server, consuming>>

\* cleanupOnce: a group that lags behind the head and whose members have all
\* been silent for an hour is destroyed, the shared groups not excepted.
SweepIdleGroups ==
    /\ group.exists
    /\ group.last < Len(stream)
    /\ \A c \in Consumers : consumer[c].pc = "stopped"
    /\ Spend("sweep")
    /\ group' = NoGroup
    /\ UNCHANGED <<producing, outbox, dead, held, stream, trimmed, server, consumer,
                   watermark, handled>>

-----------------------------------------------------------------------------
(* The realtime server *)

\* processMessage: fan out, then queue the mark, or drop it when the queue is
\* full.
ServerReads ==
    LET i == Larger(server.pos, trimmed) + 1 IN
    /\ i <= Len(stream)
    /\ \/ /\ server' = [pos |-> i, marks |-> server.marks \cup {stream[i].event}]
          /\ UNCHANGED spent
       \/ /\ server' = [server EXCEPT !.pos = i]
          /\ Spend("fault")
    /\ UNCHANGED <<producing, outbox, dead, held, stream, trimmed, consuming>>

\* markLoop: the marks are flushed by event identity; a flush that fails
\* forgets them.
MarkPublished ==
    /\ server.marks # {}
    /\ server' = [server EXCEPT !.marks = {}]
    /\ \/ /\ outbox' = [e \in Events |-> IF e \in server.marks /\ Visible(e)
                           THEN [outbox[e] EXCEPT !.published = TRUE] ELSE outbox[e]]
          /\ UNCHANGED spent
       \/ UNCHANGED outbox /\ Spend("fault")
    /\ UNCHANGED <<producing, dead, held, stream, trimmed, consuming>>

\* A new instance has a new group, which starts at the head.
ServerRestarts ==
    /\ Spend("fault")
    /\ server' = [pos |-> Len(stream), marks |-> {}]
    /\ UNCHANGED <<producing, outbox, dead, held, stream, trimmed, consuming>>

-----------------------------------------------------------------------------
(* The consumer group of one subscription feature *)

\* Run: the group is created at the head unless it exists.
StartConsumer(c) ==
    /\ consumer[c].pc = "stopped"
    /\ group' = IF group.exists THEN group
                ELSE [exists |-> TRUE, last |-> Len(stream), pel |-> {}]
    /\ consumer' = [consumer EXCEPT ![c].pc = "starting"]
    /\ UNCHANGED <<producing, outbox, dead, held, stream, trimmed, server, watermark,
                   handled, spent>>

\* Faulty variant: a gap of one event is not noticed.
GapOffByOne == /\ trimmed < Len(stream)
               /\ stream[trimmed + 1].seq > watermark + 2

\* backfill: a gap lies between the watermark and the first retained number.
Gap == /\ trimmed < Len(stream)
       /\ stream[trimmed + 1].seq > watermark + 1

\* backfill's two readings; a failing one skips the backfill.
CheckGap(c) ==
    /\ consumer[c].pc = "starting"
    /\ \/ /\ consumer' = [consumer EXCEPT ![c] =
               IF Gap THEN [@ EXCEPT !.pc = "scanning", !.cursor = watermark,
                                     !.upto = stream[trimmed + 1].seq]
                      ELSE [@ EXCEPT !.pc = "consuming"]]
          /\ UNCHANGED spent
       \/ /\ consumer' = [consumer EXCEPT ![c].pc = "consuming"]
          /\ Spend("error")
    /\ UNCHANGED <<producing, outbox, dead, held, stream, trimmed, server, group,
                   watermark, handled>>

InRange(c) == {e \in Events : /\ Visible(e)
                              /\ outbox[e].seq > consumer[c].cursor
                              /\ outbox[e].seq <= consumer[c].upto}

\* One round of the backfill: the next rows of the range, in the order of
\* their numbers and up to any batch limit, or the end.
ScanRange(c) ==
    LET rows == {[event |-> e, seq |-> outbox[e].seq] : e \in InRange(c)} IN
    /\ consumer[c].pc = "scanning"
    /\ consumer[c].todo = {}
    /\ consumer[c].top = 0
    /\ \/ /\ rows = {}
          /\ consumer' = [consumer EXCEPT ![c] = [Idle EXCEPT !.pc = "consuming"]]
       \/ \E last \in rows :
            consumer' = [consumer EXCEPT ![c].top = last.seq,
                           ![c].todo = {x \in rows : x.seq <= last.seq}]
    /\ UNCHANGED <<producing, outbox, dead, held, stream, trimmed, server, group,
                   watermark, handled, spent>>

\* A failing scan gives the backfill up, and the member consumes all the same.
ScanFails(c) ==
    /\ consumer[c].pc = "scanning"
    /\ consumer[c].todo = {}
    /\ consumer[c].top = 0
    /\ Spend("error")
    /\ consumer' = [consumer EXCEPT ![c] = [Idle EXCEPT !.pc = "consuming"]]
    /\ UNCHANGED <<producing, outbox, dead, held, stream, trimmed, server, group,
                   watermark, handled>>

\* deliver: the event's delivery rows are stored, or the error is swallowed.
Deliver(c) ==
    \E x \in consumer[c].todo :
       /\ \/ handled' = handled \cup {x.event} /\ UNCHANGED spent
          \/ UNCHANGED handled /\ Spend("error")
       /\ consumer' = [consumer EXCEPT ![c].todo = @ \ {x}]
       /\ UNCHANGED <<producing, outbox, dead, held, stream, trimmed, server, group,
                      watermark>>

\* Entries a member hands to processEntry; it acknowledges them afterwards.
Take(c, ids) ==
    LET got == {stream[i] : i \in ids} IN
    consumer' = [consumer EXCEPT ![c].todo = got, ![c].ids = ids,
                                 ![c].top = TopSeq(got)]

Ready(c) == consumer[c] = [Idle EXCEPT !.pc = "consuming"]

\* XREADGROUP: the entries after the group's position, without those trimmed.
ReadGroup(c) ==
    LET ids == {i \in Retained : i > group.last} IN
    /\ Ready(c)
    /\ group.exists
    /\ ids # {}
    /\ group' = [group EXCEPT !.last = Len(stream), !.pel = @ \cup ids]
    /\ Take(c, ids)
    /\ UNCHANGED <<producing, outbox, dead, held, stream, trimmed, server, watermark,
                   handled, spent>>

\* XAUTOCLAIM: pending entries nobody has touched for a minute, whoever had
\* them.  A member still working on one is the exception; entries no longer
\* in the stream leave the pending list.
ClaimStale(c) ==
    LET busy == UNION {consumer[d].ids : d \in Consumers}
        ids  == group.pel \cap Retained IN
    /\ Ready(c)
    /\ group.exists
    /\ \/ group.pel \cap busy = {} /\ UNCHANGED spent
       \/ group.pel \cap busy # {} /\ Spend("fault")
    /\ group.pel # {}
    /\ group' = [group EXCEPT !.pel = ids]
    /\ Take(c, ids)
    /\ UNCHANGED <<producing, outbox, dead, held, stream, trimmed, server, watermark,
                   handled>>

\* Faulty variant: the batch is acknowledged as it is read.
AckEarly(c) ==
    /\ consumer[c].pc = "consuming"
    /\ consumer[c].ids # {}
    /\ group' = [group EXCEPT !.pel = @ \ consumer[c].ids]
    /\ consumer' = [consumer EXCEPT ![c].ids = {}]
    /\ UNCHANGED <<producing, outbox, dead, held, stream, trimmed, server, watermark,
                   handled, spent>>

\* XACK of the whole batch, after all of it was processed.
Ack(c) ==
    /\ consumer[c].pc = "consuming"
    /\ consumer[c].todo = {}
    /\ consumer[c].ids # {}
    /\ group' = [group EXCEPT !.pel = @ \ consumer[c].ids]
    /\ consumer' = [consumer EXCEPT ![c].ids = {}]
    /\ UNCHANGED <<producing, outbox, dead, held, stream, trimmed, server, watermark,
                   handled, spent>>

\* A failing XACK leaves the entries pending and the watermark where it was.
AckFails(c) ==
    /\ consumer[c].pc = "consuming"
    /\ consumer[c].todo = {}
    /\ consumer[c].ids # {}
    /\ Spend("fault")
    /\ consumer' = [consumer EXCEPT ![c] = [Idle EXCEPT !.pc = "consuming"]]
    /\ UNCHANGED <<producing, outbox, dead, held, stream, trimmed, server, group,
                   watermark, handled>>

\* advanceWatermark: the script never lowers it; an error is ignored.
Advance(c) ==
    /\ consumer[c].todo = {}
    /\ consumer[c].ids = {}
    /\ consumer[c].top > 0
    /\ \/ watermark' = Larger(watermark, consumer[c].top) /\ UNCHANGED spent
       \/ UNCHANGED watermark /\ Spend("fault")
    /\ consumer' = [consumer EXCEPT
         ![c].cursor = IF consumer[c].pc = "scanning" THEN consumer[c].top ELSE 0,
         ![c].top = 0]
    /\ UNCHANGED <<producing, outbox, dead, held, stream, trimmed, server, group,
                   handled>>

\* The worker process stops or dies, at any point.
StopConsumer(c) ==
    /\ consumer[c].pc # "stopped"
    /\ Spend("stop")
    /\ consumer' = [consumer EXCEPT ![c] = Idle]
    /\ UNCHANGED <<producing, outbox, dead, held, stream, trimmed, server, group,
                   watermark, handled>>

-----------------------------------------------------------------------------

Produce(e) == Publish(e) \/ EndTransaction(e)

Maintain(e) ==
    \/ ReplayDeadLetter(e) \/ DispatchGrowsOld(e)
    \/ PurgePublished(e) \/ PurgeDead(e)

Copying(w) == ClaimRows(w) \/ Dispatch(w)

Consume(c) ==
    \/ CheckGap(c) \/ ScanRange(c) \/ Deliver(c)
    \/ ReadGroup(c) \/ ClaimStale(c) \/ Ack(c) \/ Advance(c)

Next ==
    \/ \E e \in Events : Produce(e) \/ Maintain(e)
    \/ \E w \in Workers : Copying(w) \/ DispatchFails(w) \/ WorkerStops(w)
    \/ ServerReads \/ MarkPublished \/ ServerRestarts
    \/ Trim \/ SweepIdleGroups
    \/ \E c \in Consumers : \/ StartConsumer(c) \/ Consume(c)
                            \/ ScanFails(c) \/ AckFails(c) \/ StopConsumer(c)

Spec == Init /\ [][Next]_vars

\* Transactions end, workers, server and members keep running their loops,
\* and a row dispatched in vain grows old.
Fairness ==
    /\ \A e \in Events : WF_vars(EndTransaction(e)) /\ WF_vars(DispatchGrowsOld(e))
    /\ \A w \in Workers : WF_vars(Copying(w))
    /\ WF_vars(ServerReads) /\ WF_vars(MarkPublished)
    /\ \A c \in Consumers : WF_vars(StartConsumer(c)) /\ WF_vars(Consume(c))

FairSpec == Spec /\ Fairness

-----------------------------------------------------------------------------
(* Properties *)

\* Every variable keeps its type; positions stay within the stream.
TypeOK ==
    /\ producer \in [Events -> {"new", "open", "committed", "aborted"}]
    /\ outbox \in [Events -> Row \cup {NoRow}]
    /\ nextSeq \in Nat \ {0}
    /\ dead \in SUBSET Events
    /\ held \in [Workers -> SUBSET Copy]
    /\ stream \in Seq(Envelope)
    /\ trimmed \in 0 .. Len(stream)
    /\ server \in [pos : 0 .. Len(stream), marks : SUBSET Events]
    /\ group \in [exists : BOOLEAN, last : 0 .. Len(stream),
                  pel : SUBSET (1 .. Len(stream))]
    /\ consumer \in [Consumers ->
         [pc : {"stopped", "starting", "scanning", "consuming"},
          todo : SUBSET Envelope, ids : SUBSET (1 .. Len(stream)),
          top : Nat, cursor : Nat, upto : Nat]]
    /\ watermark \in Nat
    /\ handled \in SUBSET Events
    /\ spent \in [Budgets -> Nat]

\* A committed event has one home: with stale copies, redispatches, dead
\* letters and replays, it is never both in the outbox and a dead letter.
OneHome == \A e \in dead : outbox[e] = NoRow

\* A committed event leaves the outbox as a dead letter, or after an entry of
\* it was added to the stream: no failure path drops it.
LeavesOutboxAccounted ==
    [][\A e \in Events : Visible(e) /\ outbox'[e] = NoRow
          => \/ e \in dead'
             \/ \E i \in 1 .. Len(stream) : stream[i].event = e]_vars

\* Where the record of an event is, and the events that were ever added to the
\* stream.
Home(e) ==
    IF producer[e] # "committed" THEN producer[e]
    ELSE IF outbox[e] # NoRow THEN "kept"
    ELSE IF e \in dead THEN "dead" ELSE "gone"

Entered == {stream[i].event : i \in 1 .. Len(stream)}

Places == [e \in Events |-> Home(e)]

Delivery == INSTANCE DeliveryContract WITH place <- Places, entered <- Entered

\* The pipeline keeps the contract of delivery: with stale copies, redispatches,
\* lost marks, replays and purges, an event has one home, leaves it for the
\* stream or the dead letters only, and neither stream nor subscription hears of
\* one whose transaction did not commit.
KeepsDelivery == Delivery!Spec

\* Entries the group has passed and no member owes are delivered: no crash,
\* takeover, lost acknowledgement or restart acknowledges an entry nobody
\* processed (stated where no delivery fails and no group is re-created).
AckedWasDelivered ==
    \A i \in Retained :
        i <= group.last /\ i \notin group.pel => stream[i].event \in handled

\* As long as its row is kept, an event not yet delivered can still reach its
\* subscribers: its row will be dispatched, its number is above the watermark
\* of the backfill, or an entry of it is in the stream for the group to read
\* or claim ("only an outage longer than the outbox's 24 h loses events").
NotLost ==
    \A e \in Events : Visible(e) /\ e \notin handled =>
       \/ ~outbox[e].published
       \/ outbox[e].seq > watermark
       \/ \E i \in Retained : /\ stream[i].event = e
                              /\ i > group.last \/ i \in group.pel

\* Every committed event is delivered at least once, or is a dead letter.
AtLeastOnce ==
    \A e \in Events : Visible(e) ~> e \in handled \/ e \in dead
=============================================================================
