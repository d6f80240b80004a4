------------------------ MODULE EventPipelineProofs ------------------------
(* Safety of the event pipeline for any number of events, workers, members    *)
(* and faults.  The outbox: an event is never in it and a dead letter at     *)
(* once, and does not leave it unaccounted, because a row is published only  *)
(* by a mark (PublishedSent), a mark is made only from an entry (MarksSent)  *)
(* and stream keeps the history of all entries.  The group: it passes over   *)
(* no entry that nobody processed (GInv).  Both together: no event is lost   *)
(* while its row is kept, for what was trimmed unread stays above the        *)
(* watermark until the backfill has delivered it (NInv).                     *)
EXTENDS EventPipeline, FiniteSetTheorems, WellFoundedInduction, TLAPS

\* An entry of the event was added to the stream.
Sent(e) == \E i \in 1 .. Len(stream) : stream[i].event = e

\* Every number in use was taken from the identity column.
SeqOK ==
    /\ \A e \in Events : outbox[e] # NoRow => outbox[e].seq < nextSeq
    /\ \A w \in Workers : \A r \in held[w] : r.seq < nextSeq
    /\ \A i \in 1 .. Len(stream) : stream[i].seq < nextSeq

NewIsNowhere ==
    \A e \in Events : producer[e] = "new" => outbox[e] = NoRow /\ e \notin dead

MarksSent == \A e \in server.marks : Sent(e)

PublishedSent ==
    \A e \in Events : outbox[e] # NoRow /\ outbox[e].published => Sent(e)

IInv ==
    /\ TypeOK
    /\ SeqOK
    /\ NewIsNowhere
    /\ OneHome
    /\ MarksSent
    /\ PublishedSent

\* The records the members of the group keep.
Member == [pc : {"stopped", "starting", "scanning", "consuming"},
           todo : SUBSET Envelope, ids : SUBSET (1 .. Len(stream)),
           top : Nat, cursor : Nat, upto : Nat]

-----------------------------------------------------------------------------
(* Least and greatest numbers *)

LEMMA NatMin == ASSUME NEW S \in SUBSET Nat, S # {}
                PROVE  \E m \in S : \A n \in S : m <= n
  <1> DEFINE R == {ss \in Nat \X Nat : ss[1] < ss[2]}
  <1>1. R = OpToRel(<, Nat)
    BY DEF OpToRel
  <1>2. IsWellFoundedOn(R, Nat)
    BY <1>1, NatLessThanWellFounded
  <1>3. PICK m \in S : \A n \in S : <<n, m>> \notin R
    BY <1>2, WFMin
  <1>4. ASSUME NEW n \in S PROVE m <= n
    <2>1. n \in Nat /\ m \in Nat /\ <<n, m>> \notin R
      BY <1>3
    <2>2. ~(n < m)
      BY <2>1
    <2> QED
      BY <2>1, <2>2
  <1> QED
    BY <1>4

LEMMA NatMax == ASSUME NEW S \in SUBSET Nat, S # {}, NEW b \in Nat, \A n \in S : n <= b
                PROVE  \E m \in S : \A n \in S : n <= m
  <1> DEFINE U == {u \in Nat : \A n \in S : n <= u}
  <1>1. PICK m \in U : \A u \in U : m <= u
    BY NatMin
  <1>2. m \in S
    <2>1. SUFFICES ASSUME m \notin S PROVE FALSE
      OBVIOUS
    <2>2. \A n \in S : n \in Nat /\ n <= m - 1
      BY <1>1, <2>1
    <2>3. PICK k \in S : TRUE
      OBVIOUS
    <2>4. k \in Nat /\ k <= m - 1
      BY <2>2, <2>3
    <2>5. m - 1 \in U
      BY <1>1, <2>2, <2>4
    <2> QED
      BY <1>1, <2>5
  <1> QED
    BY <1>1, <1>2

\* The copy a worker dispatches next is one of those it holds.
LEMMA NextCopyHeld ==
    ASSUME TypeOK, NEW w \in Workers, held[w] # {}
    PROVE  NextCopy(w) \in held[w] /\ NextCopy(w) \in Copy
  <1> DEFINE S == {r.seq : r \in held[w]}
  <1>1. held[w] \subseteq Copy
    BY DEF TypeOK
  <1>2. S \in SUBSET Nat /\ S # {}
    BY <1>1 DEF Copy
  <1>3. PICK m \in S : \A n \in S : m <= n
    BY <1>2, NatMin
  <1>4. \E r \in held[w] : \A q \in held[w] : r.seq <= q.seq
    BY <1>3
  <1> QED
    BY <1>1, <1>4 DEF NextCopy

\* The number a batch moves the watermark to.
LEMMA TopSeqNat ==
    ASSUME NEW S \in SUBSET Envelope, NEW b \in Nat, \A x \in S : x.seq <= b
    PROVE  TopSeq(S) \in Nat
  <1>1. CASE S = {}
    BY <1>1 DEF TopSeq
  <1>2. CASE S # {}
    <2> DEFINE T == {x.seq : x \in S}
    <2>1. T \in SUBSET Nat /\ T # {} /\ \A n \in T : n <= b
      BY <1>2 DEF Envelope
    <2>2. PICK m \in T : \A n \in T : n <= m
      BY <2>1, NatMax
    <2>3. \E n \in {x.seq : x \in S} : \A x \in S : x.seq <= n
      BY <2>2
    <2>4. TopSeq(S) = CHOOSE n \in {x.seq : x \in S} : \A x \in S : x.seq <= n
      BY <1>2 DEF TopSeq
    <2>5. TopSeq(S) \in T
      BY <2>3, <2>4
    <2> QED
      BY <2>1, <2>5
  <1> QED
    BY <1>1, <1>2

LEMMA SpendType == ASSUME TypeOK, NEW b \in Budgets, Spend(b)
                   PROVE  spent' \in [Budgets -> Nat]
  BY DEF TypeOK, Spend

\* An entry added to the stream leaves the others where they are.
LEMMA AddedEntry ==
    ASSUME TypeOK, NEW r \in Copy
    PROVE  /\ Added(r) \in Seq(Envelope)
           /\ Len(Added(r)) = Len(stream) + 1
           /\ \A i \in 1 .. Len(stream) : Added(r)[i] = stream[i]
           /\ Added(r)[Len(stream) + 1] = [event |-> r.event, seq |-> r.seq]
  <1>1. [event |-> r.event, seq |-> r.seq] \in Envelope
    BY DEF Copy, Envelope
  <1> QED
    BY <1>1 DEF Added, TypeOK

-----------------------------------------------------------------------------
(* Type correctness *)

LEMMA TypeInit == Init => TypeOK
  BY PipelineAssumption DEF Init, TypeOK, NoGroup, Idle

\* Rows of the outbox stay rows.
LEMMA RowTypes ==
    ASSUME NEW r \in Row
    PROVE  /\ [r EXCEPT !.dispatch = "yes"] \in Row
           /\ [r EXCEPT !.dispatch = "stale"] \in Row
           /\ [r EXCEPT !.published = TRUE] \in Row
           /\ [r EXCEPT !.attempts = @ + 1, !.dispatch = "no"] \in Row
  <1>1. r.attempts + 1 \in Nat
    BY DEF Row
  <1> QED
    BY <1>1 DEF Row

LEMMA NewRowType == TypeOK => NewRow \in Row /\ nextSeq + 1 \in Nat \ {0}
  BY DEF TypeOK, NewRow, Row

LEMMA TypeProducer ==
    ASSUME TypeOK, NEW e \in Events, Produce(e) \/ ReplayDeadLetter(e)
    PROVE  TypeOK'
  <1> USE NewRowType
  <1>1. CASE Publish(e)
    BY <1>1 DEF TypeOK, Publish, consuming
  <1>2. CASE EndTransaction(e)
    BY <1>2 DEF TypeOK, EndTransaction, consuming
  <1>3. CASE ReplayDeadLetter(e)
    <2>1. spent' \in [Budgets -> Nat]
      BY <1>3, SpendType DEF ReplayDeadLetter, Budgets
    <2>2. outbox' \in [Events -> Row \cup {NoRow}]
      BY <1>3 DEF TypeOK, ReplayDeadLetter
    <2> QED
      BY <1>3, <2>1, <2>2 DEF TypeOK, ReplayDeadLetter, consuming
  <1> QED
    BY <1>1, <1>2, <1>3 DEF Produce

\* What a failure does to the row it is stored in.
LEMMA TypeFailRow ==
    ASSUME TypeOK, NEW r \in Copy, outbox[r.event] # NoRow, FailRow(r)
    PROVE  outbox' \in [Events -> Row \cup {NoRow}] /\ dead' \in SUBSET Events
  <1>1. r.event \in Events
    BY DEF Copy
  <1>2. outbox[r.event] \in Row
    BY <1>1 DEF TypeOK
  <1>3. CASE r.attempts + 1 >= MaxAttempts
    <2>1. outbox' = [outbox EXCEPT ![r.event] = NoRow] /\ dead' = dead \cup {r.event}
      BY <1>3 DEF FailRow
    <2> QED
      BY <1>1, <2>1 DEF TypeOK
  <1>4. CASE ~(r.attempts + 1 >= MaxAttempts)
    <2>1. outbox' = [outbox EXCEPT ![r.event] =
             [outbox[r.event] EXCEPT !.attempts = @ + 1, !.dispatch = "no"]]
      BY <1>4 DEF FailRow
    <2>2. [outbox[r.event] EXCEPT !.attempts = @ + 1, !.dispatch = "no"] \in Row
      BY <1>2, RowTypes
    <2>3. dead' = dead
      BY <1>4 DEF FailRow
    <2>4. outbox' \in [Events -> Row \cup {NoRow}]
      BY <1>1, <2>1, <2>2 DEF TypeOK
    <2> QED
      BY <2>3, <2>4 DEF TypeOK
  <1> QED
    BY <1>3, <1>4

LEMMA TypeClaimRows ==
    ASSUME TypeOK, NEW w \in Workers, ClaimRows(w)
    PROVE  TypeOK'
  <1>1. PICK S \in SUBSET Claimable :
           /\ outbox' = [e \in Events |-> IF e \in S
                           THEN [outbox[e] EXCEPT !.dispatch = "yes"]
                           ELSE outbox[e]]
           /\ held' = [held EXCEPT ![w] =
                {[event |-> e, seq |-> outbox[e].seq, attempts |-> outbox[e].attempts] :
                   e \in S}]
    BY DEF ClaimRows
  <1>2. \A e \in S : e \in Events /\ outbox[e] \in Row
    BY DEF Claimable, Visible, TypeOK
  <1>3. outbox' \in [Events -> Row \cup {NoRow}]
    <2> SUFFICES ASSUME NEW e \in Events PROVE outbox'[e] \in Row \cup {NoRow}
      BY <1>1
    <2>1. CASE e \in S
      BY <1>1, <1>2, <2>1, RowTypes
    <2>2. CASE e \notin S
      BY <1>1, <2>2 DEF TypeOK
    <2> QED
      BY <2>1, <2>2
  <1>4. \A e \in S :
           [event |-> e, seq |-> outbox[e].seq, attempts |-> outbox[e].attempts] \in Copy
    BY <1>2 DEF Row, Copy
  <1>5. held' \in [Workers -> SUBSET Copy]
    BY <1>1, <1>4 DEF TypeOK
  <1> QED
    BY <1>3, <1>5 DEF TypeOK, ClaimRows, producing, consuming

LEMMA TypeDispatch ==
    ASSUME TypeOK, NEW w \in Workers, Dispatch(w) \/ DispatchFails(w)
    PROVE  TypeOK'
  <1>1. held[w] # {} /\ UNCHANGED <<producing, trimmed, server, consuming>>
    BY DEF Dispatch, DispatchFails
  <1> DEFINE r == NextCopy(w)
  <1>2. r \in held[w] /\ r \in Copy
    BY <1>1, NextCopyHeld
  <1>3. stream' \in {stream, Added(r)} /\ held' = [held EXCEPT ![w] = @ \ {r}]
    BY DEF Dispatch, DispatchFails
  <1>4. stream' \in Seq(Envelope) /\ Len(stream) \in Nat /\ Len(stream') \in Nat
        /\ Len(stream) <= Len(stream')
    <2> HIDE DEF r
    <2>1. CASE stream' = stream
      BY <2>1 DEF TypeOK
    <2>2. CASE stream' = Added(r)
      <3>1. Added(r) \in Seq(Envelope) /\ Len(Added(r)) = Len(stream) + 1
        BY <1>2, AddedEntry
      <3>2. Len(stream) \in Nat
        BY DEF TypeOK
      <3> QED
        BY <2>2, <3>1, <3>2
    <2> QED
      BY <1>3, <2>1, <2>2
  <1>5. outbox' \in [Events -> Row \cup {NoRow}] /\ dead' \in SUBSET Events
    <2>1. CASE Dispatch(w)
      BY <2>1 DEF Dispatch, TypeOK
    <2>2. CASE DispatchFails(w)
      <3>1. \/ UNCHANGED <<outbox, dead>>
            \/ outbox[r.event] # NoRow /\ FailRow(r)
        BY <2>2 DEF DispatchFails
      <3> QED
        BY <1>2, <3>1, TypeFailRow DEF TypeOK
    <2> QED
      BY <2>1, <2>2
  <1>6. spent' \in [Budgets -> Nat]
    BY SpendType DEF Dispatch, DispatchFails, TypeOK, Budgets
  <1>7. held' \in [Workers -> SUBSET Copy]
    BY <1>3 DEF TypeOK
  <1>8. 1 .. Len(stream) \subseteq 1 .. Len(stream') /\ 0 .. Len(stream) \subseteq 0 .. Len(stream')
    BY <1>4
  <1>9. /\ trimmed' \in 0 .. Len(stream')
        /\ server' \in [pos : 0 .. Len(stream'), marks : SUBSET Events]
        /\ group' \in [exists : BOOLEAN, last : 0 .. Len(stream'),
                        pel : SUBSET (1 .. Len(stream'))]
    BY <1>1, <1>8 DEF TypeOK, consuming
  <1>10. consumer' \in [Consumers ->
         [pc : {"stopped", "starting", "scanning", "consuming"},
          todo : SUBSET Envelope, ids : SUBSET (1 .. Len(stream')),
          top : Nat, cursor : Nat, upto : Nat]]
    BY <1>1, <1>8 DEF TypeOK, consuming
  <1> QED
    BY <1>1, <1>4, <1>5, <1>6, <1>7, <1>9, <1>10 DEF TypeOK, producing, consuming

LEMMA TypeMaintain ==
    ASSUME TypeOK, NEW e \in Events,
           DispatchGrowsOld(e) \/ PurgePublished(e) \/ PurgeDead(e)
    PROVE  TypeOK'
  <1>1. CASE DispatchGrowsOld(e)
    <2>1. outbox[e] \in Row
      BY <1>1 DEF DispatchGrowsOld, Visible, TypeOK
    <2>2. outbox' = [outbox EXCEPT ![e] = [outbox[e] EXCEPT !.dispatch = "stale"]]
      BY <1>1 DEF DispatchGrowsOld
    <2>3. spent' \in [Budgets -> Nat]
      BY <1>1, SpendType DEF DispatchGrowsOld, TypeOK, Budgets
    <2>4. outbox' \in [Events -> Row \cup {NoRow}]
      BY <2>1, <2>2, RowTypes DEF TypeOK
    <2> QED
      BY <1>1, <2>3, <2>4 DEF TypeOK, DispatchGrowsOld, producing, consuming
  <1>2. CASE PurgePublished(e)
    BY <1>2 DEF TypeOK, PurgePublished, producing, consuming
  <1>3. CASE PurgeDead(e)
    BY <1>3 DEF TypeOK, PurgeDead, producing, consuming
  <1> QED
    BY <1>1, <1>2, <1>3

LEMMA TypeMarks ==
    ASSUME TypeOK, MarkPublished
    PROVE  TypeOK'
  <1>1. server' = [pos |-> server.pos, marks |-> {}]
    BY DEF MarkPublished, TypeOK
  <1>2. outbox' \in [Events -> Row \cup {NoRow}]
    <2>1. CASE outbox' = [e \in Events |-> IF e \in server.marks /\ Visible(e)
                            THEN [outbox[e] EXCEPT !.published = TRUE] ELSE outbox[e]]
      <3> SUFFICES ASSUME NEW e \in Events PROVE outbox'[e] \in Row \cup {NoRow}
        BY <2>1
      <3>1. CASE e \in server.marks /\ Visible(e)
        <4>1. outbox[e] \in Row
          BY <3>1 DEF Visible, TypeOK
        <4> QED
          BY <2>1, <3>1, <4>1, RowTypes
      <3>2. CASE ~(e \in server.marks /\ Visible(e))
        BY <2>1, <3>2 DEF TypeOK
      <3> QED
        BY <3>1, <3>2
    <2>2. CASE UNCHANGED outbox
      BY <2>2 DEF TypeOK
    <2> QED
      BY <2>1, <2>2 DEF MarkPublished
  <1>3. spent' \in [Budgets -> Nat]
    BY SpendType DEF MarkPublished, TypeOK, Budgets
  <1>4. server' \in [pos : 0 .. Len(stream), marks : SUBSET Events]
    BY <1>1 DEF TypeOK
  <1> QED
    BY <1>2, <1>3, <1>4 DEF TypeOK, MarkPublished, producing, consuming

LEMMA TypeReads ==
    ASSUME TypeOK, ServerReads \/ ServerRestarts
    PROVE  TypeOK'
  <1>1. spent' \in [Budgets -> Nat]
    BY SpendType DEF ServerReads, ServerRestarts, TypeOK, Budgets
  <1>2. server' \in [pos : 0 .. Len(stream), marks : SUBSET Events]
    <2>1. CASE ServerReads
      <3> DEFINE i == Larger(server.pos, trimmed) + 1
      <3>1. i \in 1 .. Len(stream)
        BY <2>1 DEF ServerReads, Larger, TypeOK
      <3>2. stream[i].event \in Events
        <4> HIDE DEF i
        <4>1. stream[i] \in Envelope
          BY <3>1 DEF TypeOK
        <4> QED
          BY <4>1 DEF Envelope
      <3>3. \/ server' = [pos |-> i, marks |-> server.marks \cup {stream[i].event}]
            \/ server' = [server EXCEPT !.pos = i]
        BY <2>1 DEF ServerReads
      <3> HIDE DEF i
      <3> QED
        BY <3>1, <3>2, <3>3 DEF TypeOK
    <2>2. CASE ServerRestarts
      BY <2>2 DEF ServerRestarts, TypeOK
    <2> QED
      BY <2>1, <2>2
  <1> QED
    BY <1>1, <1>2 DEF TypeOK, ServerReads, ServerRestarts, producing, consuming

LEMMA TypeOther ==
    ASSUME TypeOK, \/ Trim
                   \/ SweepIdleGroups
                   \/ \E w \in Workers : WorkerStops(w)
    PROVE  TypeOK'
  <1>1. spent' \in [Budgets -> Nat]
    BY SpendType DEF Trim, SweepIdleGroups, WorkerStops, Budgets
  <1>2. CASE Trim
    <2>1. trimmed' \in 0 .. Len(stream)
      <3>1. Retained # {}
        BY <1>2, FS_EmptySet, PipelineAssumption DEF Trim
      <3> QED
        BY <1>2, <3>1 DEF Trim, Retained, TypeOK
    <2> QED
      BY <1>1, <1>2, <2>1 DEF Trim, TypeOK, producing, consuming
  <1>3. CASE SweepIdleGroups
    BY <1>1, <1>3 DEF SweepIdleGroups, TypeOK, NoGroup, producing
  <1>4. CASE \E w \in Workers : WorkerStops(w)
    BY <1>1, <1>4 DEF WorkerStops, TypeOK, producing, consuming
  <1> QED
    BY <1>2, <1>3, <1>4

-----------------------------------------------------------------------------
(* The members of the consumer group *)

Members == [Consumers -> Member]

\* A step of one member that leaves the group's neighbours alone keeps the
\* type when the member, the group and the watermark do.
LEMMA TypeConsume ==
    ASSUME TypeOK,
           UNCHANGED <<producing, outbox, dead, held, stream, trimmed, server>>,
           consumer' \in Members,
           group' \in [exists : BOOLEAN, last : 0 .. Len(stream),
                       pel : SUBSET (1 .. Len(stream))],
           watermark' \in Nat, handled' \in SUBSET Events,
           spent' \in [Budgets -> Nat]
    PROVE  TypeOK'
  BY DEF TypeOK, Members, Member, producing

\* An entry of the stream, and its number.
LEMMA EntryType ==
    ASSUME TypeOK, NEW i \in 1 .. Len(stream)
    PROVE  stream[i] \in Envelope /\ stream[i].event \in Events /\ stream[i].seq \in Nat
  <1>1. stream[i] \in Envelope
    BY DEF TypeOK
  <1> QED
    BY <1>1 DEF Envelope

\* The group, the members and the budget as TypeOK has them.
LEMMA ConsumeTypes ==
    ASSUME TypeOK
    PROVE  /\ consumer \in Members
           /\ group \in [exists : BOOLEAN, last : 0 .. Len(stream),
                         pel : SUBSET (1 .. Len(stream))]
           /\ watermark \in Nat /\ handled \in SUBSET Events
           /\ spent \in [Budgets -> Nat]
           /\ Idle \in Member /\ [Idle EXCEPT !.pc = "consuming"] \in Member
           /\ Len(stream) \in Nat
  <1>1. /\ consumer \in Members
        /\ group \in [exists : BOOLEAN, last : 0 .. Len(stream),
                      pel : SUBSET (1 .. Len(stream))]
        /\ watermark \in Nat /\ handled \in SUBSET Events
        /\ spent \in [Budgets -> Nat]
    BY DEF TypeOK, Members, Member
  <1>2. Idle \in Member
    BY DEF Member, Idle
  <1>3. [Idle EXCEPT !.pc = "consuming"] \in Member
    BY <1>2 DEF Member
  <1>4. Len(stream) \in Nat
    BY DEF TypeOK
  <1> QED
    BY <1>1, <1>2, <1>3, <1>4

LEMMA TypeStart ==
    ASSUME TypeOK, NEW c \in Consumers, StartConsumer(c)
    PROVE  TypeOK'
  <1>1. consumer[c] \in Member
    BY ConsumeTypes DEF Members
  <1>2. consumer' = [consumer EXCEPT ![c] = [consumer[c] EXCEPT !.pc = "starting"]]
    BY DEF StartConsumer
  <1>3. [consumer[c] EXCEPT !.pc = "starting"] \in Member
    BY <1>1 DEF Member
  <1>4. consumer' \in Members
    BY <1>2, <1>3, ConsumeTypes DEF Members
  <1>5. group' \in [exists : BOOLEAN, last : 0 .. Len(stream),
                    pel : SUBSET (1 .. Len(stream))]
    BY ConsumeTypes DEF StartConsumer
  <1> QED
    BY <1>4, <1>5, ConsumeTypes, TypeConsume DEF StartConsumer

LEMMA TypeCheckGap ==
    ASSUME TypeOK, NEW c \in Consumers, CheckGap(c)
    PROVE  TypeOK'
  <1>1. consumer[c] \in Member
    BY ConsumeTypes DEF Members
  <1>2. [consumer[c] EXCEPT !.pc = "consuming"] \in Member
    BY <1>1 DEF Member
  <1>3. ASSUME Gap
        PROVE  [consumer[c] EXCEPT !.pc = "scanning", !.cursor = watermark,
                                   !.upto = stream[trimmed + 1].seq] \in Member
    <2>1. trimmed + 1 \in 1 .. Len(stream)
      BY <1>3 DEF Gap, TypeOK
    <2>2. stream[trimmed + 1].seq \in Nat /\ watermark \in Nat
      BY <2>1, EntryType, ConsumeTypes
    <2> QED
      BY <1>1, <2>2 DEF Member
  <1>4. \E m \in Member : consumer' = [consumer EXCEPT ![c] = m]
    <2>1. CASE Gap /\ consumer' = [consumer EXCEPT ![c] =
                 [@ EXCEPT !.pc = "scanning", !.cursor = watermark,
                           !.upto = stream[trimmed + 1].seq]]
      BY <1>3, <2>1
    <2>2. CASE consumer' = [consumer EXCEPT ![c] = [@ EXCEPT !.pc = "consuming"]]
      BY <1>2, <2>2
    <2> QED
      BY <2>1, <2>2 DEF CheckGap
  <1>5. consumer' \in Members
    BY <1>4, ConsumeTypes DEF Members
  <1>6. spent' \in [Budgets -> Nat]
    BY SpendType, ConsumeTypes DEF CheckGap, Budgets
  <1> QED
    BY <1>5, <1>6, ConsumeTypes, TypeConsume DEF CheckGap

\* What a round of the backfill finds.
LEMMA FoundType ==
    ASSUME TypeOK, NEW c \in Consumers
    PROVE  {[event |-> e, seq |-> outbox[e].seq] : e \in InRange(c)} \in SUBSET Envelope
  <1>1. \A e \in InRange(c) : e \in Events /\ outbox[e] \in Row
    BY DEF InRange, Visible, TypeOK
  <1> QED
    BY <1>1 DEF Envelope, Row

\* What a member takes from the group.
LEMMA TakeType ==
    ASSUME TypeOK, SeqOK, NEW c \in Consumers, NEW ids \in SUBSET (1 .. Len(stream)),
           Take(c, ids)
    PROVE  consumer' \in Members
  <1> DEFINE got == {stream[i] : i \in ids}
  <1>1. got \in SUBSET Envelope
    BY EntryType
  <1>2. nextSeq \in Nat
    BY DEF TypeOK
  <1>3. \A x \in got : x.seq <= nextSeq
    <2> TAKE x \in got
    <2>1. PICK i \in ids : x = stream[i]
      OBVIOUS
    <2>2. stream[i].seq < nextSeq /\ stream[i].seq \in Nat
      BY EntryType DEF SeqOK
    <2> QED
      BY <1>2, <2>1, <2>2
  <1>4. TopSeq(got) \in Nat
    BY <1>1, <1>2, <1>3, TopSeqNat
  <1>5. consumer[c] \in Member
    BY ConsumeTypes DEF Members
  <1>6. consumer' = [consumer EXCEPT ![c] =
           [consumer[c] EXCEPT !.todo = got, !.ids = ids, !.top = TopSeq(got)]]
    BY DEF Take
  <1> HIDE DEF got
  <1>7. [consumer[c] EXCEPT !.todo = got, !.ids = ids, !.top = TopSeq(got)] \in Member
    BY <1>1, <1>4, <1>5 DEF Member
  <1> QED
    BY <1>6, <1>7, ConsumeTypes DEF Members

LEMMA TypeScan ==
    ASSUME TypeOK, NEW c \in Consumers, ScanRange(c) \/ ScanFails(c)
    PROVE  TypeOK'
  <1> DEFINE rows == {[event |-> e, seq |-> outbox[e].seq] : e \in InRange(c)}
  <1>1. consumer[c] \in Member
    BY ConsumeTypes DEF Members
  <1>2. rows \in SUBSET Envelope
    BY FoundType
  <1>3. \E m \in Member : consumer' = [consumer EXCEPT ![c] = m]
    <2>1. CASE consumer' = [consumer EXCEPT ![c] = [Idle EXCEPT !.pc = "consuming"]]
      BY <2>1, ConsumeTypes
    <2>2. ASSUME NEW last \in rows,
                 consumer' = [consumer EXCEPT ![c].top = last.seq,
                                ![c].todo = {x \in rows : x.seq <= last.seq}]
          PROVE  \E m \in Member : consumer' = [consumer EXCEPT ![c] = m]
      <3> DEFINE found == {x \in rows : x.seq <= last.seq}
      <3>1. last.seq \in Nat
        BY <1>2 DEF Envelope
      <3>2. found \in SUBSET Envelope
        BY <1>2
      <3>3. consumer' = [consumer EXCEPT ![c] =
               [consumer[c] EXCEPT !.top = last.seq, !.todo = found]]
        BY <2>2
      <3> HIDE DEF rows, found
      <3>4. [consumer[c] EXCEPT !.top = last.seq, !.todo = found] \in Member
        BY <1>1, <3>1, <3>2 DEF Member
      <3> QED
        BY <3>3, <3>4
    <2> QED
      BY <2>1, <2>2 DEF ScanRange, ScanFails
  <1>4. consumer' \in Members
    BY <1>3, ConsumeTypes DEF Members
  <1>5. spent' \in [Budgets -> Nat]
    BY SpendType, ConsumeTypes DEF ScanRange, ScanFails, Budgets
  <1> QED
    BY <1>4, <1>5, ConsumeTypes, TypeConsume DEF ScanRange, ScanFails

LEMMA TypeDeliver ==
    ASSUME TypeOK, NEW c \in Consumers, Deliver(c)
    PROVE  TypeOK'
  <1>1. consumer[c] \in Member
    BY ConsumeTypes DEF Members
  <1>2. PICK x \in consumer[c].todo :
           /\ \/ handled' = handled \cup {x.event} /\ UNCHANGED spent
              \/ UNCHANGED handled /\ Spend("error")
           /\ consumer' = [consumer EXCEPT ![c] =
                [consumer[c] EXCEPT !.todo = consumer[c].todo \ {x}]]
           /\ UNCHANGED <<producing, outbox, dead, held, stream, trimmed, server, group,
                          watermark>>
    BY DEF Deliver
  <1>3. x.event \in Events
    BY <1>1 DEF Member, Envelope
  <1>4. [consumer[c] EXCEPT !.todo = consumer[c].todo \ {x}] \in Member
    BY <1>1 DEF Member
  <1>5. consumer' \in Members
    BY <1>2, <1>4, ConsumeTypes DEF Members
  <1>6. handled' \in SUBSET Events
    BY <1>2, <1>3, ConsumeTypes
  <1>7. spent' \in [Budgets -> Nat]
    BY <1>2, SpendType, ConsumeTypes DEF Budgets
  <1> QED
    BY <1>2, <1>5, <1>6, <1>7, ConsumeTypes, TypeConsume

LEMMA TypeTake ==
    ASSUME TypeOK, SeqOK, NEW c \in Consumers, ReadGroup(c) \/ ClaimStale(c)
    PROVE  TypeOK'
  <1>1. Retained \in SUBSET (1 .. Len(stream)) /\ group.pel \in SUBSET (1 .. Len(stream))
    BY DEF Retained, TypeOK
  <1>2. PICK ids \in SUBSET (1 .. Len(stream)) :
           /\ Take(c, ids)
           /\ \/ group' = [group EXCEPT !.last = Len(stream), !.pel = @ \cup ids]
              \/ group' = [group EXCEPT !.pel = ids]
    <2>1. CASE ReadGroup(c)
      <3>1. {i \in Retained : i > group.last} \in SUBSET (1 .. Len(stream))
        BY <1>1
      <3> QED
        BY <2>1, <3>1 DEF ReadGroup
    <2>2. CASE ClaimStale(c)
      <3>1. group.pel \cap Retained \in SUBSET (1 .. Len(stream))
        BY <1>1
      <3> QED
        BY <2>2, <3>1 DEF ClaimStale
    <2> QED
      BY <2>1, <2>2
  <1>3. consumer' \in Members
    BY <1>2, TakeType
  <1>4. group' \in [exists : BOOLEAN, last : 0 .. Len(stream),
                    pel : SUBSET (1 .. Len(stream))]
    <2>1. CASE group' = [group EXCEPT !.last = Len(stream), !.pel = @ \cup ids]
      <3>1. group.pel \cup ids \in SUBSET (1 .. Len(stream)) /\ Len(stream) \in 0 .. Len(stream)
        BY <1>1, ConsumeTypes
      <3> QED
        BY <2>1, <3>1, ConsumeTypes
    <2>2. CASE group' = [group EXCEPT !.pel = ids]
      BY <2>2, ConsumeTypes
    <2> QED
      BY <1>2, <2>1, <2>2
  <1>5. spent' \in [Budgets -> Nat]
    BY SpendType, ConsumeTypes DEF ReadGroup, ClaimStale, Budgets
  <1> QED
    BY <1>3, <1>4, <1>5, ConsumeTypes, TypeConsume DEF ReadGroup, ClaimStale

LEMMA TypeAck ==
    ASSUME TypeOK, NEW c \in Consumers, Ack(c) \/ AckFails(c) \/ StopConsumer(c)
    PROVE  TypeOK'
  <1>1. consumer[c] \in Member
    BY ConsumeTypes DEF Members
  <1>2. [consumer[c] EXCEPT !.ids = {}] \in Member
    BY <1>1 DEF Member
  <1>3. \E m \in Member : consumer' = [consumer EXCEPT ![c] = m]
    BY <1>2, ConsumeTypes DEF Ack, AckFails, StopConsumer
  <1>4. consumer' \in Members
    BY <1>3, ConsumeTypes DEF Members
  <1>5. spent' \in [Budgets -> Nat]
    BY SpendType, ConsumeTypes DEF Ack, AckFails, StopConsumer, Budgets
  <1>6. group' \in [exists : BOOLEAN, last : 0 .. Len(stream),
                    pel : SUBSET (1 .. Len(stream))]
    BY ConsumeTypes DEF Ack, AckFails, StopConsumer
  <1> QED
    BY <1>4, <1>5, <1>6, ConsumeTypes, TypeConsume DEF Ack, AckFails, StopConsumer

LEMMA TypeAdvance ==
    ASSUME TypeOK, NEW c \in Consumers, Advance(c)
    PROVE  TypeOK'
  <1>1. consumer[c] \in Member /\ consumer[c].top \in Nat
    BY ConsumeTypes DEF Members, Member
  <1> DEFINE next == IF consumer[c].pc = "scanning" THEN consumer[c].top ELSE 0
  <1>2. next \in Nat
    BY <1>1
  <1>3. consumer' = [consumer EXCEPT ![c] = [consumer[c] EXCEPT !.cursor = next, !.top = 0]]
    BY DEF Advance
  <1> HIDE DEF next
  <1>4. [consumer[c] EXCEPT !.cursor = next, !.top = 0] \in Member
    BY <1>1, <1>2 DEF Member
  <1>5. consumer' \in Members
    BY <1>3, <1>4, ConsumeTypes DEF Members
  <1>6. watermark' \in Nat
    BY <1>1, ConsumeTypes DEF Advance, Larger
  <1>7. spent' \in [Budgets -> Nat]
    BY SpendType, ConsumeTypes DEF Advance, Budgets
  <1> QED
    BY <1>5, <1>6, <1>7, ConsumeTypes, TypeConsume DEF Advance

LEMMA TypeNext == TypeOK /\ SeqOK /\ [Next]_vars => TypeOK'
  <1> SUFFICES ASSUME TypeOK, SeqOK, [Next]_vars PROVE TypeOK'
    OBVIOUS
  <1>1. CASE UNCHANGED vars
    BY <1>1 DEF vars, TypeOK
  <1>2. ASSUME NEW e \in Events, Produce(e) \/ Maintain(e) PROVE TypeOK'
    BY <1>2, TypeProducer, TypeMaintain DEF Maintain
  <1>3. ASSUME NEW w \in Workers, Copying(w) \/ DispatchFails(w) \/ WorkerStops(w)
        PROVE  TypeOK'
    BY <1>3, TypeClaimRows, TypeDispatch, TypeOther DEF Copying
  <1>4. CASE ServerReads \/ MarkPublished \/ ServerRestarts
    BY <1>4, TypeReads, TypeMarks
  <1>5. CASE Trim \/ SweepIdleGroups
    BY <1>5, TypeOther
  <1>6. ASSUME NEW c \in Consumers,
               \/ StartConsumer(c) \/ Consume(c)
               \/ ScanFails(c) \/ AckFails(c) \/ StopConsumer(c)
        PROVE  TypeOK'
    BY <1>6, TypeStart, TypeCheckGap, TypeScan, TypeDeliver, TypeTake, TypeAck,
       TypeAdvance DEF Consume
  <1> QED
    BY <1>1, <1>2, <1>3, <1>4, <1>5, <1>6 DEF Next

-----------------------------------------------------------------------------
(* What a step does to the rows, the dead letters, the copies, the stream    *)
(* and the marks                                                             *)

\* A worker has a copy of the event's row.
Held(e) == \E w \in Workers : \E r \in held[w] : r.event = e

RowStep(e) ==
    \/ outbox'[e] = outbox[e]
    \/ /\ outbox'[e] = NewRow /\ nextSeq' = nextSeq + 1
       /\ e \notin dead' /\ producer'[e] # "new"
       /\ producer[e] = "new" \/ spent["replay"] < MaxReplays
    \/ /\ outbox'[e] = NoRow
       /\ \/ producer[e] = "open" /\ producer'[e] = "aborted"
          \/ e \in dead' /\ Held(e)
          \/ producer[e] = "committed" /\ outbox[e].published
    \/ /\ outbox[e] # NoRow /\ outbox'[e] # NoRow
       /\ outbox'[e].seq = outbox[e].seq
       /\ outbox'[e].published => outbox[e].published \/ e \in server.marks

DeadStep ==
    \A e \in dead' : \/ e \in dead
                     \/ outbox[e] # NoRow /\ outbox'[e] = NoRow /\ Held(e)

HeldStep ==
    \A w \in Workers : \A r \in held'[w] :
       \/ r \in held[w]
       \/ \E e \in Events : Visible(e) /\ r.event = e /\ r.seq = outbox[e].seq

StreamStep ==
    stream' = stream \/ \E w \in Workers : \E r \in held[w] : stream' = Added(r)

ProducerStep(e) ==
    /\ producer'[e] = "new" => producer[e] = "new"
    /\ producer'[e] = "open" => producer[e] = "open" \/ outbox'[e] # NoRow
    /\ producer[e] = "committed" => producer'[e] = "committed"

MarkStep == \A e \in server'.marks : e \in server.marks \/ Sent(e)

Effect ==
    /\ \A e \in Events : RowStep(e)
    /\ DeadStep
    /\ HeldStep
    /\ StreamStep
    /\ MarkStep
    /\ nextSeq <= nextSeq'
    /\ \A e \in Events : ProducerStep(e)

LEMMA NoEffect ==
    ASSUME TypeOK, UNCHANGED <<producer, outbox, nextSeq, dead, held, stream>>,
           MarkStep
    PROVE  Effect
  <1>1. nextSeq <= nextSeq'
    BY DEF TypeOK
  <1> QED
    BY <1>1 DEF Effect, RowStep, DeadStep, HeldStep, StreamStep, ProducerStep

\* Steps that change the outbox only by rows that satisfy RowStep.
LEMMA RowEffect ==
    ASSUME TypeOK, UNCHANGED <<held, stream, server>>,
           \A e \in Events : RowStep(e), DeadStep,
           nextSeq' \in {nextSeq, nextSeq + 1},
           \A e \in Events : ProducerStep(e)
    PROVE  Effect
  <1>1. nextSeq <= nextSeq'
    BY DEF TypeOK
  <1> QED
    BY <1>1 DEF Effect, HeldStep, StreamStep, MarkStep

LEMMA ProducerEffect ==
    ASSUME TypeOK, NewIsNowhere, NEW e \in Events, Produce(e) \/ ReplayDeadLetter(e)
    PROVE  Effect
  <1>1. CASE Publish(e)
    <2>1. \A d \in Events : RowStep(d)
      <3> TAKE d \in Events
      <3>1. CASE d = e
        BY <1>1, <3>1 DEF Publish, RowStep, NewIsNowhere, TypeOK
      <3>2. CASE d # e
        BY <1>1, <3>2 DEF Publish, RowStep, TypeOK
      <3> QED
        BY <3>1, <3>2
    <2>2. DeadStep
      BY <1>1 DEF Publish, DeadStep
    <2>3. \A d \in Events : ProducerStep(d)
      <3>1. NewRow # NoRow
        BY NewRowType, NoRowAssumption
      <3> QED
        BY <1>1, <3>1 DEF Publish, ProducerStep, TypeOK
    <2> QED
      BY <1>1, <2>1, <2>2, <2>3, RowEffect DEF Publish
  <1>2. CASE EndTransaction(e)
    <2>1. \A d \in Events : RowStep(d)
      <3> TAKE d \in Events
      <3>1. CASE outbox' = outbox
        BY <3>1 DEF RowStep
      <3>2. CASE outbox' = [outbox EXCEPT ![e] = NoRow]
        BY <1>2, <3>2 DEF EndTransaction, RowStep, TypeOK
      <3> QED
        BY <1>2, <3>1, <3>2 DEF EndTransaction
    <2>2. DeadStep
      BY <1>2 DEF EndTransaction, DeadStep
    <2>3. \A d \in Events : ProducerStep(d)
      BY <1>2 DEF EndTransaction, ProducerStep, TypeOK
    <2> QED
      BY <1>2, <2>1, <2>2, <2>3, RowEffect DEF EndTransaction
  <1>3. CASE ReplayDeadLetter(e)
    <2>1. \A d \in Events : RowStep(d)
      <3> TAKE d \in Events
      <3>1. CASE d = e /\ outbox[e] = NoRow
        <4>1. producer[e] # "new"
          BY <1>3 DEF ReplayDeadLetter, NewIsNowhere
        <4> QED
          BY <1>3, <3>1, <4>1 DEF ReplayDeadLetter, RowStep, Spend, Limit, Budgets, TypeOK
      <3>2. CASE ~(d = e /\ outbox[e] = NoRow)
        BY <1>3, <3>2 DEF ReplayDeadLetter, RowStep, TypeOK
      <3> QED
        BY <3>1, <3>2
    <2>2. DeadStep
      BY <1>3 DEF ReplayDeadLetter, DeadStep
    <2> QED
      BY <1>3, <2>1, <2>2, RowEffect DEF ReplayDeadLetter, ProducerStep
  <1> QED
    BY <1>1, <1>2, <1>3 DEF Produce

LEMMA MaintainEffect ==
    ASSUME TypeOK, NEW e \in Events,
           DispatchGrowsOld(e) \/ PurgePublished(e) \/ PurgeDead(e)
    PROVE  Effect
  <1>1. CASE DispatchGrowsOld(e)
    <2>1. \A d \in Events : RowStep(d)
      <3> TAKE d \in Events
      <3>1. CASE d = e
        <4>1. outbox[e] \in Row /\ outbox[e] # NoRow
          BY <1>1 DEF DispatchGrowsOld, Visible, TypeOK
        <4>2. outbox'[e] = [outbox[e] EXCEPT !.dispatch = "stale"]
          BY <1>1 DEF DispatchGrowsOld, TypeOK
        <4>3. outbox'[e] \in Row
          BY <4>1, <4>2, RowTypes
        <4>4. outbox'[e].seq = outbox[e].seq /\ outbox'[e].published = outbox[e].published
          BY <4>1, <4>2 DEF Row
        <4> QED
          BY <3>1, <4>1, <4>3, <4>4, NoRowAssumption DEF RowStep
      <3>2. CASE d # e
        BY <1>1, <3>2 DEF DispatchGrowsOld, RowStep, TypeOK
      <3> QED
        BY <3>1, <3>2
    <2> QED
      BY <1>1, <2>1, RowEffect DEF DispatchGrowsOld, producing, DeadStep, ProducerStep
  <1>2. CASE PurgePublished(e)
    <2>1. \A d \in Events : RowStep(d)
      BY <1>2 DEF PurgePublished, Visible, RowStep, TypeOK
    <2> QED
      BY <1>2, <2>1, RowEffect DEF PurgePublished, producing, DeadStep, ProducerStep
  <1>3. CASE PurgeDead(e)
    <2>1. \A d \in Events : RowStep(d)
      BY <1>3 DEF PurgeDead, RowStep
    <2> QED
      BY <1>3, <2>1, RowEffect DEF PurgeDead, producing, DeadStep, ProducerStep
  <1> QED
    BY <1>1, <1>2, <1>3

\* What a change of one row leaves of it.
LEMMA SameRow ==
    ASSUME NEW r \in Row
    PROVE  /\ [r EXCEPT !.dispatch = "yes"].seq = r.seq
           /\ [r EXCEPT !.dispatch = "yes"].published = r.published
           /\ [r EXCEPT !.attempts = @ + 1, !.dispatch = "no"].seq = r.seq
           /\ [r EXCEPT !.attempts = @ + 1, !.dispatch = "no"].published = r.published
           /\ [r EXCEPT !.published = TRUE].seq = r.seq
  BY DEF Row

LEMMA ClaimEffect ==
    ASSUME TypeOK, NEW w \in Workers, ClaimRows(w)
    PROVE  Effect
  <1>1. PICK S \in SUBSET Claimable :
           /\ outbox' = [e \in Events |-> IF e \in S
                           THEN [outbox[e] EXCEPT !.dispatch = "yes"]
                           ELSE outbox[e]]
           /\ held' = [held EXCEPT ![w] =
                {[event |-> e, seq |-> outbox[e].seq, attempts |-> outbox[e].attempts] :
                   e \in S}]
    BY DEF ClaimRows
  <1>2. \A e \in S : Visible(e) /\ e \in Events /\ outbox[e] # NoRow /\ outbox[e] \in Row
    BY DEF Claimable, Visible, TypeOK
  <1>3. \A e \in Events : RowStep(e)
    <2> TAKE e \in Events
    <2>1. CASE e \in S
      <3>1. outbox'[e] = [outbox[e] EXCEPT !.dispatch = "yes"]
        BY <1>1, <2>1
      <3>2. outbox'[e] \in Row /\ outbox'[e].seq = outbox[e].seq
            /\ outbox'[e].published = outbox[e].published
        BY <1>2, <2>1, <3>1, RowTypes, SameRow
      <3> QED
        BY <1>2, <2>1, <3>2, NoRowAssumption DEF RowStep
    <2>2. CASE e \notin S
      BY <1>1, <2>2 DEF RowStep
    <2> QED
      BY <2>1, <2>2
  <1>4. HeldStep
    <2> SUFFICES ASSUME NEW v \in Workers, NEW r \in held'[v]
                 PROVE  \/ r \in held[v]
                        \/ \E e \in Events :
                             Visible(e) /\ r.event = e /\ r.seq = outbox[e].seq
      BY DEF HeldStep
    <2>1. CASE v = w
      <3>1. held'[v] = {[event |-> e, seq |-> outbox[e].seq,
                         attempts |-> outbox[e].attempts] : e \in S}
        BY <1>1, <2>1 DEF TypeOK
      <3> QED
        BY <1>2, <3>1
    <2>2. CASE v # w
      BY <1>1, <2>2 DEF TypeOK
    <2> QED
      BY <2>1, <2>2
  <1>5. nextSeq <= nextSeq'
    BY DEF ClaimRows, producing, TypeOK
  <1> QED
    BY <1>3, <1>4, <1>5 DEF ClaimRows, producing, Effect, DeadStep, StreamStep, MarkStep,
       ProducerStep

\* A failure stored in a row that is still there.
LEMMA FailEffect ==
    ASSUME TypeOK, NEW w \in Workers, NEW r \in held[w], r \in Copy,
           outbox[r.event] # NoRow, FailRow(r)
    PROVE  DeadStep /\ \A e \in Events : RowStep(e)
  <1>1. r.event \in Events /\ outbox[r.event] \in Row
    BY DEF Copy, TypeOK
  <1>2. CASE r.attempts + 1 >= MaxAttempts
    <2>1. outbox' = [outbox EXCEPT ![r.event] = NoRow] /\ dead' = dead \cup {r.event}
      BY <1>2 DEF FailRow
    <2>2. \A e \in Events : outbox'[e] = IF e = r.event THEN NoRow ELSE outbox[e]
      BY <2>1 DEF TypeOK
    <2>3. Held(r.event)
      BY DEF Held
    <2>4. DeadStep
      BY <1>1, <2>1, <2>2, <2>3 DEF DeadStep
    <2>5. \A e \in Events : RowStep(e)
      <3> TAKE e \in Events
      <3>1. CASE e = r.event
        BY <2>1, <2>2, <2>3, <3>1 DEF RowStep
      <3>2. CASE e # r.event
        BY <2>2, <3>2 DEF RowStep
      <3> QED
        BY <3>1, <3>2
    <2> QED
      BY <2>4, <2>5
  <1>3. CASE ~(r.attempts + 1 >= MaxAttempts)
    <2> DEFINE row == [outbox[r.event] EXCEPT !.attempts = @ + 1, !.dispatch = "no"]
    <2>1. outbox' = [outbox EXCEPT ![r.event] = row] /\ dead' = dead
      BY <1>3 DEF FailRow
    <2>2. /\ row \in Row /\ row.seq = outbox[r.event].seq
          /\ row.published = outbox[r.event].published
      BY <1>1, RowTypes, SameRow
    <2> HIDE DEF row
    <2>3. \A e \in Events : outbox'[e] = IF e = r.event THEN row ELSE outbox[e]
      BY <2>1 DEF TypeOK
    <2> QED
      BY <1>1, <2>1, <2>2, <2>3, NoRowAssumption DEF DeadStep, RowStep
  <1> QED
    BY <1>2, <1>3

LEMMA DispatchEffect ==
    ASSUME TypeOK, NEW w \in Workers, Dispatch(w) \/ DispatchFails(w) \/ WorkerStops(w)
    PROVE  Effect
  <1> DEFINE r == NextCopy(w)
  <1>1. r \in held[w] /\ r \in Copy
    BY NextCopyHeld DEF Dispatch, DispatchFails, WorkerStops
  <1>2. UNCHANGED <<producing, server>>
    BY DEF Dispatch, DispatchFails, WorkerStops
  <1>3. HeldStep
    <2>1. held' \in {[held EXCEPT ![w] = held[w] \ {r}], [held EXCEPT ![w] = {}]}
      BY DEF Dispatch, DispatchFails, WorkerStops
    <2> HIDE DEF r
    <2>2. \A v \in Workers : held'[v] = held[v] \/ (v = w /\ held'[v] \subseteq held[v])
      BY <2>1 DEF TypeOK
    <2> QED
      BY <2>2 DEF HeldStep
  <1>4. StreamStep
    <2>1. stream' \in {stream, Added(r)}
      BY DEF Dispatch, DispatchFails, WorkerStops
    <2> QED
      BY <1>1, <2>1 DEF StreamStep
  <1>5. DeadStep /\ \A e \in Events : RowStep(e)
    <2>1. CASE UNCHANGED <<outbox, dead>>
      BY <2>1 DEF DeadStep, RowStep
    <2>2. CASE outbox[r.event] # NoRow /\ FailRow(r)
      BY <1>1, <2>2, FailEffect
    <2> QED
      BY <2>1, <2>2 DEF Dispatch, DispatchFails, WorkerStops
  <1>6. nextSeq <= nextSeq'
    BY <1>2 DEF producing, TypeOK
  <1> QED
    BY <1>2, <1>3, <1>4, <1>5, <1>6 DEF producing, Effect, MarkStep, ProducerStep

LEMMA ServerEffect ==
    ASSUME TypeOK, ServerReads \/ MarkPublished \/ ServerRestarts
    PROVE  Effect
  <1>1. MarkStep
    <2>1. CASE ServerReads
      <3> DEFINE i == Larger(server.pos, trimmed) + 1
      <3>1. i \in 1 .. Len(stream)
        BY <2>1 DEF ServerReads, Larger, TypeOK
      <3>2. server'.marks \subseteq server.marks \cup {stream[i].event}
        <4>1. \/ server' = [pos |-> i, marks |-> server.marks \cup {stream[i].event}]
              \/ server' = [server EXCEPT !.pos = i]
          BY <2>1 DEF ServerReads
        <4> HIDE DEF i
        <4> QED
          BY <4>1 DEF TypeOK
      <3> HIDE DEF i
      <3> QED
        BY <3>1, <3>2 DEF MarkStep, Sent
    <2>2. CASE MarkPublished
      BY <2>2 DEF MarkPublished, MarkStep, TypeOK
    <2>3. CASE ServerRestarts
      BY <2>3 DEF ServerRestarts, MarkStep
    <2> QED
      BY <2>1, <2>2, <2>3
  <1>2. CASE UNCHANGED <<producer, outbox, nextSeq, dead, held, stream>>
    BY <1>1, <1>2, NoEffect
  <1>3. CASE MarkPublished /\ outbox' = [e \in Events |-> IF e \in server.marks /\ Visible(e)
                                 THEN [outbox[e] EXCEPT !.published = TRUE] ELSE outbox[e]]
    <2>1. \A e \in Events : RowStep(e)
      <3> TAKE e \in Events
      <3>1. CASE e \in server.marks /\ Visible(e)
        <4>1. outbox[e] \in Row /\ outbox[e] # NoRow
          BY <3>1 DEF Visible, TypeOK
        <4>2. outbox'[e] = [outbox[e] EXCEPT !.published = TRUE]
          BY <1>3, <3>1
        <4>3. outbox'[e] \in Row /\ outbox'[e].seq = outbox[e].seq
          BY <4>1, <4>2, RowTypes, SameRow
        <4> QED
          BY <3>1, <4>1, <4>3, NoRowAssumption DEF RowStep
      <3>2. CASE ~(e \in server.marks /\ Visible(e))
        BY <1>3, <3>2 DEF RowStep
      <3> QED
        BY <3>1, <3>2
    <2>2. nextSeq <= nextSeq'
      BY <1>3 DEF MarkPublished, producing, TypeOK
    <2> QED
      BY <1>1, <1>3, <2>1, <2>2
      DEF MarkPublished, producing, Effect, DeadStep, HeldStep, StreamStep, ProducerStep
  <1> QED
    BY <1>2, <1>3 DEF ServerReads, MarkPublished, ServerRestarts, producing

LEMMA NextEffect == TypeOK /\ NewIsNowhere /\ [Next]_vars => Effect
  <1> SUFFICES ASSUME TypeOK, NewIsNowhere, [Next]_vars PROVE Effect
    OBVIOUS
  <1>1. CASE UNCHANGED vars
    BY <1>1, NoEffect DEF vars, MarkStep
  <1>2. ASSUME NEW e \in Events, Produce(e) \/ Maintain(e) PROVE Effect
    BY <1>2, ProducerEffect, MaintainEffect DEF Maintain
  <1>3. ASSUME NEW w \in Workers, Copying(w) \/ DispatchFails(w) \/ WorkerStops(w)
        PROVE  Effect
    BY <1>3, ClaimEffect, DispatchEffect DEF Copying
  <1>4. CASE ServerReads \/ MarkPublished \/ ServerRestarts
    BY <1>4, ServerEffect
  <1>5. CASE Trim \/ SweepIdleGroups
    BY <1>5, NoEffect DEF Trim, SweepIdleGroups, producing, MarkStep
  <1>6. ASSUME NEW c \in Consumers,
               \/ StartConsumer(c) \/ Consume(c)
               \/ ScanFails(c) \/ AckFails(c) \/ StopConsumer(c)
        PROVE  Effect
    <2>1. UNCHANGED <<producer, outbox, nextSeq, dead, held, stream, server>>
      BY <1>6 DEF Consume, StartConsumer, CheckGap, ScanRange, Deliver, ReadGroup,
         ClaimStale, Ack, Advance, ScanFails, AckFails, StopConsumer, producing
    <2> QED
      BY <2>1, NoEffect DEF MarkStep
  <1> QED
    BY <1>1, <1>2, <1>3, <1>4, <1>5, <1>6 DEF Next

-----------------------------------------------------------------------------
(* The inductive invariant *)

\* The history of the stream only grows, by the copies that are dispatched.
LEMMA StreamGrows ==
    ASSUME TypeOK, StreamStep
    PROVE  /\ \A i \in 1 .. Len(stream) : i \in 1 .. Len(stream') /\ stream'[i] = stream[i]
           /\ \A i \in 1 .. Len(stream') :
                 \/ i \in 1 .. Len(stream)
                 \/ \E w \in Workers : \E r \in held[w] :
                      stream'[i] = [event |-> r.event, seq |-> r.seq]
  <1>1. CASE stream' = stream
    BY <1>1
  <1>2. CASE \E w \in Workers : \E r \in held[w] : stream' = Added(r)
    <2> PICK w \in Workers : \E r \in held[w] : stream' = Added(r)
      BY <1>2
    <2>1. PICK r \in held[w] : stream' = Added(r)
      OBVIOUS
    <2>2. r \in Copy /\ Len(stream) \in Nat
      BY DEF TypeOK
    <2>3. /\ Len(stream') = Len(stream) + 1
          /\ \A i \in 1 .. Len(stream) : stream'[i] = stream[i]
          /\ stream'[Len(stream) + 1] = [event |-> r.event, seq |-> r.seq]
      BY <2>1, <2>2, AddedEntry
    <2>4. \A i \in 1 .. Len(stream') : i \in 1 .. Len(stream) \/ i = Len(stream) + 1
      BY <2>2, <2>3
    <2>5. \A i \in 1 .. Len(stream) : i \in 1 .. Len(stream')
      BY <2>2, <2>3
    <2> QED
      BY <2>3, <2>4, <2>5
  <1> QED
    BY <1>1, <1>2 DEF StreamStep

LEMMA SentStays ==
    ASSUME TypeOK, StreamStep, NEW e, Sent(e)
    PROVE  Sent(e)'
  BY StreamGrows DEF Sent

LEMMA SeqStep == TypeOK /\ TypeOK' /\ SeqOK /\ Effect => SeqOK'
  <1> SUFFICES ASSUME TypeOK, TypeOK', SeqOK, Effect PROVE SeqOK'
    OBVIOUS
  <1>1. nextSeq \in Nat /\ nextSeq' \in Nat /\ nextSeq <= nextSeq'
    BY DEF TypeOK, Effect
  <1>2. ASSUME NEW e \in Events, outbox'[e] # NoRow PROVE outbox'[e].seq < nextSeq'
    <2>1. CASE outbox'[e] = NewRow /\ nextSeq' = nextSeq + 1
      BY <1>1, <2>1 DEF NewRow
    <2>2. CASE outbox[e] # NoRow /\ outbox'[e].seq = outbox[e].seq
      <3>1. outbox[e].seq \in Nat /\ outbox[e].seq < nextSeq
        BY <2>2 DEF TypeOK, SeqOK, Row
      <3> QED
        BY <1>1, <2>2, <3>1
    <2> QED
      BY <1>2, <2>1, <2>2 DEF Effect, RowStep
  <1>3. ASSUME NEW w \in Workers, NEW r \in held'[w] PROVE r.seq < nextSeq'
    <2>1. r.seq \in Nat /\ r.seq < nextSeq
      <3>1. CASE r \in held[w]
        BY <3>1 DEF TypeOK, SeqOK, Copy
      <3>2. CASE \E e \in Events : outbox[e] # NoRow /\ r.seq = outbox[e].seq
        BY <3>2 DEF TypeOK, SeqOK, Row
      <3> QED
        BY <3>1, <3>2 DEF Effect, HeldStep, Visible
    <2> QED
      BY <1>1, <2>1
  <1>4. ASSUME NEW i \in 1 .. Len(stream') PROVE stream'[i].seq < nextSeq'
    <2>1. stream'[i].seq \in Nat /\ stream'[i].seq < nextSeq
      <3>1. CASE i \in 1 .. Len(stream)
        BY <3>1, StreamGrows, EntryType DEF SeqOK, Effect
      <3>2. ASSUME NEW w \in Workers, NEW r \in held[w],
                   stream'[i] = [event |-> r.event, seq |-> r.seq]
            PROVE  stream'[i].seq \in Nat /\ stream'[i].seq < nextSeq
        BY <3>2 DEF TypeOK, SeqOK, Copy
      <3> QED
        BY <3>1, <3>2, StreamGrows DEF Effect
    <2> QED
      BY <1>1, <2>1
  <1> QED
    BY <1>2, <1>3, <1>4 DEF SeqOK

LEMMA HomeStep == TypeOK' /\ NewIsNowhere /\ OneHome /\ Effect => NewIsNowhere' /\ OneHome'
  <1> SUFFICES ASSUME TypeOK', NewIsNowhere, OneHome, Effect
               PROVE  NewIsNowhere' /\ OneHome'
    OBVIOUS
  <1>1. ASSUME NEW e \in Events, producer'[e] = "new"
        PROVE  outbox'[e] = NoRow /\ e \notin dead'
    BY <1>1 DEF Effect, RowStep, DeadStep, ProducerStep, NewIsNowhere
  <1>2. ASSUME NEW e \in dead', e \in Events PROVE outbox'[e] = NoRow
    BY <1>2 DEF Effect, RowStep, DeadStep, OneHome
  <1>3. dead' \subseteq Events
    BY DEF TypeOK
  <1> QED
    BY <1>1, <1>2, <1>3 DEF NewIsNowhere, OneHome

LEMMA SentStep ==
    TypeOK /\ TypeOK' /\ MarksSent /\ PublishedSent /\ Effect
       => MarksSent' /\ PublishedSent'
  <1> SUFFICES ASSUME TypeOK, TypeOK', MarksSent, PublishedSent, Effect
               PROVE  MarksSent' /\ PublishedSent'
    OBVIOUS
  <1>1. \A e : Sent(e) => Sent(e)'
    BY SentStays DEF Effect
  <1>2. ASSUME NEW e \in server'.marks PROVE Sent(e)'
    BY <1>1, <1>2 DEF Effect, MarkStep, MarksSent
  <1>3. ASSUME NEW e \in Events, outbox'[e] # NoRow, outbox'[e].published PROVE Sent(e)'
    <2>1. ~(outbox'[e] = NewRow)
      BY <1>3 DEF NewRow
    <2>2. outbox[e] # NoRow /\ (outbox[e].published \/ e \in server.marks)
      BY <1>3, <2>1 DEF Effect, RowStep
    <2> QED
      BY <1>1, <2>2 DEF MarksSent, PublishedSent
  <1> QED
    BY <1>2, <1>3 DEF MarksSent, PublishedSent

LEMMA InvInit == Init => IInv
  <1> SUFFICES ASSUME Init PROVE IInv
    OBVIOUS
  <1>1. TypeOK
    BY TypeInit
  <1>2. SeqOK /\ NewIsNowhere /\ OneHome /\ MarksSent /\ PublishedSent
    BY DEF Init, SeqOK, NewIsNowhere, OneHome, MarksSent, PublishedSent
  <1> QED
    BY <1>1, <1>2 DEF IInv

LEMMA InvNext == IInv /\ [Next]_vars => IInv'
  <1> SUFFICES ASSUME IInv, [Next]_vars PROVE IInv'
    OBVIOUS
  <1>1. TypeOK'
    BY TypeNext DEF IInv
  <1>2. Effect
    BY NextEffect DEF IInv
  <1> QED
    BY <1>1, <1>2, SeqStep, HomeStep, SentStep DEF IInv

\* Every variable keeps its type, whatever the workers, the server and the
\* group do.
THEOREM TypeCorrect == Spec => []TypeOK
  <1>1. IInv => TypeOK
    BY DEF IInv
  <1> QED
    BY <1>1, InvInit, InvNext, PTL DEF Spec

\* The strengthening is invariant: numbers come from the identity column, new
\* events are nowhere, and marks and published rows come from stream entries.
THEOREM Invariance == Spec => []IInv
  BY InvInit, InvNext, PTL DEF Spec

\* No event is in the outbox and a dead letter at once (failRow deletes the
\* row it stores, ReplayDeadLetter deletes the letter it re-inserts).
THEOREM NeverTwoHomes == Spec => []OneHome
  <1>1. IInv => OneHome
    BY DEF IInv
  <1> QED
    BY <1>1, InvInit, InvNext, PTL DEF Spec

\* A committed event leaves the outbox only as a dead letter or with an entry
\* in the stream: the purge of published rows never removes an unsent one.
THEOREM NeverDropped == Spec => LeavesOutboxAccounted
  <1>1. IInv /\ [Next]_vars =>
           [\A e \in Events : Visible(e) /\ outbox'[e] = NoRow
               => \/ e \in dead'
                  \/ \E i \in 1 .. Len(stream) : stream[i].event = e]_vars
    <2> SUFFICES ASSUME IInv, [Next]_vars, NEW e \in Events, Visible(e), outbox'[e] = NoRow
                 PROVE  e \in dead' \/ \E i \in 1 .. Len(stream) : stream[i].event = e
      OBVIOUS
    <2>1. RowStep(e)
      BY NextEffect DEF IInv, Effect
    <2>2. outbox[e] # NoRow /\ producer[e] = "committed"
      BY DEF Visible
    <2>3. NewRow # NoRow
      BY NewRowType, NoRowAssumption DEF IInv
    <2>4. e \in dead' \/ outbox[e].published
      BY <2>1, <2>2, <2>3 DEF RowStep
    <2>5. outbox[e].published => Sent(e)
      BY <2>2 DEF IInv, PublishedSent
    <2> QED
      BY <2>4, <2>5 DEF Sent
  <1> QED
    BY <1>1, InvInit, InvNext, PTL DEF Spec, LeavesOutboxAccounted

-----------------------------------------------------------------------------
(* The contract of delivery: every step is one of the contract's or none.    *)
(* What an open transaction wrote reaches nobody, because copies, letters,   *)
(* entries and batches come from committed rows (Genuine).                   *)

OpenHasRow == \A e \in Events : producer[e] = "open" => outbox[e] # NoRow

LettersCommitted == \A e \in dead : producer[e] = "committed"

CopiesCommitted == \A w \in Workers : \A r \in held[w] : producer[r.event] = "committed"

EntriesCommitted == \A i \in 1 .. Len(stream) : producer[stream[i].event] = "committed"

BatchesCommitted ==
    \A c \in Consumers : \A x \in consumer[c].todo : producer[x.event] = "committed"

Genuine ==
    /\ OpenHasRow
    /\ LettersCommitted
    /\ CopiesCommitted
    /\ EntriesCommitted
    /\ BatchesCommitted

LEMMA GenuineInit == Init => Genuine
  BY DEF Init, Idle, Genuine, OpenHasRow, LettersCommitted, CopiesCommitted,
     EntriesCommitted, BatchesCommitted

\* Letters, copies and entries come from rows and copies that were committed.
LEMMA GenuineRecords ==
    ASSUME TypeOK, TypeOK', Genuine, Effect
    PROVE  OpenHasRow' /\ LettersCommitted' /\ CopiesCommitted' /\ EntriesCommitted'
  <1>1. \A e \in Events : producer[e] = "committed" => producer'[e] = "committed"
    BY DEF Effect, ProducerStep
  <1>2. ASSUME NEW e \in Events, producer'[e] = "open" PROVE outbox'[e] # NoRow
    <2>1. SUFFICES ASSUME outbox'[e] = NoRow PROVE FALSE
      OBVIOUS
    <2>2. producer[e] = "open"
      BY <1>2, <2>1 DEF Effect, ProducerStep
    <2>3. outbox[e] # NoRow /\ ~Held(e)
      BY <2>2 DEF Genuine, OpenHasRow, CopiesCommitted, Held
    <2>4. NewRow # NoRow
      BY NewRowType, NoRowAssumption
    <2> QED
      BY <1>2, <2>1, <2>2, <2>3, <2>4 DEF Effect, RowStep
  <1>3. ASSUME NEW e \in dead' PROVE producer'[e] = "committed"
    <2>1. e \in Events
      BY DEF TypeOK
    <2>2. producer[e] = "committed"
      BY <1>3 DEF Effect, DeadStep, Genuine, LettersCommitted, CopiesCommitted, Held
    <2> QED
      BY <1>1, <2>1, <2>2
  <1>4. ASSUME NEW w \in Workers, NEW r \in held'[w] PROVE producer'[r.event] = "committed"
    <2>1. r.event \in Events
      BY DEF TypeOK, Copy
    <2>2. producer[r.event] = "committed"
      BY <1>4 DEF Effect, HeldStep, Visible, Genuine, CopiesCommitted
    <2> QED
      BY <1>1, <2>1, <2>2
  <1>5. ASSUME NEW i \in 1 .. Len(stream') PROVE producer'[stream'[i].event] = "committed"
    <2>1. CASE i \in 1 .. Len(stream)
      <3>1. stream'[i] = stream[i] /\ stream[i].event \in Events
        BY <2>1, StreamGrows, EntryType DEF Effect
      <3> QED
        BY <1>1, <2>1, <3>1 DEF Genuine, EntriesCommitted
    <2>2. ASSUME NEW w \in Workers, NEW r \in held[w],
                 stream'[i] = [event |-> r.event, seq |-> r.seq]
          PROVE  producer'[stream'[i].event] = "committed"
      <3>1. r.event \in Events /\ producer[r.event] = "committed"
        BY DEF TypeOK, Copy, Genuine, CopiesCommitted
      <3> QED
        BY <1>1, <2>2, <3>1
    <2> QED
      BY <2>1, <2>2, StreamGrows DEF Effect
  <1> QED
    BY <1>2, <1>3, <1>4, <1>5
    DEF OpenHasRow, LettersCommitted, CopiesCommitted, EntriesCommitted

\* A member's batch comes from visible rows, from entries, or from its batch.
LEMMA GenuineBatches ==
    ASSUME TypeOK, Genuine, [Next]_vars, NEW c \in Consumers, NEW x \in consumer'[c].todo
    PROVE  producer[x.event] = "committed"
  <1> DEFINE rows(d) == {[event |-> e, seq |-> outbox[e].seq] : e \in InRange(d)}
  <1>1. consumer \in Members
    BY ConsumeTypes
  <1>2. CASE x \in consumer[c].todo
    BY <1>2 DEF Genuine, BatchesCommitted
  <1>3. CASE UNCHANGED consumer
    BY <1>2, <1>3
  <1>4. ASSUME NEW d \in Consumers, ScanRange(d)
        PROVE  producer[x.event] = "committed"
    <2>1. CASE c # d
      BY <1>1, <1>2, <1>4, <2>1 DEF ScanRange, Members
    <2>2. CASE c = d
      <3>1. x \in rows(d)
        <4>1. CASE consumer' = [consumer EXCEPT ![d] = [Idle EXCEPT !.pc = "consuming"]]
          BY <1>1, <2>2, <4>1 DEF Members, Idle
        <4>2. ASSUME NEW last \in rows(d),
                     consumer' = [consumer EXCEPT ![d].top = last.seq,
                                    ![d].todo = {y \in rows(d) : y.seq <= last.seq}]
              PROVE  x \in rows(d)
          BY <1>1, <2>2, <4>2 DEF Members, Member
        <4> QED
          BY <1>4, <4>1, <4>2 DEF ScanRange
      <3> QED
        BY <3>1 DEF InRange, Visible
    <2> QED
      BY <2>1, <2>2
  <1>5. ASSUME NEW d \in Consumers, ReadGroup(d) \/ ClaimStale(d)
        PROVE  producer[x.event] = "committed"
    <2>1. PICK ids \in SUBSET (1 .. Len(stream)) : Take(d, ids)
      <3>1. {i \in Retained : i > group.last} \in SUBSET (1 .. Len(stream))
        BY DEF Retained, TypeOK
      <3>2. group.pel \cap Retained \in SUBSET (1 .. Len(stream))
        BY DEF Retained, TypeOK
      <3> QED
        BY <1>5, <3>1, <3>2 DEF ReadGroup, ClaimStale
    <2>2. CASE c # d
      BY <1>1, <1>2, <2>1, <2>2 DEF Take, Members
    <2>3. CASE c = d
      <3>1. x \in {stream[i] : i \in ids}
        BY <1>1, <2>1, <2>3 DEF Take, Members, Member
      <3> QED
        BY <3>1 DEF Genuine, EntriesCommitted
    <2> QED
      BY <2>2, <2>3
  <1>6. ASSUME NEW d \in Consumers,
               \/ StartConsumer(d) \/ CheckGap(d) \/ ScanFails(d) \/ Deliver(d)
               \/ Ack(d) \/ AckFails(d) \/ Advance(d) \/ StopConsumer(d)
        PROVE  producer[x.event] = "committed"
    <2>1. CASE c # d
      <3>1. consumer'[c] = consumer[c]
        BY <1>1, <1>6, <2>1 DEF StartConsumer, CheckGap, ScanFails, Deliver, Ack, AckFails,
           Advance, StopConsumer, Members
      <3> QED
        BY <1>2, <3>1
    <2>2. CASE c = d
      <3>1. CASE StartConsumer(d) \/ CheckGap(d)
        BY <1>1, <1>2, <2>2, <3>1 DEF StartConsumer, CheckGap, Members, Member
      <3>2. CASE ScanFails(d) \/ AckFails(d) \/ StopConsumer(d)
        BY <1>1, <2>2, <3>2 DEF ScanFails, AckFails, StopConsumer, Members, Idle
      <3>3. CASE Deliver(d)
        BY <1>1, <1>2, <2>2, <3>3 DEF Deliver, Members, Member
      <3>4. CASE Ack(d) \/ Advance(d)
        BY <1>1, <1>2, <2>2, <3>4 DEF Ack, Advance, Members, Member
      <3> QED
        BY <1>6, <3>1, <3>2, <3>3, <3>4
    <2> QED
      BY <2>1, <2>2
  <1>7. CASE UNCHANGED vars
    BY <1>3, <1>7 DEF vars
  <1>8. ASSUME NEW e \in Events, Produce(e) \/ Maintain(e)
        PROVE  UNCHANGED consumer
    BY <1>8 DEF Produce, Publish, EndTransaction, Maintain, ReplayDeadLetter,
       DispatchGrowsOld, PurgePublished, PurgeDead, consuming
  <1>9. ASSUME NEW w \in Workers, Copying(w) \/ DispatchFails(w) \/ WorkerStops(w)
        PROVE  UNCHANGED consumer
    BY <1>9 DEF Copying, ClaimRows, Dispatch, DispatchFails, WorkerStops, consuming
  <1>10. CASE ServerReads \/ MarkPublished \/ ServerRestarts \/ Trim \/ SweepIdleGroups
    BY <1>3, <1>10 DEF ServerReads, MarkPublished, ServerRestarts, Trim, SweepIdleGroups,
       consuming
  <1> HIDE DEF rows
  <1> QED
    BY <1>3, <1>4, <1>5, <1>6, <1>7, <1>8, <1>9, <1>10 DEF Next, Consume

LEMMA GenuineNext == IInv /\ Genuine /\ [Next]_vars => Genuine'
  <1> SUFFICES ASSUME IInv, Genuine, [Next]_vars PROVE Genuine'
    OBVIOUS
  <1>1. TypeOK /\ TypeOK' /\ Effect
    BY NextEffect, InvNext DEF IInv
  <1>2. ASSUME NEW c \in Consumers, NEW x \in consumer'[c].todo
        PROVE  producer'[x.event] = "committed"
    <2>1. producer[x.event] = "committed"
      BY <1>1, GenuineBatches
    <2>2. x.event \in Events
      BY <1>1 DEF TypeOK, Envelope
    <2> QED
      BY <1>1, <2>1, <2>2 DEF Effect, ProducerStep
  <1>3. BatchesCommitted'
    BY <1>2 DEF BatchesCommitted
  <1> QED
    BY <1>1, <1>3, GenuineRecords DEF Genuine

\* Copies, letters, entries and batches are of committed events only.
LEMMA AlwaysGenuine == Spec => []Genuine
  BY Invariance, GenuineInit, GenuineNext, PTL DEF Spec

\* The places change only where Home does.
LEMMA OnePlace ==
    ASSUME NEW e \in Events, \A d \in Events \ {e} : Home(d)' = Home(d)
    PROVE  Places' = [Places EXCEPT ![e] = Home(e)']
  BY DEF Places

LEMMA SamePlaces ==
    ASSUME UNCHANGED <<producer, dead>>,
           \A e \in Events : (outbox'[e] = NoRow) <=> (outbox[e] = NoRow)
    PROVE  Places' = Places
  <1>1. \A e \in Events : Home(e)' = Home(e)
    BY DEF Home
  <1> QED
    BY <1>1 DEF Places

\* What is entered when a copy is added to the stream, or is not.
LEMMA EnteredBy ==
    ASSUME TypeOK, NEW r \in Copy, stream' \in {stream, Added(r)}
    PROVE  Entered' \in {Entered, Entered \cup {r.event}}
  <1>1. CASE stream' = stream
    BY <1>1 DEF Entered
  <1>2. CASE stream' = Added(r)
    <2>1. /\ Len(stream) \in Nat /\ Len(stream') = Len(stream) + 1
          /\ \A i \in 1 .. Len(stream) : stream'[i] = stream[i]
          /\ stream'[Len(stream) + 1] = [event |-> r.event, seq |-> r.seq]
      BY <1>2, AddedEntry DEF TypeOK
    <2>2. 1 .. Len(stream') = (1 .. Len(stream)) \cup {Len(stream) + 1}
      BY <2>1
    <2>3. Entered' = Entered \cup {stream'[Len(stream) + 1].event}
      BY <2>1, <2>2 DEF Entered
    <2> QED
      BY <2>1, <2>3
  <1> QED
    BY <1>1, <1>2

\* A move of one record is a step of the contract.
LEMMA RecordMoves ==
    ASSUME NEW e \in Events, UNCHANGED handled,
           \A d \in Events \ {e} : Home(d)' = Home(d),
           \/ Home(e) = "new" /\ Home(e)' = "open" /\ UNCHANGED Entered
           \/ Home(e) = "open" /\ Home(e)' \in {"kept", "aborted"} /\ UNCHANGED Entered
           \/ /\ Home(e) = "kept" /\ Home(e)' = "dead"
              /\ Entered' \in {Entered, Entered \cup {e}}
           \/ Home(e) = "dead" /\ Home(e)' \in {"kept", "gone"} /\ UNCHANGED Entered
           \/ e \in Entered /\ Home(e) = "kept" /\ Home(e)' = "gone" /\ UNCHANGED Entered
    PROVE  Delivery!Next
  <1>1. Places' = [Places EXCEPT ![e] = Home(e)']
    BY OnePlace
  <1>2. Places[e] = Home(e)
    BY DEF Places
  <1> DEFINE h == Home(e)'
  <1>3. ASSUME NEW from, NEW to, Home(e) = from, h = to
        PROVE  Delivery!Moves(e, from, to)
    BY <1>1, <1>2, <1>3 DEF Delivery!Moves
  <1> HIDE DEF h
  <1>4. \/ Home(e) = "new" /\ h = "open" /\ UNCHANGED Entered
        \/ Home(e) = "open" /\ h \in {"kept", "aborted"} /\ UNCHANGED Entered
        \/ /\ Home(e) = "kept" /\ h = "dead"
           /\ Entered' \in {Entered, Entered \cup {e}}
        \/ Home(e) = "dead" /\ h \in {"kept", "gone"} /\ UNCHANGED Entered
        \/ e \in Entered /\ Home(e) = "kept" /\ h = "gone" /\ UNCHANGED Entered
    BY DEF h
  <1>5. \/ Delivery!Open(e) \/ Delivery!Commit(e) \/ Delivery!RollBack(e)
        \/ Delivery!Bury(e) \/ Delivery!Replay(e) \/ Delivery!Drop(e)
        \/ Delivery!Forget(e)
    BY <1>3, <1>4 DEF Delivery!Open, Delivery!Commit, Delivery!RollBack, Delivery!Bury,
       Delivery!Replay, Delivery!Drop, Delivery!Forget
  <1> QED
    BY <1>5 DEF Delivery!Next

\* The stream or the subscription hears of a committed event.
LEMMA CommittedPlace ==
    ASSUME NEW e \in Events, producer[e] = "committed"
    PROVE  Delivery!Announced(e)
  BY DEF Delivery!Announced, Places, Home

LEMMA NewsMoves ==
    ASSUME UNCHANGED Places, NEW e \in Events, producer[e] = "committed",
           \/ UNCHANGED handled /\ Entered' \in {Entered, Entered \cup {e}}
           \/ UNCHANGED Entered /\ handled' \in {handled, handled \cup {e}}
    PROVE  [Delivery!Next]_(Delivery!vars)
  <1>1. Delivery!Announced(e)
    BY CommittedPlace
  <1>2. CASE UNCHANGED <<handled, Entered>>
    BY <1>2 DEF Delivery!vars
  <1>3. CASE UNCHANGED handled /\ Entered' = Entered \cup {e}
    <2>1. Delivery!Enter(e)
      BY <1>1, <1>3 DEF Delivery!Enter
    <2> QED
      BY <2>1 DEF Delivery!Next
  <1>4. CASE UNCHANGED Entered /\ handled' = handled \cup {e}
    <2>1. Delivery!Handle(e)
      BY <1>1, <1>4 DEF Delivery!Handle
    <2> QED
      BY <2>1 DEF Delivery!Next
  <1> QED
    BY <1>2, <1>3, <1>4

\* Steps the contract does not see.
LEMMA NoNews ==
    ASSUME UNCHANGED <<producer, dead, stream, handled>>,
           \A e \in Events : (outbox'[e] = NoRow) <=> (outbox[e] = NoRow)
    PROVE  [Delivery!Next]_(Delivery!vars)
  BY SamePlaces DEF Delivery!vars, Entered

LEMMA ProducerDelivers ==
    ASSUME IInv, Genuine, NEW e \in Events, Produce(e) \/ ReplayDeadLetter(e)
    PROVE  [Delivery!Next]_(Delivery!vars)
  <1>1. UNCHANGED Entered /\ UNCHANGED handled
    BY DEF Produce, Publish, EndTransaction, ReplayDeadLetter, consuming, Entered
  <1>2. \A d \in Events \ {e} : Home(d)' = Home(d)
    BY DEF Produce, Publish, EndTransaction, ReplayDeadLetter, Home, IInv, TypeOK
  <1>3. CASE Publish(e)
    <2>1. Home(e) = "new" /\ Home(e)' = "open"
      BY <1>3 DEF Publish, Home, IInv, TypeOK
    <2> QED
      BY <1>1, <1>2, <2>1, RecordMoves
  <1>4. CASE EndTransaction(e)
    <2>1. Home(e) = "open" /\ outbox[e] # NoRow
      BY <1>4 DEF EndTransaction, Home, Genuine, OpenHasRow
    <2>2. Home(e)' \in {"kept", "aborted"}
      BY <1>4, <2>1 DEF EndTransaction, Home, IInv, TypeOK
    <2> QED
      BY <1>1, <1>2, <2>1, <2>2, RecordMoves
  <1>5. CASE ReplayDeadLetter(e)
    <2>1. outbox[e] = NoRow /\ producer[e] = "committed" /\ e \in dead
      BY <1>5 DEF ReplayDeadLetter, IInv, OneHome, Genuine, LettersCommitted
    <2>2. outbox'[e] = NewRow /\ NewRow # NoRow /\ producer'[e] = "committed"
      BY <1>5, <2>1, NewRowType, NoRowAssumption DEF ReplayDeadLetter, IInv, TypeOK
    <2>3. Home(e) = "dead" /\ Home(e)' = "kept"
      BY <2>1, <2>2 DEF Home
    <2> QED
      BY <1>1, <1>2, <2>3, RecordMoves
  <1> QED
    BY <1>3, <1>4, <1>5 DEF Produce

LEMMA MaintainDelivers ==
    ASSUME IInv, Genuine, NEW e \in Events,
           DispatchGrowsOld(e) \/ PurgePublished(e) \/ PurgeDead(e)
    PROVE  [Delivery!Next]_(Delivery!vars)
  <1>1. UNCHANGED <<producer, stream, handled>> /\ UNCHANGED Entered
    BY DEF DispatchGrowsOld, PurgePublished, PurgeDead, producing, consuming, Entered
  <1>2. CASE DispatchGrowsOld(e)
    <2>1. outbox[e] \in Row /\ outbox[e] # NoRow
      BY <1>2 DEF DispatchGrowsOld, Visible, IInv, TypeOK
    <2>2. [outbox[e] EXCEPT !.dispatch = "stale"] # NoRow
      BY <2>1, RowTypes, NoRowAssumption
    <2>3. outbox' = [outbox EXCEPT ![e] = [outbox[e] EXCEPT !.dispatch = "stale"]]
      BY <1>2 DEF DispatchGrowsOld
    <2>4. \A d \in Events : (outbox'[d] = NoRow) <=> (outbox[d] = NoRow)
      BY <2>1, <2>2, <2>3 DEF IInv, TypeOK
    <2> QED
      BY <1>1, <1>2, <2>4, NoNews DEF DispatchGrowsOld
  <1>3. CASE PurgePublished(e)
    <2>1. /\ producer[e] = "committed" /\ outbox[e] # NoRow /\ outbox[e].published
          /\ outbox'[e] = NoRow /\ dead' = dead
          /\ \A d \in Events \ {e} : outbox'[d] = outbox[d]
      BY <1>3 DEF PurgePublished, Visible, IInv, TypeOK
    <2>2. e \notin dead
      BY <2>1 DEF IInv, OneHome
    <2>3. Home(e) = "kept" /\ Home(e)' = "gone"
      BY <1>1, <2>1, <2>2 DEF Home
    <2>4. e \in Entered
      BY <2>1 DEF IInv, PublishedSent, Sent, Entered
    <2>5. \A d \in Events \ {e} : Home(d)' = Home(d)
      BY <1>1, <2>1 DEF Home
    <2> QED
      BY <1>1, <2>3, <2>4, <2>5, RecordMoves
  <1>4. CASE PurgeDead(e)
    <2>1. /\ e \in dead /\ dead' = dead \ {e} /\ outbox' = outbox
          /\ producer[e] = "committed" /\ outbox[e] = NoRow
      BY <1>4 DEF PurgeDead, IInv, OneHome, Genuine, LettersCommitted
    <2>2. Home(e) = "dead" /\ Home(e)' = "gone"
      BY <1>1, <2>1 DEF Home
    <2>3. \A d \in Events \ {e} : Home(d)' = Home(d)
      BY <1>1, <2>1 DEF Home
    <2> QED
      BY <1>1, <2>2, <2>3, RecordMoves
  <1> QED
    BY <1>2, <1>3, <1>4

LEMMA DispatchDelivers ==
    ASSUME IInv, Genuine, NEW w \in Workers, Dispatch(w) \/ DispatchFails(w)
    PROVE  [Delivery!Next]_(Delivery!vars)
  <1>1. NextCopy(w) \in held[w] /\ NextCopy(w) \in Copy
    BY NextCopyHeld DEF Dispatch, DispatchFails, IInv
  <1>2. PICK r \in held[w] : r \in Copy /\ r = NextCopy(w)
    BY <1>1
  <1>3. PICK e \in Events : e = r.event
    BY <1>2 DEF Copy
  <1>4. r \in held[w] /\ r \in Copy /\ e \in Events /\ r.event = e
    BY <1>2, <1>3
  <1>5. producer[e] = "committed"
    BY <1>4 DEF Genuine, CopiesCommitted
  <1>6. UNCHANGED producer /\ UNCHANGED handled
    BY DEF Dispatch, DispatchFails, producing, consuming
  <1>7. Entered' \in {Entered, Entered \cup {e}}
    <2>1. stream' \in {stream, Added(r)}
      BY <1>2 DEF Dispatch, DispatchFails
    <2> QED
      BY <1>4, <2>1, EnteredBy DEF IInv
  <1>8. \/ UNCHANGED <<outbox, dead>>
        \/ outbox[e] # NoRow /\ FailRow(r)
    BY <1>2, <1>3 DEF Dispatch, DispatchFails
  <1>9. CASE UNCHANGED <<outbox, dead>>
    <2>1. UNCHANGED Places
      BY <1>6, <1>9, SamePlaces
    <2> QED
      BY <1>4, <1>5, <1>6, <1>7, <2>1, NewsMoves
  <1>10. CASE outbox[e] # NoRow /\ FailRow(r) /\ r.attempts + 1 >= MaxAttempts
    <2>1. outbox' = [outbox EXCEPT ![e] = NoRow] /\ dead' = dead \cup {e}
      BY <1>4, <1>10 DEF FailRow
    <2>2. /\ outbox'[e] = NoRow /\ e \in dead'
          /\ \A d \in Events \ {e} : outbox'[d] = outbox[d] /\ (d \in dead' <=> d \in dead)
      BY <1>4, <2>1 DEF IInv, TypeOK
    <2>3. Home(e) = "kept" /\ Home(e)' = "dead"
      BY <1>5, <1>6, <1>10, <2>2 DEF Home
    <2>4. \A d \in Events \ {e} : Home(d)' = Home(d)
      BY <1>6, <2>2 DEF Home
    <2> QED
      BY <1>4, <1>6, <1>7, <2>3, <2>4, RecordMoves
  <1>11. CASE outbox[e] # NoRow /\ FailRow(r) /\ ~(r.attempts + 1 >= MaxAttempts)
    <2> DEFINE row == [outbox[e] EXCEPT !.attempts = @ + 1, !.dispatch = "no"]
    <2>1. outbox' = [outbox EXCEPT ![e] = row] /\ dead' = dead
      BY <1>4, <1>11 DEF FailRow
    <2>2. outbox[e] \in Row
      BY <1>4, <1>11 DEF IInv, TypeOK
    <2>3. row # NoRow
      BY <2>2, RowTypes, NoRowAssumption
    <2> HIDE DEF row
    <2>4. \A d \in Events : (outbox'[d] = NoRow) <=> (outbox[d] = NoRow)
      BY <1>4, <1>11, <2>1, <2>3 DEF IInv, TypeOK
    <2>5. UNCHANGED Places
      BY <1>6, <2>1, <2>4, SamePlaces
    <2> QED
      BY <1>4, <1>5, <1>6, <1>7, <2>5, NewsMoves
  <1> QED
    BY <1>8, <1>9, <1>10, <1>11

\* Claims and marks change rows that stay.
LEMMA RowsStay ==
    ASSUME IInv, (\E w \in Workers : ClaimRows(w)) \/ MarkPublished
    PROVE  [Delivery!Next]_(Delivery!vars)
  <1>1. UNCHANGED <<producer, dead, stream, handled>>
    BY DEF ClaimRows, MarkPublished, producing, consuming
  <1>2. ASSUME NEW d \in Events
        PROVE  (outbox'[d] = NoRow) <=> (outbox[d] = NoRow)
    <2>1. \/ outbox'[d] = outbox[d]
          \/ outbox[d] # NoRow /\ outbox'[d] = [outbox[d] EXCEPT !.dispatch = "yes"]
          \/ outbox[d] # NoRow /\ outbox'[d] = [outbox[d] EXCEPT !.published = TRUE]
      BY DEF ClaimRows, Claimable, MarkPublished, Visible
    <2>2. outbox[d] # NoRow => /\ [outbox[d] EXCEPT !.dispatch = "yes"] # NoRow
                               /\ [outbox[d] EXCEPT !.published = TRUE] # NoRow
      <3>1. outbox[d] # NoRow => outbox[d] \in Row
        BY DEF IInv, TypeOK
      <3> QED
        BY <3>1, RowTypes, NoRowAssumption
    <2> QED
      BY <2>1, <2>2
  <1> QED
    BY <1>1, <1>2, NoNews

LEMMA MemberDelivers ==
    ASSUME IInv, Genuine, NEW c \in Consumers, Deliver(c)
    PROVE  [Delivery!Next]_(Delivery!vars)
  <1>1. PICK x \in consumer[c].todo :
           /\ handled' \in {handled, handled \cup {x.event}}
           /\ UNCHANGED <<producer, outbox, dead, stream>>
    BY DEF Deliver, producing
  <1>2. x.event \in Events /\ producer[x.event] = "committed"
    BY DEF IInv, TypeOK, Envelope, Genuine, BatchesCommitted
  <1>3. UNCHANGED Places /\ UNCHANGED Entered
    BY <1>1, SamePlaces DEF Entered
  <1> QED
    BY <1>1, <1>2, <1>3, NewsMoves

LEMMA DeliveryStep ==
    ASSUME IInv, Genuine, [Next]_vars
    PROVE  [Delivery!Next]_(Delivery!vars)
  <1>1. ASSUME UNCHANGED <<producer, outbox, dead, stream, handled>>
        PROVE  [Delivery!Next]_(Delivery!vars)
    BY <1>1, NoNews
  <1>2. ASSUME NEW e \in Events, Produce(e) \/ Maintain(e)
        PROVE  [Delivery!Next]_(Delivery!vars)
    BY <1>2, ProducerDelivers, MaintainDelivers DEF Maintain
  <1>3. ASSUME NEW w \in Workers, Copying(w) \/ DispatchFails(w)
        PROVE  [Delivery!Next]_(Delivery!vars)
    BY <1>3, DispatchDelivers, RowsStay DEF Copying
  <1>4. ASSUME NEW w \in Workers, WorkerStops(w)
        PROVE  [Delivery!Next]_(Delivery!vars)
    BY <1>1, <1>4 DEF WorkerStops, producing, consuming
  <1>5. CASE MarkPublished
    BY <1>5, RowsStay
  <1>6. CASE \/ ServerReads \/ ServerRestarts \/ Trim \/ SweepIdleGroups
             \/ UNCHANGED vars
    BY <1>1, <1>6 DEF ServerReads, ServerRestarts, Trim, SweepIdleGroups, producing,
       consuming, vars
  <1>7. ASSUME NEW c \in Consumers, Deliver(c)
        PROVE  [Delivery!Next]_(Delivery!vars)
    BY <1>7, MemberDelivers
  <1>8. ASSUME NEW c \in Consumers,
               \/ StartConsumer(c) \/ CheckGap(c) \/ ScanRange(c) \/ ReadGroup(c)
               \/ ClaimStale(c) \/ Ack(c) \/ Advance(c)
               \/ ScanFails(c) \/ AckFails(c) \/ StopConsumer(c)
        PROVE  [Delivery!Next]_(Delivery!vars)
    BY <1>1, <1>8 DEF StartConsumer, CheckGap, ScanRange, ReadGroup, ClaimStale, Ack,
       Advance, ScanFails, AckFails, StopConsumer, producing
  <1> QED
    BY <1>2, <1>3, <1>4, <1>5, <1>6, <1>7, <1>8 DEF Next, Consume

\* The pipeline implements the contract of delivery, for any events, workers,
\* members and faults: an event has one home, leaves it for the stream or the
\* dead letters only, and nobody hears of a transaction that did not commit.
THEOREM EventsKeepContract == Spec => KeepsDelivery
  <1>1. Init => Delivery!Init
    BY DEF Init, Delivery!Init, Places, Home, Entered
  <1>2. IInv /\ Genuine /\ [Next]_vars => [Delivery!Next]_(Delivery!vars)
    BY DeliveryStep
  <1> QED
    BY <1>1, <1>2, Invariance, AlwaysGenuine, PTL DEF Spec, KeepsDelivery, Delivery!Spec

-----------------------------------------------------------------------------
(* What the group passes over is delivered: where the group was there before *)
(* the first event, no idle group is swept, and no delivery or scan fails.   *)

Promised == Deployed /\ MaxSweeps = 0 /\ MaxErrors = 0

\* What a member holds unacknowledged it has delivered or will.
BatchOwed ==
    \A c \in Consumers : \A i \in consumer[c].ids :
        stream[i] \in consumer[c].todo \/ stream[i].event \in handled

GInv == group.exists /\ BatchOwed /\ AckedWasDelivered

LEMMA NeverSpent ==
    ASSUME TypeOK, NEW b \in Budgets, Limit[b] = 0
    PROVE  ~Spend(b)
  BY DEF TypeOK, Spend

LEMMA NoSweepNoError == TypeOK /\ Promised => ~Spend("sweep") /\ ~Spend("error")
  <1>1. Promised => Limit["sweep"] = 0 /\ Limit["error"] = 0
    BY DEF Promised, Limit, Budgets
  <1> QED
    BY <1>1, NeverSpent DEF Budgets

LEMMA GInit == Promised /\ Init => GInv
  BY DEF Promised, Init, GInv, BatchOwed, AckedWasDelivered, NoGroup, Idle, Retained

\* Steps of the others: the stream grows or is trimmed.
LEMMA OthersKeepGroup ==
    ASSUME TypeOK, GInv, StreamStep, UNCHANGED <<group, consumer, handled>>,
           TypeOK', trimmed <= trimmed'
    PROVE  GInv'
  <1>1. \A i \in 1 .. Len(stream) : stream'[i] = stream[i]
    BY StreamGrows
  <1>2. BatchOwed'
    <2> SUFFICES ASSUME NEW c \in Consumers, NEW i \in consumer[c].ids
                 PROVE  stream'[i] \in consumer[c].todo \/ stream'[i].event \in handled
      BY DEF BatchOwed
    <2>1. i \in 1 .. Len(stream)
      BY ConsumeTypes DEF Members, Member
    <2> QED
      BY <1>1, <2>1 DEF GInv, BatchOwed
  <1>3. AckedWasDelivered'
    <2> SUFFICES ASSUME NEW i \in Retained', i <= group'.last, i \notin group'.pel
                 PROVE  stream'[i].event \in handled'
      BY DEF AckedWasDelivered
    <2>1. /\ trimmed \in Nat /\ trimmed' \in Nat
          /\ Len(stream) \in Nat /\ Len(stream') \in Nat
          /\ group.last \in Int /\ group.last <= Len(stream)
      BY DEF TypeOK
    <2>2. i \in Int /\ trimmed' < i
      <3>1. PICK m \in Nat, n \in Nat : m = trimmed' /\ n = Len(stream')
        BY <2>1
      <3>2. i \in (m + 1) .. n
        BY <3>1 DEF Retained
      <3>3. i \in Int /\ m < i
        BY <3>2
      <3> QED
        BY <3>1, <3>3
    <2>3. i \in 1 .. Len(stream) /\ i \in Retained
      BY <2>1, <2>2 DEF Retained
    <2> QED
      BY <1>1, <2>3 DEF GInv, AckedWasDelivered
  <1> QED
    BY <1>2, <1>3 DEF GInv

\* A step of one member.
LEMMA MemberKeepsBatches ==
    ASSUME GInv, NEW c \in Consumers, UNCHANGED stream, handled \subseteq handled',
           \A d \in Consumers \ {c} : consumer'[d] = consumer[d],
           \A i \in consumer'[c].ids :
              stream[i] \in consumer'[c].todo \/ stream[i].event \in handled'
    PROVE  BatchOwed'
  <1> SUFFICES ASSUME NEW d \in Consumers, NEW i \in consumer'[d].ids
               PROVE  stream[i] \in consumer'[d].todo \/ stream[i].event \in handled'
    BY DEF BatchOwed
  <1>1. CASE d = c
    BY <1>1
  <1>2. CASE d # c
    BY <1>2 DEF GInv, BatchOwed
  <1> QED
    BY <1>1, <1>2

\* Steps that leave the batch of the member alone, or drop it.
LEMMA SameBatch ==
    ASSUME TypeOK, GInv, Promised, NEW c \in Consumers,
           \/ StartConsumer(c) \/ CheckGap(c) \/ ScanRange(c) \/ ScanFails(c)
           \/ AckFails(c) \/ Advance(c) \/ StopConsumer(c)
    PROVE  GInv'
  <1>1. /\ UNCHANGED <<stream, trimmed, handled, group>>
        /\ \A d \in Consumers \ {c} : consumer'[d] = consumer[d]
    BY DEF GInv, StartConsumer, CheckGap, ScanRange, ScanFails, AckFails, Advance, StopConsumer,
       TypeOK
  <1>2. \/ consumer'[c].ids = {}
        \/ consumer'[c].ids = consumer[c].ids /\ consumer'[c].todo = consumer[c].todo
        \/ consumer'[c].ids = consumer[c].ids /\ consumer[c].todo = {}
    <2>1. consumer[c] \in Member /\ consumer \in Members
      BY ConsumeTypes DEF Members
    <2> USE <2>1 DEF Members, Member
    <2>2. CASE StartConsumer(c)
      BY <2>2 DEF StartConsumer
    <2>3. CASE CheckGap(c)
      <3>1. CASE consumer' = [consumer EXCEPT ![c] = [consumer[c] EXCEPT !.pc = "consuming"]]
        BY <3>1
      <3>2. CASE consumer' = [consumer EXCEPT ![c] =
                   [consumer[c] EXCEPT !.pc = "scanning", !.cursor = watermark,
                                       !.upto = stream[trimmed + 1].seq]]
        BY <3>2
      <3> QED
        BY <2>3, <3>1, <3>2 DEF CheckGap
    <2>4. CASE Advance(c)
      BY <2>4 DEF Advance
    <2>5. CASE ScanRange(c)
      <3>1. /\ consumer[c].todo = {}
            /\ \/ consumer' = [consumer EXCEPT ![c] = [Idle EXCEPT !.pc = "consuming"]]
               \/ \E top, todo : consumer' = [consumer EXCEPT ![c].top = top, ![c].todo = todo]
        BY <2>5 DEF ScanRange
      <3>2. CASE consumer' = [consumer EXCEPT ![c] = [Idle EXCEPT !.pc = "consuming"]]
        BY <3>2 DEF Idle
      <3>3. ASSUME NEW top, NEW todo,
                   consumer' = [consumer EXCEPT ![c].top = top, ![c].todo = todo]
            PROVE  consumer'[c].ids = consumer[c].ids
        BY <3>3
      <3> QED
        BY <3>1, <3>2, <3>3
    <2>6. CASE ScanFails(c) \/ AckFails(c) \/ StopConsumer(c)
      <3>1. \/ consumer' = [consumer EXCEPT ![c] = [Idle EXCEPT !.pc = "consuming"]]
            \/ consumer' = [consumer EXCEPT ![c] = Idle]
        BY <2>6 DEF ScanFails, AckFails, StopConsumer
      <3> QED
        BY <3>1 DEF Idle
    <2> QED
      BY <2>2, <2>3, <2>4, <2>5, <2>6
  <1>3. BatchOwed'
    BY <1>1, <1>2, MemberKeepsBatches DEF GInv, BatchOwed
  <1> QED
    BY <1>1, <1>3 DEF GInv, AckedWasDelivered, Retained

LEMMA DeliverKeeps ==
    ASSUME TypeOK, GInv, Promised, NEW c \in Consumers, Deliver(c)
    PROVE  GInv'
  <1>1. PICK x \in consumer[c].todo :
           /\ handled' = handled \cup {x.event}
           /\ consumer' = [consumer EXCEPT ![c].todo = @ \ {x}]
           /\ UNCHANGED <<stream, trimmed, group>>
    BY NoSweepNoError DEF Deliver
  <1>2. /\ \A d \in Consumers \ {c} : consumer'[d] = consumer[d]
        /\ consumer'[c].ids = consumer[c].ids
        /\ consumer'[c].todo = consumer[c].todo \ {x}
    BY <1>1, ConsumeTypes DEF Members, Member
  <1>3. BatchOwed'
    BY <1>1, <1>2, MemberKeepsBatches DEF GInv, BatchOwed
  <1> QED
    BY <1>1, <1>3 DEF GInv, AckedWasDelivered, Retained

\* What is read or claimed becomes pending, and what was acknowledged had been
\* processed.
LEMMA GroupKeeps ==
    ASSUME TypeOK, GInv, NEW c \in Consumers, ReadGroup(c) \/ ClaimStale(c) \/ Ack(c)
    PROVE  GInv'
  <1>1. UNCHANGED <<stream, trimmed, handled>>
    BY DEF ReadGroup, ClaimStale, Ack
  <1>2. ASSUME NEW ids, Take(c, ids)
        PROVE  BatchOwed'
    <2>1. /\ \A d \in Consumers \ {c} : consumer'[d] = consumer[d]
          /\ consumer'[c].ids = ids
          /\ consumer'[c].todo = {stream[i] : i \in ids}
      BY <1>2, ConsumeTypes DEF Take, Members, Member
    <2> QED
      BY <1>1, <2>1, MemberKeepsBatches
  <1>3. CASE ReadGroup(c)
    <2> DEFINE ids == {i \in Retained : i > group.last}
    <2>1. /\ Take(c, ids)
          /\ group' = [group EXCEPT !.last = Len(stream), !.pel = @ \cup ids]
      BY <1>3 DEF ReadGroup
    <2>2. group'.exists = group.exists /\ group'.pel = group.pel \cup ids
      BY <2>1 DEF TypeOK
    <2>3. \A i \in Retained : i \in Int /\ (i <= group.last \/ i \in ids)
      BY DEF Retained, TypeOK
    <2>4. AckedWasDelivered'
      BY <1>1, <2>2, <2>3 DEF GInv, AckedWasDelivered, Retained
    <2> QED
      BY <1>2, <2>1, <2>2, <2>4 DEF GInv
  <1>4. CASE ClaimStale(c)
    <2> DEFINE ids == group.pel \cap Retained
    <2>1. Take(c, ids) /\ group' = [group EXCEPT !.pel = ids]
      BY <1>4 DEF ClaimStale
    <2>2. group'.exists = group.exists /\ group'.last = group.last /\ group'.pel = ids
      BY <2>1 DEF TypeOK
    <2>3. AckedWasDelivered'
      BY <1>1, <2>2 DEF GInv, AckedWasDelivered, Retained
    <2> QED
      BY <1>2, <2>1, <2>2, <2>3 DEF GInv
  <1>5. CASE Ack(c)
    <2>1. /\ consumer[c].todo = {}
          /\ group' = [group EXCEPT !.pel = @ \ consumer[c].ids]
          /\ consumer' = [consumer EXCEPT ![c].ids = {}]
      BY <1>5 DEF Ack
    <2>2. /\ group'.exists = group.exists /\ group'.last = group.last
          /\ group'.pel = group.pel \ consumer[c].ids
      BY <2>1 DEF TypeOK
    <2>3. /\ \A d \in Consumers \ {c} : consumer'[d] = consumer[d]
          /\ consumer'[c].ids = {}
      BY <2>1, ConsumeTypes DEF Members, Member
    <2>4. BatchOwed'
      BY <1>1, <2>3, MemberKeepsBatches
    <2>5. \A i \in consumer[c].ids : stream[i].event \in handled
      BY <2>1 DEF GInv, BatchOwed
    <2>6. AckedWasDelivered'
      BY <1>1, <2>2, <2>5 DEF GInv, AckedWasDelivered, Retained
    <2> QED
      BY <2>2, <2>4, <2>6 DEF GInv
  <1> QED
    BY <1>3, <1>4, <1>5

LEMMA GNext == Promised /\ IInv /\ GInv /\ [Next]_vars => GInv'
  <1> SUFFICES ASSUME Promised, IInv, GInv, [Next]_vars PROVE GInv'
    OBVIOUS
  <1>1. TypeOK /\ TypeOK' /\ StreamStep
    BY NextEffect, InvNext DEF IInv, Effect
  <1>2. CASE UNCHANGED <<group, consumer, handled, trimmed>>
    BY <1>1, <1>2, OthersKeepGroup DEF TypeOK
  <1>3. CASE Trim
    <2>1. UNCHANGED <<group, consumer, handled>> /\ trimmed' = trimmed + 1 /\ trimmed \in Nat
      BY <1>1, <1>3 DEF Trim, consuming, TypeOK
    <2> QED
      BY <1>1, <2>1, OthersKeepGroup
  <1>4. CASE SweepIdleGroups
    BY <1>1, <1>4, NoSweepNoError DEF SweepIdleGroups
  <1>5. ASSUME NEW e \in Events, Produce(e) \/ Maintain(e)
        PROVE  UNCHANGED <<group, consumer, handled, trimmed>>
    BY <1>5 DEF Produce, Publish, EndTransaction, Maintain, ReplayDeadLetter,
       DispatchGrowsOld, PurgePublished, PurgeDead, consuming
  <1>6. ASSUME NEW w \in Workers, Copying(w) \/ DispatchFails(w) \/ WorkerStops(w)
        PROVE  UNCHANGED <<group, consumer, handled, trimmed>>
    BY <1>6 DEF Copying, ClaimRows, Dispatch, DispatchFails, WorkerStops, consuming
  <1>7. CASE ServerReads \/ MarkPublished \/ ServerRestarts
    BY <1>2, <1>7 DEF ServerReads, MarkPublished, ServerRestarts, consuming
  <1>8. ASSUME NEW c \in Consumers,
               \/ StartConsumer(c) \/ Consume(c)
               \/ ScanFails(c) \/ AckFails(c) \/ StopConsumer(c)
        PROVE  GInv'
    BY <1>1, <1>8, SameBatch, DeliverKeeps, GroupKeeps DEF Consume
  <1>9. CASE UNCHANGED vars
    BY <1>2, <1>9 DEF vars
  <1> QED
    BY <1>2, <1>3, <1>4, <1>5, <1>6, <1>7, <1>8, <1>9 DEF Next

\* The group passes over no entry that nobody processed: readLoop hands a
\* whole batch to processEntry before it acknowledges it, and what another
\* member claims is still pending.
THEOREM PassedWasDelivered ==
    ASSUME Promised PROVE Spec => []AckedWasDelivered
  <1>1. Spec => []GInv
    BY GInit, GNext, Invariance, PTL DEF Spec
  <1>2. GInv => AckedWasDelivered
    BY DEF GInv
  <1> QED
    BY <1>1, <1>2, PTL

-----------------------------------------------------------------------------
(* No event is lost: where in addition no dead letter is replayed and no     *)
(* trim takes what the backfill cannot give back.  What the group no longer  *)
(* has, because it was trimmed, stays above the watermark until the backfill *)
(* has delivered it; the watermark cannot pass it, for no member reads the   *)
(* group before its backfill is done.                                        *)

Within == Promised /\ MaxReplays = 0 /\ ~WideTrim

\* Copies and entries are of committed events ...
OnlyCommitted ==
    /\ \A w \in Workers : \A r \in held[w] : producer[r.event] = "committed"
    /\ \A i \in 1 .. Len(stream) : producer[stream[i].event] = "committed"

\* ... and carry the number of the row, which never changes.
OneNumber ==
    /\ \A w \in Workers : \A r \in held[w] :
          outbox[r.event] # NoRow => r.seq = outbox[r.event].seq
    /\ \A i \in 1 .. Len(stream) :
          outbox[stream[i].event] # NoRow => stream[i].seq = outbox[stream[i].event].seq

\* Trimmed entries whose rows are kept and that were not delivered.
Owed == {i \in 1 .. trimmed : Visible(stream[i].event) /\ stream[i].event \notin handled}

\* They lie in the gap that the next member to start finds ...
OwedInGap ==
    \A i \in Owed : /\ trimmed < Len(stream)
                    /\ watermark < stream[i].seq
                    /\ stream[i].seq < stream[trimmed + 1].seq

\* ... the backfill of a member is still to reach them, or has them in hand ...
Ahead(c, i) ==
    \/ /\ consumer[c].cursor < stream[i].seq /\ stream[i].seq <= consumer[c].upto
       /\ consumer[c].top < stream[i].seq
    \/ /\ consumer[c].top > 0
       /\ \E x \in consumer[c].todo : x.event = stream[i].event

OwedAhead ==
    \A c \in Consumers : \A i \in Owed : consumer[c].pc = "scanning" => Ahead(c, i)

\* ... and nobody reads the group before they are delivered.
OwedFirst == Owed # {} => \A c \in Consumers : consumer[c].pc # "consuming"

AtRest == \A c \in Consumers : consumer[c].pc \in {"stopped", "starting"} => consumer[c].top = 0

Backlog == OwedInGap /\ OwedAhead /\ OwedFirst /\ AtRest

NInv == OnlyCommitted /\ OneNumber /\ Backlog

LEMMA NInit == Init => NInv
  BY DEF Init, NInv, OnlyCommitted, OneNumber, Backlog, Owed, OwedInGap, OwedAhead,
     OwedFirst, AtRest, Idle

\* A committed event gets no second row, and its row keeps its number.
LEMMA RowKept ==
    ASSUME Within, TypeOK, Effect, NEW e \in Events, producer[e] = "committed",
           outbox'[e] # NoRow
    PROVE  outbox[e] # NoRow /\ outbox'[e].seq = outbox[e].seq
  <1>1. ~(spent["replay"] < MaxReplays)
    BY DEF Within, TypeOK, Budgets
  <1> QED
    BY <1>1 DEF Effect, RowStep

LEMMA NumbersStep ==
    ASSUME Within, TypeOK, TypeOK', OnlyCommitted, OneNumber, Effect
    PROVE  OnlyCommitted' /\ OneNumber'
  <1>1. ASSUME NEW w \in Workers, NEW r \in held[w]
        PROVE  /\ r.event \in Events /\ producer[r.event] = "committed"
               /\ producer'[r.event] = "committed"
               /\ outbox'[r.event] # NoRow => r.seq = outbox'[r.event].seq
    <2>1. r.event \in Events
      BY DEF TypeOK, Copy
    <2> QED
      BY <2>1, RowKept DEF OnlyCommitted, OneNumber, Effect, ProducerStep
  <1>2. ASSUME NEW w \in Workers, NEW r \in held'[w]
        PROVE  /\ producer'[r.event] = "committed"
               /\ outbox'[r.event] # NoRow => r.seq = outbox'[r.event].seq
    <2>1. CASE r \in held[w]
      BY <1>1, <2>1
    <2>2. CASE \E e \in Events : Visible(e) /\ r.event = e /\ r.seq = outbox[e].seq
      BY <2>2, RowKept DEF Visible, Effect, ProducerStep
    <2> QED
      BY <2>1, <2>2 DEF Effect, HeldStep
  <1>3. ASSUME NEW i \in 1 .. Len(stream')
        PROVE  /\ producer'[stream'[i].event] = "committed"
               /\ outbox'[stream'[i].event] # NoRow =>
                     stream'[i].seq = outbox'[stream'[i].event].seq
    <2>1. CASE i \in 1 .. Len(stream)
      <3>1. stream'[i] = stream[i] /\ stream[i].event \in Events
        BY <2>1, StreamGrows, EntryType DEF Effect
      <3> QED
        BY <2>1, <3>1, RowKept DEF OnlyCommitted, OneNumber, Effect, ProducerStep
    <2>2. ASSUME NEW w \in Workers, NEW r \in held[w],
                 stream'[i] = [event |-> r.event, seq |-> r.seq]
          PROVE  /\ producer'[stream'[i].event] = "committed"
                 /\ outbox'[stream'[i].event] # NoRow =>
                       stream'[i].seq = outbox'[stream'[i].event].seq
      BY <1>1, <2>2
    <2> QED
      BY <2>1, <2>2, StreamGrows DEF Effect
  <1> QED
    BY <1>2, <1>3 DEF OnlyCommitted, OneNumber

\* Only a trim adds to what is owed.
LEMMA OwedShrinks ==
    ASSUME Within, TypeOK, OnlyCommitted, Effect, UNCHANGED trimmed,
           handled \subseteq handled', NEW i \in Owed'
    PROVE  i \in Owed /\ stream'[i] = stream[i]
  <1>1. i \in 1 .. trimmed /\ Visible(stream[i].event)' /\ stream'[i].event \notin handled'
    BY DEF Owed
  <1>2. i \in 1 .. Len(stream)
    BY <1>1 DEF TypeOK
  <1>3. stream'[i] = stream[i] /\ stream[i].event \in Events
    BY <1>2, StreamGrows, EntryType DEF Effect
  <1>4. producer[stream[i].event] = "committed"
    BY <1>2 DEF OnlyCommitted
  <1>5. outbox'[stream[i].event] # NoRow
    BY <1>1, <1>3 DEF Visible
  <1> QED
    BY <1>1, <1>3, <1>4, <1>5, RowKept DEF Owed, Visible

LEMMA OthersKeepBacklog ==
    ASSUME Within, TypeOK, NInv, Effect, UNCHANGED <<consumer, watermark, trimmed, handled>>
    PROVE  Backlog'
  <1>1. \A i \in Owed' : i \in Owed /\ stream'[i] = stream[i]
    BY OwedShrinks DEF NInv
  <1>2. OwedInGap'
    <2> SUFFICES ASSUME NEW i \in Owed'
                 PROVE  /\ trimmed < Len(stream')
                        /\ watermark < stream'[i].seq
                        /\ stream'[i].seq < stream'[trimmed + 1].seq
      BY DEF OwedInGap
    <2>1. /\ trimmed < Len(stream) /\ watermark < stream[i].seq
          /\ stream[i].seq < stream[trimmed + 1].seq
      BY <1>1 DEF NInv, Backlog, OwedInGap
    <2>2. trimmed + 1 \in 1 .. Len(stream)
      BY <2>1 DEF TypeOK
    <2>3. trimmed + 1 \in 1 .. Len(stream') /\ stream'[trimmed + 1] = stream[trimmed + 1]
      BY <2>2, StreamGrows DEF Effect
    <2> QED
      BY <1>1, <2>1, <2>3 DEF TypeOK
  <1>3. OwedAhead'
    BY <1>1 DEF NInv, Backlog, OwedAhead, Ahead
  <1>4. OwedFirst' /\ AtRest'
    BY <1>1 DEF NInv, Backlog, OwedFirst, AtRest
  <1> QED
    BY <1>2, <1>3, <1>4 DEF Backlog

LEMMA WideInterval ==
    ASSUME NEW a \in Nat, NEW b \in Nat, NEW k \in Nat \ {0}, Cardinality(a .. b) > k
    PROVE  a < b
  <1>1. Cardinality(a .. b) = IF a > b THEN 0 ELSE b - a + 1
    BY FS_Interval
  <1> QED
    BY <1>1

\* The trim takes an undelivered entry only into the gap.
LEMMA TrimKeepsBacklog ==
    ASSUME Within, TypeOK, NInv, Trim
    PROVE  Backlog'
  <1>1. /\ trimmed' = trimmed + 1 /\ trimmed \in Nat /\ Len(stream) \in Nat
        /\ UNCHANGED <<producer, outbox, stream, consumer, watermark, handled>>
    BY DEF Trim, producing, consuming, TypeOK
  <1>2. trimmed + 1 < Len(stream)
    <2>1. Keep \in Nat \ {0} /\ Cardinality((trimmed + 1) .. Len(stream)) > Keep
      BY PipelineAssumption DEF Trim, Retained
    <2> QED
      BY <1>1, <2>1, WideInterval
  <1>3. Owed' = {j \in 1 .. (trimmed + 1) :
                    Visible(stream[j].event) /\ stream[j].event \notin handled}
    BY <1>1 DEF Owed, Visible
  <1>4. Owed' # {} =>
           /\ \A c \in Consumers : consumer[c].pc = "stopped"
           /\ \A j \in Owed' : /\ watermark < stream[j].seq
                               /\ stream[j].seq < stream[(trimmed + 1) + 1].seq
    BY <1>3 DEF Trim, Recoverable, Within
  <1>5. OwedInGap'
    BY <1>1, <1>2, <1>4 DEF OwedInGap
  <1>6. OwedAhead' /\ OwedFirst'
    BY <1>1, <1>4 DEF OwedAhead, OwedFirst
  <1>7. AtRest'
    BY <1>1 DEF NInv, Backlog, AtRest
  <1> QED
    BY <1>5, <1>6, <1>7 DEF Backlog

\* What a step of one member has to respect.
LEMMA MemberKeepsBacklog ==
    ASSUME Within, TypeOK, NInv, NEW c \in Consumers,
           UNCHANGED <<producer, outbox, stream, trimmed>>, handled \subseteq handled',
           \A d \in Consumers \ {c} : consumer'[d] = consumer[d],
           consumer'[c].pc \in {"stopped", "starting"} => consumer'[c].top = 0,
           \A i \in Owed : i \in Owed' =>
              /\ watermark' < stream[i].seq
              /\ consumer'[c].pc # "consuming"
              /\ consumer'[c].pc = "scanning" => Ahead(c, i)'
    PROVE  Backlog'
  <1>1. \A i \in Owed' : i \in Owed
    BY DEF Owed, Visible
  <1>2. OwedInGap'
    BY <1>1 DEF OwedInGap, NInv, Backlog
  <1>3. OwedAhead'
    <2> SUFFICES ASSUME NEW d \in Consumers, NEW i \in Owed', consumer'[d].pc = "scanning"
                 PROVE  Ahead(d, i)'
      BY DEF OwedAhead
    <2>1. CASE d = c
      BY <1>1, <2>1
    <2>2. CASE d # c
      BY <1>1, <2>2 DEF NInv, Backlog, OwedAhead, Ahead
    <2> QED
      BY <2>1, <2>2
  <1>4. OwedFirst' /\ AtRest'
    BY <1>1 DEF NInv, Backlog, OwedFirst, AtRest
  <1> QED
    BY <1>2, <1>3, <1>4 DEF Backlog

\* What is known of an owed entry when a member takes a step.
LEMMA OwedEntry ==
    ASSUME TypeOK, NInv, NEW i \in Owed
    PROVE  /\ trimmed < Len(stream) /\ trimmed + 1 \in 1 .. Len(stream)
           /\ i \in 1 .. Len(stream)
           /\ watermark < stream[i].seq /\ stream[i].seq < stream[trimmed + 1].seq
           /\ stream[i].seq \in Nat /\ stream[trimmed + 1].seq \in Nat /\ watermark \in Nat
           /\ stream[i].event \in Events /\ Visible(stream[i].event)
           /\ outbox[stream[i].event].seq = stream[i].seq
           /\ \A c \in Consumers : /\ consumer[c].pc # "consuming"
                                   /\ consumer[c].pc = "scanning" => Ahead(c, i)
  <1>1. i \in 1 .. trimmed /\ Visible(stream[i].event)
    BY DEF Owed
  <1>2. trimmed < Len(stream) /\ watermark < stream[i].seq /\ stream[i].seq < stream[trimmed + 1].seq
    BY DEF NInv, Backlog, OwedInGap
  <1>3. i \in 1 .. Len(stream) /\ trimmed + 1 \in 1 .. Len(stream) /\ watermark \in Nat
    BY <1>1, <1>2 DEF TypeOK
  <1>4. /\ stream[i].seq \in Nat /\ stream[trimmed + 1].seq \in Nat
        /\ stream[i].event \in Events
    BY <1>3, EntryType
  <1>5. outbox[stream[i].event].seq = stream[i].seq
    BY <1>1, <1>3 DEF NInv, OneNumber, Visible
  <1> QED
    BY <1>1, <1>2, <1>3, <1>4, <1>5 DEF NInv, Backlog, OwedAhead, OwedFirst

\* A member that finds undelivered entries trimmed finds a gap.
LEMMA StartKeepsBacklog ==
    ASSUME Within, TypeOK, NInv, NEW c \in Consumers, StartConsumer(c) \/ CheckGap(c)
    PROVE  Backlog'
  <1>1. consumer \in Members /\ consumer[c] \in Member
    BY ConsumeTypes DEF Members
  <1>2. UNCHANGED <<producer, outbox, stream, trimmed, watermark, handled>>
    BY DEF StartConsumer, CheckGap, producing
  <1>3. consumer[c].pc \in {"stopped", "starting"} /\ consumer[c].top = 0
    BY DEF StartConsumer, CheckGap, NInv, Backlog, AtRest
  <1>4. CASE StartConsumer(c)
    <2>1. consumer' = [consumer EXCEPT ![c] = [consumer[c] EXCEPT !.pc = "starting"]]
      BY <1>4 DEF StartConsumer
    <2>2. consumer'[c].pc = "starting" /\ consumer'[c].top = 0
      BY <1>1, <1>3, <2>1 DEF Members, Member
    <2>3. \A d \in Consumers \ {c} : consumer'[d] = consumer[d]
      BY <1>1, <2>1 DEF Members
    <2> QED
      BY <1>2, <2>2, <2>3, OwedEntry, MemberKeepsBacklog
  <1>5. CASE CheckGap(c) /\ Gap
    <2>1. consumer' = [consumer EXCEPT ![c] =
             [consumer[c] EXCEPT !.pc = "scanning", !.cursor = watermark,
                                 !.upto = stream[trimmed + 1].seq]]
      BY <1>5, NoSweepNoError DEF CheckGap, Within
    <2>2. /\ consumer'[c].pc = "scanning" /\ consumer'[c].top = 0
          /\ consumer'[c].cursor = watermark
          /\ consumer'[c].upto = stream[trimmed + 1].seq
      BY <1>1, <1>3, <2>1 DEF Members, Member
    <2>3. \A d \in Consumers \ {c} : consumer'[d] = consumer[d]
      BY <1>1, <2>1 DEF Members
    <2>4. ASSUME NEW i \in Owed
          PROVE  watermark' < stream[i].seq /\ Ahead(c, i)'
      <3>1. /\ watermark < stream[i].seq /\ stream[i].seq < stream[trimmed + 1].seq
            /\ stream[i].seq \in Nat /\ stream[trimmed + 1].seq \in Nat /\ watermark \in Nat
        BY OwedEntry
      <3> QED
        BY <1>2, <2>2, <3>1 DEF Ahead
    <2> QED
      BY <1>2, <2>2, <2>3, <2>4, MemberKeepsBacklog
  <1>6. CASE CheckGap(c) /\ ~Gap
    <2>1. consumer' = [consumer EXCEPT ![c] = [consumer[c] EXCEPT !.pc = "consuming"]]
      BY <1>6, NoSweepNoError DEF CheckGap, Within
    <2>2. consumer'[c].pc = "consuming"
      BY <1>1, <2>1 DEF Members, Member
    <2>3. \A d \in Consumers \ {c} : consumer'[d] = consumer[d]
      BY <1>1, <2>1 DEF Members
    <2>4. ASSUME NEW i \in Owed
          PROVE  FALSE
      <3>1. /\ watermark < stream[i].seq /\ stream[i].seq < stream[trimmed + 1].seq
            /\ stream[i].seq \in Nat /\ stream[trimmed + 1].seq \in Nat /\ watermark \in Nat
            /\ trimmed < Len(stream)
        BY OwedEntry
      <3> QED
        BY <1>6, <3>1 DEF Gap
    <2> QED
      BY <1>2, <2>2, <2>3, <2>4, MemberKeepsBacklog
  <1> QED
    BY <1>4, <1>5, <1>6

\* A round of the scan takes what is owed into the batch, or stops short of it.
LEMMA ScanKeepsBacklog ==
    ASSUME Within, TypeOK, NInv, NEW c \in Consumers, ScanRange(c)
    PROVE  Backlog'
  <1> DEFINE rows == {[event |-> e, seq |-> outbox[e].seq] : e \in InRange(c)}
  <1>1. consumer \in Members /\ consumer[c] \in Member
    BY ConsumeTypes DEF Members
  <1>2. /\ UNCHANGED <<producer, outbox, stream, trimmed, watermark, handled>>
        /\ consumer[c].pc = "scanning" /\ consumer[c].todo = {} /\ consumer[c].top = 0
    BY DEF ScanRange, producing
  <1>3. ASSUME NEW i \in Owed
        PROVE  /\ [event |-> stream[i].event, seq |-> stream[i].seq] \in rows
               /\ consumer[c].cursor < stream[i].seq /\ stream[i].seq <= consumer[c].upto
               /\ watermark < stream[i].seq /\ stream[i].seq \in Nat
    <2>1. /\ stream[i].event \in Events /\ Visible(stream[i].event)
          /\ outbox[stream[i].event].seq = stream[i].seq
          /\ watermark < stream[i].seq /\ stream[i].seq \in Nat /\ Ahead(c, i)
      BY <1>2, OwedEntry
    <2>2. consumer[c].cursor < stream[i].seq /\ stream[i].seq <= consumer[c].upto
      BY <1>2, <2>1 DEF Ahead
    <2>3. stream[i].event \in InRange(c)
      BY <1>1, <2>1, <2>2 DEF InRange, Member
    <2> QED
      BY <2>1, <2>2, <2>3
  <1>4. CASE rows = {} /\ consumer' = [consumer EXCEPT ![c] = [Idle EXCEPT !.pc = "consuming"]]
    <2>1. consumer'[c].pc = "consuming"
      BY <1>1, <1>4 DEF Members, Idle
    <2>2. \A d \in Consumers \ {c} : consumer'[d] = consumer[d]
      BY <1>1, <1>4 DEF Members
    <2>3. Owed = {}
      BY <1>3, <1>4
    <2> QED
      BY <1>2, <2>1, <2>2, <2>3, MemberKeepsBacklog
  <1>5. ASSUME NEW last \in rows,
               consumer' = [consumer EXCEPT ![c].top = last.seq,
                              ![c].todo = {x \in rows : x.seq <= last.seq}]
        PROVE  Backlog'
    <2>1. /\ consumer'[c].pc = "scanning" /\ consumer'[c].top = last.seq
          /\ consumer'[c].todo = {x \in rows : x.seq <= last.seq}
          /\ consumer'[c].cursor = consumer[c].cursor
          /\ consumer'[c].upto = consumer[c].upto
      BY <1>1, <1>2, <1>5 DEF Members, Member
    <2>2. \A d \in Consumers \ {c} : consumer'[d] = consumer[d]
      BY <1>1, <1>5 DEF Members
    <2>3. last.seq \in Nat /\ last.seq > consumer[c].cursor /\ consumer[c].cursor \in Nat
      <3>1. PICK e \in InRange(c) : last = [event |-> e, seq |-> outbox[e].seq]
        BY <1>5
      <3>2. outbox[e].seq \in Nat /\ outbox[e].seq > consumer[c].cursor
        BY <3>1 DEF InRange, Visible, TypeOK, Row
      <3> QED
        BY <1>1, <3>1, <3>2 DEF Member
    <2>4. ASSUME NEW i \in Owed
          PROVE  watermark' < stream[i].seq /\ Ahead(c, i)'
      <3> DEFINE x == [event |-> stream[i].event, seq |-> stream[i].seq]
      <3>0. stream[i].seq \in Nat
        BY <1>3
      <3>1. CASE stream[i].seq <= last.seq
        <4>1. x \in consumer'[c].todo /\ x.event = stream'[i].event
          BY <1>2, <1>3, <2>1, <3>1
        <4>2. consumer'[c].top > 0
          BY <2>1, <2>3
        <4> QED
          BY <1>2, <1>3, <4>1, <4>2 DEF Ahead
      <3>2. CASE last.seq < stream[i].seq
        BY <1>2, <1>3, <2>1, <3>2 DEF Ahead
      <3> QED
        BY <2>3, <3>0, <3>1, <3>2
    <2> QED
      BY <1>2, <2>1, <2>2, <2>4, MemberKeepsBacklog
  <1> QED
    BY <1>4, <1>5 DEF ScanRange

\* What a member delivers is no longer owed; the rest stays in its batch.
LEMMA DeliverKeepsBacklog ==
    ASSUME Within, TypeOK, NInv, NEW c \in Consumers, Deliver(c)
    PROVE  Backlog'
  <1>1. PICK x \in consumer[c].todo :
           /\ handled' = handled \cup {x.event}
           /\ consumer' = [consumer EXCEPT ![c].todo = @ \ {x}]
           /\ UNCHANGED <<producer, outbox, stream, trimmed, watermark>>
    BY NoSweepNoError DEF Deliver, Within, producing
  <1>2. consumer \in Members /\ consumer[c] \in Member
    BY ConsumeTypes DEF Members
  <1>3. /\ consumer'[c].pc = consumer[c].pc /\ consumer'[c].top = consumer[c].top
        /\ consumer'[c].todo = consumer[c].todo \ {x}
        /\ consumer'[c].cursor = consumer[c].cursor /\ consumer'[c].upto = consumer[c].upto
        /\ \A d \in Consumers \ {c} : consumer'[d] = consumer[d]
    BY <1>1, <1>2 DEF Members, Member
  <1>4. ASSUME NEW i \in Owed, i \in Owed'
        PROVE  /\ watermark' < stream[i].seq
               /\ consumer'[c].pc # "consuming"
               /\ consumer'[c].pc = "scanning" => Ahead(c, i)'
    <2>1. stream[i].event # x.event
      BY <1>1, <1>4 DEF Owed
    <2>2. /\ watermark < stream[i].seq /\ consumer[c].pc # "consuming"
          /\ consumer[c].pc = "scanning" => Ahead(c, i)
      BY OwedEntry
    <2>3. Ahead(c, i) => Ahead(c, i)'
      BY <1>1, <1>3, <2>1 DEF Ahead
    <2> QED
      BY <1>1, <1>3, <2>2, <2>3
  <1>5. consumer'[c].pc \in {"stopped", "starting"} => consumer'[c].top = 0
    BY <1>3 DEF NInv, Backlog, AtRest
  <1> QED
    BY <1>1, <1>3, <1>4, <1>5, MemberKeepsBacklog

\* While an entry is owed nobody consumes; a member that stops holds nothing.
LEMMA GroupKeepsBacklog ==
    ASSUME Within, TypeOK, NInv, NEW c \in Consumers,
           ReadGroup(c) \/ ClaimStale(c) \/ Ack(c) \/ AckFails(c) \/ StopConsumer(c)
    PROVE  Backlog'
  <1>1. consumer \in Members /\ consumer[c] \in Member
    BY ConsumeTypes DEF Members
  <1>2. UNCHANGED <<producer, outbox, stream, trimmed, watermark, handled>>
    BY DEF ReadGroup, ClaimStale, Ack, AckFails, StopConsumer, producing
  <1>3. CASE StopConsumer(c)
    <2>1. consumer' = [consumer EXCEPT ![c] = Idle]
      BY <1>3 DEF StopConsumer
    <2>2. /\ consumer'[c].pc = "stopped" /\ consumer'[c].top = 0
          /\ \A d \in Consumers \ {c} : consumer'[d] = consumer[d]
      BY <1>1, <2>1 DEF Members, Idle
    <2> QED
      BY <1>2, <2>2, OwedEntry, MemberKeepsBacklog
  <1>4. CASE ReadGroup(c) \/ ClaimStale(c) \/ Ack(c) \/ AckFails(c)
    <2>1. consumer[c].pc = "consuming"
      BY <1>4 DEF ReadGroup, ClaimStale, Ack, AckFails, Ready, Idle
    <2>2. Owed = {}
      BY <2>1 DEF NInv, Backlog, OwedFirst
    <2>3. /\ consumer'[c].pc = "consuming"
          /\ \A d \in Consumers \ {c} : consumer'[d] = consumer[d]
      <3>1. \/ \E ids : Take(c, ids)
            \/ consumer' = [consumer EXCEPT ![c] = [consumer[c] EXCEPT !.ids = {}]]
            \/ consumer' = [consumer EXCEPT ![c] = [Idle EXCEPT !.pc = "consuming"]]
        BY <1>4 DEF ReadGroup, ClaimStale, Ack, AckFails
      <3>2. ASSUME NEW ids, Take(c, ids)
            PROVE  /\ consumer'[c].pc = "consuming"
                   /\ \A d \in Consumers \ {c} : consumer'[d] = consumer[d]
        BY <1>1, <2>1, <3>2 DEF Take, Members, Member
      <3> QED
        BY <1>1, <2>1, <3>1, <3>2 DEF Members, Member, Idle
    <2> QED
      BY <1>2, <2>2, <2>3, MemberKeepsBacklog
  <1> QED
    BY <1>3, <1>4

\* The watermark follows the batches of the scan, which stop short of what is
\* owed.
LEMMA AdvanceKeepsBacklog ==
    ASSUME Within, TypeOK, NInv, NEW c \in Consumers, Advance(c)
    PROVE  Backlog'
  <1>1. consumer \in Members /\ consumer[c] \in Member
    BY ConsumeTypes DEF Members
  <1>2. /\ UNCHANGED <<producer, outbox, stream, trimmed, handled>>
        /\ consumer[c].todo = {} /\ consumer[c].top > 0
        /\ watermark' \in {watermark, Larger(watermark, consumer[c].top)}
    BY DEF Advance, producing
  <1>3. consumer[c].pc \in {"scanning", "consuming"}
    BY <1>1, <1>2 DEF NInv, Backlog, AtRest, Member
  <1>4. /\ consumer'[c].pc = consumer[c].pc /\ consumer'[c].top = 0
        /\ consumer'[c].cursor = IF consumer[c].pc = "scanning" THEN consumer[c].top ELSE 0
        /\ consumer'[c].upto = consumer[c].upto
        /\ \A d \in Consumers \ {c} : consumer'[d] = consumer[d]
    BY <1>1 DEF Advance, Members, Member
  <1>5. ASSUME NEW i \in Owed
        PROVE  /\ watermark' < stream[i].seq
               /\ consumer'[c].pc # "consuming"
               /\ Ahead(c, i)'
    <2>1. /\ watermark < stream[i].seq /\ stream[i].seq \in Nat /\ watermark \in Nat
          /\ consumer[c].pc = "scanning" /\ Ahead(c, i)
      BY <1>3, OwedEntry
    <2>2. consumer[c].top < stream[i].seq /\ stream[i].seq <= consumer[c].upto
      BY <1>2, <2>1 DEF Ahead
    <2>3. watermark' < stream[i].seq
      BY <1>2, <2>1, <2>2 DEF Larger
    <2>4. Ahead(c, i)'
      BY <1>2, <1>4, <2>1, <2>2 DEF Ahead
    <2> QED
      BY <1>4, <2>1, <2>3, <2>4
  <1> QED
    BY <1>2, <1>4, <1>5, MemberKeepsBacklog

LEMMA NNext == Within /\ IInv /\ NInv /\ [Next]_vars => NInv'
  <1> SUFFICES ASSUME Within, IInv, NInv, [Next]_vars PROVE NInv'
    OBVIOUS
  <1>1. TypeOK /\ TypeOK' /\ Effect
    BY NextEffect, InvNext DEF IInv
  <1>2. OnlyCommitted' /\ OneNumber'
    BY <1>1, NumbersStep DEF NInv
  <1>3. ASSUME UNCHANGED <<consumer, watermark, trimmed, handled>>
        PROVE  Backlog'
    BY <1>1, <1>3, OthersKeepBacklog
  <1>4. ASSUME Trim
        PROVE  Backlog'
    BY <1>1, <1>4, TrimKeepsBacklog
  <1>5. ASSUME SweepIdleGroups
        PROVE  Backlog'
    BY <1>1, <1>5, NoSweepNoError DEF SweepIdleGroups, Within
  <1>6. ASSUME NEW e \in Events, Produce(e) \/ Maintain(e)
        PROVE  UNCHANGED <<consumer, watermark, trimmed, handled>>
    BY <1>6 DEF Produce, Publish, EndTransaction, Maintain, ReplayDeadLetter,
       DispatchGrowsOld, PurgePublished, PurgeDead, consuming
  <1>7. ASSUME NEW w \in Workers, Copying(w) \/ DispatchFails(w) \/ WorkerStops(w)
        PROVE  UNCHANGED <<consumer, watermark, trimmed, handled>>
    BY <1>7 DEF Copying, ClaimRows, Dispatch, DispatchFails, WorkerStops, consuming
  <1>8. ASSUME ServerReads \/ MarkPublished \/ ServerRestarts
        PROVE  UNCHANGED <<consumer, watermark, trimmed, handled>>
    BY <1>8 DEF ServerReads, MarkPublished, ServerRestarts, consuming
  <1>9. ASSUME NEW c \in Consumers,
               \/ StartConsumer(c) \/ Consume(c)
               \/ ScanFails(c) \/ AckFails(c) \/ StopConsumer(c)
        PROVE  Backlog'
    <2>1. ~ScanFails(c)
      BY <1>1, NoSweepNoError DEF ScanFails, Within
    <2> QED
      BY <1>1, <1>9, <2>1, StartKeepsBacklog, ScanKeepsBacklog, DeliverKeepsBacklog,
         GroupKeepsBacklog, AdvanceKeepsBacklog DEF Consume
  <1>10. ASSUME UNCHANGED vars
        PROVE  Backlog'
    BY <1>3, <1>10 DEF vars
  <1>11. Backlog'
    BY <1>3, <1>4, <1>5, <1>6, <1>7, <1>8, <1>9, <1>10 DEF Next
  <1> QED
    BY <1>2, <1>11 DEF NInv

\* A published event has an entry.  If it was trimmed, the number of the row is
\* above the watermark; if not, the group has it to read or pending, or has
\* passed it, delivered.
LEMMA NothingOverlooked == IInv /\ GInv /\ NInv => NotLost
  <1> SUFFICES ASSUME IInv, GInv, NInv, NEW e \in Events, Visible(e), e \notin handled,
                      outbox[e].published, ~(outbox[e].seq > watermark)
               PROVE  \E i \in Retained : /\ stream[i].event = e
                                          /\ i > group.last \/ i \in group.pel
    BY DEF NotLost
  <1> USE DEF IInv
  <1>1. PICK i \in 1 .. Len(stream) : stream[i].event = e
    BY DEF PublishedSent, Visible, Sent
  <1>2. i \notin Owed
    <2> SUFFICES ASSUME i \in Owed PROVE FALSE
      OBVIOUS
    <2>1. watermark < stream[i].seq /\ outbox[e].seq = stream[i].seq
      BY <1>1, OwedEntry
    <2>2. watermark \in Nat /\ stream[i].seq \in Nat
      BY OwedEntry
    <2> QED
      BY <2>1, <2>2
  <1>3. i \in Retained
    BY <1>1, <1>2 DEF Owed, Retained, TypeOK
  <1>4. i > group.last \/ i \in group.pel
    BY <1>1, <1>3 DEF GInv, AckedWasDelivered, TypeOK
  <1> QED
    BY <1>1, <1>3, <1>4

\* While the row of an undelivered event is kept, its subscribers can still be
\* reached: by a dispatch, by the backfill or by the group.
THEOREM NothingIsLost ==
    ASSUME Within PROVE Spec => []NotLost
  <1>1. Spec => []GInv
    BY GInit, GNext, Invariance, PTL DEF Spec, Within
  <1>2. Spec => []NInv
    BY NInit, NNext, Invariance, PTL DEF Spec
  <1> QED
    BY <1>1, <1>2, NothingOverlooked, Invariance, PTL
=============================================================================
