----------------------- MODULE WebhookDeliveryProofs -----------------------
(* Safety of webhook deliveries for any number of hooks, events, workers and *)
(* any policy.  The compare-and-set of a claim reads neither the status nor  *)
(* the round of a row, so the invariants below are not inductive by          *)
(* themselves: they need that open claims lie behind the row they came from  *)
(* (FlightsBehind), that a settled row carries no schedulable instant        *)
(* (StampOK) and that the row's schedule respects every open claim (Spacing).*)
EXTENDS WebhookDelivery, TLAPS

\* f is a claim on the row now stored under k.
OnRow(f, k) == rows[k] # NoRow /\ rows[k].id = f.id

IdsFresh ==
    /\ \A k \in Keys : rows[k] # NoRow => rows[k].id < nextId
    /\ \A f \in flights : f.id < nextId

IdsUnique ==
    \A k, l \in Keys :
        rows[k] # NoRow /\ rows[l] # NoRow /\ rows[k].id = rows[l].id => k = l

StampOK ==
    \A k \in Keys :
        rows[k] # NoRow => (rows[k].next \in Nat <=> rows[k].status = "pending")

FlightsBehind ==
    \A f \in flights, k \in Keys :
        OnRow(f, k) =>
            /\ f.key = k
            /\ f.round <= rows[k].round
            /\ f.round = rows[k].round => f.attempt <= rows[k].attempts

Spacing ==
    \A f \in flights, k \in Keys :
        OnRow(f, k) /\ f.round = rows[k].round /\ rows[k].status = "pending"
            => f.at + BackoffFor(f.attempt) <= rows[k].next

CandidatesDue ==
    \A w \in Scanners : \A c \in scan[w].batch :
        c.next \in Nat /\ c.next <= scan[w].now

AttemptsPositive == \A f \in flights : f.attempt \in Nat \ {0}

IInv ==
    /\ TypeOK
    /\ IdsFresh
    /\ IdsUnique
    /\ StampOK
    /\ AttemptsPositive
    /\ FlightsBehind
    /\ Spacing
    /\ CandidatesDue
    /\ AttemptGrantedOnce
    /\ BackoffRespected

-----------------------------------------------------------------------------
(* Facts about the policy *)

\* Every wait of the policy is positive.
LEMMA BackoffPositive == ASSUME NEW n \in Nat \ {0}
                         PROVE  BackoffFor(n) \in Nat \ {0}
  <1>1. Len(Backoff) \in Nat \ {0}
    BY PolicyAssumption
  <1>2. (IF n > Len(Backoff) THEN Len(Backoff) ELSE n) \in 1 .. Len(Backoff)
    BY <1>1
  <1> QED
    BY <1>1, <1>2, PolicyAssumption DEF BackoffFor

\* A claim that is not exhausted schedules a later instant and stays within
\* the number of attempts.
LEMMA PlanAdvances ==
    ASSUME NEW attempts \in Nat, NEW created \in Nat, NEW now \in Nat,
           ~PlanTerminal(attempts, created, now)
    PROVE  /\ PlanNext(attempts, now) \in Nat
           /\ PlanNext(attempts, now) = now + BackoffFor(attempts + 1)
           /\ now < PlanNext(attempts, now)
           /\ attempts + 1 <= MaxAttempts
  <1>1. BackoffFor(attempts + 1) \in Nat \ {0}
    BY BackoffPositive
  <1>2. MaxAttempts \in Nat
    BY PolicyAssumption
  <1> QED
    BY <1>1, <1>2 DEF PlanTerminal, PlanNext

-----------------------------------------------------------------------------
(* Type correctness *)

\* The updates of a claim and of a redelivery keep a row a row.
LEMMA ClaimedRowType ==
    ASSUME NEW r \in RowType, NEW a \in Nat, NEW n \in Nat
    PROVE  [r EXCEPT !.attempts = a, !.next = n] \in RowType
  BY DEF RowType

LEMMA RedeliveredRowType ==
    ASSUME NEW r \in RowType, NEW n \in Nat
    PROVE  [r EXCEPT !.status = "pending", !.attempts = 0, !.next = n,
                     !.round = @ + 1] \in RowType
  <1>1. r.round + 1 \in Nat
    BY DEF RowType
  <1>2. [r EXCEPT !.status = "pending", !.attempts = 0] \in RowType
    BY DEF RowType
  <1> QED
    BY <1>1, <1>2 DEF RowType

LEMMA TypeInit == Init => TypeOK
  BY DEF Init, TypeOK, Keys, RowType, ScanType, NoInbox

LEMMA TypeAdminister == TypeOK /\ (Tick \/ Administer) => TypeOK'
  <1> SUFFICES ASSUME TypeOK, Tick \/ Administer PROVE TypeOK'
    OBVIOUS
  <1> USE BoundsAssumption DEF TypeOK
  <1>1. CASE Tick
    BY <1>1 DEF Tick
  <1>2. ASSUME NEW h \in Hooks, SetStatus(h) PROVE TypeOK'
    BY <1>2 DEF SetStatus
  <1>3. ASSUME NEW h \in Hooks, DeleteWebhook(h) PROVE TypeOK'
    BY <1>3 DEF DeleteWebhook
  <1>4. ASSUME NEW k \in Keys, RedeliverDelivery(k) PROVE TypeOK'
    <2>1. rows[k] \in RowType
      BY <1>4 DEF RedeliverDelivery
    <2>2. [rows[k] EXCEPT !.status = "pending", !.attempts = 0, !.next = clock,
                          !.round = @ + 1] \in RowType
      BY <2>1, RedeliveredRowType
    <2>3. rows' = [rows EXCEPT ![k] =
             [rows[k] EXCEPT !.status = "pending", !.attempts = 0, !.next = clock,
                             !.round = @ + 1]]
      BY <1>4 DEF RedeliverDelivery
    <2> QED
      BY <1>4, <2>2, <2>3 DEF RedeliverDelivery
  <1> QED
    BY <1>1, <1>2, <1>3, <1>4 DEF Administer

LEMMA TypeConsume == TypeOK /\ Consume => TypeOK'
  <1> SUFFICES ASSUME TypeOK, Consume PROVE TypeOK'
    OBVIOUS
  <1> USE DEF TypeOK
  <1>1. CASE RefreshSubscriptionIndex
    BY <1>1 DEF RefreshSubscriptionIndex
  <1>2. ASSUME NEW e \in Events, ReceiveEvent(e) PROVE TypeOK'
    BY <1>2 DEF ReceiveEvent
  <1>3. ASSUME NEW h \in Hooks, InsertDelivery(h) PROVE TypeOK'
    <2>1. <<h, inbox.event>> \in Keys
      BY <1>3 DEF InsertDelivery, Keys
    <2>2. [id |-> nextId, status |-> "pending", attempts |-> 0, next |-> clock,
           created |-> clock, round |-> 0] \in RowType
      BY DEF RowType
    <2>3. rows' \in [Keys -> RowType \cup {NoRow}] /\ nextId' \in Nat
      BY <1>3, <2>1, <2>2 DEF InsertDelivery
    <2>4. inbox' \in [event : Events \cup {NoRow}, todo : SUBSET Hooks]
          /\ (inbox'.todo # {} => inbox'.event \in Events)
      BY <1>3 DEF InsertDelivery, NoInbox
    <2> QED
      BY <1>3, <2>3, <2>4 DEF InsertDelivery
  <1> QED
    BY <1>1, <1>2, <1>3 DEF Consume

\* Settling keeps a row a row.
LEMMA SettleType ==
    ASSUME NEW r \in RowType, NEW st \in Terminal
    PROVE  Settle(r, st) \in RowType
  BY DEF Settle, RowType, Terminal

LEMMA TypeClaim ==
    ASSUME TypeOK, NEW w \in Scanners, Claim(w)
    PROVE  TypeOK'
  <1> USE DEF TypeOK
  <1>1. CASE ScanDue(w)
    <2>1. {[key |-> k, id |-> rows[k].id, attempts |-> rows[k].attempts,
            next |-> rows[k].next, created |-> rows[k].created] : k \in Due(clock)}
              \in SUBSET Candidate
      BY DEF Due, Candidate, RowType
    <2>2. scan' \in [Scanners -> ScanType]
      BY <1>1, <2>1 DEF ScanDue, ScanType
    <2> QED
      BY <1>1, <2>2 DEF ScanDue
  <1>2. ASSUME NEW c \in scan[w].batch, TakeCandidate(w, c)
        PROVE  scan' \in [Scanners -> ScanType]
    <2> DEFINE left == scan[w].batch \ {c}
               pc == IF scan[w].batch = {c} THEN "delivering" ELSE "claiming"
    <2>1. scan[w] \in ScanType
      OBVIOUS
    <2>2. left \in SUBSET Candidate
      BY <2>1 DEF ScanType
    <2>3. pc \in {"claiming", "delivering"}
      OBVIOUS
    <2>4. scan' = [scan EXCEPT ![w] = [scan[w] EXCEPT !.batch = left, !.pc = pc]]
      BY <1>2, <2>1 DEF TakeCandidate, ScanType
    <2> HIDE DEF left, pc
    <2>5. [scan[w] EXCEPT !.batch = left, !.pc = pc] \in ScanType
      BY <2>1, <2>2, <2>3 DEF ScanType
    <2> QED
      BY <2>4, <2>5
  <1>3. ASSUME NEW c \in scan[w].batch, ExhaustCandidate(w, c) PROVE TypeOK'
    <2>1. Alive(c) => rows[c.key] \in RowType /\ c.key \in Keys
      BY DEF Alive, ScanType, Candidate
    <2>2. Alive(c) => Settle(rows[c.key], "failed") \in RowType
      BY <2>1, SettleType DEF Terminal
    <2>3. rows' \in [Keys -> RowType \cup {NoRow}]
      BY <1>3, <2>1, <2>2 DEF ExhaustCandidate
    <2> QED
      BY <1>2, <1>3, <2>3 DEF ExhaustCandidate
  <1>4. ASSUME NEW c \in scan[w].batch, ClaimCandidate(w, c) PROVE TypeOK'
    <2>1. c \in Candidate /\ scan[w].now \in Nat
      BY DEF ScanType
    <2>2. rows[c.key] \in RowType /\ c.key \in Keys
      BY <1>4, <2>1 DEF ClaimCandidate, ClaimMatches, Alive, Candidate
    <2>3. PlanNext(c.attempts, scan[w].now) \in Nat
      BY <1>4, <2>1, PlanAdvances DEF ClaimCandidate, Candidate
    <2>4. rows' \in [Keys -> RowType \cup {NoRow}]
      <3> DEFINE r == [rows[c.key] EXCEPT !.attempts = c.attempts + 1,
                         !.next = PlanNext(c.attempts, scan[w].now)]
      <3>0. c.attempts + 1 \in Nat
        BY <2>1 DEF Candidate
      <3>1. r \in RowType
        BY <2>2, <2>3, <3>0, ClaimedRowType
      <3>2. rows' = [rows EXCEPT ![c.key] = r]
        BY <1>4 DEF ClaimCandidate
      <3> QED
        BY <3>1, <3>2
    <2>5. flights' \in SUBSET FlightType
      BY <1>4, <2>1, <2>2 DEF ClaimCandidate, FlightType, RowType, Candidate
    <2> QED
      BY <1>2, <1>4, <2>4, <2>5 DEF ClaimCandidate
  <1>5. ASSUME NEW c \in scan[w].batch, LoseCandidate(w, c) PROVE TypeOK'
    BY <1>2, <1>5 DEF LoseCandidate
  <1> QED
    BY <1>1, <1>3, <1>4, <1>5 DEF Claim

LEMMA TypeRound ==
    ASSUME TypeOK, NEW w \in Scanners, AbortRound(w) \/ EndRound(w)
    PROVE  TypeOK'
  BY DEF TypeOK, AbortRound, EndRound, ScanType

LEMMA TypeAttempt ==
    ASSUME TypeOK, NEW f \in flights, Attempt(f)
    PROVE  TypeOK'
  <1> USE DEF TypeOK
  <1>1. ASSUME NEW p \in {"claimed", "sending", "taken", "refused"}
        PROVE  [f EXCEPT !.phase = p] \in FlightType
    BY DEF FlightType
  <1>2. CASE StartAttempt(f)
    BY <1>1, <1>2 DEF StartAttempt
  <1>3. CASE EndpointTakes(f)
    <2>1. <<f.id, f.round>> \in Nat \X Nat
      BY DEF FlightType
    <2>2. flights' \in SUBSET FlightType
      BY <1>1, <1>3 DEF EndpointTakes
    <2> QED
      BY <1>3, <2>1, <2>2 DEF EndpointTakes
  <1>4. CASE EndpointRefuses(f)
    BY <1>1, <1>4 DEF EndpointRefuses
  <1>5. CASE MarkDelivered(f)
    <2>1. Alive(f) => rows[f.key] \in RowType /\ f.key \in Keys
      BY DEF Alive, FlightType
    <2>2. Alive(f) => Settle(rows[f.key], "delivered") \in RowType
      BY <2>1, SettleType DEF Terminal
    <2> QED
      BY <1>5, <2>1, <2>2 DEF MarkDelivered
  <1>6. CASE RecordAttemptError(f) \/ DropClaim(f)
    BY <1>6 DEF RecordAttemptError, DropClaim
  <1> QED
    BY <1>2, <1>3, <1>4, <1>5, <1>6 DEF Attempt

LEMMA TypeNext == TypeOK /\ [Next]_vars => TypeOK'
  <1> SUFFICES ASSUME TypeOK, [Next]_vars PROVE TypeOK'
    OBVIOUS
  <1>1. ASSUME NEW k \in Keys, PruneTerminal(k) PROVE TypeOK'
    BY <1>1 DEF TypeOK, PruneTerminal
  <1>2. CASE UNCHANGED vars
    BY <1>2 DEF TypeOK, vars
  <1> QED
    BY <1>1, <1>2, TypeAdminister, TypeConsume, TypeClaim, TypeRound, TypeAttempt
    DEF Next

\* Every variable keeps its type, whatever the policy, the number of workers
\* and the order of their steps.
THEOREM TypeCorrect == Spec => []TypeOK
  BY TypeInit, TypeNext, PTL DEF Spec

-----------------------------------------------------------------------------
(* The inductive invariant.  Most steps are quiet: they remove or settle     *)
(* rows, and close claims or move them to their next phase.                  *)

RowsQuiet ==
    \A k \in Keys : rows'[k] # NoRow =>
        /\ rows[k] # NoRow
        /\ rows'[k].id = rows[k].id
        /\ rows'[k].round = rows[k].round
        /\ rows'[k].attempts = rows[k].attempts
        /\ rows'[k].status = "pending" =>
              rows[k].status = "pending" /\ rows'[k].next = rows[k].next
        /\ rows'[k].status # "pending" => rows'[k].next \notin Nat

FlightsQuiet ==
    \A f \in flights' : \E g \in flights :
        /\ f.key = g.key /\ f.id = g.id /\ f.round = g.round
        /\ f.attempt = g.attempt /\ f.at = g.at

LEMMA QuietStep ==
    ASSUME IInv, TypeOK', RowsQuiet, FlightsQuiet, nextId' = nextId,
           CandidatesDue', AttemptGrantedOnce'
    PROVE  IInv'
  <1> USE DEF IInv
  <1>1. IdsFresh'
    BY DEF IdsFresh, RowsQuiet, FlightsQuiet
  <1>2. IdsUnique'
    BY DEF IdsUnique, RowsQuiet
  <1>3. StampOK'
    BY DEF StampOK, RowsQuiet
  <1>4. AttemptsPositive'
    BY DEF AttemptsPositive, FlightsQuiet
  <1>5. FlightsBehind'
    BY DEF FlightsBehind, OnRow, RowsQuiet, FlightsQuiet
  <1>6. Spacing'
    BY DEF Spacing, OnRow, RowsQuiet, FlightsQuiet
  <1>7. BackoffRespected'
    BY DEF BackoffRespected, FlightsQuiet
  <1> QED
    BY <1>1, <1>2, <1>3, <1>4, <1>5, <1>6, <1>7

\* A claim replaced by itself in another phase leaves the claims distinct.
LEMMA PhaseStep ==
    ASSUME IInv, NEW f \in flights, NEW p,
           flights' = (flights \ {f}) \cup {[f EXCEPT !.phase = p]}
    PROVE  FlightsQuiet /\ AttemptGrantedOnce'
  <1> DEFINE g == [f EXCEPT !.phase = p]
  <1>1. /\ g.key = f.key /\ g.id = f.id /\ g.round = f.round
        /\ g.attempt = f.attempt /\ g.at = f.at
    BY DEF IInv, TypeOK, FlightType
  <1>2. flights' = (flights \ {f}) \cup {g}
    OBVIOUS
  <1> HIDE DEF g
  <1>3. FlightsQuiet
    BY <1>1, <1>2 DEF FlightsQuiet
  <1>4. AttemptGrantedOnce'
    BY <1>1, <1>2 DEF IInv, AttemptGrantedOnce
  <1> QED
    BY <1>3, <1>4

\* Settling a pending row is quiet.
LEMMA SettleStep ==
    ASSUME IInv, NEW k \in Keys, rows[k] # NoRow, NEW st \in Terminal,
           rows' = [rows EXCEPT ![k] = Settle(@, st)]
    PROVE  RowsQuiet
  <1>1. rows[k] \in RowType /\ rows \in [Keys -> RowType \cup {NoRow}]
    BY DEF IInv, TypeOK
  <1>2. /\ Settle(rows[k], st).id = rows[k].id
        /\ Settle(rows[k], st).round = rows[k].round
        /\ Settle(rows[k], st).attempts = rows[k].attempts
        /\ Settle(rows[k], st).status # "pending"
        /\ Settle(rows[k], st).next \notin Nat
    <2>1. CASE rows[k].status = "pending"
      BY <1>1, <2>1 DEF Settle, Settled, RowType, Terminal
    <2>2. CASE rows[k].status # "pending"
      BY <1>1, <2>2 DEF Settle, IInv, StampOK
    <2> QED
      BY <2>1, <2>2
  <1>3. rows'[k] = Settle(rows[k], st)
        /\ \A l \in Keys \ {k} : rows'[l] = rows[l]
    BY <1>1
  <1>4. \A l \in Keys : rows[l] # NoRow /\ rows[l].status # "pending"
                            => rows[l].next \notin Nat
    BY DEF IInv, StampOK
  <1> QED
    BY <1>2, <1>3, <1>4 DEF RowsQuiet

LEMMA UnchangedRowsQuiet == IInv /\ UNCHANGED rows => RowsQuiet
  BY DEF IInv, StampOK, RowsQuiet

LEMMA UnchangedFlightsQuiet ==
    IInv /\ UNCHANGED flights => FlightsQuiet /\ AttemptGrantedOnce'
  BY DEF IInv, FlightsQuiet, AttemptGrantedOnce

LEMMA UnchangedScan == IInv /\ UNCHANGED scan => CandidatesDue'
  BY DEF IInv, CandidatesDue

\* A worker that takes a candidate out of its batch keeps the others due.
LEMMA TakeCandidateDue ==
    ASSUME IInv, NEW w \in Scanners, NEW c, TakeCandidate(w, c)
    PROVE  CandidatesDue'
  <1>1. scan \in [Scanners -> ScanType]
    BY DEF IInv, TypeOK
  <1>2. \A v \in Scanners : scan'[v].now = scan[v].now
                            /\ scan'[v].batch \subseteq scan[v].batch
    BY <1>1 DEF TakeCandidate, ScanType
  <1> QED
    BY <1>2 DEF IInv, CandidatesDue

-----------------------------------------------------------------------------
(* The steps that are not quiet *)

\* A redelivery opens a round that no claim belongs to.
LEMMA RedeliverInv ==
    ASSUME IInv, TypeOK', NEW k \in Keys, RedeliverDelivery(k)
    PROVE  IInv'
  <1>1. rows[k] \in RowType /\ rows[k] # NoRow /\ clock \in Nat
        /\ rows \in [Keys -> RowType \cup {NoRow}]
    BY DEF IInv, TypeOK, RedeliverDelivery
  <1>2. /\ rows'[k].id = rows[k].id
        /\ rows'[k].status = "pending"
        /\ rows'[k].next = clock
        /\ rows'[k].round = rows[k].round + 1
        /\ \A l \in Keys \ {k} : rows'[l] = rows[l]
    BY <1>1 DEF RedeliverDelivery, RowType
  <1>3. UNCHANGED <<flights, scan, nextId>>
    BY DEF RedeliverDelivery
  <1>4. CandidatesDue' /\ AttemptGrantedOnce' /\ BackoffRespected'
        /\ AttemptsPositive'
    BY <1>3 DEF IInv, CandidatesDue, AttemptGrantedOnce, BackoffRespected,
                AttemptsPositive
  <1>5. IdsFresh' /\ IdsUnique' /\ StampOK'
    BY <1>1, <1>2, <1>3 DEF IInv, IdsFresh, IdsUnique, StampOK
  <1>6. \A f \in flights : f.round \in Nat /\ (OnRow(f, k) => f.round < rows'[k].round)
    BY <1>1, <1>2 DEF IInv, TypeOK, FlightType, FlightsBehind, RowType
  <1>7. FlightsBehind' /\ Spacing'
    <2>1. ASSUME NEW f \in flights, NEW l \in Keys,
                 rows'[l] # NoRow, rows'[l].id = f.id
          PROVE  /\ f.key = l
                 /\ f.round <= rows'[l].round
                 /\ f.round = rows'[l].round => f.attempt <= rows'[l].attempts
                 /\ f.round = rows'[l].round /\ rows'[l].status = "pending"
                       => f.at + BackoffFor(f.attempt) <= rows'[l].next
      <3>1. CASE l = k
        <4>1. OnRow(f, k)
          BY <1>1, <1>2, <2>1, <3>1 DEF OnRow
        <4>2. f.key = k /\ f.round < rows'[k].round /\ f.round \in Nat
              /\ rows'[k].round \in Nat
          BY <1>1, <1>2, <1>6, <4>1 DEF IInv, FlightsBehind, RowType
        <4> QED
          BY <3>1, <4>2
      <3>2. CASE l # k
        BY <1>2, <2>1, <3>2 DEF IInv, FlightsBehind, Spacing, OnRow
      <3> QED
        BY <3>1, <3>2
    <2> QED
      BY <1>3, <2>1 DEF FlightsBehind, Spacing, OnRow
  <1> QED
    BY <1>4, <1>5, <1>7 DEF IInv

\* A new row takes an identity that no claim carries.
LEMMA InsertInv ==
    ASSUME IInv, TypeOK', NEW h \in Hooks, InsertDelivery(h)
    PROVE  IInv'
  <1>1. UNCHANGED <<flights, scan>>
    BY DEF InsertDelivery
  <1>2. CASE UNCHANGED <<rows, nextId>>
    BY <1>1, <1>2, QuietStep, UnchangedRowsQuiet, UnchangedFlightsQuiet,
       UnchangedScan
  <1>3. CASE ~ UNCHANGED <<rows, nextId>>
    <2> DEFINE k == <<h, inbox.event>>
    <2>1. k \in Keys
      BY DEF IInv, TypeOK, InsertDelivery, Keys
    <2>2. /\ nextId \in Nat /\ clock \in Nat /\ nextId' = nextId + 1
          /\ rows \in [Keys -> RowType \cup {NoRow}]
          /\ rows[k] = NoRow
      BY <1>3 DEF IInv, TypeOK, InsertDelivery
    <2>3. rows' = [rows EXCEPT ![k] =
              [id |-> nextId, status |-> "pending", attempts |-> 0,
               next |-> clock, created |-> clock, round |-> 0]]
      BY <1>3 DEF InsertDelivery
    <2> HIDE DEF k
    <2>4. /\ rows'[k].id = nextId /\ rows'[k].status = "pending"
          /\ rows'[k].next = clock
          /\ \A l \in Keys \ {k} : rows'[l] = rows[l]
      BY <2>1, <2>2, <2>3
    <2>5. CandidatesDue' /\ AttemptGrantedOnce' /\ BackoffRespected'
          /\ AttemptsPositive'
      BY <1>1 DEF IInv, CandidatesDue, AttemptGrantedOnce, BackoffRespected,
                  AttemptsPositive
    <2>6. \A l \in Keys : rows[l] # NoRow => rows[l].id \in Nat /\ rows[l].id < nextId
      BY <2>2 DEF IInv, IdsFresh, RowType
    <2>7. \A f \in flights : f.id \in Nat /\ f.id < nextId
      BY DEF IInv, TypeOK, IdsFresh, FlightType
    <2>8. IdsFresh' /\ IdsUnique' /\ StampOK'
      BY <1>1, <2>1, <2>2, <2>4, <2>6, <2>7 DEF IInv, IdsFresh, IdsUnique, StampOK
    <2>9. \A f \in flights, l \in Keys :
             rows'[l] # NoRow /\ rows'[l].id = f.id => l # k
      BY <2>2, <2>4, <2>7
    <2>10. FlightsBehind' /\ Spacing'
      BY <1>1, <2>4, <2>9 DEF IInv, FlightsBehind, Spacing, OnRow
    <2> QED
      BY <2>5, <2>8, <2>10 DEF IInv
  <1> QED
    BY <1>2, <1>3

\* A scan remembers pending rows that are due.
LEMMA ScanInv ==
    ASSUME IInv, TypeOK', NEW w \in Scanners, ScanDue(w)
    PROVE  IInv'
  <1>1. CandidatesDue'
    <2>1. scan \in [Scanners -> ScanType] /\ clock \in Nat
      BY DEF IInv, TypeOK
    <2>2. \A k \in Due(clock) : rows[k].next \in Nat /\ rows[k].next <= clock
      BY DEF Due, IInv, StampOK
    <2>3. scan'[w].now = clock
          /\ \A c \in scan'[w].batch : \E k \in Due(clock) : c.next = rows[k].next
      BY <2>1 DEF ScanDue
    <2>4. \A v \in Scanners \ {w} : scan'[v] = scan[v]
      BY <2>1 DEF ScanDue
    <2> QED
      BY <2>2, <2>3, <2>4 DEF IInv, CandidatesDue
  <1>2. UNCHANGED <<rows, flights, nextId>>
    BY DEF ScanDue
  <1> QED
    BY <1>1, <1>2, QuietStep, UnchangedRowsQuiet, UnchangedFlightsQuiet

\* The compare-and-set of a claim can only match a pending row.
LEMMA MatchIsPending ==
    ASSUME IInv, NEW w \in Scanners, NEW c \in scan[w].batch, ClaimMatches(c)
    PROVE  /\ c.key \in Keys /\ rows[c.key] \in RowType /\ rows[c.key] # NoRow
           /\ rows[c.key].status = "pending"
           /\ rows[c.key].next <= scan[w].now
  <1>1. c \in Candidate
    BY DEF IInv, TypeOK, ScanType
  <1>2. c.next \in Nat /\ c.next <= scan[w].now
    BY DEF IInv, CandidatesDue
  <1>3. c.key \in Keys /\ rows[c.key] # NoRow /\ rows[c.key].next = c.next
    BY <1>1 DEF ClaimMatches, Alive, Candidate
  <1> QED
    BY <1>2, <1>3 DEF IInv, TypeOK, StampOK

LEMMA ClaimInv ==
    ASSUME IInv, TypeOK', NEW w \in Scanners, NEW c \in scan[w].batch,
           ClaimCandidate(w, c)
    PROVE  IInv'
  <1> DEFINE k == c.key
             now == scan[w].now
             nxt == PlanNext(c.attempts, now)
             g == [scanner |-> w, key |-> c.key, id |-> c.id,
                   round |-> rows[c.key].round, attempt |-> c.attempts + 1,
                   at |-> scan[w].now, phase |-> "claimed"]
  <1>1. /\ k \in Keys /\ rows[k] \in RowType /\ rows[k] # NoRow
        /\ rows[k].status = "pending" /\ rows[k].next <= now
        /\ rows \in [Keys -> RowType \cup {NoRow}]
    BY MatchIsPending DEF ClaimCandidate, IInv, TypeOK
  <1>2. /\ c.id = rows[k].id /\ c.attempts = rows[k].attempts
        /\ rows[k].next \in Nat
    BY <1>1 DEF ClaimCandidate, ClaimMatches, Alive, IInv, StampOK
  <1>3. now \in Nat /\ c.attempts \in Nat /\ c.created \in Nat
    BY DEF IInv, TypeOK, ScanType, Candidate
  <1>4. /\ nxt \in Nat /\ nxt = now + BackoffFor(c.attempts + 1) /\ now < nxt
        /\ c.attempts + 1 <= MaxAttempts
    BY <1>3, PlanAdvances DEF ClaimCandidate
  <1>5. /\ rows'[k].id = rows[k].id /\ rows'[k].round = rows[k].round
        /\ rows'[k].status = "pending" /\ rows'[k].next = nxt
        /\ rows'[k].attempts = c.attempts + 1
        /\ \A l \in Keys \ {k} : rows'[l] = rows[l]
    BY <1>1 DEF ClaimCandidate, RowType
  <1>6. /\ g.key = k /\ g.id = rows[k].id /\ g.round = rows[k].round
        /\ g.attempt = c.attempts + 1 /\ g.at = now
    BY <1>2
  <1>7. flights' = flights \cup {g} /\ nextId' = nextId
    BY DEF ClaimCandidate
  <1>8. CandidatesDue'
    BY TakeCandidateDue DEF ClaimCandidate
  <1> HIDE DEF k, now, nxt, g
  <1>9. \A f \in flights : /\ f.id \in Nat /\ f.round \in Nat /\ f.at \in Nat
                           /\ f.attempt \in Nat \ {0}
                           /\ BackoffFor(f.attempt) \in Nat
    BY BackoffPositive DEF IInv, TypeOK, FlightType, AttemptsPositive
  <1>10. \A f \in flights : f.id = g.id /\ f.round = g.round =>
            /\ f.attempt < g.attempt
            /\ f.at + BackoffFor(f.attempt) <= now
    <2> SUFFICES ASSUME NEW f \in flights, f.id = g.id, f.round = g.round
                 PROVE  /\ f.attempt < g.attempt
                        /\ f.at + BackoffFor(f.attempt) <= now
      OBVIOUS
    <2>1. OnRow(f, k) /\ f.round = rows[k].round
      BY <1>1, <1>6 DEF OnRow
    <2>2. f.attempt <= rows[k].attempts
      BY <1>1, <2>1 DEF IInv, FlightsBehind
    <2>3. f.at + BackoffFor(f.attempt) <= rows[k].next
      BY <1>1, <2>1 DEF IInv, Spacing
    <2> QED
      BY <1>1, <1>2, <1>3, <1>6, <1>9, <2>2, <2>3
  <1>11. AttemptGrantedOnce'
    BY <1>3, <1>6, <1>7, <1>9, <1>10 DEF IInv, AttemptGrantedOnce
  <1>12. BackoffRespected'
    BY <1>3, <1>4, <1>6, <1>7, <1>9, <1>10 DEF IInv, BackoffRespected
  <1>13. AttemptsPositive'
    BY <1>3, <1>6, <1>7 DEF IInv, AttemptsPositive
  <1>14. IdsFresh' /\ IdsUnique' /\ StampOK'
    BY <1>1, <1>4, <1>5, <1>6, <1>7 DEF IInv, IdsFresh, IdsUnique, StampOK
  <1>15. FlightsBehind' /\ Spacing'
    <2>1. ASSUME NEW f \in flights', NEW l \in Keys,
                 rows'[l] # NoRow, rows'[l].id = f.id
          PROVE  /\ f.key = l
                 /\ f.round <= rows'[l].round
                 /\ f.round = rows'[l].round => f.attempt <= rows'[l].attempts
                 /\ f.round = rows'[l].round /\ rows'[l].status = "pending"
                       => f.at + BackoffFor(f.attempt) <= rows'[l].next
      <3>1. CASE f = g
        <4>1. l = k
          BY <1>1, <1>5, <1>6, <2>1, <3>1 DEF IInv, IdsUnique
        <4> QED
          BY <1>1, <1>3, <1>4, <1>5, <1>6, <3>1, <4>1 DEF RowType
      <3>2. CASE f \in flights /\ l # k
        BY <1>5, <2>1, <3>2 DEF IInv, FlightsBehind, Spacing, OnRow
      <3>3. CASE f \in flights /\ l = k
        <4>1. f.key = k /\ f.round <= rows[k].round
              /\ (f.round = rows[k].round => f.attempt <= rows[k].attempts)
          BY <1>1, <1>5, <2>1, <3>3 DEF IInv, FlightsBehind, OnRow
        <4> QED
          BY <1>1, <1>2, <1>3, <1>4, <1>5, <1>6, <1>9, <1>10, <2>1, <3>3, <4>1
          DEF RowType
      <3> QED
        BY <1>7, <2>1, <3>1, <3>2, <3>3
    <2> QED
      BY <2>1 DEF FlightsBehind, Spacing, OnRow
  <1> QED
    BY <1>8, <1>11, <1>12, <1>13, <1>14, <1>15 DEF IInv

-----------------------------------------------------------------------------
(* Every step preserves the invariant *)

LEMMA InvInit == Init => IInv
  <1> SUFFICES ASSUME Init PROVE IInv
    OBVIOUS
  <1>1. /\ \A k \in Keys : rows[k] = NoRow
        /\ flights = {} /\ \A w \in Scanners : scan[w].batch = {}
    BY DEF Init
  <1> QED
    BY <1>1, TypeInit DEF IInv, IdsFresh, IdsUnique, StampOK, AttemptsPositive,
       FlightsBehind, Spacing, CandidatesDue, AttemptGrantedOnce,
       BackoffRespected, OnRow

LEMMA CandidateInv ==
    ASSUME IInv, TypeOK', NEW w \in Scanners, Claim(w)
    PROVE  IInv'
  <1>1. ASSUME NEW c \in scan[w].batch, ExhaustCandidate(w, c) PROVE IInv'
    <2>1. CandidatesDue'
      BY <1>1, TakeCandidateDue DEF ExhaustCandidate
    <2>2. c.key \in Keys
      BY DEF IInv, TypeOK, ScanType, Candidate
    <2>3. RowsQuiet
      BY <1>1, <2>2, SettleStep, UnchangedRowsQuiet
      DEF ExhaustCandidate, Alive, Terminal
    <2> QED
      BY <1>1, <2>1, <2>3, QuietStep, UnchangedFlightsQuiet DEF ExhaustCandidate
  <1>2. ASSUME NEW c \in scan[w].batch, LoseCandidate(w, c) PROVE IInv'
    BY <1>2, TakeCandidateDue, QuietStep, UnchangedRowsQuiet,
       UnchangedFlightsQuiet DEF LoseCandidate
  <1> QED
    BY <1>1, <1>2, ScanInv, ClaimInv DEF Claim

LEMMA RoundInv ==
    ASSUME IInv, TypeOK', NEW w \in Scanners, AbortRound(w) \/ EndRound(w)
    PROVE  IInv'
  <1>1. flights' \subseteq flights
    BY DEF AbortRound, EndRound
  <1>2. FlightsQuiet /\ AttemptGrantedOnce'
    BY <1>1 DEF IInv, FlightsQuiet, AttemptGrantedOnce
  <1>3. scan \in [Scanners -> ScanType]
    BY DEF IInv, TypeOK
  <1>4. \A v \in Scanners : scan'[v].now = scan[v].now
                            /\ scan'[v].batch \subseteq scan[v].batch
    BY <1>3 DEF AbortRound, EndRound, ScanType
  <1>5. CandidatesDue'
    BY <1>4 DEF IInv, CandidatesDue
  <1> QED
    BY <1>2, <1>5, QuietStep, UnchangedRowsQuiet DEF AbortRound, EndRound

LEMMA AttemptQuiet ==
    ASSUME IInv, NEW f \in flights, Attempt(f)
    PROVE  FlightsQuiet /\ AttemptGrantedOnce'
  <1>1. CASE flights' = flights \ {f}
    BY <1>1 DEF IInv, FlightsQuiet, AttemptGrantedOnce
  <1>2. ASSUME NEW p \in {"sending", "taken", "refused"},
               flights' = (flights \ {f}) \cup {[f EXCEPT !.phase = p]}
        PROVE  FlightsQuiet /\ AttemptGrantedOnce'
    BY <1>2, PhaseStep
  <1> QED
    BY <1>1, <1>2
    DEF Attempt, StartAttempt, EndpointTakes, EndpointRefuses, MarkDelivered,
        RecordAttemptError, DropClaim

LEMMA AttemptInv ==
    ASSUME IInv, TypeOK', NEW f \in flights, Attempt(f)
    PROVE  IInv'
  <1>1. UNCHANGED <<scan, nextId>>
    BY DEF Attempt, StartAttempt, EndpointTakes, EndpointRefuses, MarkDelivered,
           RecordAttemptError, DropClaim
  <1>2. FlightsQuiet /\ AttemptGrantedOnce'
    BY AttemptQuiet
  <1>3. RowsQuiet
    <2>1. CASE MarkDelivered(f)
      <3>1. f.key \in Keys
        BY DEF IInv, TypeOK, FlightType
      <3> QED
        BY <2>1, <3>1, SettleStep, UnchangedRowsQuiet
        DEF MarkDelivered, Alive, Terminal
    <2>2. CASE ~ MarkDelivered(f)
      BY <2>2, UnchangedRowsQuiet
      DEF Attempt, StartAttempt, EndpointTakes, EndpointRefuses,
          RecordAttemptError, DropClaim
    <2> QED
      BY <2>1, <2>2
  <1> QED
    BY <1>1, <1>2, <1>3, QuietStep, UnchangedScan

LEMMA InvNext == IInv /\ [Next]_vars => IInv'
  <1> SUFFICES ASSUME IInv, [Next]_vars PROVE IInv'
    OBVIOUS
  <1>1. TypeOK'
    BY TypeNext DEF IInv
  <1>2. ASSUME UNCHANGED <<rows, flights, scan, nextId>> PROVE IInv'
    BY <1>1, <1>2, QuietStep, UnchangedRowsQuiet, UnchangedFlightsQuiet,
       UnchangedScan
  <1>3. CASE Tick \/ UNCHANGED vars
    BY <1>2, <1>3 DEF Tick, vars
  <1>4. CASE Administer
    <2>1. ASSUME NEW h \in Hooks, SetStatus(h) PROVE IInv'
      BY <1>2, <2>1 DEF SetStatus
    <2>2. ASSUME NEW h \in Hooks, DeleteWebhook(h) PROVE IInv'
      <3>1. RowsQuiet
        BY <2>2 DEF DeleteWebhook, RowsQuiet, IInv, StampOK
      <3> QED
        BY <1>1, <2>2, <3>1, QuietStep, UnchangedFlightsQuiet, UnchangedScan
        DEF DeleteWebhook
    <2> QED
      BY <1>1, <1>4, <2>1, <2>2, RedeliverInv DEF Administer
  <1>5. CASE Consume
    <2>1. ASSUME NEW e \in Events, ReceiveEvent(e) PROVE IInv'
      BY <1>2, <2>1 DEF ReceiveEvent
    <2>2. CASE RefreshSubscriptionIndex
      BY <1>2, <2>2 DEF RefreshSubscriptionIndex
    <2> QED
      BY <1>1, <1>5, <2>1, <2>2, InsertInv DEF Consume
  <1>6. ASSUME NEW k \in Keys, PruneTerminal(k) PROVE IInv'
    <2>1. rows \in [Keys -> RowType \cup {NoRow}]
      BY DEF IInv, TypeOK
    <2>2. RowsQuiet
      BY <1>6, <2>1 DEF PruneTerminal, RowsQuiet, IInv, StampOK
    <2> QED
      BY <1>1, <1>6, <2>2, QuietStep, UnchangedFlightsQuiet, UnchangedScan
      DEF PruneTerminal
  <1> QED
    BY <1>1, <1>3, <1>4, <1>5, <1>6, CandidateInv, RoundInv, AttemptInv DEF Next

THEOREM Invariance == Spec => []IInv
  BY InvInit, InvNext, PTL DEF Spec

-----------------------------------------------------------------------------
(* The properties *)

\* Of any number of workers one is granted each attempt of a delivery's round.
THEOREM GrantedOnce == Spec => []AttemptGrantedOnce
  <1>1. IInv => AttemptGrantedOnce
    BY DEF IInv
  <1> QED
    BY <1>1, Invariance, PTL

\* Attempts of one round are spaced by the policy and bounded in number,
\* however the workers' stale scans interleave.
THEOREM Spaced == Spec => []BackoffRespected
  <1>1. IInv => BackoffRespected
    BY DEF IInv
  <1> QED
    BY <1>1, Invariance, PTL

\* A claim is granted on a pending row only, though the claim's UPDATE does
\* not compare the status.
THEOREM PendingOnly == Spec => ClaimsOnlyPending
  <1> DEFINE A == \A f \in flights' :
          (\A g \in flights : <<g.id, g.round, g.attempt>> # <<f.id, f.round, f.attempt>>)
              => rows[f.key].status = "pending"
  <1>1. IInv /\ [Next]_vars => [A]_vars
    <2> SUFFICES ASSUME IInv, Next PROVE A
      BY DEF vars
    <2>1. TypeOK'
      BY TypeNext DEF IInv
    <2>2. ASSUME FlightsQuiet PROVE A
      BY <2>2 DEF FlightsQuiet
    <2>3. ASSUME flights' \subseteq flights PROVE A
      BY <2>3
    <2>4. ASSUME NEW w \in Scanners, NEW c \in scan[w].batch, ClaimCandidate(w, c)
          PROVE  A
      <3>1. rows[c.key].status = "pending"
        BY <2>4, MatchIsPending DEF ClaimCandidate
      <3>2. \A f \in flights' : f \in flights \/ f.key = c.key
        BY <2>4 DEF ClaimCandidate
      <3> QED
        BY <3>1, <3>2
    <2>5. ASSUME NEW f \in flights, Attempt(f) PROVE A
      <3>1. FlightsQuiet
        BY <2>5, AttemptQuiet
      <3> QED
        BY <2>2, <3>1
    <2>6. ASSUME NEW w \in Scanners, Claim(w) \/ AbortRound(w) \/ EndRound(w)
          PROVE  A
      BY <2>3, <2>4, <2>6
      DEF Claim, ScanDue, ExhaustCandidate, LoseCandidate, AbortRound, EndRound
    <2>7. CASE Tick \/ Administer \/ Consume \/ \E k \in Keys : PruneTerminal(k)
      BY <2>3, <2>7
      DEF Tick, Administer, SetStatus, DeleteWebhook, RedeliverDelivery, Consume,
          RefreshSubscriptionIndex, ReceiveEvent, InsertDelivery, PruneTerminal
    <2> QED
      BY <2>5, <2>6, <2>7 DEF Next
  <1> QED
    BY <1>1, Invariance, PTL DEF Spec, ClaimsOnlyPending

\* A stored outcome is never replaced by the other one, nor is a settled row
\* pending again, unless a redelivery opens the next round.
THEOREM FinalOutcome == Spec => OutcomeIsFinal
  <1> DEFINE Same(k) == rows'[k].status = rows[k].status
             Reopened(k) == rows'[k].round = rows[k].round + 1
             A == \A k \in Keys :
               rows[k] # NoRow /\ rows[k].status \in Terminal /\ rows'[k] # NoRow
                 => \/ rows'[k].id # rows[k].id
                    \/ rows'[k].status = rows[k].status
                    \/ rows'[k].round = rows[k].round + 1
  <1>1. IInv /\ [Next]_vars => [A]_vars
    <2> SUFFICES ASSUME IInv, Next,
                        NEW k \in Keys, rows[k] # NoRow,
                        rows[k].status \in Terminal, rows'[k] # NoRow
                 PROVE  Same(k) \/ Reopened(k)
      BY DEF vars
    <2>1. /\ rows \in [Keys -> RowType \cup {NoRow}]
          /\ rows[k] \in RowType /\ rows[k].status # "pending"
      BY DEF IInv, TypeOK, Terminal
    <2>2. ASSUME NEW st, Settle(rows[k], st) # rows[k] PROVE FALSE
      BY <2>1, <2>2 DEF Settle
    <2>3. ASSUME NEW l \in Keys, NEW st, rows' = [rows EXCEPT ![l] = Settle(@, st)]
          PROVE  Same(k)
      BY <2>1, <2>2, <2>3
    <2>4. ASSUME NEW w \in Scanners, NEW c \in scan[w].batch, ExhaustCandidate(w, c)
          PROVE  Same(k)
      <3>1. c.key \in Keys
        BY DEF IInv, TypeOK, ScanType, Candidate
      <3> QED
        BY <2>3, <2>4, <3>1 DEF ExhaustCandidate
    <2>5. ASSUME NEW w \in Scanners, NEW c \in scan[w].batch, ClaimCandidate(w, c)
          PROVE  Same(k)
      <3>1. rows[c.key].status = "pending"
        BY <2>5, MatchIsPending DEF ClaimCandidate
      <3>2. rows'[k] = rows[k]
        BY <2>1, <2>5, <3>1 DEF ClaimCandidate
      <3> QED
        BY <3>2
    <2>6. ASSUME NEW w \in Scanners, Claim(w) \/ AbortRound(w) \/ EndRound(w)
          PROVE  Same(k)
      BY <2>4, <2>5, <2>6 DEF Claim, ScanDue, LoseCandidate, AbortRound, EndRound
    <2>7. ASSUME NEW f \in flights, Attempt(f) PROVE Same(k)
      <3>1. f.key \in Keys
        BY DEF IInv, TypeOK, FlightType
      <3> QED
        BY <2>3, <2>7, <3>1
        DEF Attempt, StartAttempt, EndpointTakes, EndpointRefuses, MarkDelivered,
            RecordAttemptError, DropClaim
    <2>8. ASSUME NEW l \in Keys, RedeliverDelivery(l) PROVE Same(k) \/ Reopened(k)
      BY <2>1, <2>8 DEF RedeliverDelivery, RowType
    <2>9. ASSUME NEW h \in Hooks, DeleteWebhook(h) PROVE Same(k)
      BY <2>1, <2>9 DEF DeleteWebhook
    <2>10. ASSUME NEW h \in Hooks, InsertDelivery(h) PROVE Same(k)
      BY <2>1, <2>10 DEF InsertDelivery
    <2>11. ASSUME NEW l \in Keys, PruneTerminal(l) PROVE Same(k)
      BY <2>1, <2>11 DEF PruneTerminal
    <2>12. CASE Administer
      BY <2>8, <2>9, <2>12 DEF Administer, SetStatus
    <2>13. CASE Consume \/ Tick
      BY <2>10, <2>13 DEF Consume, Tick, RefreshSubscriptionIndex, ReceiveEvent
    <2> QED
      BY <2>6, <2>7, <2>11, <2>12, <2>13 DEF Next
  <1> QED
    BY <1>1, Invariance, PTL DEF Spec, OutcomeIsFinal

\* A claim whose request was taken is among those the endpoint has accepted.
TakenAccepted == \A f \in flights : f.phase = "taken" => <<f.id, f.round>> \in accepted

\* What a step may do to delivered rows, and to claims that were taken.
DeliveredStep ==
    \A k \in Keys :
        rows'[k] # NoRow /\ rows'[k].status = "delivered" =>
            \/ /\ rows[k] # NoRow /\ rows[k].status = "delivered"
               /\ rows[k].id = rows'[k].id /\ rows[k].round = rows'[k].round
            \/ \E n \in 0 .. rows'[k].round : <<rows'[k].id, n>> \in accepted

TakenStep ==
    /\ accepted \subseteq accepted'
    /\ \A f \in flights' : f.phase = "taken" => f \in flights \/ <<f.id, f.round>> \in accepted'

LEMMA TakenKeeps ==
  ASSUME TakenAccepted, DeliveredWasTaken, DeliveredStep, TakenStep
  PROVE  TakenAccepted' /\ DeliveredWasTaken'
  <1>1. TakenAccepted'
    BY DEF TakenAccepted, TakenStep
  <1>2. ASSUME NEW k \in Keys, rows'[k] # NoRow, rows'[k].status = "delivered"
        PROVE  \E n \in 0 .. rows'[k].round : <<rows'[k].id, n>> \in accepted'
    BY <1>2 DEF DeliveredWasTaken, DeliveredStep, TakenStep
  <1> QED
    BY <1>1, <1>2 DEF DeliveredWasTaken

\* A row is settled as failed, or as what it was.
LEMMA SettleFailed ==
  ASSUME TypeOK, NEW l \in Keys, rows[l] # NoRow,
         rows' = [rows EXCEPT ![l] = Settle(@, "failed")]
  PROVE  DeliveredStep
  <1>1. /\ rows \in [Keys -> RowType \cup {NoRow}] /\ rows[l] \in RowType
    BY DEF TypeOK
  <1>2. rows'[l] = rows[l] \/ rows'[l].status = "failed"
    BY <1>1 DEF Settle, RowType
  <1> QED
    BY <1>1, <1>2 DEF DeliveredStep

LEMMA MarkedWasTaken ==
  ASSUME IInv, TakenAccepted, NEW f \in flights, MarkDelivered(f)
  PROVE  DeliveredStep
  <1>1. /\ rows \in [Keys -> RowType \cup {NoRow}] /\ f.key \in Keys /\ f.round \in Nat
    BY DEF IInv, TypeOK, FlightType
  <1>2. CASE Alive(f)
    <2>1. /\ rows[f.key] \in RowType /\ rows[f.key].id = f.id
          /\ rows' = [rows EXCEPT ![f.key] = Settle(@, "delivered")]
      BY <1>1, <1>2 DEF Alive, MarkDelivered
    <2>2. f.round <= rows[f.key].round
      BY <1>1, <1>2 DEF Alive, IInv, FlightsBehind, OnRow
    <2>3. <<f.id, f.round>> \in accepted
      BY DEF MarkDelivered, TakenAccepted
    <2>4. rows'[f.key].id = rows[f.key].id /\ rows'[f.key].round = rows[f.key].round
      BY <1>1, <2>1 DEF Settle, RowType
    <2>5. f.round \in 0 .. rows'[f.key].round
      BY <1>1, <2>1, <2>2, <2>4 DEF RowType
    <2>6. \A k \in Keys : k # f.key => rows'[k] = rows[k]
      BY <1>1, <2>1
    <2> QED
      BY <2>1, <2>3, <2>4, <2>5, <2>6 DEF DeliveredStep
  <1>3. CASE ~Alive(f)
    BY <1>3 DEF MarkDelivered, DeliveredStep
  <1> QED
    BY <1>2, <1>3

LEMMA TakenNext ==
  ASSUME IInv, TakenAccepted, DeliveredWasTaken, [Next]_vars
  PROVE  TakenAccepted' /\ DeliveredWasTaken'
  <1> SUFFICES ASSUME Next PROVE DeliveredStep /\ TakenStep
    BY TakenKeeps DEF vars, TakenAccepted, DeliveredWasTaken
  <1>1. /\ rows \in [Keys -> RowType \cup {NoRow}]
        /\ \A k \in Keys : rows[k] # NoRow => rows[k] \in RowType
    BY DEF IInv, TypeOK
  <1>2. ASSUME UNCHANGED rows PROVE DeliveredStep
    BY <1>2 DEF DeliveredStep
  <1>3. ASSUME flights' \subseteq flights, UNCHANGED accepted PROVE TakenStep
    BY <1>3 DEF TakenStep
  <1>4. CASE Tick
    BY <1>2, <1>3, <1>4 DEF Tick
  <1>5. CASE Administer
    <2>1. ASSUME NEW h \in Hooks, SetStatus(h) PROVE DeliveredStep /\ TakenStep
      BY <1>2, <1>3, <2>1 DEF SetStatus
    <2>2. ASSUME NEW h \in Hooks, DeleteWebhook(h) PROVE DeliveredStep /\ TakenStep
      BY <1>3, <2>2 DEF DeleteWebhook, DeliveredStep
    <2>3. ASSUME NEW k \in Keys, RedeliverDelivery(k) PROVE DeliveredStep /\ TakenStep
      <3>1. rows'[k].status = "pending" /\ \A l \in Keys : l # k => rows'[l] = rows[l]
        BY <1>1, <2>3 DEF RedeliverDelivery, RowType
      <3> QED
        BY <1>3, <2>3, <3>1 DEF RedeliverDelivery, DeliveredStep
    <2> QED
      BY <1>5, <2>1, <2>2, <2>3 DEF Administer
  <1>6. CASE Consume
    <2>1. ASSUME NEW h \in Hooks, InsertDelivery(h) PROVE DeliveredStep /\ TakenStep
      <3>1. \A k \in Keys : rows'[k] = rows[k] \/ rows'[k].status = "pending"
        BY <1>1, <2>1 DEF InsertDelivery
      <3> QED
        BY <1>3, <2>1, <3>1 DEF InsertDelivery, DeliveredStep
    <2> QED
      BY <1>2, <1>3, <1>6, <2>1 DEF Consume, RefreshSubscriptionIndex, ReceiveEvent
  <1>7. ASSUME NEW w \in Scanners, NEW c \in scan[w].batch, ExhaustCandidate(w, c)
        PROVE  DeliveredStep /\ TakenStep
    <2>1. c.key \in Keys
      BY DEF IInv, TypeOK, ScanType, Candidate
    <2>2. DeliveredStep
      BY <1>2, <1>7, <2>1, SettleFailed DEF ExhaustCandidate, Alive, IInv
    <2> QED
      BY <1>3, <1>7, <2>2 DEF ExhaustCandidate
  <1>8. ASSUME NEW w \in Scanners, NEW c \in scan[w].batch, ClaimCandidate(w, c)
        PROVE  DeliveredStep /\ TakenStep
    <2>1. c.key \in Keys /\ rows[c.key] # NoRow
      BY <1>8 DEF IInv, TypeOK, ScanType, Candidate, ClaimCandidate, ClaimMatches, Alive
    <2>2. \A k \in Keys : rows'[k] = rows[k] \/ rows'[k].status = "pending"
      BY <1>1, <1>8, <2>1, MatchIsPending DEF ClaimCandidate, RowType
    <2>3. DeliveredStep
      BY <2>2 DEF DeliveredStep
    <2>4. TakenStep
      BY <1>8 DEF ClaimCandidate, TakenStep
    <2> QED
      BY <2>3, <2>4
  <1>9. ASSUME NEW w \in Scanners, Claim(w) \/ AbortRound(w) \/ EndRound(w)
        PROVE  DeliveredStep /\ TakenStep
    BY <1>2, <1>3, <1>7, <1>8, <1>9 DEF Claim, ScanDue, LoseCandidate, AbortRound, EndRound
  <1>10. ASSUME NEW f \in flights, Attempt(f)
         PROVE  DeliveredStep /\ TakenStep
    <2>1. CASE MarkDelivered(f)
      BY <1>3, <2>1, MarkedWasTaken DEF MarkDelivered
    <2>2. CASE EndpointTakes(f)
      <3>1. f \in FlightType
        BY DEF IInv, TypeOK
      <3>2. \A g \in flights' : g \in flights \/ (g.id = f.id /\ g.round = f.round)
        BY <2>2, <3>1 DEF EndpointTakes, FlightType
      <3>3. <<f.id, f.round>> \in accepted' /\ accepted \subseteq accepted'
        BY <2>2 DEF EndpointTakes
      <3> QED
        BY <1>2, <2>2, <3>2, <3>3 DEF EndpointTakes, TakenStep
    <2>3. CASE StartAttempt(f) \/ EndpointRefuses(f)
      <3>1. f \in FlightType
        BY DEF IInv, TypeOK
      <3>2. \A g \in flights' : g \in flights \/ g.phase # "taken"
        BY <2>3, <3>1 DEF StartAttempt, EndpointRefuses, FlightType
      <3> QED
        BY <1>2, <2>3, <3>2 DEF StartAttempt, EndpointRefuses, TakenStep
    <2>4. CASE RecordAttemptError(f) \/ DropClaim(f)
      BY <1>2, <1>3, <2>4 DEF RecordAttemptError, DropClaim
    <2> QED
      BY <1>10, <2>1, <2>2, <2>3, <2>4 DEF Attempt
  <1>11. ASSUME NEW k \in Keys, PruneTerminal(k) PROVE DeliveredStep /\ TakenStep
    BY <1>1, <1>3, <1>11 DEF PruneTerminal, DeliveredStep
  <1> QED
    BY <1>4, <1>5, <1>6, <1>9, <1>10, <1>11 DEF Next

\* A delivery is stored as delivered only when the endpoint took this very
\* delivery, in the row's round or in an earlier one whose answer came late.
THEOREM DeliveredTaken == Spec => []DeliveredWasTaken
  <1>1. Init => TakenAccepted /\ DeliveredWasTaken
    BY DEF Init, TakenAccepted, DeliveredWasTaken
  <1> QED
    BY <1>1, TakenNext, Invariance, PTL DEF Spec
=============================================================================
