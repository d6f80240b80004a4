-------------------------- MODULE WebhookDelivery --------------------------
(* Webhook deliveries of one project: the rows of webhook_deliveries, the    *)
(* event consumer that creates them from its subscription snapshot, the      *)
(* worker processes that claim due rows and call the endpoint, the           *)
(* administrator who pauses, deletes and redelivers, and retention pruning.  *)
EXTENDS WebhookPolicy, FiniteSets

CONSTANTS
    Hooks,       \* webhook subscriptions
    Events,      \* outbox events that match every subscription
    Scanners,    \* worker processes running RunDueDeliveries
    NoRow,       \* no delivery row under a key
    Retention,   \* age after which a settled row may be pruned
    MaxTime,     \* bound: last instant of the clock
    Horizon,     \* bound: last instant at which a row is created
    MaxId,       \* bound: delivery rows ever created
    MaxResets,   \* bound: manual redeliveries
    MaxFaults    \* bound: worker crashes and failed claim batches

ASSUME BoundsAssumption ==
    /\ Retention \in Nat
    /\ MaxTime \in Nat /\ Horizon \in Nat /\ MaxId \in Nat
    /\ MaxResets \in Nat /\ MaxFaults \in Nat

VARIABLES
    clock,     \* the wall clock
    hook,      \* status of each subscription row
    index,     \* subscriptions in the consumer's snapshot
    inbox,     \* the event being fanned out and the hooks still to insert
    rows,      \* the delivery rows
    nextId,    \* delivery identities used so far
    scan,      \* each worker's current round
    flights,   \* claims granted and not yet closed
    accepted,  \* observed: <<id, round>> the endpoint has taken
    resets,    \* manual redeliveries so far
    faults     \* crashes and failed batches so far

vars == <<clock, hook, index, inbox, rows, nextId, scan, flights, accepted,
          resets, faults>>

Keys == Hooks \X Events

\* A settled row carries the instant of its settlement, a clock reading that
\* no scheduled instant repeats (microsecond timestamps): the claim's
\* compare-and-set never matches it.
Settled == -1

Terminal == {"delivered", "failed"}

\* `round` counts manual redeliveries of the row; it is observed, not stored.
RowType == [id : Nat, status : {"pending"} \cup Terminal, attempts : Nat,
            next : Nat \cup {Settled}, created : Nat, round : Nat]

\* What a scan remembers of a row until it acts on it.
Candidate == [key : Keys, id : Nat, attempts : Nat,
              next : Nat \cup {Settled}, created : Nat]

ScanType == [pc : {"idle", "claiming", "delivering"}, now : Nat,
             batch : SUBSET Candidate]

FlightType == [scanner : Scanners, key : Keys, id : Nat, round : Nat,
               attempt : Nat, at : Nat,
               phase : {"claimed", "sending", "taken", "refused"}]

NoInbox == [event |-> NoRow, todo |-> {}]

Init ==
    /\ clock = 0
    /\ hook = [h \in Hooks |-> "enabled"]
    /\ index = Hooks
    /\ inbox = NoInbox
    /\ rows = [k \in Keys |-> NoRow]
    /\ nextId = 0
    /\ scan = [w \in Scanners |-> [pc |-> "idle", now |-> 0, batch |-> {}]]
    /\ flights = {}
    /\ accepted = {}
    /\ resets = 0
    /\ faults = 0

Tick ==
    /\ clock < MaxTime
    /\ clock' = clock + 1
    /\ UNCHANGED <<hook, index, inbox, rows, nextId, scan, flights, accepted,
                   resets, faults>>

-----------------------------------------------------------------------------
(* The administrator *)

\* Faulty variant: writes a status the table's CHECK does not know.
SetStatusUnknown(h) ==
    /\ hook[h] # "deleted"
    /\ hook' = [hook EXCEPT ![h] = IF @ = "enabled" THEN "disabled" ELSE "enabled"]
    /\ UNCHANGED <<clock, index, inbox, rows, nextId, scan, flights, accepted,
                   resets, faults>>

\* UpdateWebhook with a status: deliveries already stored are left alone.
SetStatus(h) ==
    /\ hook[h] # "deleted"
    /\ hook' = [hook EXCEPT ![h] = IF @ = "enabled" THEN "paused" ELSE "enabled"]
    /\ UNCHANGED <<clock, index, inbox, rows, nextId, scan, flights, accepted,
                   resets, faults>>

\* DeleteWebhook: the foreign key deletes the delivery rows with it.
DeleteWebhook(h) ==
    /\ hook[h] # "deleted"
    /\ hook' = [hook EXCEPT ![h] = "deleted"]
    /\ rows' = [k \in Keys |-> IF k[1] = h THEN NoRow ELSE rows[k]]
    /\ UNCHANGED <<clock, index, inbox, nextId, scan, flights, accepted,
                   resets, faults>>

\* RedeliverDelivery: a settled row starts a new round, due at once.
\* created_at is left as it was.
RedeliverDelivery(k) ==
    /\ resets < MaxResets
    /\ rows[k] # NoRow
    /\ rows[k].status \in Terminal
    /\ rows' = [rows EXCEPT ![k].status = "pending", ![k].attempts = 0,
                            ![k].next = clock, ![k].round = @ + 1]
    /\ resets' = resets + 1
    /\ UNCHANGED <<clock, hook, index, inbox, nextId, scan, flights, accepted,
                   faults>>

-----------------------------------------------------------------------------
(* The event consumer *)

\* refreshIndex: the snapshot becomes the enabled subscriptions.  A failed
\* listing keeps the previous snapshot, which is no step.
RefreshSubscriptionIndex ==
    /\ index' = {h \in Hooks : hook[h] = "enabled"}
    /\ UNCHANGED <<clock, hook, inbox, rows, nextId, scan, flights, accepted,
                   resets, faults>>

\* deliver: an event read from the stream matches the snapshot.  The stream
\* delivers at least once, so any event may come at any time, again too.
ReceiveEvent(e) ==
    /\ inbox.todo = {}
    /\ index # {}
    /\ inbox' = [event |-> e, todo |-> index]
    /\ UNCHANGED <<clock, hook, index, rows, nextId, scan, flights, accepted,
                   resets, faults>>

\* One INSERT of CreateDeliveries; a row already there absorbs it.  The
\* foreign key refuses a deleted hook, and the loop then stops for good: the
\* entry is acknowledged all the same.
InsertDelivery(h) ==
    LET k == <<h, inbox.event>> IN
    /\ h \in inbox.todo
    /\ \/ /\ hook[h] = "deleted"
          /\ inbox' = NoInbox
          /\ UNCHANGED <<rows, nextId>>
       \/ /\ hook[h] # "deleted"
          /\ inbox' = IF inbox.todo = {h} THEN NoInbox
                      ELSE [inbox EXCEPT !.todo = @ \ {h}]
          /\ IF rows[k] # NoRow
             THEN UNCHANGED <<rows, nextId>>
             ELSE /\ nextId < MaxId
                  /\ clock <= Horizon
                  /\ nextId' = nextId + 1
                  /\ rows' = [rows EXCEPT ![k] =
                       [id |-> nextId, status |-> "pending", attempts |-> 0,
                        next |-> clock, created |-> clock, round |-> 0]]
    /\ UNCHANGED <<clock, hook, index, scan, flights, accepted, resets, faults>>

-----------------------------------------------------------------------------
(* The delivery workers *)

\* Faulty variant: rows of a paused webhook are no longer looked at.
DueEnabledOnly(now) == {k \in Keys : /\ rows[k] # NoRow
                                     /\ rows[k].status = "pending"
                                     /\ rows[k].next <= now
                                     /\ hook[k[1]] = "enabled"}

Due(now) == {k \in Keys : /\ rows[k] # NoRow
                          /\ rows[k].status = "pending"
                          /\ rows[k].next <= now}

\* ClaimDue's unlocked candidate query; `now` is read once for the round.
ScanDue(w) ==
    /\ scan[w].pc = "idle"
    /\ Due(clock) # {}
    /\ scan' = [scan EXCEPT ![w] =
         [pc |-> "claiming", now |-> clock,
          batch |-> {[key |-> k, id |-> rows[k].id, attempts |-> rows[k].attempts,
                      next |-> rows[k].next, created |-> rows[k].created] :
                         k \in Due(clock)}]]
    /\ UNCHANGED <<clock, hook, index, inbox, rows, nextId, flights, accepted,
                   resets, faults>>

\* The row a candidate was read from still exists.
Alive(c) == rows[c.key] # NoRow /\ rows[c.key].id = c.id

\* Faulty variant: the outcome is written whatever the status.
SettleAlways(r, status) == [r EXCEPT !.status = status, !.next = Settled]

\* Faulty variant: the outcome leaves the due instant as it was.
SettleKeepsNext(r, status) ==
    IF r.status = "pending" THEN [r EXCEPT !.status = status] ELSE r

\* updateOutcome: only a pending row can be settled.
Settle(r, status) ==
    IF r.status = "pending"
    THEN [r EXCEPT !.status = status, !.next = Settled]
    ELSE r

\* Faulty variant: the claim's UPDATE finds the row by identity alone.
ClaimMatchesIdentity(c) == Alive(c)

\* The claim's UPDATE compares the attempt count and the due instant; it
\* does not compare the status.
ClaimMatches(c) ==
    /\ Alive(c)
    /\ rows[c.key].attempts = c.attempts
    /\ rows[c.key].next = c.next

TakeCandidate(w, c) ==
    scan' = [scan EXCEPT ![w].batch = @ \ {c},
                         ![w].pc = IF scan[w].batch = {c} THEN "delivering"
                                                          ELSE "claiming"]

\* A candidate past its policy is settled as failed, from the scan's reading.
ExhaustCandidate(w, c) ==
    /\ scan[w].pc = "claiming"
    /\ c \in scan[w].batch
    /\ PlanTerminal(c.attempts, c.created, scan[w].now)
    /\ rows' = IF Alive(c)
               THEN [rows EXCEPT ![c.key] = Settle(@, "failed")]
               ELSE rows
    /\ TakeCandidate(w, c)
    /\ UNCHANGED <<clock, hook, index, inbox, nextId, flights, accepted,
                   resets, faults>>

\* The compare-and-set wins: the row advances first, the attempt comes later.
ClaimCandidate(w, c) ==
    /\ scan[w].pc = "claiming"
    /\ c \in scan[w].batch
    /\ ~PlanTerminal(c.attempts, c.created, scan[w].now)
    /\ ClaimMatches(c)
    /\ rows' = [rows EXCEPT ![c.key].attempts = c.attempts + 1,
                            ![c.key].next = PlanNext(c.attempts, scan[w].now)]
    /\ flights' = flights \cup
         {[scanner |-> w, key |-> c.key, id |-> c.id,
           round |-> rows[c.key].round, attempt |-> c.attempts + 1,
           at |-> scan[w].now, phase |-> "claimed"]}
    /\ TakeCandidate(w, c)
    /\ UNCHANGED <<clock, hook, index, inbox, nextId, accepted, resets, faults>>

\* The compare-and-set loses: somebody else advanced the row.
LoseCandidate(w, c) ==
    /\ scan[w].pc = "claiming"
    /\ c \in scan[w].batch
    /\ ~PlanTerminal(c.attempts, c.created, scan[w].now)
    /\ ~ClaimMatches(c)
    /\ TakeCandidate(w, c)
    /\ UNCHANGED <<clock, hook, index, inbox, rows, nextId, flights, accepted,
                   resets, faults>>

FlightsOf(w) == {f \in flights : f.scanner = w}

\* A database error ends ClaimDue with no claims: those already granted are
\* not attempted.  A crash of the worker loses the same and what it was
\* sending.
AbortRound(w) ==
    /\ faults < MaxFaults
    /\ scan[w].pc # "idle"
    /\ faults' = faults + 1
    /\ scan' = [scan EXCEPT ![w].pc = "idle", ![w].batch = {}]
    /\ flights' = flights \ FlightsOf(w)
    /\ UNCHANGED <<clock, hook, index, inbox, rows, nextId, accepted, resets>>

\* deliverOne reads the subscription; one that is gone drops the claim, and
\* the status of one that is there is not looked at.
StartAttempt(f) ==
    /\ f \in flights
    /\ f.phase = "claimed"
    /\ scan[f.scanner].pc = "delivering"
    /\ flights' = IF hook[f.key[1]] = "deleted"
                  THEN flights \ {f}
                  ELSE (flights \ {f}) \cup {[f EXCEPT !.phase = "sending"]}
    /\ UNCHANGED <<clock, hook, index, inbox, rows, nextId, scan, accepted,
                   resets, faults>>

\* The endpoint takes the request; the answer may be lost on the way back
\* (a timeout), which the worker cannot tell from a refusal.
EndpointTakes(f) ==
    /\ f \in flights
    /\ f.phase = "sending"
    /\ accepted' = accepted \cup {<<f.id, f.round>>}
    /\ \E answer \in {"taken", "refused"} :
         flights' = (flights \ {f}) \cup {[f EXCEPT !.phase = answer]}
    /\ UNCHANGED <<clock, hook, index, inbox, rows, nextId, scan, resets, faults>>

EndpointRefuses(f) ==
    /\ f \in flights
    /\ f.phase = "sending"
    /\ flights' = (flights \ {f}) \cup {[f EXCEPT !.phase = "refused"]}
    /\ UNCHANGED <<clock, hook, index, inbox, rows, nextId, scan, accepted,
                   resets, faults>>

\* Faulty variant: any answer counts as a delivery.
MarkDeliveredAnyAnswer(f) ==
    /\ f \in flights
    /\ f.phase \in {"taken", "refused"}
    /\ rows' = IF Alive(f)
               THEN [rows EXCEPT ![f.key] = Settle(@, "delivered")]
               ELSE rows
    /\ flights' = flights \ {f}
    /\ UNCHANGED <<clock, hook, index, inbox, nextId, scan, accepted, resets,
                   faults>>

\* MarkDelivered: by identity, only while the row is pending.
MarkDelivered(f) ==
    /\ f \in flights
    /\ f.phase = "taken"
    /\ rows' = IF Alive(f)
               THEN [rows EXCEPT ![f.key] = Settle(@, "delivered")]
               ELSE rows
    /\ flights' = flights \ {f}
    /\ UNCHANGED <<clock, hook, index, inbox, nextId, scan, accepted, resets,
                   faults>>

\* RecordAttemptError: the schedule advanced with the claim, only the audit
\* columns (response code, error text) are written, which are abstracted.
RecordAttemptError(f) ==
    /\ f \in flights
    /\ f.phase = "refused"
    /\ flights' = flights \ {f}
    /\ UNCHANGED <<clock, hook, index, inbox, rows, nextId, scan, accepted,
                   resets, faults>>

\* The round's budget ends or a write fails: the claim is closed with no
\* outcome stored, even when the endpoint took the request.
DropClaim(f) ==
    /\ f \in flights
    /\ scan[f.scanner].pc = "delivering"
    /\ flights' = flights \ {f}
    /\ UNCHANGED <<clock, hook, index, inbox, rows, nextId, scan, accepted,
                   resets, faults>>

\* runClaims waits for every claim of the round.
EndRound(w) ==
    /\ scan[w].pc = "delivering"
    /\ FlightsOf(w) = {}
    /\ scan' = [scan EXCEPT ![w].pc = "idle"]
    /\ UNCHANGED <<clock, hook, index, inbox, rows, nextId, flights, accepted,
                   resets, faults>>

\* PruneTerminal: settled rows past the retention, a bounded batch.
PruneTerminal(k) ==
    /\ rows[k] # NoRow
    /\ rows[k].status \in Terminal
    /\ rows[k].created < clock - Retention
    /\ rows' = [rows EXCEPT ![k] = NoRow]
    /\ UNCHANGED <<clock, hook, index, inbox, nextId, scan, flights, accepted,
                   resets, faults>>

-----------------------------------------------------------------------------

Administer ==
    \/ \E h \in Hooks : SetStatus(h) \/ DeleteWebhook(h)
    \/ \E k \in Keys : RedeliverDelivery(k)

Consume ==
    \/ RefreshSubscriptionIndex
    \/ \E e \in Events : ReceiveEvent(e)
    \/ \E h \in Hooks : InsertDelivery(h)

Claim(w) ==
    \/ ScanDue(w)
    \/ \E c \in scan[w].batch :
          ExhaustCandidate(w, c) \/ ClaimCandidate(w, c) \/ LoseCandidate(w, c)

Attempt(f) ==
    StartAttempt(f) \/ EndpointTakes(f) \/ EndpointRefuses(f)
        \/ MarkDelivered(f) \/ RecordAttemptError(f) \/ DropClaim(f)

Next ==
    \/ Tick
    \/ Administer
    \/ Consume
    \/ \E w \in Scanners : Claim(w) \/ AbortRound(w) \/ EndRound(w)
    \/ \E f \in flights : Attempt(f)
    \/ \E k \in Keys : PruneTerminal(k)

Spec == Init /\ [][Next]_vars

\* The minute ticker keeps running a round in every live worker, each round
\* handles its candidates and waits for its claims, and time goes on.
Fairness ==
    /\ WF_vars(Tick)
    /\ \A w \in Scanners :
         /\ WF_vars(Claim(w))
         /\ WF_vars(EndRound(w))
         /\ WF_vars(\E f \in FlightsOf(w) : Attempt(f))

FairSpec == Spec /\ Fairness

-----------------------------------------------------------------------------
(* Properties *)

\* Every variable keeps its type, and the identities in use were handed out.
TypeOK ==
    /\ clock \in Nat
    /\ hook \in [Hooks -> {"enabled", "paused", "deleted"}]
    /\ index \in SUBSET Hooks
    /\ inbox \in [event : Events \cup {NoRow}, todo : SUBSET Hooks]
    /\ inbox.todo # {} => inbox.event \in Events
    /\ rows \in [Keys -> RowType \cup {NoRow}]
    /\ nextId \in Nat
    /\ scan \in [Scanners -> ScanType]
    /\ flights \in SUBSET FlightType
    /\ accepted \in SUBSET (Nat \X Nat)
    /\ resets \in Nat
    /\ faults \in Nat

\* Of any number of workers that scan the same due row, one is granted each
\* attempt: two open claims are never the same attempt of the same round
\* (ClaimDue's compare-and-set, against redeliveries, crashes and pruning).
AttemptGrantedOnce ==
    \A f, g \in flights :
        f.id = g.id /\ f.round = g.round /\ f.attempt = g.attempt => f = g

\* Attempts of one round are spaced by the policy however the workers
\* interleave, and a round never grants more than MaxAttempts.
BackoffRespected ==
    \A f, g \in flights :
        /\ f.attempt <= MaxAttempts
        /\ f.id = g.id /\ f.round = g.round /\ f.attempt < g.attempt
             => f.at + BackoffFor(f.attempt) <= g.at

\* A row is shown as delivered only if the endpoint took this very delivery,
\* in this round or in an earlier one whose answer came late.
DeliveredWasTaken ==
    \A k \in Keys :
        rows[k] # NoRow /\ rows[k].status = "delivered"
            => \E n \in 0 .. rows[k].round : <<rows[k].id, n>> \in accepted

\* A claim is only ever granted on a pending row, although the claim's UPDATE
\* does not look at the status: a settled row is never attempted again
\* before it is redelivered.
ClaimsOnlyPending ==
    [][\A f \in flights' :
          (\A g \in flights : <<g.id, g.round, g.attempt>> # <<f.id, f.round, f.attempt>>)
              => rows[f.key].status = "pending"]_vars

\* A late answer or a stale scan never turns one settled outcome into the
\* other, nor reopens the row: only a redelivery starts a new round.
OutcomeIsFinal ==
    [][\A k \in Keys :
          rows[k] # NoRow /\ rows[k].status \in Terminal /\ rows'[k] # NoRow
              => \/ rows'[k].id # rows[k].id
                 \/ rows'[k].status = rows[k].status
                 \/ rows'[k].round = rows[k].round + 1]_vars

Pending(k) == rows[k] # NoRow /\ rows[k].status = "pending"

\* No row stays pending for ever: whatever the endpoint answers and whichever
\* worker dies, it is delivered, moved to the dead letters, or removed with
\* its webhook.
EveryDeliverySettles == \A k \in Keys : Pending(k) ~> ~Pending(k)

\* "paused = suspended (skipped by the snapshot scan, nothing is delivered, no
\* row is deleted)": once the snapshot has dropped a paused webhook, no row of
\* it is claimed for sending, be it stored before the pause or after it, from a
\* snapshot that still had the webhook.
PausedNotDelivered ==
    [][\A f \in flights' \ flights :
          f.phase = "claimed"
              => hook[f.key[1]] # "paused" \/ f.key[1] \in index]_vars
=============================================================================
