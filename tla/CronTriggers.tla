----------------------------- MODULE CronTriggers -----------------------------
(* One cron trigger and the workers that dispatch it: a round takes the time, *)
(* reads the row without a lock some time later, claims the run by            *)
(* compare-and-set on next_run_at, and only then enqueues the invocation.  A  *)
(* failed enqueue puts the run back.                                          *)
EXTENDS Integers

CONSTANTS
    Workers,    \* worker processes
    Period,     \* the expression: every Period instants
    Grace,      \* CronMisfireGrace
    Budget,     \* cronDispatchTimeout: what a round may take
    MaxClock,   \* bound: instants
    MaxErrors   \* bound: failed enqueues

VARIABLES
    misfire,   \* misfire mode of the trigger
    next,      \* next_run_at
    now,       \* the clock
    rounds,    \* the rounds of the workers
    sent,      \* invocations enqueued, per scheduled instant
    errors,    \* enqueues that reported an error
    hidden,    \* observed: of these, the ones that had enqueued, per instant
    undone     \* observed: runs put back

vars == <<misfire, next, now, rounds, sent, errors, hidden, undone>>

Instant == 0 .. MaxClock + Period
NoRound == [pc |-> "idle", now |-> 0, due |-> 0]

Init ==
    /\ misfire \in {"skip", "catch_up_once"}
    /\ next = Period
    /\ now = 0
    /\ rounds = [w \in Workers |-> NoRound]
    /\ sent = [t \in Instant |-> 0]
    /\ errors = 0
    /\ hidden = [t \in Instant |-> 0]
    /\ undone = 0

\* A step of a round; the context of a round is cancelled after its budget.
At(w, pc) == rounds[w].pc = pc /\ now <= rounds[w].now + Budget
Busy(w) == rounds[w].pc # "idle"
Goto(w, pc) == rounds' = [rounds EXCEPT ![w].pc = pc]
Return(w) == rounds' = [rounds EXCEPT ![w] = NoRound]

Tick ==
    /\ now < MaxClock /\ now' = now + 1
    /\ UNCHANGED <<misfire, next, rounds, sent, errors, hidden, undone>>

-----------------------------------------------------------------------------
(* DefaultCronNext *)

\* First scheduled instant after t.
Scheduled(t) == (t \div Period + 1) * Period

OnTime(due, t) == t <= due + Grace

\* The target of the claim lies after the time of the round in any case.
NextRun(due, t) ==
    IF OnTime(due, t) /\ Scheduled(due) > t THEN Scheduled(due) ELSE Scheduled(t)

Runs(due, t) == OnTime(due, t) \/ misfire # "skip"

-----------------------------------------------------------------------------
(* DispatchDueCronTriggers *)

\* One time for all the projects of the round.
StartRound(w) ==
    /\ ~Busy(w)
    /\ rounds' = [rounds EXCEPT ![w] = [pc |-> "scan", now |-> now, due |-> 0]]
    /\ UNCHANGED <<misfire, next, now, sent, errors, hidden, undone>>

\* The unlocked read of the candidates.
Scan(w) ==
    /\ At(w, "scan")
    /\ IF next <= rounds[w].now
       THEN rounds' = [rounds EXCEPT ![w].pc = "claim", ![w].due = next]
       ELSE Return(w)
    /\ UNCHANGED <<misfire, next, now, sent, errors, hidden, undone>>

\* Faulty variant: the row is advanced by its identity.
ClaimDueCronAlways(w) ==
    /\ At(w, "claim")
    /\ next' = NextRun(rounds[w].due, rounds[w].now)
    /\ IF Runs(rounds[w].due, rounds[w].now) THEN Goto(w, "invoke") ELSE Return(w)
    /\ UNCHANGED <<misfire, now, sent, errors, hidden, undone>>

ClaimDueCron(w) ==
    /\ At(w, "claim")
    /\ IF next = rounds[w].due
       THEN /\ next' = NextRun(rounds[w].due, rounds[w].now)
            /\ IF Runs(rounds[w].due, rounds[w].now) THEN Goto(w, "invoke") ELSE Return(w)
       ELSE Return(w) /\ UNCHANGED next
    /\ UNCHANGED <<misfire, now, sent, errors, hidden, undone>>

InvokeTrigger(w) ==
    /\ At(w, "invoke")
    /\ sent' = [sent EXCEPT ![rounds[w].due] = @ + 1]
    /\ Return(w)
    /\ UNCHANGED <<misfire, next, now, errors, hidden, undone>>

\* An error may hide an enqueue that was made.
InvokeFails(w) ==
    /\ At(w, "invoke")
    /\ errors < MaxErrors /\ errors' = errors + 1
    /\ \/ UNCHANGED <<sent, hidden>>
       \/ /\ sent' = [sent EXCEPT ![rounds[w].due] = @ + 1]
          /\ hidden' = [hidden EXCEPT ![rounds[w].due] = @ + 1]
    /\ Goto(w, "undo")
    /\ UNCHANGED <<misfire, next, now, undone>>

\* undoCronClaim reads the row and looks whether it is still ahead ...
ReadForUndo(w) ==
    /\ At(w, "undo")
    /\ IF next > rounds[w].now THEN Goto(w, "restore") ELSE Return(w)
    /\ UNCHANGED <<misfire, next, now, sent, errors, hidden, undone>>

\* ... and writes the due instant back, whoever has advanced the row since.
RestoreDue(w) ==
    /\ At(w, "restore")
    /\ next' = rounds[w].due
    /\ undone' = undone + 1
    /\ Return(w)
    /\ UNCHANGED <<misfire, now, sent, errors, hidden>>

\* The worker dies, its round times out, or the database does not answer.
Abandon(w) ==
    /\ Busy(w)
    /\ Return(w)
    /\ UNCHANGED <<misfire, next, now, sent, errors, hidden, undone>>

-----------------------------------------------------------------------------

Dispatch(w) == StartRound(w) \/ Scan(w) \/ ClaimDueCron(w) \/ InvokeTrigger(w)

Undo(w) == InvokeFails(w) \/ ReadForUndo(w) \/ RestoreDue(w)

Next == Tick \/ \E w \in Workers : Dispatch(w) \/ Undo(w) \/ Abandon(w)

Spec == Init /\ [][Next]_vars

-----------------------------------------------------------------------------
(* Properties *)

\* Every variable keeps its type.
TypeOK ==
    /\ misfire \in {"skip", "catch_up_once"}
    /\ next \in Instant /\ now \in 0 .. MaxClock
    /\ rounds \in [Workers -> [pc : {"idle", "scan", "claim", "invoke", "undo", "restore"},
                               now : 0 .. MaxClock, due : Instant]]
    /\ sent \in [Instant -> Nat] /\ hidden \in [Instant -> Nat]
    /\ errors \in 0 .. MaxErrors /\ undone \in 0 .. MaxErrors

\* Only a run that was put back after an error lets an instant be dispatched
\* again, and once for each; no number of workers that read the row as due and
\* no late claim does.
RunsOnce == \A t \in Instant : sent[t] - hidden[t] <= 1 + undone

\* "A put-back is a compare-and-set to the value the claim has set" and "of
\* several workers only the winner" enqueues: no scheduled instant is
\* enqueued twice, unless an enqueue reported an error it did not have.
NeverTwice == \A t \in Instant : sent[t] - hidden[t] <= 1
=============================================================================
