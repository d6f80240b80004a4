------------------------- MODULE FunctionInvocation -------------------------
(* Function invocations: the row that records one, the request that creates  *)
(* it in the server, the Redis queue of asynchronous invocations, the        *)
(* consumers of the worker with their retries, and the recovery of orphans.  *)
EXTENDS Integers, Sequences, FiniteSets

CONSTANTS
    Invocations,         \* invocations, each of one request
    Consumers,           \* consumer goroutines of the workers
    MaxProcessAttempts,  \* retries of a message
    Keep,                \* messages a trim leaves in the queue
    MaxErrors,           \* bound: failing database and queue calls
    MaxCrashes,          \* bound: processes that die
    MaxTakeovers,        \* bound: messages claimed from a live consumer
    MaxTrims             \* bound: trimmed messages

ASSUME InvocationAssumption ==
    /\ MaxProcessAttempts \in Nat \ {0} /\ Keep \in Nat
    /\ \A b \in {MaxErrors, MaxCrashes, MaxTakeovers, MaxTrims} : b \in Nat

VARIABLES
    kind,      \* how each invocation is made
    row,       \* status of each function_invocations row
    request,   \* where the request of each invocation stands
    log,       \* every message ever added to the queue, oldest first
    trimmed,   \* how many of them are gone
    group,     \* consumer group: last delivered message, pending messages
    consumer,  \* what each consumer is doing
    runs,      \* observed: how often each invocation called its target
    spent      \* what each bound has left

vars == <<kind, row, request, log, trimmed, group, consumer, runs, spent>>

Message == [inv : Invocations, attempt : Nat, axis : BOOLEAN]

\* Executed by its request, queued for a call, or queued for the notification
\* of a cron or event trigger.
Kind == {"sync", "call", "notification"}

Active == {"queued", "running"}
Final == {"completed", "failed"}

Budgets == {"error", "crash", "takeover", "trim"}

Limit == [b \in Budgets |->
            CASE b = "error" -> MaxErrors [] b = "crash" -> MaxCrashes
              [] b = "takeover" -> MaxTakeovers [] b = "trim" -> MaxTrims]

Spend(b) == spent[b] < Limit[b] /\ spent' = [spent EXCEPT ![b] = @ + 1]

Idle == [pc |-> "idle", id |-> 0]

\* The message a busy consumer holds.
Held(c) == log[consumer[c].id]

At(c, pc) == consumer[c].pc = pc

Goto(c, pc) == consumer' = [consumer EXCEPT ![c].pc = pc]

Retained == (trimmed + 1) .. Len(log)

\* UpdateInvocation finds the row by its key and looks at nothing else.
Overwrite(i, status) ==
    row' = [row EXCEPT ![i] = IF @ \in {"none", "gone"} THEN @ ELSE status]

\* FailInvocationIfActive
FailIfActive(i) ==
    row' = [row EXCEPT ![i] = IF @ \in Active THEN "failed" ELSE @]

Init ==
    /\ kind \in [Invocations -> Kind]
    /\ row = [i \in Invocations |-> "none"]
    /\ request = [i \in Invocations |-> "new"]
    /\ log = << >>
    /\ trimmed = 0
    /\ group = [last |-> 0, pel |-> {}]
    /\ consumer = [c \in Consumers |-> Idle]
    /\ runs = [i \in Invocations |-> 0]
    /\ spent = [b \in Budgets |-> 0]

-----------------------------------------------------------------------------
(* The request, in the server process *)

FirstStatus(i) == IF kind[i] = "sync" THEN "running" ELSE "queued"

\* The first write of both paths: the row.
CreateInvocation(i) ==
    /\ request[i] = "new"
    /\ request' = [request EXCEPT ![i] = "created"]
    /\ row' = [row EXCEPT ![i] = FirstStatus(i)]
    /\ UNCHANGED <<kind, log, trimmed, group, consumer, runs, spent>>

\* The insert reports an error, though the row may have been stored: the
\* request returns, and nobody queues the invocation or calls its target.
CreateFails(i) ==
    /\ request[i] = "new"
    /\ Spend("error")
    /\ row' \in {row, [row EXCEPT ![i] = FirstStatus(i)]}
    /\ request' = [request EXCEPT ![i] = "abandoned"]
    /\ UNCHANGED <<kind, log, trimmed, group, consumer, runs>>

Queued(m) == Append(log, m)

\* The message carries the delivery metadata of a notification.
FirstMessage(i) == [inv |-> i, attempt |-> 0, axis |-> kind[i] = "notification"]

EnqueueInvocation(i) ==
    /\ kind[i] # "sync"
    /\ request[i] = "created"
    /\ log' = Queued(FirstMessage(i))
    /\ request' = [request EXCEPT ![i] = "done"]
    /\ UNCHANGED <<kind, row, trimmed, group, consumer, runs, spent>>

\* The enqueue reports an error, though the message may have been added.
EnqueueFails(i) ==
    /\ kind[i] # "sync"
    /\ request[i] = "created"
    /\ Spend("error")
    /\ log' \in {log, Queued(FirstMessage(i))}
    /\ request' = [request EXCEPT ![i] = "failing"]
    /\ UNCHANGED <<kind, row, trimmed, group, consumer, runs>>

\* The failed enqueue is written over the row; an error is ignored.
RecordEnqueueFailure(i) ==
    /\ request[i] = "failing"
    /\ \/ /\ Overwrite(i, "failed") /\ UNCHANGED spent
          /\ request' = [request EXCEPT ![i] = "done"]
       \/ /\ UNCHANGED row /\ Spend("error")
          /\ request' = [request EXCEPT ![i] = "abandoned"]
    /\ UNCHANGED <<kind, log, trimmed, group, consumer, runs>>

\* The synchronous path calls the target in the request ...
CallInRequest(i) ==
    /\ kind[i] = "sync"
    /\ request[i] = "created"
    /\ runs' = [runs EXCEPT ![i] = @ + 1]
    /\ request' = [request EXCEPT ![i] = "called"]
    /\ UNCHANGED <<kind, row, log, trimmed, group, consumer, spent>>

\* ... and writes the outcome; the write is lost when it fails or when the
\* request's deadline has passed.
RecordInRequest(i) ==
    /\ request[i] = "called"
    /\ \/ \E s \in Final : Overwrite(i, s) /\ UNCHANGED spent
       \/ UNCHANGED row /\ Spend("error")
    /\ request' = [request EXCEPT ![i] = "done"]
    /\ UNCHANGED <<kind, log, trimmed, group, consumer, runs>>

\* Without a readable secret the invocation fails before the call.
RefuseInRequest(i) ==
    /\ kind[i] = "sync"
    /\ request[i] = "created"
    /\ \/ Overwrite(i, "failed") /\ UNCHANGED spent
       \/ UNCHANGED row /\ Spend("error")
    /\ request' = [request EXCEPT ![i] = "done"]
    /\ UNCHANGED <<kind, log, trimmed, group, consumer, runs>>

ServerCrash(i) ==
    /\ request[i] \in {"created", "failing", "called"}
    /\ Spend("crash")
    /\ request' = [request EXCEPT ![i] = "abandoned"]
    /\ UNCHANGED <<kind, row, log, trimmed, group, consumer, runs>>

-----------------------------------------------------------------------------
(* A consumer of the worker *)

Busy == {consumer[c].id : c \in Consumers}

\* Dequeue, first half: a message pending for 15 minutes is claimed, whoever
\* had it.  That a live consumer still works on it is the exception.
ClaimPending(c) ==
    /\ At(c, "idle")
    /\ \E id \in group.pel \cap Retained :
         /\ IF id \in Busy THEN Spend("takeover") ELSE UNCHANGED spent
         /\ consumer' = [consumer EXCEPT ![c] = [pc |-> "loaded", id |-> id]]
    /\ group' = [group EXCEPT !.pel = @ \cap Retained]
    /\ UNCHANGED <<kind, row, request, log, trimmed, runs>>

\* Dequeue, second half: the next message of the group.
ReadNext(c) ==
    LET id == (IF group.last > trimmed THEN group.last ELSE trimmed) + 1 IN
    /\ At(c, "idle")
    /\ id <= Len(log)
    /\ consumer' = [consumer EXCEPT ![c] = [pc |-> "loaded", id |-> id]]
    /\ group' = [last |-> id, pel |-> group.pel \cup {id}]
    /\ UNCHANGED <<kind, row, request, log, trimmed, runs, spent>>

\* The answer to the read is lost: the message is pending, and nobody has it.
ReadFails(c) ==
    LET id == (IF group.last > trimmed THEN group.last ELSE trimmed) + 1 IN
    /\ At(c, "idle")
    /\ id <= Len(log)
    /\ Spend("error")
    /\ group' = [last |-> id, pel |-> group.pel \cup {id}]
    /\ UNCHANGED <<kind, row, request, log, trimmed, consumer, runs>>

\* Faulty variant: the claim does not compare the status.
ClaimRowAlways(c) ==
    LET i == Held(c).inv IN
    /\ At(c, "loaded")
    /\ row[i] # "gone"
    /\ row' = [row EXCEPT ![i] = "running"]
    /\ Goto(c, "claimed")
    /\ UNCHANGED <<kind, request, log, trimmed, group, runs, spent>>

\* ProcessInvocation: only a queued row is claimed; any other message is
\* acknowledged without a call.
ClaimRow(c) ==
    LET i == Held(c).inv IN
    /\ At(c, "loaded")
    /\ IF row[i] = "queued"
       THEN row' = [row EXCEPT ![i] = "running"] /\ Goto(c, "claimed")
       ELSE UNCHANGED row /\ Goto(c, "done")
    /\ UNCHANGED <<kind, request, log, trimmed, group, runs, spent>>

\* The claim reports an error, though it may have been stored.
ClaimRowFails(c) ==
    LET i == Held(c).inv IN
    /\ At(c, "loaded")
    /\ Spend("error")
    /\ row' \in {row, [row EXCEPT ![i] = IF @ = "queued" THEN "running" ELSE @]}
    /\ Goto(c, "retry")
    /\ UNCHANGED <<kind, request, log, trimmed, group, runs>>

\* The function cannot be loaded: the row goes back to queued, unless that
\* fails too, and the message is retried.
LoadFails(c) ==
    LET i == Held(c).inv IN
    /\ At(c, "claimed")
    /\ Spend("error")
    /\ row' \in {row, [row EXCEPT ![i] = IF @ = "running" THEN "queued" ELSE @]}
    /\ Goto(c, "retry")
    /\ UNCHANGED <<kind, request, log, trimmed, group, runs>>

\* Faulty variant: nothing to call counts as completed.
LoadFunctionCompletes(c) ==
    /\ At(c, "claimed")
    /\ \/ UNCHANGED <<row, spent>> /\ Goto(c, "ready")
       \/ Overwrite(Held(c).inv, "completed") /\ UNCHANGED spent /\ Goto(c, "done")
    /\ UNCHANGED <<kind, request, log, trimmed, group, runs>>

\* The function is loaded; one that is deleted, has no target or has no
\* readable secret fails the invocation at once; an error is ignored.
LoadFunction(c) ==
    /\ At(c, "claimed")
    /\ \/ UNCHANGED <<row, spent>> /\ Goto(c, "ready")
       \/ Overwrite(Held(c).inv, "failed") /\ UNCHANGED spent /\ Goto(c, "done")
       \/ UNCHANGED row /\ Spend("error") /\ Goto(c, "done")
    /\ UNCHANGED <<kind, request, log, trimmed, group, runs>>

\* runInvocation: a notification that lost its metadata panics before it
\* reaches the target, and takes the process with it.
CallTarget(c) ==
    LET m == Held(c) IN
    /\ At(c, "ready")
    /\ IF kind[m.inv] = "notification" /\ ~m.axis
       THEN UNCHANGED runs /\ consumer' = [consumer EXCEPT ![c] = Idle]
       ELSE runs' = [runs EXCEPT ![m.inv] = @ + 1] /\ Goto(c, "called")
    /\ UNCHANGED <<kind, row, request, log, trimmed, group, spent>>

\* Faulty variant: a timeout is stored as a status of its own.
RecordTimeout(c) ==
    /\ At(c, "called")
    /\ UNCHANGED spent
    /\ \E s \in Final \cup {"timeout"} : Overwrite(Held(c).inv, s)
    /\ Goto(c, "done")
    /\ UNCHANGED <<kind, request, log, trimmed, group, runs>>

\* The outcome is written over the row; a write that fails (after a timeout
\* its context has expired) leaves the row to the recovery of orphans.
RecordOutcome(c) ==
    /\ At(c, "called")
    /\ \/ \E s \in Final : Overwrite(Held(c).inv, s) /\ UNCHANGED spent
       \/ UNCHANGED row /\ Spend("error")
    /\ Goto(c, "done")
    /\ UNCHANGED <<kind, request, log, trimmed, group, runs>>

\* requeue: the message is rebuilt with the attempt counted; the rebuilt
\* message has no delivery metadata.
Retry(m) == [m EXCEPT !.attempt = @ + 1, !.axis = FALSE]

Retryable(m) == m.attempt < MaxProcessAttempts

RequeueMessage(c) ==
    /\ At(c, "retry")
    /\ Retryable(Held(c))
    /\ log' = Queued(Retry(Held(c)))
    /\ Goto(c, "done")
    /\ UNCHANGED <<kind, row, request, trimmed, group, runs, spent>>

\* Faulty variant: the message is acknowledged although the enqueue failed.
RequeueFailsAcked(c) ==
    /\ At(c, "retry")
    /\ Retryable(Held(c))
    /\ Spend("error")
    /\ log' \in {log, Queued(Retry(Held(c)))}
    /\ group' = [group EXCEPT !.pel = @ \ {consumer[c].id}]
    /\ consumer' = [consumer EXCEPT ![c] = Idle]
    /\ UNCHANGED <<kind, row, request, trimmed, runs>>

\* A failing enqueue leaves the message pending.
RequeueFails(c) ==
    /\ At(c, "retry")
    /\ Retryable(Held(c))
    /\ Spend("error")
    /\ log' \in {log, Queued(Retry(Held(c)))}
    /\ consumer' = [consumer EXCEPT ![c] = Idle]
    /\ UNCHANGED <<kind, row, request, trimmed, group, runs>>

\* The retries are used up: the message is acknowledged first (an error is
\* ignored), the row is failed afterwards.
GiveUp(c) ==
    /\ At(c, "retry")
    /\ ~Retryable(Held(c))
    /\ \/ group' = [group EXCEPT !.pel = @ \ {consumer[c].id}] /\ UNCHANGED spent
       \/ UNCHANGED group /\ Spend("error")
    /\ Goto(c, "exhausted")
    /\ UNCHANGED <<kind, row, request, log, trimmed, runs>>

MarkInvocationFailed(c) ==
    /\ At(c, "exhausted")
    /\ \/ FailIfActive(Held(c).inv) /\ UNCHANGED spent
       \/ UNCHANGED row /\ Spend("error")
    /\ consumer' = [consumer EXCEPT ![c] = Idle]
    /\ UNCHANGED <<kind, request, log, trimmed, group, runs>>

\* Faulty variant: a message to be retried is acknowledged before it is
\* enqueued again.
AckMessageAnyTime(c) ==
    /\ consumer[c].pc \in {"retry", "done"}
    /\ group' = [group EXCEPT !.pel = @ \ {consumer[c].id}]
    /\ consumer' = [consumer EXCEPT ![c] = Idle]
    /\ UNCHANGED <<kind, row, request, log, trimmed, runs, spent>>

\* ackMessage; an error is ignored and leaves the message pending.
AckMessage(c) ==
    /\ At(c, "done")
    /\ \/ group' = [group EXCEPT !.pel = @ \ {consumer[c].id}] /\ UNCHANGED spent
       \/ UNCHANGED group /\ Spend("error")
    /\ consumer' = [consumer EXCEPT ![c] = Idle]
    /\ UNCHANGED <<kind, row, request, log, trimmed, runs>>

ConsumerCrash(c) ==
    /\ ~At(c, "idle")
    /\ Spend("crash")
    /\ consumer' = [consumer EXCEPT ![c] = Idle]
    /\ UNCHANGED <<kind, row, request, log, trimmed, group, runs>>

-----------------------------------------------------------------------------
(* Periodic maintenance *)

\* RecoverOrphanInvocations: an active row not updated for two minutes and
\* its timeout is failed, whether or not somebody still works on it.
RecoverOrphan(i) ==
    /\ row[i] \in Active
    /\ FailIfActive(i)
    /\ UNCHANGED <<kind, request, log, trimmed, group, consumer, runs, spent>>

\* PruneOldInvocationsInProject, PruneTriggerInvocationsInProject
PruneInvocation(i) ==
    /\ row[i] \in Final
    /\ row' = [row EXCEPT ![i] = "gone"]
    /\ UNCHANGED <<kind, request, log, trimmed, group, consumer, runs, spent>>

\* The queue is trimmed by length, whoever has read it.
TrimQueue ==
    /\ Cardinality(Retained) > Keep
    /\ Spend("trim")
    /\ trimmed' = trimmed + 1
    /\ UNCHANGED <<kind, row, request, log, group, consumer, runs>>

-----------------------------------------------------------------------------

\* Once the row is stored, the request runs to its end.
GoesOn(i) ==
    \/ EnqueueInvocation(i) \/ EnqueueFails(i) \/ RecordEnqueueFailure(i)
    \/ CallInRequest(i) \/ RefuseInRequest(i) \/ RecordInRequest(i)

Request(i) == CreateInvocation(i) \/ CreateFails(i) \/ GoesOn(i) \/ ServerCrash(i)

Dequeue(c) == ClaimPending(c) \/ ReadNext(c) \/ ReadFails(c)

Process(c) ==
    \/ ClaimRow(c) \/ ClaimRowFails(c) \/ LoadFunction(c) \/ LoadFails(c)
    \/ CallTarget(c) \/ RecordOutcome(c)

Finish(c) ==
    \/ RequeueMessage(c) \/ RequeueFails(c) \/ GiveUp(c)
    \/ MarkInvocationFailed(c) \/ AckMessage(c)

Next ==
    \/ \E i \in Invocations : Request(i) \/ RecoverOrphan(i) \/ PruneInvocation(i)
    \/ \E c \in Consumers : \/ Dequeue(c) \/ Process(c) \/ Finish(c)
                            \/ ConsumerCrash(c)
    \/ TrimQueue

Spec == Init /\ [][Next]_vars

\* A request and a consumer come to their next statement: every call they make
\* has a timeout, a consumer that fails is restarted, and an idle one polls the
\* queue.  Nothing is assumed of the recovery of orphans.
Fairness ==
    /\ \A i \in Invocations : WF_vars(GoesOn(i))
    /\ \A c \in Consumers : WF_vars(Dequeue(c) \/ Process(c) \/ Finish(c))

FairSpec == Spec /\ Fairness

-----------------------------------------------------------------------------
(* Properties *)

\* Every variable keeps its type.
TypeOK ==
    /\ kind \in [Invocations -> Kind]
    /\ row \in [Invocations -> {"none", "gone"} \cup Active \cup Final]
    /\ request \in [Invocations ->
         {"new", "created", "failing", "called", "done", "abandoned"}]
    /\ log \in Seq(Message)
    /\ trimmed \in 0 .. Len(log)
    /\ group \in [last : 0 .. Len(log), pel : SUBSET (1 .. Len(log))]
    /\ consumer \in [Consumers ->
         [pc : {"idle", "loaded", "claimed", "ready", "called", "retry",
                "exhausted", "done"}, id : 0 .. Len(log)]]
    /\ \A c \in Consumers : ~At(c, "idle") => consumer[c].id # 0
    /\ runs \in [Invocations -> Nat]
    /\ spent \in [Budgets -> Nat]

\* The queue delivers at least once, the target is called at most once:
\* redelivery, takeover, retry and recovery never lead to a second call.
CalledAtMostOnce == \A i \in Invocations : runs[i] <= 1

\* A row is only completed by a call of its target.
CompletedWasCalled == \A i \in Invocations : row[i] = "completed" => runs[i] = 1

Contract == INSTANCE InvocationContract WITH status <- row, calls <- runs

\* Rows and queue keep the contract: one call at most, "completed" only after
\* it, nothing called is queued again and nothing final becomes active.
KeepsContract == Contract!Spec

\* Somebody still has a message of the invocation, or will add one.
Backed(i) ==
    \/ request[i] \in {"created", "failing"}
    \/ \E id \in Retained : log[id].inv = i /\ (id > group.last \/ id \in group.pel)
    \/ \E c \in Consumers : ~At(c, "idle") /\ Held(c).inv = i

\* A queued invocation cannot evaporate from the queue: unless its request was
\* abandoned before it had queued it (the insert reported an error although the
\* row was stored), no single failing call of database or queue, and no
\* redelivery, leaves it without a message.
QueuedIsBacked ==
    spent["crash"] = 0 /\ spent["trim"] = 0 /\ spent["error"] <= 1
        => \A i \in Invocations :
             row[i] = "queued" /\ request[i] # "abandoned" => Backed(i)

Faults == spent["error"] + spent["crash"]

\* What may leave a queued row to the recovery of orphans: its request did not
\* come to queue it, its message was trimmed or given up, or a consumer failed
\* after another one had acknowledged the message it still held.
Forsaken(i) ==
    \/ request[i] = "abandoned"
    \/ \E id \in 1 .. trimmed : log[id].inv = i
    \/ Faults > MaxProcessAttempts + 1
    \/ Faults > 1 /\ spent["takeover"] > 0

\* The queue serves without the recovery of orphans: a queued invocation is
\* taken up, through the death of its consumer, a lost read, a failed claim and
\* a failed retry, unless it is forsaken; and what nothing failed for is settled.
QueueServes ==
    \A i \in Invocations :
      /\ row[i] = "queued" ~> row[i] # "queued" \/ Forsaken(i)
      /\ row[i] \in Active ~> row[i] \notin Active \/ Faults > 0 \/ spent["trim"] > 0

\* "The worker parses the complete set of fields of a queue message, JSON
\* there and back is lossless": a retried notification still carries what its
\* delivery needs.
RetryKeepsMetadata ==
    \A id \in 1 .. Len(log) : kind[log[id].inv] = "notification" => log[id].axis
=============================================================================
