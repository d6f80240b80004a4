---------------------- MODULE FunctionInvocationProofs ----------------------
(* Safety of function invocations for any number of invocations, consumers,  *)
(* retries and faults.  That the target is called once does not follow from  *)
(* the queue, which delivers at least once: it rests on the claim of the     *)
(* row, hence on whoever gives a row back to the queue being the only one    *)
(* who works on it (OneWorker) and not having called yet (NotCalled).        *)
EXTENDS FunctionInvocation, FiniteSetTheorems, TLAPS

\* Consumer c holds a message of invocation i and stands at one of pcs.
Holds(c, i, pcs) == consumer[c].pc \in pcs /\ Held(c).inv = i

\* c has claimed the row of i and has not called its target yet.
Works(c, i) == Holds(c, i, {"claimed", "ready"})

NoSyncMessage == \A id \in 1 .. Len(log) : kind[log[id].inv] # "sync"

OneWorker ==
    \A i \in Invocations : \A c, d \in Consumers : Works(c, i) /\ Works(d, i) => c = d

NotCalled ==
    \A i \in Invocations :
        /\ row[i] \in {"none", "queued"} =>
              runs[i] = 0 /\ \A c \in Consumers : ~Works(c, i)
        /\ \A c \in Consumers : Works(c, i) => runs[i] = 0
        /\ kind[i] = "sync" /\ request[i] \in {"new", "created"} => runs[i] = 0

Called ==
    \A i \in Invocations :
        /\ \A c \in Consumers : Holds(c, i, {"called"}) => runs[i] = 1
        /\ request[i] = "called" => runs[i] = 1

NewHasNoRow == \A i \in Invocations : request[i] = "new" => row[i] = "none"

\* The row of a synchronous invocation is never in the queue's hands, and
\* whoever goes on with the request has stored it.
SyncRow ==
    \A i \in Invocations :
        kind[i] = "sync" =>
            /\ row[i] # "queued"
            /\ request[i] \notin {"new", "abandoned"} => row[i] # "none"

IInv ==
    /\ TypeOK
    /\ NoSyncMessage
    /\ OneWorker
    /\ NotCalled
    /\ Called
    /\ NewHasNoRow
    /\ SyncRow
    /\ CalledAtMostOnce
    /\ CompletedWasCalled

-----------------------------------------------------------------------------
(* Facts about the state *)

\* A message added to the queue leaves the others where they are.
LEMMA QueuedMessage ==
    ASSUME log \in Seq(Message), NEW m \in Message
    PROVE  /\ Queued(m) \in Seq(Message)
           /\ Len(Queued(m)) = Len(log) + 1
           /\ \A id \in 1 .. Len(log) : Queued(m)[id] = log[id]
           /\ Queued(m)[Len(log) + 1] = m
  BY DEF Queued

\* A consumer that is not idle holds a message of the queue.
LEMMA HeldMessage ==
    ASSUME TypeOK, NEW c \in Consumers, ~At(c, "idle")
    PROVE  /\ consumer[c].id \in 1 .. Len(log)
           /\ Held(c) = log[consumer[c].id]
           /\ Held(c) \in Message
           /\ Held(c).inv \in Invocations
  <1>1. consumer[c].id \in 1 .. Len(log) /\ Len(log) \in Nat
    BY DEF TypeOK
  <1>2. log[consumer[c].id] \in Message
    BY <1>1 DEF TypeOK
  <1> QED
    BY <1>1, <1>2 DEF Held, Message

LEMMA RetryMessage ==
    ASSUME NEW m \in Message
    PROVE  Retry(m) \in Message /\ Retry(m).inv = m.inv
  <1>1. m.attempt + 1 \in Nat
    BY DEF Message
  <1>2. [m EXCEPT !.attempt = m.attempt + 1] \in [inv : Invocations, attempt : Nat, axis : BOOLEAN]
    BY <1>1 DEF Message
  <1> DEFINE n == [m EXCEPT !.attempt = m.attempt + 1]
  <1>3. [n EXCEPT !.axis = FALSE] \in Message
    BY <1>2, Zenon DEF Message
  <1>4. Retry(m) = [n EXCEPT !.axis = FALSE]
    BY DEF Retry
  <1> QED
    BY <1>3, <1>4 DEF Message, Retry

LEMMA FirstMessageType ==
    ASSUME NEW i \in Invocations
    PROVE  FirstMessage(i) \in Message /\ FirstMessage(i).inv = i
  BY DEF FirstMessage, Message

LEMMA SpendType == ASSUME TypeOK, NEW b \in Budgets, Spend(b)
                   PROVE  spent' \in [Budgets -> Nat]
  BY DEF TypeOK, Spend

-----------------------------------------------------------------------------
(* Type correctness *)

LEMMA TypeInit == Init => TypeOK
  BY DEF Init, TypeOK, Idle, At, Message

\* Steps of the request and of the maintenance leave the consumers alone.
LEMMA TypeRequest ==
    ASSUME TypeOK, NEW i \in Invocations, Request(i)
    PROVE  TypeOK'
  <1> USE DEF Budgets
  <1>1. CASE UNCHANGED log
    <2> USE <1>1, SpendType DEF At
    <2>1. CASE CreateInvocation(i)
      BY <2>1 DEF TypeOK, CreateInvocation, FirstStatus, Active
    <2>9. CASE CreateFails(i)
      BY <2>9 DEF TypeOK, CreateFails, FirstStatus, Active
    <2>2. CASE RecordEnqueueFailure(i)
      BY <2>2 DEF TypeOK, RecordEnqueueFailure, Overwrite, Final
    <2>3. CASE CallInRequest(i)
      BY <2>3 DEF TypeOK, CallInRequest
    <2>4. CASE RefuseInRequest(i)
      BY <2>4 DEF TypeOK, RefuseInRequest, Overwrite, Final
    <2>5. CASE RecordInRequest(i)
      BY <2>5 DEF TypeOK, RecordInRequest, Overwrite, Final
    <2>6. CASE ServerCrash(i)
      BY <2>6 DEF TypeOK, ServerCrash
    <2>7. CASE EnqueueInvocation(i)
      BY <2>7 DEF TypeOK, EnqueueInvocation
    <2>8. CASE EnqueueFails(i)
      BY <2>8 DEF TypeOK, EnqueueFails
    <2> QED
      BY <2>1, <2>2, <2>3, <2>4, <2>5, <2>6, <2>7, <2>8, <2>9 DEF Request, GoesOn
  <1>2. CASE log' = Queued(FirstMessage(i)) /\ (EnqueueInvocation(i) \/ EnqueueFails(i))
    <2>1. log' \in Seq(Message) /\ Len(log') = Len(log) + 1 /\ Len(log) \in Nat
      BY <1>2, QueuedMessage, FirstMessageType DEF TypeOK
    <2>2. UNCHANGED <<kind, row, trimmed, group, consumer, runs>>
      BY <1>2 DEF EnqueueInvocation, EnqueueFails
    <2>3. request' \in [Invocations ->
             {"new", "created", "failing", "called", "done", "abandoned"}]
      BY <1>2 DEF TypeOK, EnqueueInvocation, EnqueueFails
    <2>4. spent' \in [Budgets -> Nat]
      BY <1>2, SpendType DEF TypeOK, EnqueueInvocation, EnqueueFails
    <2> QED
      BY <2>1, <2>2, <2>3, <2>4 DEF TypeOK, At
  <1> QED
    BY <1>1, <1>2 DEF Request, GoesOn, CreateInvocation, CreateFails,
       EnqueueInvocation, EnqueueFails, RecordEnqueueFailure, CallInRequest,
       RefuseInRequest, RecordInRequest, ServerCrash

\* A consumer that moves on with its message keeps the type of consumer.
LEMMA TypeGoto ==
    ASSUME TypeOK, NEW c \in Consumers, ~At(c, "idle"),
           NEW pc \in {"loaded", "claimed", "ready", "called", "retry",
                       "exhausted", "done"},
           Goto(c, pc), UNCHANGED log
    PROVE  /\ consumer' \in [Consumers ->
                [pc : {"idle", "loaded", "claimed", "ready", "called", "retry",
                       "exhausted", "done"}, id : 0 .. Len(log')]]
           /\ \A d \in Consumers : ~At(d, "idle")' => consumer'[d].id # 0
  BY DEF TypeOK, Goto, At

LEMMA TypeIdle ==
    ASSUME TypeOK, NEW c \in Consumers,
           consumer' = [consumer EXCEPT ![c] = Idle],
           Len(log') \in Nat, Len(log) <= Len(log')
    PROVE  /\ consumer' \in [Consumers ->
                [pc : {"idle", "loaded", "claimed", "ready", "called", "retry",
                       "exhausted", "done"}, id : 0 .. Len(log')]]
           /\ \A d \in Consumers : ~At(d, "idle")' => consumer'[d].id # 0
  BY DEF TypeOK, Idle, At

LEMMA TypeDequeue ==
    ASSUME TypeOK, NEW c \in Consumers, Dequeue(c)
    PROVE  TypeOK'
  <1>1. CASE ClaimPending(c)
    <2>1. PICK id \in group.pel \cap Retained :
             /\ IF id \in Busy THEN Spend("takeover") ELSE UNCHANGED spent
             /\ consumer' = [consumer EXCEPT ![c] = [pc |-> "loaded", id |-> id]]
      BY <1>1 DEF ClaimPending
    <2>2. spent' \in [Budgets -> Nat]
      BY <2>1, SpendType DEF TypeOK, Budgets
    <2>3. id \in 0 .. Len(log) /\ id # 0
      BY DEF TypeOK
    <2>4. /\ UNCHANGED <<kind, row, request, log, trimmed, runs>>
          /\ group' = [group EXCEPT !.pel = @ \cap Retained]
      BY <1>1 DEF ClaimPending
    <2>5. group' \in [last : 0 .. Len(log'), pel : SUBSET (1 .. Len(log'))]
      BY <2>4 DEF TypeOK
    <2> QED
      BY <2>1, <2>2, <2>3, <2>4, <2>5 DEF TypeOK, At
  <1>2. CASE ReadNext(c)
    BY <1>2 DEF TypeOK, ReadNext, At
  <1>3. CASE ReadFails(c)
    <2>1. spent' \in [Budgets -> Nat]
      BY <1>3, SpendType DEF ReadFails, Budgets
    <2> QED
      BY <1>3, <2>1 DEF TypeOK, ReadFails, At
  <1> QED
    BY <1>1, <1>2, <1>3 DEF Dequeue

LEMMA TypeProcess ==
    ASSUME TypeOK, NEW c \in Consumers, Process(c)
    PROVE  TypeOK'
  <1>1. ~At(c, "idle") /\ UNCHANGED log
    BY DEF Process, At, ClaimRow, ClaimRowFails, LoadFunction, LoadFails, CallTarget,
       RecordOutcome
  <1> DEFINE i == Held(c).inv
  <1>2. i \in Invocations
    BY <1>1, HeldMessage
  <1> USE <1>1, <1>2, TypeGoto, SpendType DEF Budgets
  <1>3. CASE ClaimRow(c)
    BY <1>3 DEF TypeOK, ClaimRow, Active
  <1>4. CASE ClaimRowFails(c)
    BY <1>4 DEF TypeOK, ClaimRowFails, Active
  <1>5. CASE LoadFunction(c)
    BY <1>5 DEF TypeOK, LoadFunction, Overwrite, Final
  <1>6. CASE LoadFails(c)
    BY <1>6 DEF TypeOK, LoadFails, Active
  <1>7. CASE CallTarget(c)
    <2>1. runs \in [Invocations -> Nat]
      BY DEF TypeOK
    <2>2. runs' = runs \/ runs' = [runs EXCEPT ![i] = @ + 1]
      BY <1>7 DEF CallTarget
    <2>3. runs' \in [Invocations -> Nat]
      BY <2>1, <2>2
    <2>4. UNCHANGED <<kind, row, request, log, trimmed, group, spent>>
      BY <1>7 DEF CallTarget
    <2>5. Len(log') \in Nat /\ Len(log) <= Len(log')
      BY DEF TypeOK
    <2> QED
      BY <1>7, <2>3, <2>4, <2>5, TypeIdle DEF TypeOK, CallTarget
  <1>8. CASE RecordOutcome(c)
    BY <1>8 DEF TypeOK, RecordOutcome, Overwrite, Final
  <1> QED
    BY <1>3, <1>4, <1>5, <1>6, <1>7, <1>8 DEF Process

LEMMA TypeFinish ==
    ASSUME TypeOK, NEW c \in Consumers, Finish(c) \/ ConsumerCrash(c)
    PROVE  TypeOK'
  <1>1. ~At(c, "idle")
    BY DEF Finish, At, RequeueMessage, RequeueFails, GiveUp, MarkInvocationFailed,
       AckMessage, ConsumerCrash
  <1>2. Held(c) \in Message /\ Held(c).inv \in Invocations /\ Len(log) \in Nat
    BY <1>1, HeldMessage DEF TypeOK
  <1>3. CASE log' = Queued(Retry(Held(c))) /\ (RequeueMessage(c) \/ RequeueFails(c))
    <2>1. log' \in Seq(Message) /\ Len(log') = Len(log) + 1
      BY <1>2, <1>3, QueuedMessage, RetryMessage DEF TypeOK
    <2>2. UNCHANGED <<kind, row, request, trimmed, group, runs>>
      BY <1>3 DEF RequeueMessage, RequeueFails
    <2>3. spent' \in [Budgets -> Nat]
      BY <1>3, SpendType DEF TypeOK, Budgets, RequeueMessage, RequeueFails
    <2>4. Len(log') \in Nat /\ Len(log) <= Len(log')
      BY <2>1, <1>2
    <2>5. /\ consumer' \in [Consumers ->
                [pc : {"idle", "loaded", "claimed", "ready", "called", "retry",
                       "exhausted", "done"}, id : 0 .. Len(log')]]
          /\ \A d \in Consumers : ~At(d, "idle")' => consumer'[d].id # 0
      <3>1. CASE RequeueMessage(c)
        BY <1>1, <2>4, <3>1 DEF TypeOK, RequeueMessage, Goto, At
      <3>2. CASE RequeueFails(c)
        BY <2>4, <3>2, TypeIdle DEF RequeueFails
      <3> QED
        BY <1>3, <3>1, <3>2
    <2> QED
      BY <1>2, <2>1, <2>2, <2>3, <2>5 DEF TypeOK
  <1>4. CASE UNCHANGED log
    <2>1. Len(log') \in Nat /\ Len(log) <= Len(log')
      BY <1>2, <1>4
    <2> USE <1>1, <1>2, <1>4, <2>1, TypeGoto, TypeIdle, SpendType DEF Budgets
    <2>2. CASE RequeueFails(c)
      BY <2>2 DEF TypeOK, RequeueFails
    <2>3. CASE GiveUp(c)
      <3>1. group' \in [last : 0 .. Len(log'), pel : SUBSET (1 .. Len(log'))]
        BY <2>3 DEF TypeOK, GiveUp
      <3>2. spent' \in [Budgets -> Nat]
        BY <2>3 DEF TypeOK, GiveUp
      <3> QED
        BY <2>3, <3>1, <3>2 DEF TypeOK, GiveUp
    <2>4. CASE MarkInvocationFailed(c)
      BY <2>4 DEF TypeOK, MarkInvocationFailed, FailIfActive, Final
    <2>5. CASE AckMessage(c)
      <3>1. group' \in [last : 0 .. Len(log'), pel : SUBSET (1 .. Len(log'))]
        BY <2>5 DEF TypeOK, AckMessage
      <3>2. spent' \in [Budgets -> Nat]
        BY <2>5 DEF TypeOK, AckMessage
      <3> QED
        BY <2>5, <3>1, <3>2 DEF TypeOK, AckMessage
    <2>6. CASE ConsumerCrash(c)
      BY <2>6 DEF TypeOK, ConsumerCrash
    <2>7. CASE RequeueMessage(c)
      BY <2>7 DEF TypeOK, RequeueMessage
    <2> QED
      BY <2>2, <2>3, <2>4, <2>5, <2>6, <2>7 DEF Finish
  <1> QED
    BY <1>3, <1>4 DEF Finish, RequeueMessage, RequeueFails, GiveUp,
       MarkInvocationFailed, AckMessage, ConsumerCrash

LEMMA TypeNext == TypeOK /\ [Next]_vars => TypeOK'
  <1> SUFFICES ASSUME TypeOK, [Next]_vars PROVE TypeOK'
    OBVIOUS
  <1>1. ASSUME NEW i \in Invocations, RecoverOrphan(i) PROVE TypeOK'
    BY <1>1 DEF TypeOK, RecoverOrphan, FailIfActive, Final, At
  <1>2. ASSUME NEW i \in Invocations, PruneInvocation(i) PROVE TypeOK'
    BY <1>2 DEF TypeOK, PruneInvocation, At
  <1>3. CASE TrimQueue
    <2>1. trimmed + 1 \in 0 .. Len(log)
      <3>1. Retained # {}
        <4>1. SUFFICES ASSUME Retained = {} PROVE FALSE
          OBVIOUS
        <4>2. Cardinality(Retained) = 0
          BY <4>1, FS_EmptySet
        <4> QED
          BY <1>3, <4>2, InvocationAssumption DEF TrimQueue
      <3> QED
        BY <3>1 DEF TypeOK, Retained
    <2> QED
      BY <1>3, <2>1, SpendType DEF TypeOK, TrimQueue, Budgets, At
  <1>4. CASE UNCHANGED vars
    BY <1>4 DEF TypeOK, vars, At
  <1> QED
    BY <1>1, <1>2, <1>3, <1>4, TypeRequest, TypeDequeue, TypeProcess, TypeFinish DEF Next

\* Every variable of the invocation machine keeps its type.
THEOREM TypeCorrect == Spec => []TypeOK
  BY TypeInit, TypeNext, PTL DEF Spec

-----------------------------------------------------------------------------
(* The inductive invariant.  Most steps are quiet: they call no target, let  *)
(* nobody else work on a row, and never bring a row back to the queue.       *)

LogGrows ==
    /\ Len(log) <= Len(log')
    /\ \A id \in 1 .. Len(log) : log'[id] = log[id]

QuietConsumers ==
    \A c \in Consumers, i \in Invocations :
        /\ Works(c, i)' => Works(c, i)
        /\ Holds(c, i, {"called"})' => Holds(c, i, {"called"})

QuietRows ==
    \A i \in Invocations :
        /\ row'[i] \in {"none", "queued"} => row[i] \in {"none", "queued"}
        /\ row'[i] = "completed" => row[i] = "completed" \/ runs[i] = 1
        /\ request'[i] = "new" => request[i] = "new" /\ row'[i] = row[i]
        /\ request'[i] = "called" => request[i] = "called"
        /\ request'[i] = "created" => request[i] \in {"new", "created"}
        /\ kind[i] = "sync" =>
              /\ row'[i] = "queued" => row[i] = "queued"
              /\ request'[i] \notin {"new", "abandoned"} /\ row'[i] = "none" =>
                    row[i] = "none" /\ request[i] \notin {"new", "abandoned"}

LEMMA QuietStep ==
    ASSUME IInv, TypeOK', NoSyncMessage', UNCHANGED <<kind, runs>>,
           QuietConsumers, QuietRows
    PROVE  IInv'
  <1> USE DEF IInv
  <1>1. OneWorker'
    BY DEF OneWorker, QuietConsumers
  <1>2. NotCalled'
    BY DEF NotCalled, QuietConsumers, QuietRows
  <1>3. Called'
    BY DEF Called, QuietConsumers, QuietRows
  <1>4. NewHasNoRow'
    BY DEF NewHasNoRow, QuietRows
  <1>5. CalledAtMostOnce' /\ CompletedWasCalled'
    BY DEF CalledAtMostOnce, CompletedWasCalled, QuietRows
  <1>6. SyncRow'
    BY DEF SyncRow, QuietRows
  <1> QED
    BY <1>1, <1>2, <1>3, <1>4, <1>5, <1>6

\* The message a consumer holds stays what it is while the queue grows.
LEMMA SameHeld ==
    ASSUME TypeOK, LogGrows, NEW c \in Consumers, ~At(c, "idle"),
           consumer'[c].id = consumer[c].id
    PROVE  Held(c)' = Held(c)
  <1>1. consumer[c].id \in 1 .. Len(log)
    BY HeldMessage
  <1> QED
    BY <1>1 DEF LogGrows, Held

\* One consumer moves to a place where it neither works nor has called.
LEMMA OneMoves ==
    ASSUME TypeOK, LogGrows, NEW c \in Consumers,
           \A d \in Consumers \ {c} : consumer'[d] = consumer[d],
           consumer'[c].pc \notin {"claimed", "ready", "called"}
    PROVE  QuietConsumers
  <1> SUFFICES ASSUME NEW d \in Consumers, NEW i \in Invocations
               PROVE  /\ Works(d, i)' => Works(d, i)
                      /\ Holds(d, i, {"called"})' => Holds(d, i, {"called"})
    BY DEF QuietConsumers
  <1>1. CASE d = c
    BY <1>1 DEF Works, Holds
  <1>2. CASE d # c /\ ~At(d, "idle")
    BY <1>2, SameHeld DEF Works, Holds
  <1>3. CASE d # c /\ At(d, "idle")
    BY <1>3 DEF Works, Holds, At
  <1> QED
    BY <1>1, <1>2, <1>3

LEMMA NoneMoves ==
    ASSUME TypeOK, LogGrows, UNCHANGED consumer
    PROVE  QuietConsumers
  <1> SUFFICES ASSUME NEW d \in Consumers, NEW i \in Invocations
               PROVE  /\ Works(d, i)' => Works(d, i)
                      /\ Holds(d, i, {"called"})' => Holds(d, i, {"called"})
    BY DEF QuietConsumers
  <1>1. CASE ~At(d, "idle")
    BY <1>1, SameHeld DEF Works, Holds
  <1>2. CASE At(d, "idle")
    BY <1>2 DEF Works, Holds, At
  <1> QED
    BY <1>1, <1>2

\* A message of a queued invocation is added.
LEMMA QueuedGrows ==
    ASSUME IInv, NEW m \in Message, kind[m.inv] # "sync", UNCHANGED kind,
           log' \in {log, Queued(m)}
    PROVE  LogGrows /\ NoSyncMessage'
  <1>1. CASE log' = log
    BY <1>1 DEF IInv, TypeOK, LogGrows, NoSyncMessage
  <1>2. CASE log' = Queued(m)
    <2>1. /\ Len(log') = Len(log) + 1 /\ Len(log) \in Nat
          /\ \A id \in 1 .. Len(log) : log'[id] = log[id]
          /\ log'[Len(log) + 1] = m
      BY <1>2, QueuedMessage DEF IInv, TypeOK
    <2>2. \A id \in 1 .. Len(log') : id \in 1 .. Len(log) \/ id = Len(log) + 1
      BY <2>1
    <2>3. \A id \in 1 .. Len(log') : kind'[log'[id].inv] # "sync"
      BY <2>1, <2>2 DEF IInv, NoSyncMessage
    <2> QED
      BY <2>1, <2>3 DEF LogGrows, NoSyncMessage
  <1> QED
    BY <1>1, <1>2

LEMMA SameLog ==
    ASSUME IInv, UNCHANGED <<kind, log>>
    PROVE  LogGrows /\ NoSyncMessage'
  BY DEF IInv, TypeOK, LogGrows, NoSyncMessage

LEMMA InvInit == Init => IInv
  BY TypeInit DEF Init, IInv, NoSyncMessage, OneWorker, NotCalled, Called, NewHasNoRow,
     SyncRow, CalledAtMostOnce, CompletedWasCalled, Works, Holds, Idle, Held

LEMMA RequestInv ==
    ASSUME IInv, TypeOK', NEW i \in Invocations, Request(i)
    PROVE  IInv'
  <1>1. UNCHANGED <<kind, consumer>>
    BY DEF Request, GoesOn, CreateInvocation, CreateFails, EnqueueInvocation,
       EnqueueFails, RecordEnqueueFailure, CallInRequest, RefuseInRequest,
       RecordInRequest, ServerCrash
  <1>2. LogGrows /\ NoSyncMessage'
    <2>1. CASE UNCHANGED log
      BY <1>1, <2>1, SameLog
    <2>2. CASE EnqueueInvocation(i) \/ EnqueueFails(i)
      BY <1>1, <2>2, FirstMessageType, QueuedGrows DEF EnqueueInvocation, EnqueueFails
    <2> QED
      BY <2>1, <2>2 DEF Request, GoesOn, CreateInvocation, CreateFails,
         RecordEnqueueFailure, CallInRequest, RefuseInRequest, RecordInRequest,
         ServerCrash
  <1>3. QuietConsumers
    BY <1>1, <1>2, NoneMoves DEF IInv
  <1>4. CASE UNCHANGED runs
    <2> USE <1>4 DEF IInv, TypeOK, QuietRows
    <2>1. CASE CreateInvocation(i)
      BY <1>1, <1>2, <1>3, <2>1, QuietStep DEF CreateInvocation, FirstStatus, NewHasNoRow
    <2>5. CASE CreateFails(i)
      BY <1>1, <1>2, <1>3, <2>5, QuietStep DEF CreateFails, FirstStatus, NewHasNoRow
    <2>2. CASE EnqueueInvocation(i) \/ EnqueueFails(i) \/ ServerCrash(i)
      BY <1>1, <1>2, <1>3, <2>2, QuietStep DEF EnqueueInvocation, EnqueueFails,
         ServerCrash
    <2>3. CASE RecordEnqueueFailure(i) \/ RefuseInRequest(i)
      BY <1>1, <1>2, <1>3, <2>3, QuietStep DEF RecordEnqueueFailure, RefuseInRequest,
         Overwrite
    <2>4. CASE RecordInRequest(i)
      <3>1. request[i] = "called" /\ runs[i] = 1
        BY <2>4 DEF RecordInRequest, Called
      <3>2. \A j \in Invocations : request'[j] = IF j = i THEN "done" ELSE request[j]
        BY <2>4 DEF RecordInRequest
      <3>3. \A j \in Invocations :
               \/ row'[j] = row[j]
               \/ j = i /\ row'[j] \in Final
        BY <2>4 DEF RecordInRequest, Overwrite
      <3>4. QuietRows
        BY <3>1, <3>2, <3>3 DEF Final
      <3> QED
        BY <1>1, <1>2, <1>3, <3>4, QuietStep
    <2> QED
      BY <2>1, <2>2, <2>3, <2>4, <2>5 DEF Request, GoesOn, CallInRequest, TypeOK
  <1>5. CASE CallInRequest(i)
    <2>1. /\ kind[i] = "sync" /\ request[i] = "created" /\ UNCHANGED <<row, log>>
          /\ runs' = [runs EXCEPT ![i] = @ + 1]
          /\ request' = [request EXCEPT ![i] = "called"]
      BY <1>5 DEF CallInRequest
    <2>2. runs[i] = 0 /\ row[i] \notin {"none", "queued"}
      BY <2>1 DEF IInv, NotCalled, SyncRow
    <2>3. \A c \in Consumers : ~Works(c, i) /\ ~Holds(c, i, {"called"})
      <3> SUFFICES ASSUME NEW c \in Consumers, ~At(c, "idle")
                   PROVE  kind[Held(c).inv] # "sync"
        BY <2>1 DEF Works, Holds, At
      <3> QED
        BY HeldMessage DEF IInv, NoSyncMessage
    <2>4. \A j \in Invocations : runs'[j] = IF j = i THEN 1 ELSE runs[j]
      BY <2>1, <2>2 DEF IInv, TypeOK
    <2>5. \A j \in Invocations : request'[j] = IF j = i THEN "called" ELSE request[j]
      BY <2>1 DEF IInv, TypeOK
    <2>6. OneWorker'
      BY <1>3 DEF IInv, OneWorker, QuietConsumers
    <2>7. NotCalled'
      BY <1>1, <1>3, <2>1, <2>2, <2>3, <2>4, <2>5 DEF IInv, NotCalled, QuietConsumers
    <2>8. Called'
      BY <1>3, <2>3, <2>4, <2>5 DEF IInv, Called, QuietConsumers
    <2>9. NewHasNoRow' /\ SyncRow'
      BY <1>1, <2>1, <2>2, <2>5 DEF IInv, NewHasNoRow, SyncRow
    <2>10. CalledAtMostOnce' /\ CompletedWasCalled'
      BY <2>1, <2>4 DEF IInv, CalledAtMostOnce, CompletedWasCalled
    <2> QED
      BY <1>2, <2>6, <2>7, <2>8, <2>9, <2>10 DEF IInv
  <1> QED
    BY <1>4, <1>5 DEF Request, GoesOn, CreateInvocation, CreateFails,
       EnqueueInvocation, EnqueueFails, RecordEnqueueFailure, RefuseInRequest,
       RecordInRequest, ServerCrash

LEMMA DequeueInv ==
    ASSUME IInv, TypeOK', NEW c \in Consumers, Dequeue(c)
    PROVE  IInv'
  <1>1. /\ UNCHANGED <<kind, row, request, log, runs>>
        /\ \A d \in Consumers \ {c} : consumer'[d] = consumer[d]
        /\ consumer'[c].pc \in {"idle", "loaded"}
    BY DEF At, Dequeue, ClaimPending, ReadNext, ReadFails, IInv, TypeOK
  <1>2. LogGrows /\ NoSyncMessage'
    BY <1>1, SameLog
  <1>3. QuietConsumers
    BY <1>1, <1>2, OneMoves DEF IInv
  <1>4. QuietRows
    BY <1>1 DEF QuietRows
  <1> QED
    BY <1>1, <1>2, <1>3, <1>4, QuietStep

\* The claim: nobody else works on a queued row.
LEMMA ClaimRowInv ==
    ASSUME IInv, TypeOK', NEW c \in Consumers, ClaimRow(c)
    PROVE  IInv'
  <1> DEFINE i == Held(c).inv
  <1>1. /\ UNCHANGED <<kind, request, log, runs>>
        /\ \A d \in Consumers \ {c} : consumer'[d] = consumer[d]
        /\ ~At(c, "idle") /\ At(c, "loaded")
    BY DEF ClaimRow, Goto, At, IInv, TypeOK
  <1>2. LogGrows /\ NoSyncMessage'
    BY <1>1, SameLog
  <1>3. CASE row[i] # "queued"
    <2>1. UNCHANGED row /\ consumer'[c].pc = "done"
      BY <1>3 DEF ClaimRow, Goto, IInv, TypeOK
    <2>2. QuietConsumers
      BY <1>1, <1>2, <2>1, OneMoves DEF IInv
    <2> QED
      BY <1>1, <1>2, <2>1, <2>2, QuietStep DEF QuietRows
  <1>4. CASE row[i] = "queued"
    <2>1. /\ row' = [row EXCEPT ![i] = "running"]
          /\ consumer'[c] = [consumer[c] EXCEPT !.pc = "claimed"]
          /\ i \in Invocations
      BY <1>1, <1>4, HeldMessage DEF ClaimRow, Goto, IInv, TypeOK
    <2>2. Held(c)' = Held(c)
      BY <1>1, <2>1 DEF Held, IInv, TypeOK
    <2>3. \A d \in Consumers \ {c} : \A j \in Invocations :
             /\ Works(d, j)' <=> Works(d, j)
             /\ Holds(d, j, {"called"})' <=> Holds(d, j, {"called"})
      BY <1>1 DEF Works, Holds, Held
    <2>4. \A j \in Invocations :
             /\ Works(c, j)' => j = i
             /\ ~Holds(c, j, {"called"})'
      BY <2>1, <2>2 DEF Works, Holds, IInv, TypeOK
    <2>5. runs[i] = 0 /\ \A d \in Consumers : ~Works(d, i)
      BY <1>4, <2>1 DEF IInv, NotCalled
    <2>6. \A j \in Invocations : row'[j] = IF j = i THEN "running" ELSE row[j]
      BY <2>1 DEF IInv, TypeOK
    <2>7. OneWorker'
      BY <2>3, <2>4, <2>5 DEF IInv, OneWorker
    <2>8. NotCalled'
      BY <1>1, <2>3, <2>4, <2>5, <2>6 DEF IInv, NotCalled
    <2>9. Called'
      BY <1>1, <2>3, <2>4 DEF IInv, Called
    <2>10. NewHasNoRow' /\ SyncRow'
      BY <1>1, <1>4, <2>6 DEF IInv, NewHasNoRow, SyncRow
    <2>11. CalledAtMostOnce' /\ CompletedWasCalled'
      BY <1>1, <2>6 DEF IInv, CalledAtMostOnce, CompletedWasCalled
    <2> QED
      BY <1>2, <2>7, <2>8, <2>9, <2>10, <2>11 DEF IInv
  <1> QED
    BY <1>3, <1>4

\* The claim that reports an error: the row may be running, nobody works on it.
LEMMA ClaimRowFailsInv ==
    ASSUME IInv, TypeOK', NEW c \in Consumers, ClaimRowFails(c)
    PROVE  IInv'
  <1>1. /\ UNCHANGED <<kind, request, log, runs>>
        /\ \A d \in Consumers \ {c} : consumer'[d] = consumer[d]
        /\ consumer'[c].pc = "retry"
        /\ ~At(c, "idle")
    BY DEF ClaimRowFails, Goto, At, IInv, TypeOK
  <1>2. LogGrows /\ NoSyncMessage'
    BY <1>1, SameLog
  <1>3. QuietConsumers
    BY <1>1, <1>2, OneMoves DEF IInv
  <1>4. \A j \in Invocations :
           \/ row'[j] = row[j]
           \/ row[j] = "queued" /\ row'[j] = "running"
    <2> DEFINE i == Held(c).inv
    <2>1. \/ row' = row
          \/ row' = [row EXCEPT ![i] = IF row[i] = "queued" THEN "running" ELSE row[i]]
      BY DEF ClaimRowFails
    <2> HIDE DEF i
    <2> QED
      BY <2>1 DEF IInv, TypeOK
  <1>5. QuietRows
    BY <1>1, <1>4 DEF QuietRows, IInv, NewHasNoRow
  <1> QED
    BY <1>1, <1>2, <1>3, <1>5, QuietStep

\* Giving the row back: the consumer was the only one to work on it.
LEMMA LoadFailsInv ==
    ASSUME IInv, TypeOK', NEW c \in Consumers, LoadFails(c)
    PROVE  IInv'
  <1> DEFINE i == Held(c).inv
  <1>1. /\ UNCHANGED <<kind, request, log, runs>>
        /\ \A d \in Consumers \ {c} : consumer'[d] = consumer[d]
        /\ consumer'[c].pc = "retry"
        /\ At(c, "claimed") /\ ~At(c, "idle")
    BY DEF LoadFails, Goto, At, IInv, TypeOK
  <1>2. i \in Invocations /\ Works(c, i) /\ kind[i] # "sync"
    BY <1>1, HeldMessage DEF Works, Holds, At, IInv, NoSyncMessage
  <1>3. LogGrows /\ NoSyncMessage'
    BY <1>1, SameLog
  <1>4. QuietConsumers /\ \A j \in Invocations : ~Works(c, j)'
    BY <1>1, <1>3, OneMoves DEF IInv, Works, Holds
  <1>5. \A j \in Invocations :
           \/ row'[j] = row[j]
           \/ j = i /\ row[j] = "running" /\ row'[j] = "queued"
    <2>1. \/ row' = row
          \/ row' = [row EXCEPT ![i] = IF row[i] = "running" THEN "queued" ELSE row[i]]
      BY DEF LoadFails
    <2> HIDE DEF i
    <2> QED
      BY <2>1 DEF IInv, TypeOK
  <1>6. runs[i] = 0 /\ \A d \in Consumers : Works(d, i) => d = c
    BY <1>2 DEF IInv, NotCalled, OneWorker
  <1>7. OneWorker'
    BY <1>4 DEF IInv, OneWorker, QuietConsumers
  <1>8. NotCalled'
    BY <1>1, <1>4, <1>5, <1>6 DEF IInv, NotCalled, QuietConsumers
  <1>9. Called'
    BY <1>1, <1>4 DEF IInv, Called, QuietConsumers
  <1>10. NewHasNoRow' /\ SyncRow'
    BY <1>1, <1>2, <1>5 DEF IInv, NewHasNoRow, SyncRow
  <1>11. CalledAtMostOnce' /\ CompletedWasCalled'
    BY <1>1, <1>5 DEF IInv, CalledAtMostOnce, CompletedWasCalled
  <1> QED
    BY <1>3, <1>7, <1>8, <1>9, <1>10, <1>11 DEF IInv

\* The call: made by the only one who works on the row, which has not been
\* called before and cannot go back to the queue any more.
LEMMA CallTargetInv ==
    ASSUME IInv, TypeOK', NEW c \in Consumers, CallTarget(c)
    PROVE  IInv'
  <1> DEFINE i == Held(c).inv
  <1>1. /\ UNCHANGED <<kind, row, request, log>>
        /\ \A d \in Consumers \ {c} : consumer'[d] = consumer[d]
        /\ At(c, "ready") /\ ~At(c, "idle")
    BY DEF CallTarget, Goto, At, IInv, TypeOK
  <1>2. i \in Invocations /\ Works(c, i) /\ kind[i] # "sync"
    BY <1>1, HeldMessage DEF Works, Holds, At, IInv, NoSyncMessage
  <1>3. LogGrows /\ NoSyncMessage'
    BY <1>1, SameLog
  <1>4. CASE consumer' = [consumer EXCEPT ![c] = Idle] /\ UNCHANGED runs
    <2>1. consumer'[c].pc = "idle"
      BY <1>4 DEF Idle, IInv, TypeOK
    <2>2. QuietConsumers
      BY <1>1, <1>3, <2>1, OneMoves DEF IInv
    <2> QED
      BY <1>1, <1>3, <1>4, <2>2, QuietStep DEF QuietRows
  <1>5. CASE Goto(c, "called") /\ runs' = [runs EXCEPT ![i] = @ + 1]
    <2>1. consumer'[c] = [consumer[c] EXCEPT !.pc = "called"]
      BY <1>5 DEF Goto, IInv, TypeOK
    <2>2. Held(c)' = Held(c)
      BY <1>1, <2>1 DEF Held, IInv, TypeOK
    <2>3. \A d \in Consumers \ {c} : \A j \in Invocations :
             /\ Works(d, j)' <=> Works(d, j)
             /\ Holds(d, j, {"called"})' <=> Holds(d, j, {"called"})
      BY <1>1 DEF Works, Holds, Held
    <2>4. \A j \in Invocations :
             /\ ~Works(c, j)'
             /\ Holds(c, j, {"called"})' => j = i
      BY <2>1, <2>2 DEF Works, Holds, IInv, TypeOK
    <2>5. /\ runs[i] = 0 /\ row[i] \notin {"none", "queued"}
          /\ \A d \in Consumers : Works(d, i) => d = c
      BY <1>2 DEF IInv, NotCalled, OneWorker
    <2>6. \A j \in Invocations : runs'[j] = IF j = i THEN 1 ELSE runs[j]
      BY <1>5, <2>5 DEF IInv, TypeOK
    <2>7. OneWorker'
      BY <2>3, <2>4 DEF IInv, OneWorker
    <2>8. NotCalled'
      BY <1>1, <1>2, <2>3, <2>4, <2>5, <2>6 DEF IInv, NotCalled
    <2>9. Called'
      BY <1>1, <2>3, <2>4, <2>6 DEF IInv, Called
    <2>10. NewHasNoRow' /\ SyncRow'
      BY <1>1 DEF IInv, NewHasNoRow, SyncRow
    <2>11. CalledAtMostOnce' /\ CompletedWasCalled'
      BY <1>1, <2>6 DEF IInv, CalledAtMostOnce, CompletedWasCalled
    <2> QED
      BY <1>3, <2>7, <2>8, <2>9, <2>10, <2>11 DEF IInv
  <1> QED
    BY <1>4, <1>5 DEF CallTarget

LEMMA ProcessInv ==
    ASSUME IInv, TypeOK', NEW c \in Consumers, Process(c)
    PROVE  IInv'
  <1> DEFINE i == Held(c).inv
  <1>1. CASE LoadFunction(c)
    <2>1. /\ UNCHANGED <<kind, request, log, runs>>
          /\ \A d \in Consumers \ {c} : consumer'[d] = consumer[d]
          /\ At(c, "claimed") /\ ~At(c, "idle")
          /\ consumer'[c].pc \in {"ready", "done"} /\ consumer'[c].id = consumer[c].id
      BY <1>1 DEF LoadFunction, Goto, At, IInv, TypeOK
    <2>2. LogGrows /\ NoSyncMessage'
      BY <2>1, SameLog
    <2>3. QuietConsumers
      <3>1. CASE consumer'[c].pc = "done"
        BY <2>1, <2>2, <3>1, OneMoves DEF IInv
      <3>2. CASE consumer'[c].pc = "ready"
        BY <2>1, <3>2 DEF QuietConsumers, Works, Holds, Held, At
      <3> QED
        BY <2>1, <3>1, <3>2
    <2>4. \A j \in Invocations :
             \/ row'[j] = row[j]
             \/ row[j] \notin {"none", "gone"} /\ row'[j] = "failed"
      <3>1. row' = row \/ Overwrite(i, "failed")
        BY <1>1 DEF LoadFunction
      <3> HIDE DEF i
      <3> QED
        BY <3>1 DEF Overwrite, IInv, TypeOK
    <2>5. QuietRows
      BY <2>1, <2>4 DEF QuietRows, IInv, NewHasNoRow
    <2> QED
      BY <2>1, <2>2, <2>3, <2>5, QuietStep
  <1>2. CASE RecordOutcome(c)
    <2>1. /\ UNCHANGED <<kind, request, log, runs>>
          /\ \A d \in Consumers \ {c} : consumer'[d] = consumer[d]
          /\ At(c, "called") /\ ~At(c, "idle")
          /\ consumer'[c].pc = "done"
      BY <1>2 DEF RecordOutcome, Goto, At, IInv, TypeOK
    <2>2. LogGrows /\ NoSyncMessage'
      BY <2>1, SameLog
    <2>3. QuietConsumers
      BY <2>1, <2>2, OneMoves DEF IInv
    <2>4. i \in Invocations /\ runs[i] = 1
      BY <2>1, HeldMessage DEF IInv, Called, Holds, At
    <2>5. \A j \in Invocations :
             \/ row'[j] = row[j]
             \/ j = i /\ row[j] \notin {"none", "gone"} /\ row'[j] \in Final
      <3>1. row' = row \/ \E s \in Final : Overwrite(i, s)
        BY <1>2 DEF RecordOutcome
      <3> HIDE DEF i
      <3> QED
        BY <3>1 DEF Overwrite, IInv, TypeOK
    <2>6. QuietRows
      BY <2>1, <2>4, <2>5 DEF QuietRows, IInv, NewHasNoRow, Final
    <2> QED
      BY <2>1, <2>2, <2>3, <2>6, QuietStep
  <1> QED
    BY <1>1, <1>2, ClaimRowInv, ClaimRowFailsInv, LoadFailsInv, CallTargetInv DEF Process

LEMMA FinishInv ==
    ASSUME IInv, TypeOK', NEW c \in Consumers, Finish(c) \/ ConsumerCrash(c)
    PROVE  IInv'
  <1>1. /\ UNCHANGED <<kind, request, runs>>
        /\ \A d \in Consumers \ {c} : consumer'[d] = consumer[d]
        /\ ~At(c, "idle")
        /\ consumer'[c].pc \in {"idle", "done", "exhausted"}
    BY DEF Finish, RequeueMessage, RequeueFails, GiveUp, MarkInvocationFailed, AckMessage,
       ConsumerCrash, Goto, At, Idle, IInv, TypeOK
  <1>2. LogGrows /\ NoSyncMessage'
    <2>1. /\ Retry(Held(c)) \in Message
          /\ kind[Retry(Held(c)).inv] # "sync"
      BY <1>1, HeldMessage, RetryMessage DEF IInv, NoSyncMessage
    <2>2. log' \in {log, Queued(Retry(Held(c)))}
      BY DEF Finish, RequeueMessage, RequeueFails, GiveUp, MarkInvocationFailed,
         AckMessage, ConsumerCrash
    <2> QED
      BY <1>1, <2>1, <2>2, QueuedGrows
  <1>3. QuietConsumers
    BY <1>1, <1>2, OneMoves DEF IInv
  <1>4. \A j \in Invocations : row'[j] = row[j] \/ (row[j] \in Active /\ row'[j] = "failed")
    <2>1. row' = row \/ FailIfActive(Held(c).inv)
      BY DEF Finish, RequeueMessage, RequeueFails, GiveUp, MarkInvocationFailed,
         AckMessage, ConsumerCrash
    <2> QED
      BY <2>1 DEF FailIfActive, IInv, TypeOK
  <1>5. QuietRows
    BY <1>1, <1>4 DEF QuietRows, Active, IInv, NewHasNoRow
  <1> QED
    BY <1>1, <1>2, <1>3, <1>5, QuietStep

LEMMA MaintenanceInv ==
    ASSUME IInv, TypeOK',
           \/ \E i \in Invocations : RecoverOrphan(i) \/ PruneInvocation(i)
           \/ TrimQueue
    PROVE  IInv'
  <1>1. UNCHANGED <<kind, request, log, consumer, runs>>
    BY DEF RecoverOrphan, PruneInvocation, TrimQueue
  <1>2. LogGrows /\ NoSyncMessage'
    BY <1>1, SameLog
  <1>3. \A j \in Invocations :
           \/ row'[j] = row[j]
           \/ row[j] # "none" /\ row'[j] \in {"failed", "gone"}
    BY DEF RecoverOrphan, FailIfActive, Active, PruneInvocation, Final, TrimQueue,
       IInv, TypeOK
  <1>4. QuietRows
    BY <1>1, <1>3 DEF QuietRows, IInv, NewHasNoRow
  <1> QED
    BY <1>1, <1>2, <1>4, NoneMoves, QuietStep DEF IInv

LEMMA InvNext == IInv /\ [Next]_vars => IInv'
  <1> SUFFICES ASSUME IInv, [Next]_vars PROVE IInv'
    OBVIOUS
  <1>1. TypeOK'
    BY TypeNext DEF IInv
  <1>2. CASE UNCHANGED vars
    <2>1. LogGrows /\ NoSyncMessage' /\ QuietRows
      BY <1>2, SameLog DEF vars, QuietRows
    <2> QED
      BY <1>1, <1>2, <2>1, NoneMoves, QuietStep DEF vars, IInv
  <1> QED
    BY <1>1, <1>2, RequestInv, DequeueInv, ProcessInv, FinishInv, MaintenanceInv DEF Next

\* The inductive invariant holds in every reachable state.
THEOREM Invariance == Spec => []IInv
  BY InvInit, InvNext, PTL DEF Spec

\* The target of an invocation is called at most once, however often the
\* queue delivers its message and whoever dies: notifyEventAxis and Invoke
\* run behind the claim of ProcessInvocation.
THEOREM AtMostOnce == Spec => []CalledAtMostOnce
  BY Invariance, PTL DEF IInv

\* Only the call completes a row: runInvocation writes completed after it, and
\* no failure path, recovery or retry does.
THEOREM OnlyCallsComplete == Spec => []CompletedWasCalled
  BY Invariance, PTL DEF IInv

-----------------------------------------------------------------------------
(* A queued row has a message.  QueuedIsBacked is not inductive: a message   *)
(* that is pending may be in the hands of a consumer that is about to        *)
(* acknowledge it.  What is kept is that somebody will still look at the row *)
(* (Assured), together with what the errors counted so far say of retries.   *)

\* The limits of QueuedIsBacked: no death, no trim, one error at most.
Calm == spent["crash"] = 0 /\ spent["trim"] = 0 /\ spent["error"] <= 1

TrimsAreCounted == trimmed = spent["trim"]

\* Every retry, begun or queued, is the work of an error.
ErrorsAreCounted ==
    /\ \A id \in 1 .. Len(log) : log[id].attempt <= spent["error"]
    /\ \A c \in Consumers : At(c, "retry") => Held(c).attempt + 1 <= spent["error"]
    /\ \A i \in Invocations : request[i] = "failing" => spent["error"] >= 1

\* A message of i that will be delivered and that nobody holds.
Waits(id, i) ==
    /\ log[id].inv = i
    /\ id > group.last \/ id \in group.pel
    /\ \A c \in Consumers : ~At(c, "idle") => consumer[c].id # id

\* The request will queue i, or a consumer will look at its row or queue it
\* again, or a message of it waits.
Assured(i) ==
    \/ request[i] \in {"created", "failing"}
    \/ \E c \in Consumers : Holds(c, i, {"loaded", "retry"})
    \/ \E id \in 1 .. Len(log) : Waits(id, i)

QueuedIsAssured ==
    Calm => \A i \in Invocations :
              row[i] = "queued" /\ request[i] # "abandoned" => Assured(i)

QInv == TrimsAreCounted /\ ErrorsAreCounted /\ QueuedIsAssured

LEMMA QInit == Init => QInv
  BY DEF Init, QInv, TrimsAreCounted, ErrorsAreCounted, QueuedIsAssured, Calm, Budgets,
     Idle, At

LEMMA SpentGrows ==
    ASSUME TypeOK, [Next]_vars, NEW b \in Budgets
    PROVE  spent'[b] \in Nat /\ spent[b] \in Nat /\ spent[b] <= spent'[b]
  <1>1. spent' = spent \/ \E a \in Budgets : spent' = [spent EXCEPT ![a] = @ + 1]
    <2> USE DEF Spend, Budgets
    <2>1. ASSUME NEW i \in Invocations, Request(i) \/ RecoverOrphan(i) \/ PruneInvocation(i)
          PROVE  spent' = spent \/ \E a \in Budgets : spent' = [spent EXCEPT ![a] = @ + 1]
      BY <2>1 DEF Request, GoesOn, CreateInvocation, CreateFails, EnqueueInvocation,
         EnqueueFails, RecordEnqueueFailure, CallInRequest, RefuseInRequest,
         RecordInRequest, ServerCrash, RecoverOrphan, PruneInvocation
    <2>2. ASSUME NEW c \in Consumers, Dequeue(c) \/ Process(c)
          PROVE  spent' = spent \/ \E a \in Budgets : spent' = [spent EXCEPT ![a] = @ + 1]
      BY <2>2 DEF Dequeue, ClaimPending, ReadNext, ReadFails, Process, ClaimRow,
         ClaimRowFails, LoadFunction, LoadFails, CallTarget, RecordOutcome
    <2>3. ASSUME NEW c \in Consumers, Finish(c) \/ ConsumerCrash(c)
          PROVE  spent' = spent \/ \E a \in Budgets : spent' = [spent EXCEPT ![a] = @ + 1]
      BY <2>3 DEF Finish, RequeueMessage, RequeueFails, GiveUp, MarkInvocationFailed,
         AckMessage, ConsumerCrash
    <2> QED
      BY <2>1, <2>2, <2>3 DEF Next, TrimQueue, vars
  <1>2. spent \in [Budgets -> Nat]
    BY DEF TypeOK
  <1>3. spent[b] \in Nat
    BY <1>2
  <1>4. ASSUME NEW a \in Budgets, spent' = [spent EXCEPT ![a] = @ + 1]
        PROVE  spent'[b] = IF b = a THEN spent[b] + 1 ELSE spent[b]
    BY <1>2, <1>4
  <1>5. spent'[b] = spent[b] \/ spent'[b] = spent[b] + 1
    BY <1>1, <1>4
  <1> QED
    BY <1>3, <1>5

LEMMA TrimsNext ==
    ASSUME TypeOK, TrimsAreCounted, [Next]_vars
    PROVE  TrimsAreCounted'
  <1> USE DEF TrimsAreCounted, TypeOK, Spend, Budgets
  <1>1. ASSUME NEW i \in Invocations, Request(i) \/ RecoverOrphan(i) \/ PruneInvocation(i)
        PROVE  TrimsAreCounted'
    BY <1>1 DEF Request, GoesOn, CreateInvocation, CreateFails, EnqueueInvocation,
       EnqueueFails, RecordEnqueueFailure, CallInRequest, RefuseInRequest,
       RecordInRequest, ServerCrash, RecoverOrphan, PruneInvocation
  <1>2. ASSUME NEW c \in Consumers, Dequeue(c) \/ Process(c)
        PROVE  TrimsAreCounted'
    BY <1>2 DEF Dequeue, ClaimPending, ReadNext, ReadFails, Process, ClaimRow,
       ClaimRowFails, LoadFunction, LoadFails, CallTarget, RecordOutcome
  <1>3. ASSUME NEW c \in Consumers, Finish(c) \/ ConsumerCrash(c)
        PROVE  TrimsAreCounted'
    BY <1>3 DEF Finish, RequeueMessage, RequeueFails, GiveUp, MarkInvocationFailed,
       AckMessage, ConsumerCrash
  <1>4. CASE TrimQueue
    BY <1>4 DEF TrimQueue
  <1>5. CASE UNCHANGED vars
    BY <1>5 DEF vars
  <1> QED
    BY <1>1, <1>2, <1>3, <1>4, <1>5 DEF Next

\* What a step may do to the messages while the errors stay counted.
LEMMA ErrorsStep ==
    ASSUME TypeOK, TypeOK', ErrorsAreCounted, LogGrows,
           spent["error"] <= spent'["error"],
           \A id \in (Len(log) + 1) .. Len(log') : log'[id].attempt <= spent'["error"],
           \A c \in Consumers :
              consumer'[c].pc = "retry" =>
                 \/ At(c, "retry") /\ consumer'[c].id = consumer[c].id
                 \/ Held(c)'.attempt + 1 <= spent'["error"],
           \A i \in Invocations :
              request'[i] = "failing" => request[i] = "failing" \/ spent'["error"] >= 1
    PROVE  ErrorsAreCounted'
  <1>0. spent["error"] \in Nat /\ spent'["error"] \in Nat /\ Len(log) \in Nat /\ Len(log') \in Nat
    BY DEF TypeOK, Budgets
  <1>1. \A id \in 1 .. Len(log') : log'[id].attempt \in Nat
    <2>1. \A id \in 1 .. Len(log') : log'[id] \in Message
      BY DEF TypeOK
    <2> QED
      BY <2>1 DEF Message
  <1>2. ASSUME NEW id \in 1 .. Len(log') PROVE log'[id].attempt <= spent'["error"]
    <2>1. CASE id \in 1 .. Len(log)
      <3>1. log'[id] = log[id] /\ log[id].attempt <= spent["error"]
        BY <2>1 DEF LogGrows, ErrorsAreCounted
      <3> QED
        BY <1>0, <1>1, <3>1
    <2>2. CASE id \in (Len(log) + 1) .. Len(log')
      BY <2>2
    <2> QED
      BY <1>0, <2>1, <2>2
  <1>3. ASSUME NEW c \in Consumers, consumer'[c].pc = "retry",
               At(c, "retry"), consumer'[c].id = consumer[c].id
        PROVE  Held(c)'.attempt + 1 <= spent'["error"]
    <2>1. ~At(c, "idle")
      BY <1>3 DEF At
    <2>2. Held(c)' = Held(c) /\ Held(c).attempt \in Nat
      BY <1>3, <2>1, SameHeld, HeldMessage DEF Message
    <2>3. Held(c).attempt + 1 <= spent["error"]
      BY <1>3 DEF ErrorsAreCounted
    <2> QED
      BY <1>0, <2>2, <2>3
  <1>4. ASSUME NEW i \in Invocations, request[i] = "failing"
        PROVE  spent'["error"] >= 1
    BY <1>0, <1>4 DEF ErrorsAreCounted
  <1> QED
    BY <1>2, <1>3, <1>4 DEF ErrorsAreCounted, At

LEMMA ErrorsNext ==
    ASSUME IInv, TypeOK', ErrorsAreCounted, [Next]_vars
    PROVE  ErrorsAreCounted'
  <1> USE DEF IInv
  <1>0. /\ spent["error"] \in Nat /\ spent'["error"] \in Nat
        /\ spent["error"] <= spent'["error"]
    BY SpentGrows DEF Budgets
  <1>1. ASSUME UNCHANGED log
        PROVE  /\ LogGrows
               /\ \A id \in (Len(log) + 1) .. Len(log') : log'[id].attempt <= spent'["error"]
    BY <1>1 DEF TypeOK, LogGrows
  <1>2. ASSUME NEW m \in Message, m.attempt <= spent'["error"], log' = Queued(m)
        PROVE  /\ LogGrows
               /\ \A id \in (Len(log) + 1) .. Len(log') : log'[id].attempt <= spent'["error"]
    BY <1>2, QueuedMessage DEF TypeOK, LogGrows
  <1>3. ASSUME NEW i \in Invocations, Request(i)
        PROVE  ErrorsAreCounted'
    <2>1. /\ LogGrows
          /\ \A id \in (Len(log) + 1) .. Len(log') : log'[id].attempt <= spent'["error"]
      <3>1. FirstMessage(i) \in Message /\ FirstMessage(i).attempt = 0
        BY FirstMessageType DEF FirstMessage
      <3>2. log' \in {log, Queued(FirstMessage(i))}
        BY <1>3 DEF Request, GoesOn, CreateInvocation, CreateFails, EnqueueInvocation,
           EnqueueFails, RecordEnqueueFailure, CallInRequest, RefuseInRequest,
           RecordInRequest, ServerCrash
      <3> QED
        BY <1>0, <1>1, <1>2, <3>1, <3>2
    <2>2. UNCHANGED consumer
      BY <1>3 DEF Request, GoesOn, CreateInvocation, CreateFails, EnqueueInvocation,
         EnqueueFails, RecordEnqueueFailure, CallInRequest, RefuseInRequest,
         RecordInRequest, ServerCrash
    <2>3. \A j \in Invocations :
             request'[j] = "failing" => request[j] = "failing" \/ spent'["error"] >= 1
      BY <1>0, <1>3 DEF Request, GoesOn, CreateInvocation, CreateFails,
         EnqueueInvocation, EnqueueFails, RecordEnqueueFailure, CallInRequest,
         RefuseInRequest, RecordInRequest, ServerCrash, Spend, TypeOK, Budgets
    <2> QED
      BY <1>0, <2>1, <2>2, <2>3, ErrorsStep DEF At
  <1>4. ASSUME NEW c \in Consumers,
               ClaimPending(c) \/ ReadNext(c) \/ ReadFails(c) \/ ClaimRow(c) \/ LoadFunction(c)
               \/ CallTarget(c) \/ RecordOutcome(c) \/ GiveUp(c)
               \/ MarkInvocationFailed(c) \/ AckMessage(c) \/ ConsumerCrash(c)
        PROVE  ErrorsAreCounted'
    <2>1. /\ UNCHANGED <<log, request>>
          /\ \A d \in Consumers : consumer'[d] = consumer[d] \/ consumer'[d].pc # "retry"
      BY <1>4 DEF ClaimPending, ReadNext, ReadFails, ClaimRow, LoadFunction,
         CallTarget, RecordOutcome, GiveUp, MarkInvocationFailed, AckMessage,
         ConsumerCrash, Goto, Idle, TypeOK
    <2> QED
      BY <1>0, <1>1, <2>1, ErrorsStep DEF At
  <1>5. ASSUME NEW c \in Consumers, ClaimRowFails(c) \/ LoadFails(c)
        PROVE  ErrorsAreCounted'
    <2>1. /\ UNCHANGED <<log, request>> /\ ~At(c, "idle")
          /\ spent'["error"] = spent["error"] + 1
          /\ consumer' = [consumer EXCEPT ![c].pc = "retry"]
      BY <1>5 DEF ClaimRowFails, LoadFails, Goto, At, Spend, TypeOK, Budgets
    <2>2. /\ \A d \in Consumers \ {c} : consumer'[d] = consumer[d]
          /\ consumer'[c].id = consumer[c].id
      BY <2>1 DEF TypeOK
    <2>3. Held(c).attempt <= spent["error"] /\ Held(c).attempt \in Nat
      BY <2>1, HeldMessage DEF ErrorsAreCounted, Message
    <2>4. Held(c)' = Held(c)
      BY <2>1, <2>2 DEF Held
    <2> QED
      BY <1>0, <1>1, <2>1, <2>2, <2>3, <2>4, ErrorsStep DEF At
  <1>6. ASSUME NEW c \in Consumers, RequeueMessage(c) \/ RequeueFails(c)
        PROVE  ErrorsAreCounted'
    <2>1. /\ UNCHANGED request /\ At(c, "retry") /\ ~At(c, "idle")
          /\ log' \in {log, Queued(Retry(Held(c)))}
          /\ \A d \in Consumers : consumer'[d] = consumer[d] \/ consumer'[d].pc # "retry"
      BY <1>6 DEF RequeueMessage, RequeueFails, Goto, Idle, At, TypeOK
    <2>2. /\ Held(c) \in Message /\ Retry(Held(c)) \in Message
          /\ Retry(Held(c)).attempt = Held(c).attempt + 1
      BY <2>1, HeldMessage, RetryMessage DEF Retry, Message
    <2>3. Retry(Held(c)).attempt <= spent'["error"]
      <3>1. Held(c).attempt + 1 <= spent["error"] /\ Held(c).attempt \in Nat
        BY <2>1, <2>2 DEF ErrorsAreCounted, Message
      <3> QED
        BY <1>0, <2>2, <3>1
    <2> QED
      BY <1>0, <1>1, <1>2, <2>1, <2>2, <2>3, ErrorsStep DEF At
  <1>7. CASE \/ \E i \in Invocations : RecoverOrphan(i) \/ PruneInvocation(i)
             \/ TrimQueue
             \/ UNCHANGED vars
    <2>1. UNCHANGED <<log, request, consumer>>
      BY <1>7 DEF RecoverOrphan, PruneInvocation, TrimQueue, vars
    <2> QED
      BY <1>0, <1>1, <2>1, ErrorsStep DEF At
  <1> QED
    BY <1>3, <1>4, <1>5, <1>6, <1>7 DEF Next, Dequeue, Process, Finish

\* A step that takes no message and no row out of the hands it was in.
LEMMA KeepsAssured ==
    ASSUME TypeOK, TypeOK', LogGrows, NEW i \in Invocations, Assured(i),
           request[i] \in {"created", "failing"} => request'[i] \in {"created", "failing"},
           \A c \in Consumers :
              Holds(c, i, {"loaded", "retry"}) =>
                 consumer'[c].pc \in {"loaded", "retry"} /\ consumer'[c].id = consumer[c].id,
           \A c \in Consumers :
              ~At(c, "idle")' => ~At(c, "idle") /\ consumer'[c].id = consumer[c].id,
           group'.last = group.last,
           \A id \in group.pel :
              id \in group'.pel \/ \E c \in Consumers : ~At(c, "idle") /\ consumer[c].id = id
    PROVE  Assured(i)'
  <1>1. CASE request[i] \in {"created", "failing"}
    BY <1>1 DEF Assured
  <1>2. ASSUME NEW c \in Consumers, Holds(c, i, {"loaded", "retry"})
        PROVE  Assured(i)'
    <2>1. consumer'[c].pc \in {"loaded", "retry"} /\ consumer'[c].id = consumer[c].id
      BY <1>2
    <2>2. ~At(c, "idle")
      BY <1>2 DEF Holds, At
    <2>3. Held(c)' = Held(c)
      BY <2>1, <2>2, SameHeld
    <2> QED
      BY <1>2, <2>1, <2>3 DEF Assured, Holds
  <1>3. ASSUME NEW id \in 1 .. Len(log), Waits(id, i)
        PROVE  Assured(i)'
    <2>1. log'[id] = log[id] /\ id \in 1 .. Len(log')
      BY DEF LogGrows, TypeOK
    <2>2. Waits(id, i)'
      BY <1>3, <2>1 DEF Waits
    <2> QED
      BY <2>1, <2>2 DEF Assured
  <1> QED
    BY <1>1, <1>2, <1>3 DEF Assured

\* A message just added waits: no consumer holds it, and the group has not
\* come to it.
LEMMA AddedWaits ==
    ASSUME TypeOK, NEW m \in Message, log' = Queued(m), UNCHANGED group,
           \A c \in Consumers :
              ~At(c, "idle")' => ~At(c, "idle") /\ consumer'[c].id = consumer[c].id
    PROVE  Assured(m.inv)'
  <1>1. PICK id \in Nat : id = Len(log) + 1
    BY DEF TypeOK
  <1>2. Len(log) \in Nat /\ Len(log') = id /\ log'[id] = m
    BY <1>1, QueuedMessage DEF TypeOK
  <1>3. id > group'.last
    BY <1>1, <1>2 DEF TypeOK
  <1>4. \A c \in Consumers : ~At(c, "idle")' => consumer'[c].id # id
    BY <1>1, <1>2, HeldMessage
  <1>5. Waits(id, m.inv)'
    BY <1>2, <1>3, <1>4 DEF Waits
  <1> QED
    BY <1>1, <1>2, <1>5 DEF Assured

\* The request: what it leaves queued, it queues a message of.
LEMMA RequestAssures ==
    ASSUME IInv, IInv', QInv, Calm, Calm', NEW i \in Invocations, Request(i),
           NEW j \in Invocations, row'[j] = "queued", request'[j] # "abandoned"
    PROVE  Assured(j)'
  <1> USE DEF IInv
  <1>1. UNCHANGED <<kind, group, consumer>>
    BY DEF Request, GoesOn, CreateInvocation, CreateFails, EnqueueInvocation,
       EnqueueFails, RecordEnqueueFailure, CallInRequest, RefuseInRequest,
       RecordInRequest, ServerCrash
  <1>2. LogGrows
    <2>1. log' \in {log, Queued(FirstMessage(i))}
      BY DEF Request, GoesOn, CreateInvocation, CreateFails, EnqueueInvocation,
         EnqueueFails, RecordEnqueueFailure, CallInRequest, RefuseInRequest,
         RecordInRequest, ServerCrash
    <2>2. CASE log' = log
      BY <2>2 DEF LogGrows, TypeOK
    <2>3. CASE log' = Queued(FirstMessage(i))
      BY <2>3, FirstMessageType, QueuedMessage DEF LogGrows, TypeOK
    <2> QED
      BY <2>1, <2>2, <2>3
  <1>3. CASE j # i
    <2>1. UNCHANGED <<row[j], request[j]>>
      BY <1>3 DEF Request, GoesOn, CreateInvocation, CreateFails, EnqueueInvocation,
         EnqueueFails, RecordEnqueueFailure, CallInRequest, RefuseInRequest,
         RecordInRequest, ServerCrash, Overwrite, TypeOK
    <2>2. Assured(j)
      BY <2>1 DEF QInv, QueuedIsAssured
    <2> QED
      BY <1>1, <1>2, <2>1, <2>2, KeepsAssured DEF At, Holds
  <1>4. CASE j = i /\ (CreateInvocation(i) \/ EnqueueFails(i))
    BY <1>4 DEF CreateInvocation, EnqueueFails, Assured, TypeOK
  <1>10. CASE j = i /\ CreateFails(i)
    BY <1>10 DEF CreateFails, TypeOK
  <1>5. CASE j = i /\ EnqueueInvocation(i)
    BY <1>1, <1>5, FirstMessageType, AddedWaits DEF EnqueueInvocation, At
  <1>6. CASE j = i /\ RecordEnqueueFailure(i)
    <2>1. request[i] = "failing" /\ spent["error"] = 1 /\ spent'["error"] <= 1
      BY <1>6 DEF RecordEnqueueFailure, QInv, ErrorsAreCounted, Calm, TypeOK, Budgets
    <2>2. Overwrite(i, "failed")
      BY <1>6, <2>1 DEF RecordEnqueueFailure, Spend, TypeOK, Budgets
    <2> QED
      BY <1>6, <2>2 DEF Overwrite, TypeOK
  <1>7. CASE j = i /\ (CallInRequest(i) \/ RefuseInRequest(i))
    <2>1. kind'[i] = "sync"
      BY <1>7 DEF CallInRequest, RefuseInRequest
    <2> QED
      BY <1>7, <2>1 DEF SyncRow
  <1>8. CASE j = i /\ RecordInRequest(i)
    <2>1. row[i] # "queued"
      BY <1>8 DEF RecordInRequest, Called, NotCalled
    <2> QED
      BY <1>8, <2>1 DEF RecordInRequest, Overwrite, Final, TypeOK
  <1>9. CASE ServerCrash(i)
    BY <1>9 DEF ServerCrash, Spend, Calm, TypeOK, Budgets
  <1> QED
    BY <1>3, <1>4, <1>5, <1>6, <1>7, <1>8, <1>9, <1>10 DEF Request, GoesOn

\* A message that waited is now in the hands of the consumer.
LEMMA DequeueAssures ==
    ASSUME IInv, IInv', QInv, Calm, Calm', NEW c \in Consumers, Dequeue(c),
           NEW j \in Invocations, row'[j] = "queued", request'[j] # "abandoned"
    PROVE  Assured(j)'
  <1> USE DEF IInv
  <1>1. /\ UNCHANGED <<row, request, log, trimmed>> /\ At(c, "idle")
        /\ \A d \in Consumers \ {c} : consumer'[d] = consumer[d]
    BY DEF Dequeue, ClaimPending, ReadNext, ReadFails, TypeOK
  <1>2. trimmed = 0
    BY DEF QInv, TrimsAreCounted, Calm
  <1>3. Assured(j)
    BY <1>1 DEF QInv, QueuedIsAssured
  <1>8. ASSUME ReadFails(c), NEW id \in 1 .. Len(log), Waits(id, j)
        PROVE  Waits(id, j)'
    <2>1. UNCHANGED consumer /\ group'.pel = group.pel \cup {group'.last}
      BY <1>8 DEF ReadFails
    <2>2. group'.last = group.last + 1 /\ group.last \in Nat /\ Len(log) \in Nat
      BY <1>2, <1>8 DEF ReadFails, TypeOK
    <2> QED
      BY <1>1, <1>8, <2>1, <2>2 DEF Waits, At
  <1>4. ASSUME ~ReadFails(c)
        PROVE  \E k \in 1 .. Len(log) :
           /\ consumer'[c] = [pc |-> "loaded", id |-> k]
           /\ \A id \in 1 .. Len(log) :
                 id > group.last \/ id \in group.pel =>
                    id = k \/ id > group'.last \/ id \in group'.pel
    <2>1. CASE ClaimPending(c)
      <3>1. PICK k \in group.pel \cap Retained :
               consumer' = [consumer EXCEPT ![c] = [pc |-> "loaded", id |-> k]]
        BY <2>1 DEF ClaimPending
      <3>2. group' = [group EXCEPT !.pel = @ \cap Retained]
        BY <2>1 DEF ClaimPending
      <3>3. Retained = 1 .. Len(log)
        BY <1>2 DEF Retained
      <3> QED
        BY <3>1, <3>2, <3>3 DEF TypeOK
    <2>2. CASE ReadNext(c)
      <3>1. group.last \in Nat /\ Len(log) \in Nat
        BY DEF TypeOK
      <3>2. (IF group.last > trimmed THEN group.last ELSE trimmed) = group.last
        BY <1>2, <3>1
      <3> DEFINE n == (IF group.last > trimmed THEN group.last ELSE trimmed) + 1
      <3>3. /\ n <= Len(log)
            /\ consumer' = [consumer EXCEPT ![c] = [pc |-> "loaded", id |-> n]]
            /\ group' = [last |-> n, pel |-> group.pel \cup {n}]
        BY <2>2 DEF ReadNext
      <3>4. n = group.last + 1
        BY <3>2
      <3> HIDE DEF n
      <3>5. n \in 1 .. Len(log)
        BY <3>1, <3>3, <3>4
      <3>6. consumer'[c] = [pc |-> "loaded", id |-> n]
        BY <3>3 DEF TypeOK
      <3>7. group'.last = n /\ group'.pel = group.pel \cup {n}
        BY <3>3
      <3>8. ASSUME NEW id \in 1 .. Len(log), id > group.last \/ id \in group.pel
            PROVE  id = n \/ id > group'.last \/ id \in group'.pel
        BY <3>1, <3>4, <3>7, <3>8
      <3> QED
        BY <3>5, <3>6, <3>8
    <2> QED
      BY <1>4, <2>1, <2>2 DEF Dequeue
  <1>5. CASE request[j] \in {"created", "failing"}
    BY <1>1, <1>5 DEF Assured
  <1>6. ASSUME NEW d \in Consumers, Holds(d, j, {"loaded", "retry"})
        PROVE  Assured(j)'
    <2>1. d # c
      BY <1>1, <1>6 DEF Holds, At
    <2> QED
      BY <1>1, <1>6, <2>1 DEF Assured, Holds, Held
  <1>7. ASSUME NEW id \in 1 .. Len(log), Waits(id, j)
        PROVE  Assured(j)'
    <2>1. CASE ReadFails(c)
      BY <1>1, <1>7, <1>8, <2>1 DEF Assured
    <2>2. CASE ~ReadFails(c)
      <3>1. PICK k \in 1 .. Len(log) :
               /\ consumer'[c] = [pc |-> "loaded", id |-> k]
               /\ \A n \in 1 .. Len(log) :
                     n > group.last \/ n \in group.pel =>
                        n = k \/ n > group'.last \/ n \in group'.pel
        BY <1>4, <2>2
      <3>2. CASE id = k
        BY <1>1, <3>1, <1>7, <3>2 DEF Assured, Holds, Held, Waits
      <3>3. CASE id # k
        <4>1. \A d \in Consumers : ~At(d, "idle")' => consumer'[d].id # id
          BY <1>1, <3>1, <1>7, <3>3 DEF Waits, At
        <4>2. Waits(id, j)'
          BY <1>1, <3>1, <1>7, <3>3, <4>1 DEF Waits
        <4> QED
          BY <1>1, <4>2 DEF Assured
      <3> QED
        BY <3>2, <3>3
    <2> QED
      BY <2>1, <2>2
  <1> QED
    BY <1>3, <1>5, <1>6, <1>7 DEF Assured

\* A consumer lets go of a message only when the row is not queued any more.
LEMMA ProcessAssures ==
    ASSUME IInv, IInv', QInv, Calm, Calm', NEW c \in Consumers, Process(c),
           NEW j \in Invocations, row'[j] = "queued", request'[j] # "abandoned"
    PROVE  Assured(j)'
  <1> USE DEF IInv
  <1> DEFINE i == Held(c).inv
  <1>1. /\ UNCHANGED <<request, log, group>> /\ ~At(c, "idle") /\ LogGrows
        /\ \A d \in Consumers \ {c} : consumer'[d] = consumer[d]
        /\ At(c, "idle")' \/ consumer'[c].id = consumer[c].id
    BY DEF Process, ClaimRow, ClaimRowFails, LoadFunction, LoadFails, CallTarget,
       RecordOutcome, Goto, At, Idle, TypeOK, LogGrows
  <1>2. ASSUME Assured(j),
               At(c, "loaded") => j # i \/ consumer'[c].pc \in {"loaded", "retry"},
               ~At(c, "retry")
        PROVE  Assured(j)'
    <2>1. \A d \in Consumers :
             Holds(d, j, {"loaded", "retry"}) =>
                consumer'[d].pc \in {"loaded", "retry"} /\ consumer'[d].id = consumer[d].id
      BY <1>1, <1>2 DEF Holds, At
    <2>2. \A d \in Consumers :
             ~At(d, "idle")' => ~At(d, "idle") /\ consumer'[d].id = consumer[d].id
      BY <1>1 DEF At
    <2> QED
      BY <1>1, <1>2, <2>1, <2>2, KeepsAssured
  <1>3. i \in Invocations
    BY <1>1, HeldMessage
  <1>4. CASE ClaimRow(c)
    <2>1. row[j] = "queued" /\ j # i /\ At(c, "loaded")
      BY <1>3, <1>4 DEF ClaimRow, TypeOK
    <2> QED
      BY <1>1, <1>2, <2>1 DEF QInv, QueuedIsAssured, At
  <1>5. CASE ClaimRowFails(c)
    <2>1. /\ At(c, "loaded") /\ consumer'[c].pc = "retry"
      BY <1>5 DEF ClaimRowFails, Goto, TypeOK
    <2>2. row[j] = "queued"
      BY <1>3, <1>5 DEF ClaimRowFails, TypeOK
    <2> QED
      BY <1>1, <1>2, <2>1, <2>2 DEF QInv, QueuedIsAssured, At
  <1>6. CASE LoadFails(c)
    <2>1. At(c, "claimed") /\ consumer'[c] = [consumer[c] EXCEPT !.pc = "retry"]
      BY <1>6 DEF LoadFails, Goto, TypeOK
    <2>2. CASE j = i
      <3>1. consumer'[c].pc = "retry" /\ Held(c)' = Held(c)
        BY <1>1, <2>1 DEF Held, TypeOK
      <3> QED
        BY <2>2, <3>1 DEF Assured, Holds
    <2>3. CASE j # i
      <3>1. row[j] = "queued"
        BY <1>3, <1>6, <2>3 DEF LoadFails, TypeOK
      <3> QED
        BY <1>1, <1>2, <2>1, <3>1 DEF QInv, QueuedIsAssured, At
    <2> QED
      BY <2>2, <2>3
  <1>7. CASE LoadFunction(c) \/ CallTarget(c) \/ RecordOutcome(c)
    <2>1. consumer[c].pc \in {"claimed", "ready", "called"}
      BY <1>7 DEF LoadFunction, CallTarget, RecordOutcome, At
    <2>2. row[j] = "queued"
      <3>1. UNCHANGED row \/ \E s \in Final : Overwrite(i, s)
        BY <1>7 DEF LoadFunction, CallTarget, RecordOutcome, Final
      <3> HIDE DEF i
      <3> QED
        BY <3>1 DEF Overwrite, Final, TypeOK
    <2> QED
      BY <1>1, <1>2, <2>1, <2>2 DEF QInv, QueuedIsAssured, At
  <1> QED
    BY <1>4, <1>5, <1>6, <1>7 DEF Process

\* The second error, the death and the last retry are beyond the limits; what
\* is acknowledged was held by the consumer that acknowledges it.
LEMMA FinishAssures ==
    ASSUME IInv, IInv', QInv, Calm, Calm', NEW c \in Consumers,
           Finish(c) \/ ConsumerCrash(c),
           NEW j \in Invocations, row'[j] = "queued", request'[j] # "abandoned"
    PROVE  Assured(j)'
  <1> USE DEF IInv
  <1>1. /\ UNCHANGED request /\ ~At(c, "idle")
        /\ \A d \in Consumers \ {c} : consumer'[d] = consumer[d]
        /\ At(c, "idle")' \/ consumer'[c].id = consumer[c].id
        /\ group'.last = group.last
        /\ group.pel \ {consumer[c].id} \subseteq group'.pel
    BY DEF Finish, RequeueMessage, RequeueFails, GiveUp, MarkInvocationFailed,
       AckMessage, ConsumerCrash, Goto, At, Idle, TypeOK
  <1>2. ASSUME LogGrows, row[j] = "queued",
               consumer[c].pc \in {"loaded", "retry"} => Held(c).inv # j
        PROVE  Assured(j)'
    <2>1. Assured(j)
      BY <1>1, <1>2 DEF QInv, QueuedIsAssured
    <2>2. \A d \in Consumers :
             Holds(d, j, {"loaded", "retry"}) =>
                consumer'[d].pc \in {"loaded", "retry"} /\ consumer'[d].id = consumer[d].id
      BY <1>1, <1>2 DEF Holds
    <2>3. \A d \in Consumers :
             ~At(d, "idle")' => ~At(d, "idle") /\ consumer'[d].id = consumer[d].id
      BY <1>1 DEF At
    <2>4. \A id \in group.pel :
             id \in group'.pel \/ \E d \in Consumers : ~At(d, "idle") /\ consumer[d].id = id
      BY <1>1
    <2> QED
      BY <1>1, <1>2, <2>1, <2>2, <2>3, <2>4, KeepsAssured
  <1>3. At(c, "retry") => spent["error"] = 1 /\ Held(c).attempt = 0
    <2>1. Held(c).attempt \in Nat
      BY <1>1, HeldMessage DEF Message
    <2> QED
      BY <2>1 DEF QInv, ErrorsAreCounted, Calm, TypeOK, Budgets
  <1>4. CASE RequeueMessage(c)
    <2>1. PICK m \in Message : m = Retry(Held(c)) /\ m.inv = Held(c).inv
      BY <1>1, HeldMessage, RetryMessage
    <2>2. log' = Queued(m) /\ UNCHANGED <<row, group>>
      BY <1>4, <2>1 DEF RequeueMessage
    <2>3. \A d \in Consumers :
             ~At(d, "idle")' => ~At(d, "idle") /\ consumer'[d].id = consumer[d].id
      BY <1>1 DEF At
    <2>4. Assured(m.inv)'
      BY <2>1, <2>2, <2>3, AddedWaits
    <2>5. LogGrows
      BY <2>1, <2>2, QueuedMessage DEF LogGrows, TypeOK
    <2> QED
      BY <1>2, <2>1, <2>2, <2>4, <2>5
  <1>5. CASE RequeueFails(c)
    BY <1>3, <1>5 DEF RequeueFails, Spend, Calm, TypeOK, Budgets
  <1>6. CASE GiveUp(c)
    BY <1>3, <1>6, InvocationAssumption DEF GiveUp, Retryable
  <1>7. CASE MarkInvocationFailed(c) \/ AckMessage(c)
    <2>1. LogGrows /\ consumer[c].pc \in {"exhausted", "done"}
      BY <1>7 DEF MarkInvocationFailed, AckMessage, At, LogGrows, TypeOK
    <2>2. row[j] = "queued"
      BY <1>7 DEF MarkInvocationFailed, AckMessage, FailIfActive, TypeOK
    <2> QED
      BY <1>2, <2>1, <2>2
  <1>8. CASE ConsumerCrash(c)
    BY <1>8 DEF ConsumerCrash, Spend, Calm, TypeOK, Budgets
  <1> QED
    BY <1>4, <1>5, <1>6, <1>7, <1>8 DEF Finish

LEMMA QNext == IInv /\ IInv' /\ QInv /\ [Next]_vars => QInv'
  <1> SUFFICES ASSUME IInv, IInv', QInv, [Next]_vars PROVE QInv'
    OBVIOUS
  <1>1. TrimsAreCounted' /\ ErrorsAreCounted'
    BY TrimsNext, ErrorsNext DEF IInv, QInv
  <1>2. ASSUME Calm', NEW j \in Invocations, row'[j] = "queued", request'[j] # "abandoned"
        PROVE  Assured(j)'
    <2>1. Calm
      BY <1>2, SpentGrows DEF Calm, Budgets, IInv
    <2>2. ASSUME UNCHANGED <<request, log, group, consumer>>, row[j] = "queued"
          PROVE  Assured(j)'
      <3>1. Assured(j)
        BY <1>2, <2>1, <2>2 DEF QInv, QueuedIsAssured
      <3> QED
        BY <2>2, <3>1, KeepsAssured DEF IInv, TypeOK, LogGrows, Holds, At
    <2>3. ASSUME NEW i \in Invocations, RecoverOrphan(i) \/ PruneInvocation(i)
          PROVE  Assured(j)'
      BY <1>2, <2>2, <2>3 DEF RecoverOrphan, PruneInvocation, FailIfActive, IInv, TypeOK
    <2>4. CASE TrimQueue
      BY <1>2, <2>4 DEF TrimQueue, Spend, Calm, IInv, TypeOK, Budgets
    <2>5. CASE UNCHANGED vars
      BY <1>2, <2>2, <2>5 DEF vars
    <2> QED
      BY <1>2, <2>1, <2>3, <2>4, <2>5, RequestAssures, DequeueAssures, ProcessAssures,
         FinishAssures DEF Next
  <1> QED
    BY <1>1, <1>2 DEF QInv, QueuedIsAssured

LEMMA AssuredIsBacked ==
    ASSUME IInv, QInv, Calm, NEW i \in Invocations, Assured(i)
    PROVE  Backed(i)
  <1>1. Retained = 1 .. Len(log)
    BY DEF Retained, QInv, TrimsAreCounted, Calm
  <1> QED
    BY <1>1 DEF Assured, Backed, Waits, Holds, At

\* A queued invocation does not evaporate: ProcessInvocation, requeue,
\* ackMessage and the request keep a message of every queued row while at most
\* one of their calls fails, however many rows, consumers and redeliveries
\* there are.
THEOREM QueuedInvocationIsBacked == Spec => []QueuedIsBacked
  <1>1. Spec => []QInv
    BY QInit, Invariance, QNext, PTL DEF Spec
  <1>2. IInv /\ QInv => QueuedIsBacked
    BY AssuredIsBacked DEF QueuedIsBacked, QInv, QueuedIsAssured, Calm
  <1> QED
    BY <1>1, <1>2, Invariance, PTL

-----------------------------------------------------------------------------
(* Rows and calls implement the contract of an invocation: a step changes one *)
(* row or calls one target, and the invariant says which changes it can be.   *)

\* A change of one row is a step of the contract.
LEMMA RowMoves ==
    ASSUME TypeOK, UNCHANGED runs, NEW i \in Invocations, NEW s,
           row' = [row EXCEPT ![i] = s],
           \/ s = row[i]
           \/ row[i] = "none" /\ s \in {"queued", "running"}
           \/ row[i] = "queued" /\ runs[i] = 0 /\ s = "running"
           \/ row[i] = "running" /\ runs[i] = 0 /\ s = "queued"
           \/ row[i] \in {"running", "failed"} /\ runs[i] = 1 /\ s = "completed"
           \/ row[i] \in {"queued", "running", "completed"} /\ s = "failed"
           \/ row[i] \in Final /\ s = "gone"
    PROVE  [Contract!Next]_(Contract!vars)
  <1>1. CASE s = row[i]
    BY <1>1 DEF Contract!vars, TypeOK
  <1>2. CASE row[i] = "none" /\ s \in {"queued", "running"}
    <2>1. Contract!Accept(i)
      BY <1>2 DEF Contract!Accept, Contract!Becomes
    <2> QED
      BY <2>1 DEF Contract!Next
  <1>3. CASE row[i] = "queued" /\ runs[i] = 0 /\ s = "running"
    <2>1. Contract!Take(i)
      BY <1>3 DEF Contract!Take, Contract!Becomes
    <2> QED
      BY <2>1 DEF Contract!Next
  <1>4. CASE row[i] = "running" /\ runs[i] = 0 /\ s = "queued"
    <2>1. Contract!GiveBack(i)
      BY <1>4 DEF Contract!GiveBack, Contract!Becomes
    <2> QED
      BY <2>1 DEF Contract!Next
  <1>5. CASE row[i] \in {"running", "failed"} /\ runs[i] = 1 /\ s = "completed"
    <2>1. Contract!Complete(i)
      BY <1>5 DEF Contract!Complete, Contract!Becomes
    <2> QED
      BY <2>1 DEF Contract!Next
  <1>6. CASE row[i] \in {"queued", "running", "completed"} /\ s = "failed"
    <2>1. Contract!Fail(i)
      BY <1>6 DEF Contract!Fail, Contract!Becomes
    <2> QED
      BY <2>1 DEF Contract!Next
  <1>7. CASE row[i] \in Final /\ s = "gone"
    <2>1. Contract!Prune(i)
      BY <1>7 DEF Contract!Prune, Contract!Becomes, Final
    <2> QED
      BY <2>1 DEF Contract!Next
  <1> QED
    BY <1>1, <1>2, <1>3, <1>4, <1>5, <1>6, <1>7

\* A call of a target is a step of the contract when it is the first.
LEMMA CallsMove ==
    ASSUME TypeOK, UNCHANGED row, NEW i \in Invocations, runs' = [runs EXCEPT ![i] = @ + 1],
           runs[i] = 0, row[i] \in {"running", "failed", "gone"}
    PROVE  Contract!Next
  <1>1. Contract!Call(i)
    BY DEF Contract!Call, TypeOK
  <1> QED
    BY <1>1 DEF Contract!Next

\* A failure may be written over whatever the row says, and an outcome when the
\* target was called.
LEMMA OutcomeMoves ==
    ASSUME IInv, UNCHANGED runs, NEW i \in Invocations, NEW s \in Final, Overwrite(i, s),
           s = "completed" => runs[i] = 1
    PROVE  [Contract!Next]_(Contract!vars)
  <1> DEFINE w == IF row[i] \in {"none", "gone"} THEN row[i] ELSE s
  <1>1. row' = [row EXCEPT ![i] = w]
    BY DEF Overwrite
  <1>2. row[i] \in {"none", "gone", "queued", "running", "completed", "failed"}
    BY DEF IInv, TypeOK, Active, Final
  <1>3. s = "completed" => row[i] # "queued"
    BY DEF IInv, NotCalled
  <1>4. \/ w = row[i]
        \/ row[i] \in {"running", "failed"} /\ runs[i] = 1 /\ w = "completed"
        \/ row[i] \in {"queued", "running", "completed"} /\ w = "failed"
    BY <1>2, <1>3 DEF Final
  <1> HIDE DEF w
  <1> QED
    BY <1>1, <1>4, RowMoves DEF IInv

\* So may the failure of a row that is active.
LEMMA FailureMoves ==
    ASSUME TypeOK, UNCHANGED runs, NEW i \in Invocations, FailIfActive(i)
    PROVE  [Contract!Next]_(Contract!vars)
  <1> DEFINE w == IF row[i] \in Active THEN "failed" ELSE row[i]
  <1>1. row' = [row EXCEPT ![i] = w]
    BY DEF FailIfActive
  <1>2. w = row[i] \/ (row[i] \in {"queued", "running", "completed"} /\ w = "failed")
    BY DEF Active
  <1> HIDE DEF w
  <1> QED
    BY <1>1, <1>2, RowMoves

\* A step that touches neither rows nor calls.
LEMMA NothingMoves ==
    ASSUME UNCHANGED <<row, runs>>
    PROVE  [Contract!Next]_(Contract!vars)
  BY DEF Contract!vars

\* The request of an invocation: it accepts it, calls for itself, and writes
\* outcomes.
LEMMA RequestKeepsContract ==
    ASSUME IInv, NEW i \in Invocations, Request(i)
    PROVE  [Contract!Next]_(Contract!vars)
  <1>1. CASE CreateInvocation(i)
    <2>1. row[i] = "none" /\ row' = [row EXCEPT ![i] = FirstStatus(i)] /\ UNCHANGED runs
      BY <1>1 DEF CreateInvocation, IInv, NewHasNoRow
    <2>2. FirstStatus(i) \in {"queued", "running"}
      BY DEF FirstStatus
    <2> QED
      BY <2>1, <2>2, RowMoves DEF IInv
  <1>6. CASE CreateFails(i)
    <2>1. /\ row[i] = "none" /\ UNCHANGED runs
          /\ UNCHANGED row \/ row' = [row EXCEPT ![i] = FirstStatus(i)]
      BY <1>6 DEF CreateFails, IInv, NewHasNoRow
    <2>2. FirstStatus(i) \in {"queued", "running"}
      BY DEF FirstStatus
    <2> QED
      BY <2>1, <2>2, RowMoves, NothingMoves DEF IInv
  <1>2. CASE EnqueueInvocation(i) \/ EnqueueFails(i) \/ ServerCrash(i)
    BY <1>2, NothingMoves DEF EnqueueInvocation, EnqueueFails, ServerCrash
  <1>3. CASE RecordEnqueueFailure(i) \/ RefuseInRequest(i)
    <2>1. UNCHANGED runs /\ (UNCHANGED row \/ Overwrite(i, "failed"))
      BY <1>3 DEF RecordEnqueueFailure, RefuseInRequest
    <2> QED
      BY <2>1, OutcomeMoves, NothingMoves DEF Final
  <1>4. CASE CallInRequest(i)
    <2>1. UNCHANGED row /\ runs' = [runs EXCEPT ![i] = @ + 1] /\ runs[i] = 0
      BY <1>4 DEF CallInRequest, IInv, NotCalled
    <2>2. row[i] \notin {"none", "queued", "completed"}
      BY <1>4, <2>1 DEF CallInRequest, IInv, SyncRow, CompletedWasCalled
    <2>3. row[i] \in {"running", "failed", "gone"}
      BY <2>2 DEF IInv, TypeOK, Active, Final
    <2> QED
      BY <2>1, <2>3, CallsMove DEF IInv
  <1>5. CASE RecordInRequest(i)
    <2>1. UNCHANGED runs /\ (UNCHANGED row \/ \E s \in Final : Overwrite(i, s))
      BY <1>5 DEF RecordInRequest
    <2>2. runs[i] = 1
      BY <1>5 DEF RecordInRequest, IInv, Called
    <2> QED
      BY <2>1, <2>2, OutcomeMoves, NothingMoves
  <1> QED
    BY <1>1, <1>2, <1>3, <1>4, <1>5, <1>6 DEF Request, GoesOn

\* The consumers: they take the row, give it back before the call, call once,
\* and write the outcome.
LEMMA ConsumerKeepsContract ==
    ASSUME IInv, NEW c \in Consumers,
           Dequeue(c) \/ Process(c) \/ Finish(c) \/ ConsumerCrash(c)
    PROVE  [Contract!Next]_(Contract!vars)
  <1> DEFINE i == Held(c).inv
  <1>1. ~At(c, "idle") => i \in Invocations
    BY HeldMessage DEF IInv
  <1>2. CASE Dequeue(c) \/ ConsumerCrash(c)
    BY <1>2, NothingMoves DEF Dequeue, ClaimPending, ReadNext, ReadFails, ConsumerCrash
  <1>3. CASE ClaimRow(c) \/ ClaimRowFails(c)
    <2>1. i \in Invocations
      BY <1>1, <1>3 DEF ClaimRow, ClaimRowFails, At
    <2>2. UNCHANGED runs /\ (UNCHANGED row \/ (row[i] = "queued" /\ row' = [row EXCEPT ![i] = "running"]))
      BY <1>3, <2>1 DEF ClaimRow, ClaimRowFails, IInv, TypeOK
    <2>3. row[i] = "queued" => runs[i] = 0
      BY <2>1 DEF IInv, NotCalled
    <2> HIDE DEF i
    <2> QED
      BY <2>1, <2>2, <2>3, RowMoves, NothingMoves DEF IInv
  <1>4. CASE LoadFails(c)
    <2>1. i \in Invocations /\ Works(c, i)
      BY <1>1, <1>4 DEF LoadFails, At, Works, Holds
    <2>2. UNCHANGED runs /\ (UNCHANGED row \/ (row[i] = "running" /\ row' = [row EXCEPT ![i] = "queued"]))
      BY <1>4, <2>1 DEF LoadFails, IInv, TypeOK
    <2>3. runs[i] = 0
      BY <2>1 DEF IInv, NotCalled
    <2> HIDE DEF i
    <2> QED
      BY <2>1, <2>2, <2>3, RowMoves, NothingMoves DEF IInv
  <1>5. CASE LoadFunction(c)
    <2>1. i \in Invocations
      BY <1>1, <1>5 DEF LoadFunction, At
    <2>2. UNCHANGED runs /\ (UNCHANGED row \/ Overwrite(i, "failed"))
      BY <1>5 DEF LoadFunction
    <2> HIDE DEF i
    <2> QED
      BY <2>1, <2>2, OutcomeMoves, NothingMoves DEF Final
  <1>6. CASE CallTarget(c)
    <2>1. i \in Invocations /\ Works(c, i)
      BY <1>1, <1>6 DEF CallTarget, At, Works, Holds
    <2>2. runs[i] = 0 /\ row[i] \notin {"none", "queued", "completed"}
      BY <2>1 DEF IInv, NotCalled, CompletedWasCalled
    <2>3. row[i] \in {"running", "failed", "gone"}
      BY <2>1, <2>2 DEF IInv, TypeOK, Active, Final
    <2>4. UNCHANGED row /\ (UNCHANGED runs \/ runs' = [runs EXCEPT ![i] = @ + 1])
      BY <1>6 DEF CallTarget
    <2> HIDE DEF i
    <2> QED
      BY <2>1, <2>2, <2>3, <2>4, CallsMove, NothingMoves DEF IInv
  <1>7. CASE RecordOutcome(c)
    <2>1. i \in Invocations /\ runs[i] = 1
      BY <1>1, <1>7 DEF RecordOutcome, At, IInv, Called, Holds
    <2>2. UNCHANGED runs /\ (UNCHANGED row \/ \E s \in Final : Overwrite(i, s))
      BY <1>7 DEF RecordOutcome
    <2> HIDE DEF i
    <2> QED
      BY <2>1, <2>2, OutcomeMoves, NothingMoves
  <1>8. CASE Finish(c)
    <2>1. i \in Invocations
      BY <1>1, <1>8 DEF Finish, RequeueMessage, RequeueFails, GiveUp,
         MarkInvocationFailed, AckMessage, At
    <2>2. UNCHANGED runs /\ (UNCHANGED row \/ FailIfActive(i))
      BY <1>8 DEF Finish, RequeueMessage, RequeueFails, GiveUp, MarkInvocationFailed,
         AckMessage
    <2> HIDE DEF i
    <2> QED
      BY <2>1, <2>2, FailureMoves, NothingMoves DEF IInv
  <1> QED
    BY <1>2, <1>3, <1>4, <1>5, <1>6, <1>7, <1>8 DEF Process

\* Every step is a step of the contract or leaves it alone.
LEMMA ContractStep ==
    ASSUME IInv, [Next]_vars
    PROVE  [Contract!Next]_(Contract!vars)
  <1>1. ASSUME NEW i \in Invocations, RecoverOrphan(i)
        PROVE  [Contract!Next]_(Contract!vars)
    BY <1>1, FailureMoves DEF RecoverOrphan, IInv
  <1>2. ASSUME NEW i \in Invocations, PruneInvocation(i)
        PROVE  [Contract!Next]_(Contract!vars)
    BY <1>2, RowMoves DEF PruneInvocation, IInv
  <1>3. CASE TrimQueue \/ UNCHANGED vars
    BY <1>3, NothingMoves DEF TrimQueue, vars
  <1> QED
    BY <1>1, <1>2, <1>3, RequestKeepsContract, ConsumerKeepsContract DEF Next

\* Redelivery, takeover, retries, crashes, recovery and pruning keep the contract
\* of the invocation record, for any invocations, consumers, retries and faults.
THEOREM InvocationsKeepContract == Spec => KeepsContract
  <1>1. Init => Contract!Init
    BY DEF Init, Contract!Init
  <1>2. IInv /\ [Next]_vars => [Contract!Next]_(Contract!vars)
    BY ContractStep
  <1> QED
    BY <1>1, <1>2, Invariance, PTL DEF Spec, KeepsContract, Contract!Spec
=============================================================================
