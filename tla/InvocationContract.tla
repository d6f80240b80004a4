-------------------------- MODULE InvocationContract --------------------------
(* What the record of an invocation promises to whoever reads it, whatever    *)
(* the queue delivers twice, whoever dies and whoever recovers: the target is *)
(* called once at most, nothing that was called is queued again, "completed"  *)
(* is only said after the call, and what is final never becomes active.       *)
EXTENDS Naturals

CONSTANT Invocations

VARIABLES
    status,  \* what the record of each invocation says
    calls    \* how often its target was called

vars == <<status, calls>>

Init ==
    /\ status = [i \in Invocations |-> "none"]
    /\ calls = [i \in Invocations |-> 0]

Becomes(i, s) ==
    /\ status' = [status EXCEPT ![i] = s]
    /\ UNCHANGED calls

Accept(i) ==
    /\ status[i] = "none"
    /\ \E s \in {"queued", "running"} : Becomes(i, s)

Take(i) == status[i] = "queued" /\ calls[i] = 0 /\ Becomes(i, "running")

\* Only what was not called goes back to the queue.
GiveBack(i) == status[i] = "running" /\ calls[i] = 0 /\ Becomes(i, "queued")

\* The record may have been failed, and pruned, before the call.
Call(i) ==
    /\ status[i] \in {"running", "failed", "gone"}
    /\ calls[i] = 0
    /\ calls' = [calls EXCEPT ![i] = 1]
    /\ UNCHANGED status

\* A late outcome overwrites a failure ...
Complete(i) ==
    /\ status[i] \in {"running", "failed"}
    /\ calls[i] = 1
    /\ Becomes(i, "completed")

\* ... and a failing enqueue an outcome.
Fail(i) == status[i] \in {"queued", "running", "completed"} /\ Becomes(i, "failed")

Prune(i) == status[i] \in {"completed", "failed"} /\ Becomes(i, "gone")

Next ==
    \E i \in Invocations :
      \/ Accept(i) \/ Take(i) \/ GiveBack(i) \/ Call(i)
      \/ Complete(i) \/ Fail(i) \/ Prune(i)

Spec == Init /\ [][Next]_vars
=============================================================================
