--------------------------- MODULE WebhookPolicy ---------------------------
(* The retry policy of webhook deliveries (internal/domain/webhooks): pure   *)
(* decisions over attempt counts and instants, shared by the delivery row    *)
(* machine.  Instants are natural numbers of clock ticks.                    *)
EXTENDS Integers, Sequences

CONSTANTS
    Backoff,      \* the waits after the first, second, ... attempt
    MaxAttempts,  \* attempts granted to one round of a delivery
    RetryWindow   \* span after creation in which a next attempt may fall

\* NewDeliveryPolicy replaces every empty or non-positive field by a default,
\* and parseBackoff refuses a sequence with a non-positive member.
ASSUME PolicyAssumption ==
    /\ Backoff \in Seq(Nat \ {0})
    /\ Backoff # << >>
    /\ MaxAttempts \in Nat \ {0}
    /\ RetryWindow \in Nat \ {0}

\* The wait after the n-th attempt (n >= 1): the last value repeats.
BackoffFor(n) == Backoff[IF n > Len(Backoff) THEN Len(Backoff) ELSE n]

\* Is a due row that has made `attempts` attempts settled instead of claimed?
PlanTerminal(attempts, created, now) ==
    \/ attempts + 1 > MaxAttempts
    \/ now + BackoffFor(attempts + 1) > created + RetryWindow

\* Faulty variant: the claim does not move the due instant forward.
PlanNextAtOnce(attempts, now) == now

\* The instant a claim schedules the following attempt for.
PlanNext(attempts, now) == now + BackoffFor(attempts + 1)
=============================================================================
