-------------------------- MODULE RequestIdempotency --------------------------
(* One request_id of one actor: every write that carries it first claims a    *)
(* row of idempotency_keys, executes, and completes or releases the claim.    *)
(* Callers retry and overlap, claims expire while their holders still work,   *)
(* and holders die; the token of the claim is all that keeps them apart.      *)
EXTENDS Naturals, FiniteSets

CONSTANTS
    Callers,   \* writes that run at the same time
    Bodies,    \* fingerprints of method and body that come with the request_id
    MaxRequests   \* bound: writes ever received

VARIABLES
    row,      \* the row of the key in idempotency_keys
    callers,  \* the writes under way
    requests,    \* what MaxRequests has left; also numbers the claim tokens
    writes,   \* observed: writes applied, with the claim they were made under
    answers,  \* observed: responses replayed from the row
    ended,    \* observed: claims whose row was deleted as expired
    masked    \* observed: writes applied although the execution reported an error

vars == <<row, callers, requests, writes, answers, ended, masked>>

NoRow == [token |-> 0]
Idle == [pc |-> "idle"]

Init ==
    /\ row = NoRow
    /\ callers = [c \in Callers |-> Idle]
    /\ requests = 0
    /\ writes = {} /\ answers = {} /\ ended = {}
    /\ masked = 0

At(c, pc) == callers[c].pc = pc
Goto(c, pc) == callers' = [callers EXCEPT ![c].pc = pc]
Return(c) == callers' = [callers EXCEPT ![c] = Idle]

\* A claim's token; each call claims at most once, so its number serves.
Token(c) == callers[c].token

Begin(c) ==
    /\ At(c, "idle")
    /\ requests < MaxRequests /\ requests' = requests + 1
    /\ \E body \in Bodies :
         callers' = [callers EXCEPT ![c] =
           [pc |-> "clean", body |-> body, token |-> requests + 1]]
    /\ UNCHANGED <<row, writes, answers, ended, masked>>

-----------------------------------------------------------------------------
(* TryClaim *)

\* The row may have expired, in flight or done, and nobody but this statement
\* looks; deleting what has expired is best effort.
Clean(c) ==
    /\ At(c, "clean")
    /\ Goto(c, "insert")
    /\ \/ row # NoRow /\ row' = NoRow /\ ended' = ended \cup {row.token}
       \/ UNCHANGED <<row, ended>>
    /\ UNCHANGED <<requests, writes, answers, masked>>

\* INSERT ... ON CONFLICT DO NOTHING
Insert(c) ==
    /\ At(c, "insert")
    /\ IF row = NoRow
       THEN /\ row' = [token |-> Token(c), body |-> callers[c].body, state |-> "in_flight",
                       payload |-> 0]
            /\ Goto(c, "exec")
       ELSE UNCHANGED row /\ Goto(c, "read")
    /\ UNCHANGED <<requests, writes, answers, ended, masked>>

\* The row that was in the way is gone again: a few attempts, then an error.
RowVanished(c) ==
    /\ row = NoRow
    /\ Goto(c, "insert") \/ Return(c)
    /\ UNCHANGED answers

KeyConflict(c) ==
    /\ row # NoRow /\ row.body # callers[c].body
    /\ Return(c)
    /\ UNCHANGED answers

Replay(c) ==
    /\ row # NoRow /\ row.body = callers[c].body /\ row.state = "done"
    /\ answers' = answers \cup {[body |-> callers[c].body, token |-> row.payload]}
    /\ Return(c)

InFlight(c) ==
    /\ row # NoRow /\ row.body = callers[c].body /\ row.state = "in_flight"
    /\ Goto(c, "wait")
    /\ UNCHANGED answers

\* Faulty variant: any completed row of the key is an answer.
ReadAnyBody(c) ==
    /\ At(c, "read")
    /\ IF row # NoRow /\ row.state = "done"
       THEN /\ answers' = answers \cup {[body |-> callers[c].body, token |-> row.payload]}
            /\ Return(c)
       ELSE RowVanished(c) \/ KeyConflict(c) \/ InFlight(c)
    /\ UNCHANGED <<row, requests, writes, ended, masked>>

Read(c) ==
    /\ At(c, "read")
    /\ RowVanished(c) \/ KeyConflict(c) \/ Replay(c) \/ InFlight(c)
    /\ UNCHANGED <<row, requests, writes, ended, masked>>

\* The wait is over: a new claim, or IN_PROGRESS when the budget is used up.
Poll(c) ==
    /\ At(c, "wait")
    /\ \/ Goto(c, "clean")
       \/ Return(c)
    /\ UNCHANGED <<row, requests, writes, answers, ended, masked>>

-----------------------------------------------------------------------------
(* The execution and what becomes of the claim *)

Write(c) == [body |-> callers[c].body, token |-> Token(c)]

Execute(c) ==
    /\ At(c, "exec")
    /\ writes' = writes \cup {Write(c)}
    /\ Goto(c, "complete")
    /\ UNCHANGED <<row, requests, answers, ended, masked>>

\* The error may hide a write whose commit has succeeded.
ExecuteFails(c) ==
    /\ At(c, "exec")
    /\ \/ UNCHANGED <<writes, masked>>
       \/ writes' = writes \cup {Write(c)} /\ masked' = masked + 1
    /\ Goto(c, "release")
    /\ UNCHANGED <<row, requests, answers, ended>>

\* Faulty variant: the claim is compared by its key alone.
OwnsAnyClaim(c) == row # NoRow /\ row.state = "in_flight"

OwnsClaim(c) == row # NoRow /\ row.token = Token(c) /\ row.state = "in_flight"

\* Faulty variant: the claim is given back after every execution.
CompleteReleases(c) ==
    /\ At(c, "complete")
    /\ row' = IF OwnsClaim(c) THEN NoRow ELSE row
    /\ Return(c)
    /\ UNCHANGED <<requests, writes, answers, ended, masked>>

\* Best effort: a row that is not the caller's any more is left alone.
Complete(c) ==
    /\ At(c, "complete")
    /\ row' = IF OwnsClaim(c)
              THEN [row EXCEPT !.state = "done", !.payload = Token(c)]
              ELSE row
    /\ Return(c)
    /\ UNCHANGED <<requests, writes, answers, ended, masked>>

Release(c) ==
    /\ At(c, "release")
    /\ row' = IF OwnsClaim(c) THEN NoRow ELSE row
    /\ Return(c)
    /\ UNCHANGED <<requests, writes, answers, ended, masked>>

\* The process dies, the caller goes away while it waits, or the store does
\* not answer: the claim stays where it is.
Abandon(c) ==
    /\ ~At(c, "idle")
    /\ Return(c)
    /\ UNCHANGED <<row, requests, writes, answers, ended, masked>>

-----------------------------------------------------------------------------

TryClaim(c) == Clean(c) \/ Insert(c) \/ Read(c) \/ Poll(c)

Settle(c) == Execute(c) \/ ExecuteFails(c) \/ Complete(c) \/ Release(c)

Next == \E c \in Callers : Begin(c) \/ TryClaim(c) \/ Settle(c) \/ Abandon(c)

Spec == Init /\ [][Next]_vars

-----------------------------------------------------------------------------
(* Properties *)

Tokens == 1 .. MaxRequests

CallType ==
    {Idle} \cup [pc : {"clean", "insert", "read", "wait", "exec", "complete", "release"},
                 body : Bodies, token : Tokens]

RowType ==
    {NoRow} \cup [token : Tokens, body : Bodies, state : {"in_flight", "done"},
                  payload : Tokens \cup {0}]

\* Every variable keeps its type.
TypeOK ==
    /\ row \in RowType
    /\ callers \in [Callers -> CallType]
    /\ requests \in 0 .. MaxRequests
    /\ writes \subseteq [body : Bodies, token : Tokens]
    /\ answers \subseteq [body : Bodies, token : Tokens \cup {0}]
    /\ ended \subseteq Tokens
    /\ masked \in Nat

Holds(c) == callers[c].pc \in {"exec", "complete", "release"}

\* Two callers execute under the same request_id at a time only when the claim
\* of one of them has run out: a holder that comes late neither completes nor
\* releases the claim of the next one.
OneHolder ==
    \A c, d \in Callers :
      c # d /\ Holds(c) /\ Holds(d) => Token(c) \in ended \/ Token(d) \in ended

\* A replayed response is that of a write that was applied, and of the very
\* body the caller has sent.
ReplayIsTrue == answers \subseteq writes

\* Retries apply the write again only after a claim has run out, or after an
\* error that hid a write, and no more often than that.
AppliedPerClaim == Cardinality(writes) <= 1 + Cardinality(ended) + masked
=============================================================================
