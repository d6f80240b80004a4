------------------------------ MODULE MCServices ------------------------------
(* The services that keep their promises through a unique row, a key or a     *)
(* compare-and-set alone.  They share no state and never call one another, so *)
(* a behaviour exercises one of them and leaves the others where they start.  *)
EXTENDS Assets, TLC

CONSTANTS
    Winners, Actors, MaxCalls,
    Callers, Bodies, MaxRequests,
    Workers, Period, Grace, Budget, MaxInstant, MaxErrors,
    Refreshes, MaxTokens,
    Servers, Visitors, TTL, MarkerTTL, MaxTime

ASSUME ServicesAssumption ==
    /\ MaxTokens \in Nat \ {0}
    /\ MaxCalls \in Nat /\ MaxRequests \in Nat /\ MaxErrors \in Nat
    /\ Period \in Nat \ {0} /\ Grace \in Nat /\ Budget \in Nat /\ MaxInstant \in Nat
    /\ TTL \in Nat /\ MarkerTTL \in Nat /\ MaxTime \in Nat

\* The marker, five minutes, outlives an entry of the cache, half a minute, and
\* whatever may fill or use one late.
ASSUME MarkerAssumption == MarkerTTL > 3 * Budget + TTL

VARIABLES
    service,  \* the service this behaviour exercises
    settlement, grants, rewards, acts, calls, voided,
    row, callers, requests, writes, answers, ended, masked,
    misfire, next, now, rounds, sent, errors, hidden, undone,
    lineage, current, previous, held, refreshes, minted, rotations, revived, aged, culprit,
    time, session, marker, cache, visits, signOut, lost, late

Settling == INSTANCE Settlement
Idem == INSTANCE RequestIdempotency
Cron == INSTANCE CronTriggers WITH MaxClock <- MaxInstant
Tokens == INSTANCE RefreshTokens WITH Calls <- Refreshes, calls <- refreshes,
                                      session <- lineage
Principals == INSTANCE PrincipalCache WITH Requests <- Visitors, requests <- visits,
                                           MaxClock <- MaxTime, now <- time

settlingVars == <<settlement, grants, rewards, acts, calls, voided>>
idempotencyVars == <<row, callers, requests, writes, answers, ended, masked>>
cronVars == <<misfire, next, now, rounds, sent, errors, hidden, undone>>
tokenVars == <<lineage, current, previous, held, refreshes, minted, rotations,
               revived, aged, culprit>>
principalVars == <<time, session, marker, cache, visits, signOut, lost, late>>
MCvars == <<service, vars, settlingVars, idempotencyVars, cronVars, tokenVars,
            principalVars>>

MCInit ==
    /\ service \in {"assets", "settlement", "idempotency", "cron", "tokens", "principals"}
    /\ Init /\ Settling!Init /\ Idem!Init /\ Cron!Init
    /\ Tokens!Init /\ Principals!Init
    /\ service # "assets" => class = "entitlement"
    /\ service # "cron" => misfire = "skip"

Exercise(s) == service = s /\ UNCHANGED service

MCNext ==
    \/ /\ Exercise("assets")
       /\ Next
       /\ UNCHANGED <<settlingVars, idempotencyVars, cronVars, tokenVars, principalVars>>
    \/ /\ Exercise("settlement")
       /\ Settling!Next
       /\ UNCHANGED <<vars, idempotencyVars, cronVars, tokenVars, principalVars>>
    \/ /\ Exercise("idempotency")
       /\ Idem!Next
       /\ UNCHANGED <<vars, settlingVars, cronVars, tokenVars, principalVars>>
    \/ /\ Exercise("cron")
       /\ Cron!Next
       /\ UNCHANGED <<vars, settlingVars, idempotencyVars, tokenVars, principalVars>>
    \/ /\ Exercise("tokens")
       /\ Tokens!Next
       /\ UNCHANGED <<vars, settlingVars, idempotencyVars, cronVars, principalVars>>
    \/ /\ Exercise("principals")
       /\ Principals!Next
       /\ UNCHANGED <<vars, settlingVars, idempotencyVars, cronVars, tokenVars>>

MCSpec == MCInit /\ [][MCNext]_MCvars

Symmetry ==
    Permutations(Keys) \cup Permutations(Txs)

-----------------------------------------------------------------------------
(* Properties: those of the services, under one roof *)

\* Every variable of every service keeps its type.
AllTypesOK ==
    /\ TypeOK /\ Settling!TypeOK /\ Idem!TypeOK /\ Cron!TypeOK
    /\ Tokens!TypeOK /\ Principals!TypeOK

\* Settlement: rounds, reruns, voids and crashes reward nobody twice, and a
\* grant is booked only for a reward that was made.
RewardsAreBooked == Settling!RewardsAreBooked

\* Settlement: a period voided in advance stays voided and rewards nobody.
VoidedInAdvance == Settling!VoidedInAdvance

\* Idempotency: of two callers that execute under one request_id, one has a
\* claim that ran out.
OneHolder == Idem!OneHolder

\* Idempotency: a replayed response is that of an applied write of that body.
ReplayIsTrue == Idem!ReplayIsTrue

\* Idempotency: a write is applied again only after a claim has run out or an
\* error hid the first.
AppliedPerClaim == Idem!AppliedPerClaim

\* Cron: an instant is dispatched again only after a run was put back.
RunsOnce == Cron!RunsOnce

\* Refresh tokens: a token is exchanged for one new token, unless a
\* registration that came late has put it in front again.
OneSuccessor == Tokens!OneSuccessor

\* Refresh tokens: retries and parallel tabs never end a session for reuse,
\* unless a registration came late.
ReuseIsGenuine == Tokens!ReuseIsGenuine

\* Sessions: who comes after a sign-out has been answered is refused, unless
\* the marker was lost.
RevokedIsRefused == Principals!RevokedIsRefused
=============================================================================
