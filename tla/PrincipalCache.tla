---------------------------- MODULE PrincipalCache ----------------------------
(* Who may use a session: the row, the cache of principals every server keeps *)
(* for a short time, and the marker in Redis that recalls them.  A request    *)
(* reads the row, and fills the cache some time later; a sign-out recalls the *)
(* caches before its transaction commits.                                     *)
EXTENDS Naturals

CONSTANTS
    Servers,    \* processes
    Requests,   \* requests at a time
    TTL,        \* life of a cached principal
    MarkerTTL,  \* life of the marker
    Budget,     \* longest a request or a sign-out takes
    MaxClock    \* bound: instants

VARIABLES
    now,        \* the clock
    session,    \* the session row as others see it
    marker,     \* instant at which the marker is gone
    cache,      \* per server, the instant after which the entry is stale
    requests,   \* requests that are being authenticated
    signOut,    \* the call that deletes the session
    lost,       \* observed: the marker could not be written
    late        \* observed: last instant somebody was admitted who came after it

vars == <<now, session, marker, cache, requests, signOut, lost, late>>

NoEntry == [until |-> 0]
NoRequest == [pc |-> "idle"]
NoSignOut == [pc |-> "none"]

Init ==
    /\ now = 0
    /\ session = "live"
    /\ marker = 0
    /\ cache = [s \in Servers |-> NoEntry]
    /\ requests = [r \in Requests |-> NoRequest]
    /\ signOut = NoSignOut
    /\ lost = FALSE
    /\ late = 0

Tick ==
    /\ now < MaxClock /\ now' = now + 1
    /\ UNCHANGED <<session, marker, cache, requests, signOut, lost, late>>

Evict(s) == cache' = [cache EXCEPT ![s] = NoEntry]

-----------------------------------------------------------------------------
(* principalFromJWT, principalFromSession *)

At(r, pc) == requests[r].pc = pc /\ now <= requests[r].since + Budget
Goto(r, pc) == requests' = [requests EXCEPT ![r].pc = pc]
Return(r) == requests' = [requests EXCEPT ![r] = NoRequest]

\* after: whether the user had been told that the session was gone.
Arrive(r) ==
    /\ requests[r].pc = "idle"
    /\ \E s \in Servers :
         requests' = [requests EXCEPT ![r] =
           [pc |-> "look", server |-> s, since |-> now, after |-> signOut.pc = "done"]]
    /\ UNCHANGED <<now, session, marker, cache, signOut, lost, late>>

\* An entry that is too old is removed.
Look(r) ==
    LET s == requests[r].server IN
    /\ At(r, "look")
    /\ \/ /\ cache[s] = NoEntry \/ now > cache[s].until
          /\ Evict(s)
          /\ Goto(r, "read")
       \/ /\ cache[s] # NoEntry /\ now <= cache[s].until
          /\ Goto(r, "check")
          /\ UNCHANGED cache
    /\ UNCHANGED <<now, session, marker, signOut, lost, late>>

\* The handler runs; nothing else is looked at any more.
Admit(r) ==
    /\ late' = IF requests[r].after THEN now ELSE late
    /\ Return(r)

\* The marker removes the entry, and so does a Redis that does not answer.
CheckMarker(r) ==
    /\ At(r, "check")
    /\ \/ Evict(requests[r].server) /\ Goto(r, "read") /\ UNCHANGED late
       \/ now >= marker /\ Admit(r) /\ UNCHANGED cache
    /\ UNCHANGED <<now, session, marker, signOut, lost>>

ReadSession(r) ==
    /\ At(r, "read")
    /\ IF session = "live" THEN Goto(r, "put") ELSE Return(r)
    /\ UNCHANGED <<now, session, marker, cache, signOut, lost, late>>

\* After the user and the roles were read too.
Put(r) ==
    /\ At(r, "put")
    /\ cache' = [cache EXCEPT ![requests[r].server] = [until |-> now + TTL]]
    /\ Admit(r)
    /\ UNCHANGED <<now, session, marker, signOut, lost>>

\* An error, or the caller has gone.
Leave(r) ==
    /\ requests[r].pc # "idle"
    /\ Return(r)
    /\ UNCHANGED <<now, session, marker, cache, signOut, lost, late>>

-----------------------------------------------------------------------------
(* SignOut deletes the row in a transaction around DeleteSession; the other   *)
(* callers let DeleteSession delete it at once.                               *)

Step(pc) == signOut.pc = pc /\ now <= signOut.since + Budget

\* Bound: early enough for the marker to run out.
BeginSignOut ==
    /\ signOut = NoSignOut
    /\ now + MarkerTTL <= MaxClock
    /\ \E s \in Servers, tx \in BOOLEAN :
         signOut' = [pc |-> IF tx THEN "evict" ELSE "delete", server |-> s,
                     since |-> now, tx |-> tx]
    /\ UNCHANGED <<now, session, marker, cache, requests, lost, late>>

DeleteRow ==
    /\ Step("delete")
    /\ session' = "gone"
    /\ signOut' = [signOut EXCEPT !.pc = "evict"]
    /\ UNCHANGED <<now, marker, cache, requests, lost, late>>

InvalidateLocal ==
    /\ Step("evict")
    /\ Evict(signOut.server)
    /\ signOut' = [signOut EXCEPT !.pc = "mark"]
    /\ UNCHANGED <<now, session, marker, requests, lost, late>>

AfterMark == [signOut EXCEPT !.pc = IF signOut.tx THEN "commit" ELSE "done"]

\* Faulty variant: the marker lives as long as an entry.
WriteMarkerShort ==
    /\ Step("mark")
    /\ \/ marker' = now + TTL /\ UNCHANGED lost
       \/ lost' = TRUE /\ UNCHANGED marker
    /\ signOut' = AfterMark
    /\ UNCHANGED <<now, session, cache, requests, late>>

\* A marker that cannot be written is only logged.
WriteMarker ==
    /\ Step("mark")
    /\ \/ marker' = now + MarkerTTL /\ UNCHANGED lost
       \/ lost' = TRUE /\ UNCHANGED marker
    /\ signOut' = AfterMark
    /\ UNCHANGED <<now, session, cache, requests, late>>

CommitSignOut ==
    /\ Step("commit")
    /\ session' = "gone"
    /\ signOut' = [signOut EXCEPT !.pc = "done"]
    /\ UNCHANGED <<now, marker, cache, requests, lost, late>>

\* The process dies or the transaction rolls back: nobody is told anything.
SignOutFails ==
    /\ signOut.pc \in {"delete", "evict", "mark", "commit"}
    /\ signOut' = [signOut EXCEPT !.pc = "failed"]
    /\ UNCHANGED <<now, session, marker, cache, requests, lost, late>>

-----------------------------------------------------------------------------

Authenticate(r) ==
    \/ Arrive(r) \/ Look(r) \/ CheckMarker(r) \/ ReadSession(r) \/ Put(r) \/ Leave(r)

End ==
    \/ BeginSignOut \/ DeleteRow \/ InvalidateLocal \/ WriteMarker
    \/ CommitSignOut \/ SignOutFails

Next == Tick \/ (\E r \in Requests : Authenticate(r)) \/ End

Spec == Init /\ [][Next]_vars

-----------------------------------------------------------------------------
(* Properties *)

Instant == 0 .. MaxClock + MarkerTTL

\* Every variable keeps its type.
TypeOK ==
    /\ now \in 0 .. MaxClock
    /\ session \in {"live", "gone"}
    /\ marker \in Instant
    /\ cache \in [Servers -> [until : Instant]]
    /\ requests \in [Requests -> {NoRequest} \cup
         [pc : {"look", "check", "read", "put"}, server : Servers,
          since : Instant, after : BOOLEAN]]
    /\ signOut \in {NoSignOut} \cup
         [pc : {"delete", "evict", "mark", "commit", "done", "failed"},
          server : Servers, since : Instant, tx : BOOLEAN]
    /\ lost \in BOOLEAN
    /\ late \in 0 .. MaxClock

\* Who comes after a sign-out has been answered is refused by every server,
\* whoever read the session before and filled a cache late; only when the
\* marker was lost may the cache admit him, for the life of an entry.
RevokedIsRefused ==
    late > 0 => lost /\ late <= signOut.since + 3 * Budget + TTL
=============================================================================
