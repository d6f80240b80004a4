---------------------------- MODULE RefreshTokens ----------------------------
(* The refresh tokens of one session: every refresh rotates the chain in the  *)
(* store, then registers what it hands out.  Tabs of one client refresh at    *)
(* the same time, answers are lost and handlers are slow, so that a token may *)
(* be presented again, and a registration may come after later rotations.     *)
EXTENDS Naturals, FiniteSets

CONSTANTS
    Calls,     \* refreshes that run at the same time
    MaxTokens  \* bound: token ids ever minted

VARIABLES
    session,   \* the session row
    current,   \* id the chain is at, NoToken when it has expired
    previous,  \* id it was at, for a minute
    held,      \* tokens clients have been given
    calls,     \* the refreshes
    minted,    \* ids minted
    rotations, \* observed: <<from, to>> of every rotation
    revived,   \* observed: how often an id was registered over a later one
    aged,      \* observed: ids whose minute, or whose place, is over
    culprit    \* observed: the token whose reuse has ended the session

vars == <<session, current, previous, held, calls, minted, rotations, revived,
          aged, culprit>>

observed == <<rotations, revived, aged, culprit>>

Tokens == 1 .. MaxTokens
NoToken == 0
Idle == [pc |-> "idle", token |-> NoToken]

\* Signing in inserts the session and registers its first token.
Init ==
    /\ session = "live"
    /\ current = 1 /\ previous = NoToken
    /\ held = {1}
    /\ calls = [c \in Calls |-> Idle]
    /\ minted = 1
    /\ rotations = {}
    /\ revived = [t \in Tokens |-> 0]
    /\ aged = {}
    /\ culprit = NoToken

At(c, pc) == calls[c].pc = pc
Return(c) == calls' = [calls EXCEPT ![c] = Idle]

\* The token does not say that it was used; only a live session is refreshed.
RefreshToken(c, t) ==
    /\ At(c, "idle")
    /\ session = "live"
    /\ calls' = [calls EXCEPT ![c] = [pc |-> "rotate", token |-> t]]
    /\ UNCHANGED <<session, current, previous, held, minted, observed>>

-----------------------------------------------------------------------------
(* RedisRefreshRotationStore: two scripts, each atomic *)

Advance(t) ==
    /\ minted < MaxTokens /\ minted' = minted + 1
    /\ current' = minted + 1
    /\ previous' = t
    /\ rotations' = rotations \cup {<<t, minted + 1>>}
    /\ aged' = aged \cup ({previous} \ {NoToken, t})

\* Faulty variant: a token within its minute advances the chain once more.
RotateGraceAdvances(c) ==
    LET t == calls[c].token IN
    /\ At(c, "rotate") /\ current # NoToken
    /\ IF t \in {current, previous}
       THEN /\ Advance(t)
            /\ calls' = [calls EXCEPT ![c] = [pc |-> "register", token |-> minted + 1]]
       ELSE /\ calls' = [calls EXCEPT ![c].pc = "reuse"]
            /\ UNCHANGED <<current, previous, minted, rotations, aged>>
    /\ UNCHANGED <<session, held, revived, culprit>>

\* The current id makes way for a new one; the one before it, for a minute, is
\* answered with the current one; any other is a token used again.
Rotate(c) ==
    LET t == calls[c].token IN
    /\ At(c, "rotate") /\ current # NoToken
    /\ \/ /\ t = current
          /\ Advance(t)
          /\ calls' = [calls EXCEPT ![c] = [pc |-> "register", token |-> minted + 1]]
       \/ /\ t # current
          /\ calls' = [calls EXCEPT ![c] =
               IF t = previous THEN [pc |-> "register", token |-> current]
               ELSE [pc |-> "reuse", token |-> t]]
          /\ UNCHANGED <<current, previous, minted, rotations, aged>>
    /\ UNCHANGED <<session, held, revived, culprit>>

\* Without a record the client has to sign in.
RotateMissing(c) ==
    /\ At(c, "rotate") /\ current = NoToken
    /\ Return(c)
    /\ UNCHANGED <<session, current, previous, held, minted, observed>>

\* Faulty variant: the minute of the previous id ends with every registration.
RegisterClearsGrace(c) ==
    LET t == calls[c].token IN
    /\ At(c, "register")
    /\ current' = t
    /\ previous' = NoToken
    /\ held' = held \cup {t}
    /\ revived' = IF current # t THEN [revived EXCEPT ![t] = @ + 1] ELSE revived
    /\ Return(c)
    /\ UNCHANGED <<session, minted, rotations, aged, culprit>>

\* A registration of another id than the current one starts a new chain,
\* whatever the chain has become since the rotation.
Register(c) ==
    LET t == calls[c].token IN
    /\ At(c, "register")
    /\ current' = t
    /\ previous' = IF current \in {NoToken, t} THEN previous ELSE NoToken
    /\ held' = held \cup {t}
    /\ revived' = IF current # t THEN [revived EXCEPT ![t] = @ + 1] ELSE revived
    /\ Return(c)
    /\ UNCHANGED <<session, minted, rotations, aged, culprit>>

GraceEnds ==
    /\ previous # NoToken
    /\ previous' = NoToken
    /\ aged' = aged \cup {previous}
    /\ UNCHANGED <<session, current, held, calls, minted, rotations, revived, culprit>>

\* After days without a refresh, when every call has long come to its end.
ChainExpires ==
    /\ current # NoToken /\ previous = NoToken
    /\ \A c \in Calls : At(c, "idle")
    /\ current' = NoToken
    /\ UNCHANGED <<session, previous, held, calls, minted, observed>>

-----------------------------------------------------------------------------

\* A token used again ends the session.
EndForReuse(c) ==
    /\ At(c, "reuse")
    /\ session' = "gone"
    /\ culprit' = IF session = "live" THEN calls[c].token ELSE culprit
    /\ Return(c)
    /\ UNCHANGED <<current, previous, held, minted, rotations, revived, aged>>

SignOut ==
    /\ session = "live"
    /\ session' = "gone"
    /\ UNCHANGED <<current, previous, held, calls, minted, observed>>

\* The process dies, the store does not answer, or the answer is lost.
Abandon(c) ==
    /\ ~At(c, "idle")
    /\ Return(c)
    /\ UNCHANGED <<session, current, previous, held, minted, observed>>

-----------------------------------------------------------------------------

Refresh(c) ==
    \/ \E t \in held : RefreshToken(c, t)
    \/ Rotate(c) \/ RotateMissing(c) \/ Register(c) \/ EndForReuse(c) \/ Abandon(c)

Next == (\E c \in Calls : Refresh(c)) \/ GraceEnds \/ ChainExpires \/ SignOut

Spec == Init /\ [][Next]_vars

-----------------------------------------------------------------------------
(* Properties *)

\* Every variable keeps its type.
TypeOK ==
    /\ session \in {"live", "gone"}
    /\ current \in Tokens \cup {NoToken} /\ previous \in Tokens \cup {NoToken}
    /\ held \subseteq Tokens
    /\ calls \in [Calls -> [pc : {"idle", "rotate", "register", "reuse"},
                            token : Tokens \cup {NoToken}]]
    /\ minted \in Tokens
    /\ rotations \subseteq Tokens \X Tokens
    /\ revived \in [Tokens -> Nat]
    /\ aged \subseteq Tokens
    /\ culprit \in Tokens \cup {NoToken}

\* However many tabs present it, a token is exchanged for one new token only,
\* unless a registration that came late has put it in front again.
OneSuccessor ==
    \A t \in Tokens :
      Cardinality({p \in rotations : p[1] = t}) <= 1 + revived[t]

\* A session is ended for reuse only by a token that was out of its minute or
\* two rotations old: retries and parallel tabs never end one, unless a
\* registration came late.
ReuseIsGenuine ==
    culprit # NoToken => culprit \in aged \/ \E t \in Tokens : revived[t] > 0
=============================================================================
