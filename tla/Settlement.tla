------------------------------ MODULE Settlement ------------------------------
(* The settlement of one sealed period of a leaderboard: rounds of the        *)
(* workers, reruns and voids from the console run over the same two tables    *)
(* without a transaction around their steps, each with its own copy of the    *)
(* grants, and any of them may stop between two steps.                        *)
EXTENDS Naturals

CONSTANTS
    Winners,   \* pairs of rule and subject
    Actors,    \* calls of settleOne, RerunSettlement and VoidSettlement at a time
    MaxCalls   \* bound: calls ever made

VARIABLES
    settlement,  \* leaderboard_settlements.status of the period
    grants,      \* leaderboard_settlement_grants.status
    rewards,     \* external: how often the assets granted each reward
    acts,        \* the calls: step and copy of the grants
    calls,       \* what MaxCalls has left
    voided       \* observed: whether a void came before any round

vars == <<settlement, grants, rewards, acts, calls, voided>>

Stored == {"pending", "granted", "failed", "voided"}

\* A copy holds "none" for a grant it does not have, a row that is not there.
Copy == [Winners -> Stored \cup {"none"}]
NoCopy == [w \in Winners |-> "none"]

Idle == [pc |-> "idle", copy |-> NoCopy]

Init ==
    /\ settlement = "none"
    /\ grants = NoCopy
    /\ rewards = [w \in Winners |-> 0]
    /\ acts = [a \in Actors |-> Idle]
    /\ calls = 0
    /\ voided = "no"

At(a, pc) == acts[a].pc = pc
Goto(a, pc) == acts' = [acts EXCEPT ![a].pc = pc]
Return(a) == acts' = [acts EXCEPT ![a] = Idle]
Note(a, w, status) == acts' = [acts EXCEPT ![a].copy[w] = status]

Start(a, pc) ==
    /\ At(a, "idle")
    /\ calls < MaxCalls /\ calls' = calls + 1
    /\ Goto(a, pc)

\* The process dies, or the database does not answer; what was written stays.
Abandon(a) ==
    /\ ~At(a, "idle")
    /\ Return(a)
    /\ UNCHANGED <<settlement, grants, rewards, calls, voided>>

-----------------------------------------------------------------------------
(* settleOne *)

\* ClaimPending: the unique row of the period arbitrates between the workers.
Claim(a) ==
    /\ settlement = "none"
    /\ Start(a, "claimed")
    /\ settlement' = "settling"
    /\ UNCHANGED <<grants, rewards, voided>>

\* planGrants names the winners; SaveGrants inserts them one by one.
SavePlan(a, w) ==
    /\ At(a, "claimed")
    /\ acts[a].copy[w] = "none"
    /\ grants' = [grants EXCEPT ![w] = "pending"]
    /\ Note(a, w, "pending")
    /\ UNCHANGED <<settlement, rewards, calls, voided>>

StartGrants(a) ==
    /\ At(a, "claimed")
    /\ \A w \in Winners : acts[a].copy[w] = "pending"
    /\ Goto(a, "granting")
    /\ UNCHANGED <<settlement, grants, rewards, calls, voided>>

Tried(a) == \A w \in Winners : acts[a].copy[w] # "pending"

\* The winners cannot be listed, or one of the two saves has stopped half way.
Fail(a) ==
    /\ \/ At(a, "claimed") /\ \E w \in Winners : acts[a].copy[w] = "none"
       \/ At(a, "granting") /\ Tried(a) /\ acts[a].copy # NoCopy
    /\ settlement' = "error"
    /\ Return(a)
    /\ UNCHANGED <<grants, rewards, calls, voided>>

-----------------------------------------------------------------------------
(* RerunSettlement *)

\* Faulty variant: a voided period can be run again.
RerunAny(a) ==
    /\ settlement # "none"
    /\ Start(a, "rerun")
    /\ UNCHANGED <<settlement, grants, rewards, voided>>

Rerun(a) ==
    /\ settlement \notin {"none", "voided"}
    /\ Start(a, "rerun")
    /\ UNCHANGED <<settlement, grants, rewards, voided>>

\* The update names the row only, whatever it has become since it was read.
ResetToPending(a) ==
    /\ At(a, "rerun")
    /\ settlement' = "settling"
    /\ Goto(a, "reset")
    /\ UNCHANGED <<grants, rewards, calls, voided>>

\* Whatever is not granted is tried again.
ListGrants(a) ==
    /\ At(a, "reset")
    /\ acts' = [acts EXCEPT ![a] =
         [pc |-> "regranting",
          copy |-> [w \in Winners |->
                      IF grants[w] \in {"none", "granted"} THEN grants[w] ELSE "pending"]]]
    /\ UNCHANGED <<settlement, grants, rewards, calls, voided>>

-----------------------------------------------------------------------------
(* Granting, saving and completing: the same loop in a round and a rerun *)

Granting(a) == At(a, "granting") \/ At(a, "regranting")

\* Faulty variant: the key of a reward is new in every call.
GrantNewKey(w) == rewards' = [rewards EXCEPT ![w] = @ + 1]

\* The assets recognise the key lbsettle:<board>:<period>:<rule>:<subject>.
GrantReward(w) == rewards' = [rewards EXCEPT ![w] = 1]

\* An error may hide a grant that was made.
GrantOne(a, w) ==
    /\ Granting(a)
    /\ acts[a].copy[w] = "pending"
    /\ \/ GrantReward(w) /\ Note(a, w, "granted")
       \/ GrantReward(w) /\ Note(a, w, "failed")
       \/ UNCHANGED rewards /\ Note(a, w, "failed")
    /\ UNCHANGED <<settlement, grants, calls, voided>>

\* When every grant has been tried, or voided, the copy is written over the
\* rows, each in a statement of its own; what is written leaves the copy.
SaveGrant(a, w) ==
    /\ At(a, "voiding") \/ (Granting(a) /\ Tried(a))
    /\ acts[a].copy[w] # "none"
    /\ grants' = [grants EXCEPT ![w] = acts[a].copy[w]]
    /\ Note(a, w, "none")
    /\ UNCHANGED <<settlement, rewards, calls, voided>>

Complete(a) ==
    /\ Granting(a)
    /\ acts[a].copy = NoCopy
    /\ settlement' = "settled"
    /\ Return(a)
    /\ UNCHANGED <<grants, rewards, calls, voided>>

-----------------------------------------------------------------------------
(* VoidSettlement *)

\* Nobody has settled the period: the voided row is inserted in advance.
VoidInAdvance(a) ==
    /\ settlement = "none"
    /\ At(a, "idle")
    /\ calls < MaxCalls /\ calls' = calls + 1
    /\ settlement' = "voided"
    /\ voided' = "in advance"
    /\ UNCHANGED <<grants, rewards, acts>>

VoidExisting(a) ==
    /\ settlement \in {"settling", "error"}
    /\ Start(a, "void")
    /\ UNCHANGED <<settlement, grants, rewards, voided>>

Void(a) ==
    /\ At(a, "void")
    /\ settlement' = "voided"
    /\ Goto(a, "list")
    /\ UNCHANGED <<grants, rewards, calls, voided>>

\* What is not granted when it is listed becomes voided.
ListForVoid(a) ==
    /\ At(a, "list")
    /\ acts' = [acts EXCEPT ![a] =
         [pc |-> "voiding",
          copy |-> [w \in Winners |->
                      IF grants[w] \in {"none", "granted"} THEN grants[w] ELSE "voided"]]]
    /\ UNCHANGED <<settlement, grants, rewards, calls, voided>>

VoidDone(a) ==
    /\ At(a, "voiding")
    /\ acts[a].copy = NoCopy
    /\ Return(a)
    /\ UNCHANGED <<settlement, grants, rewards, calls, voided>>

-----------------------------------------------------------------------------

Round(a) == Claim(a) \/ (\E w \in Winners : SavePlan(a, w)) \/ StartGrants(a) \/ Fail(a)

Loop(a) == (\E w \in Winners : GrantOne(a, w) \/ SaveGrant(a, w)) \/ Complete(a)

Console(a) ==
    \/ Rerun(a) \/ ResetToPending(a) \/ ListGrants(a)
    \/ VoidInAdvance(a) \/ VoidExisting(a) \/ Void(a) \/ ListForVoid(a) \/ VoidDone(a)

Next == \E a \in Actors : Round(a) \/ Loop(a) \/ Console(a) \/ Abandon(a)

Spec == Init /\ [][Next]_vars

-----------------------------------------------------------------------------
(* Properties *)

\* Every variable keeps its type.
TypeOK ==
    /\ settlement \in {"none", "settling", "settled", "error", "voided"}
    /\ grants \in Copy
    /\ rewards \in [Winners -> Nat]
    /\ acts \in [Actors ->
         [pc : {"idle", "claimed", "granting", "rerun", "reset", "regranting",
                "void", "list", "voiding"}, copy : Copy]]
    /\ calls \in 0 .. MaxCalls
    /\ voided \in {"no", "in advance"}

\* Rounds, reruns and crashes in any order reward nobody twice, and a grant is
\* only booked for a reward that was made.
RewardsAreBooked ==
    \A w \in Winners :
      /\ rewards[w] <= 1
      /\ grants[w] = "granted" => rewards[w] = 1

\* A period that was voided before anybody settled it stays voided and rewards
\* nobody, whatever rounds and reruns are started for it.
VoidedInAdvance ==
    voided = "in advance" =>
      settlement = "voided" /\ \A w \in Winners : rewards[w] = 0 /\ grants[w] = "none"
=============================================================================
