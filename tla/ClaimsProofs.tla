----------------------------- MODULE ClaimsProofs -----------------------------
(* Proofs about the services that act at most once under a claim: settlements *)
(* of a leaderboard, requests under one request_id, and the runs of a cron    *)
(* trigger, for any winners, callers, workers, clocks and number of calls.    *)
EXTENDS MCServices, FiniteSetTheorems, TLAPS

-----------------------------------------------------------------------------
(* Settlement: a copy of the grants never knows more than the rewards.        *)

\* A copy in the hands of a call says "granted" only of rewards that were made.
CopiesTrue ==
    \A a \in Actors, w \in Winners :
      acts[a].copy[w] = "granted" => rewards[w] = 1

\* As long as nobody has settled the period, or when it was voided before that,
\* no call is under way and nothing was rewarded or stored.
Untouched ==
    /\ \A a \in Actors : acts[a].pc = "idle"
    /\ \A w \in Winners : rewards[w] = 0 /\ grants[w] = "none"

Unsettled ==
    /\ settlement = "none" => Untouched /\ voided = "no"
    /\ voided = "in advance" => settlement = "voided" /\ Untouched

SettlementTypes ==
    /\ settlement \in {"none", "settling", "settled", "error", "voided"}
    /\ grants \in Settling!Copy
    /\ rewards \in [Winners -> Nat]
    /\ acts \in [Actors ->
         [pc : {"idle", "claimed", "granting", "rerun", "reset", "regranting",
                "void", "list", "voiding"}, copy : Settling!Copy]]
    /\ voided \in {"no", "in advance"}

\* The inductive invariant; a bound on the number of calls is of no matter.
SettlementInv == SettlementTypes /\ CopiesTrue /\ Settling!RewardsAreBooked /\ Unsettled

-----------------------------------------------------------------------------
(* Initially *)

LEMMA SettlementInit == Settling!Init => SettlementInv
  BY DEF Settling!Init, SettlementInv, SettlementTypes, CopiesTrue,
         Settling!RewardsAreBooked, Unsettled, Untouched, Settling!Copy, Settling!Stored,
         Settling!NoCopy, Settling!Idle

-----------------------------------------------------------------------------
(* Every step *)

Pcs == {"idle", "claimed", "granting", "rerun", "reset", "regranting",
        "void", "list", "voiding"}
Act == [pc : Pcs, copy : Settling!Copy]

\* A step changes the record of one call; the rest is said per action.
LEMMA ActTypes ==
  ASSUME NEW a \in Actors, acts \in [Actors -> Act]
  PROVE  /\ Settling!Idle \in Act
         /\ \A pc \in Pcs : [acts EXCEPT ![a].pc = pc] \in [Actors -> Act]
         /\ \A c \in Act : [acts EXCEPT ![a] = c] \in [Actors -> Act]
         /\ \A w \in Winners, s \in Settling!Stored \cup {"none"} :
              [acts EXCEPT ![a].copy[w] = s] \in [Actors -> Act]
<1>1. Settling!Idle \in Act
  BY DEF Settling!Idle, Act, Pcs, Settling!NoCopy, Settling!Copy
<1>2. \A pc \in Pcs : [acts EXCEPT ![a].pc = pc] \in [Actors -> Act]
  BY DEF Act
<1>3. \A c \in Act : [acts EXCEPT ![a] = c] \in [Actors -> Act]
  OBVIOUS
<1>4. ASSUME NEW w \in Winners, NEW s \in Settling!Stored \cup {"none"}
      PROVE  [acts EXCEPT ![a].copy[w] = s] \in [Actors -> Act]
  <2>1. acts[a] \in Act
    OBVIOUS
  <2>2. [acts[a].copy EXCEPT ![w] = s] \in Settling!Copy
    BY <2>1 DEF Act, Settling!Copy
  <2>3. [acts[a] EXCEPT !.copy[w] = s] \in Act
    BY <2>1, <2>2 DEF Act
  <2> QED BY <2>3
<1> QED BY <1>1, <1>2, <1>3, <1>4

LEMMA SettlementTypesStep ==
  ASSUME SettlementTypes, [Settling!Next]_Settling!vars
  PROVE  SettlementTypes'
<1> USE DEF SettlementTypes
<1>0. acts \in [Actors -> Act]
  BY DEF Act, Pcs
<1>1. SUFFICES acts' \in [Actors -> Act] /\ grants' \in Settling!Copy
                  /\ rewards' \in [Winners -> Nat]
               /\ settlement' \in {"none", "settling", "settled", "error", "voided"}
               /\ voided' \in {"no", "in advance"}
  BY DEF Act, Pcs
<1> DEFINE Typed == acts' \in [Actors -> Act] /\ grants' \in Settling!Copy
       /\ rewards' \in [Winners -> Nat]
                    /\ settlement' \in {"none", "settling", "settled", "error", "voided"}
                    /\ voided' \in {"no", "in advance"}
<1>2. ASSUME NEW a \in Actors, Settling!Claim(a) PROVE Typed
  BY <1>0, <1>2, ActTypes
     DEF Settling!Claim, Settling!Start, Settling!At, Settling!Goto, Act, Pcs,
         Settling!Copy, Settling!Stored
<1>3. ASSUME NEW a \in Actors, NEW w \in Winners, Settling!SavePlan(a, w) PROVE Typed
  <2>1. acts' \in [Actors -> Act]
    BY <1>0, <1>3, ActTypes DEF Settling!SavePlan, Settling!Note, Settling!Stored
  <2>2. grants' \in Settling!Copy
    BY <1>3 DEF Settling!SavePlan, Settling!Copy, Settling!Stored
  <2> QED BY <1>3, <2>1, <2>2 DEF Settling!SavePlan
<1>4. ASSUME NEW a \in Actors, Settling!StartGrants(a) PROVE Typed
  BY <1>0, <1>4, ActTypes DEF Settling!StartGrants, Settling!Goto, Pcs
<1>5. ASSUME NEW a \in Actors, Settling!Fail(a) PROVE Typed
  BY <1>0, <1>5, ActTypes DEF Settling!Fail, Settling!Return
<1>6. ASSUME NEW a \in Actors, NEW w \in Winners, Settling!GrantOne(a, w) PROVE Typed
  <2>1. \A s \in {"granted", "failed"} : [acts EXCEPT ![a].copy[w] = s] \in [Actors -> Act]
    BY <1>0, ActTypes DEF Settling!Stored
  <2>2. acts' \in [Actors -> Act]
    BY <1>6, <2>1 DEF Settling!GrantOne, Settling!Note
  <2>3. rewards' = rewards \/ rewards' = [rewards EXCEPT ![w] = 1]
    BY <1>6 DEF Settling!GrantOne, Settling!GrantReward
  <2>4. rewards' \in [Winners -> Nat]
    <3>1. rewards \in [Winners -> Nat]
      OBVIOUS
    <3>2. \A r \in Nat : [rewards EXCEPT ![w] = r] \in [Winners -> Nat]
      BY <3>1
    <3>3. [rewards EXCEPT ![w] = 1] \in [Winners -> Nat]
      BY <3>2
    <3> QED BY <2>3, <3>1, <3>3
  <2> QED BY <1>6, <2>2, <2>4 DEF Settling!GrantOne
<1>7. ASSUME NEW a \in Actors, NEW w \in Winners, Settling!SaveGrant(a, w) PROVE Typed
  <2>1. acts' \in [Actors -> Act]
    BY <1>0, <1>7, ActTypes DEF Settling!SaveGrant, Settling!Note
  <2>2. acts[a].copy[w] \in Settling!Stored \cup {"none"}
    <3>1. acts[a] \in Act
      BY <1>0
    <3>2. acts[a].copy \in Settling!Copy
      BY <3>1 DEF Act
    <3> QED BY <3>2 DEF Settling!Copy
  <2>3. grants' \in Settling!Copy
    BY <1>7, <2>2 DEF Settling!SaveGrant, Settling!Copy
  <2> QED BY <1>7, <2>1, <2>3 DEF Settling!SaveGrant
<1>8. ASSUME NEW a \in Actors, Settling!Complete(a) PROVE Typed
  BY <1>0, <1>8, ActTypes
     DEF Settling!Complete, Settling!At, Settling!Return, Act, Pcs, Settling!Copy,
         Settling!Stored
<1>9. ASSUME NEW a \in Actors, Settling!Rerun(a) PROVE Typed
  BY <1>0, <1>9, ActTypes
     DEF Settling!Rerun, Settling!Start, Settling!At, Settling!Goto, Act, Pcs,
         Settling!Copy, Settling!Stored
<1>10. ASSUME NEW a \in Actors, Settling!ResetToPending(a) PROVE Typed
  BY <1>0, <1>10, ActTypes
     DEF Settling!ResetToPending, Settling!At, Settling!Goto, Act, Pcs, Settling!Copy,
         Settling!Stored
<1>11. ASSUME NEW a \in Actors, Settling!ListGrants(a) PROVE Typed
  BY <1>0, <1>11, ActTypes
     DEF Settling!ListGrants, Settling!At, Act, Pcs, Settling!Copy, Settling!Stored
<1>12. ASSUME NEW a \in Actors, Settling!VoidInAdvance(a) PROVE Typed
  BY <1>0, <1>12, ActTypes
     DEF Settling!VoidInAdvance, Settling!At, Act, Pcs, Settling!Copy, Settling!Stored
<1>13. ASSUME NEW a \in Actors, Settling!VoidExisting(a) PROVE Typed
  BY <1>0, <1>13, ActTypes
     DEF Settling!VoidExisting, Settling!Start, Settling!At, Settling!Goto, Act, Pcs,
         Settling!Copy, Settling!Stored
<1>14. ASSUME NEW a \in Actors, Settling!Void(a) PROVE Typed
  BY <1>0, <1>14, ActTypes
     DEF Settling!Void, Settling!At, Settling!Goto, Act, Pcs, Settling!Copy,
         Settling!Stored
<1>15. ASSUME NEW a \in Actors, Settling!ListForVoid(a) PROVE Typed
  BY <1>0, <1>15, ActTypes
     DEF Settling!ListForVoid, Settling!At, Act, Pcs, Settling!Copy, Settling!Stored
<1>16. ASSUME NEW a \in Actors, Settling!VoidDone(a) PROVE Typed
  BY <1>0, <1>16, ActTypes DEF Settling!VoidDone, Settling!Return
<1>17. ASSUME NEW a \in Actors, Settling!Abandon(a) PROVE Typed
  BY <1>0, <1>17, ActTypes
     DEF Settling!Abandon, Settling!Return, Act, Pcs, Settling!Copy, Settling!Stored
<1>18. CASE UNCHANGED Settling!vars
  BY <1>0, <1>18 DEF Settling!vars
<1> QED
  BY <1>1, <1>2, <1>3, <1>4, <1>5, <1>6, <1>7, <1>8, <1>9, <1>10, <1>11, <1>12, <1>13,
     <1>14, <1>15, <1>16, <1>17, <1>18 DEF Settling!Next, Settling!Round, Settling!Loop,
     Settling!Console

-----------------------------------------------------------------------------
(* Rewards and the grants booked for them *)

\* What a copy or a row says is granted was said so before, or is rewarded now.
CopyGrows ==
    \A b \in Actors, w \in Winners :
      acts'[b].copy[w] = "granted" =>
        acts[b].copy[w] = "granted" \/ grants[w] = "granted" \/ rewards'[w] = 1

RowGrows ==
    \A w \in Winners :
      grants'[w] = "granted" =>
        grants[w] = "granted" \/ \E a \in Actors : acts[a].copy[w] = "granted"

\* Rewards only ever go to one, and stay.
Grows == \A w \in Winners : rewards'[w] = rewards[w] \/ rewards'[w] = 1

Effect == CopyGrows /\ RowGrows /\ Grows

\* Any step with such an effect keeps the two invariants.
LEMMA EffectKeeps ==
  ASSUME SettlementTypes, CopiesTrue, Settling!RewardsAreBooked, Effect
  PROVE  CopiesTrue' /\ Settling!RewardsAreBooked'
<1>1. ASSUME NEW w \in Winners PROVE rewards'[w] <= 1 /\ (rewards[w] = 1 => rewards'[w] = 1)
  BY DEF Effect, Grows, Settling!RewardsAreBooked
<1>2. ASSUME NEW w \in Winners, grants'[w] = "granted" PROVE rewards'[w] = 1
  BY <1>1, <1>2 DEF Effect, RowGrows, Settling!RewardsAreBooked, CopiesTrue
<1>3. ASSUME NEW a \in Actors, NEW w \in Winners, acts'[a].copy[w] = "granted"
      PROVE  rewards'[w] = 1
  BY <1>1, <1>3 DEF Effect, CopyGrows, Settling!RewardsAreBooked, CopiesTrue
<1> QED BY <1>1, <1>2, <1>3 DEF CopiesTrue, Settling!RewardsAreBooked

LEMMA StepEffect ==
  ASSUME SettlementTypes, [Settling!Next]_Settling!vars
  PROVE  Effect
<1> USE DEF SettlementTypes
<1>0. /\ acts \in [Actors -> Act]
      /\ \A w \in Winners : Settling!NoCopy[w] = "none" /\ Settling!Idle.copy[w] = "none"
  BY DEF Act, Pcs, Settling!NoCopy, Settling!Idle
<1> DEFINE Kept == UNCHANGED grants /\ UNCHANGED rewards
<1>a. ASSUME NEW a \in Actors, NEW pc, Settling!Goto(a, pc) PROVE CopyGrows
  BY <1>0, <1>a DEF Settling!Goto, CopyGrows, Act
<1>b. ASSUME NEW a \in Actors, Settling!Return(a) PROVE CopyGrows
  BY <1>0, <1>b DEF Settling!Return, CopyGrows, Act
<1>c. ASSUME Kept PROVE RowGrows /\ Grows
  BY <1>c DEF RowGrows, Grows
<1>d. ASSUME UNCHANGED rewards PROVE Grows
  BY <1>d DEF Grows
<1>2. ASSUME NEW a \in Actors, Settling!Claim(a) PROVE Effect
  BY <1>2, <1>a, <1>c DEF Settling!Claim, Settling!Start, Effect
<1>e. ASSUME NEW a \in Actors, NEW w \in Winners, NEW s,
             Settling!Note(a, w, s), s = "granted" => rewards'[w] = 1
      PROVE  CopyGrows
  <2>1. acts[a].copy \in Settling!Copy
    BY <1>0 DEF Act
  <2>2. acts'[a].copy[w] = s
    BY <1>0, <1>e, <2>1 DEF Settling!Note, Act, Settling!Copy
  <2>3. \A b \in Actors, v \in Winners : b # a \/ v # w => acts'[b].copy[v] = acts[b].copy[v]
    BY <1>0, <1>e, <2>1 DEF Settling!Note, Act, Settling!Copy
  <2> QED BY <1>e, <2>2, <2>3 DEF CopyGrows
<1>3. ASSUME NEW a \in Actors, NEW w \in Winners, Settling!SavePlan(a, w) PROVE Effect
  <2>1. RowGrows
    BY <1>3 DEF Settling!SavePlan, RowGrows, Settling!Copy
  <2>2. CopyGrows
    BY <1>3, <1>e DEF Settling!SavePlan
  <2> QED BY <1>3, <1>d, <2>1, <2>2 DEF Settling!SavePlan, Effect
<1>4. ASSUME NEW a \in Actors, Settling!StartGrants(a) PROVE Effect
  BY <1>4, <1>a, <1>c DEF Settling!StartGrants, Effect
<1>5. ASSUME NEW a \in Actors, Settling!Fail(a) PROVE Effect
  BY <1>5, <1>b, <1>c DEF Settling!Fail, Effect
<1>6. ASSUME NEW a \in Actors, NEW w \in Winners, Settling!GrantOne(a, w) PROVE Effect
  <2>1. rewards' = rewards \/ rewards' = [rewards EXCEPT ![w] = 1]
    BY <1>6 DEF Settling!GrantOne, Settling!GrantReward
  <2>2. Grows
    BY <2>1 DEF Grows
  <2>3. RowGrows
    BY <1>6 DEF Settling!GrantOne, RowGrows
  <2>4. CASE Settling!GrantReward(w) /\ Settling!Note(a, w, "granted")
    <3>1. rewards'[w] = 1
      BY <2>4 DEF Settling!GrantReward
    <3>2. CopyGrows
      BY <2>4, <3>1, <1>e
    <3> QED BY <2>2, <2>3, <3>2 DEF Effect
  <2>5. CASE Settling!Note(a, w, "failed")
    <3>1. CopyGrows
      BY <2>5, <1>e
    <3> QED BY <2>2, <2>3, <3>1 DEF Effect
  <2> QED BY <1>6, <2>4, <2>5 DEF Settling!GrantOne
<1>7. ASSUME NEW a \in Actors, NEW w \in Winners, Settling!SaveGrant(a, w) PROVE Effect
  <2>1. RowGrows
    BY <1>7 DEF Settling!SaveGrant, RowGrows, Settling!Copy
  <2>2. CopyGrows
    BY <1>7, <1>e DEF Settling!SaveGrant
  <2> QED BY <1>7, <1>d, <2>1, <2>2 DEF Settling!SaveGrant, Effect
<1>8. ASSUME NEW a \in Actors, Settling!Complete(a) PROVE Effect
  BY <1>8, <1>b, <1>c DEF Settling!Complete, Effect
<1>9. ASSUME NEW a \in Actors, Settling!Rerun(a) PROVE Effect
  BY <1>9, <1>a, <1>c DEF Settling!Rerun, Settling!Start, Effect
<1>10. ASSUME NEW a \in Actors, Settling!ResetToPending(a) PROVE Effect
  BY <1>10, <1>a, <1>c DEF Settling!ResetToPending, Effect
<1>11. ASSUME NEW a \in Actors, Settling!ListGrants(a) PROVE Effect
  <2>1. CopyGrows
    BY <1>0, <1>11 DEF Settling!ListGrants, CopyGrows, Act
  <2> QED BY <1>11, <1>c, <2>1 DEF Settling!ListGrants, Effect
<1>12. ASSUME NEW a \in Actors, Settling!VoidInAdvance(a) PROVE Effect
  BY <1>12, <1>c DEF Settling!VoidInAdvance, Effect, CopyGrows
<1>13. ASSUME NEW a \in Actors, Settling!VoidExisting(a) PROVE Effect
  BY <1>13, <1>a, <1>c DEF Settling!VoidExisting, Settling!Start, Effect
<1>14. ASSUME NEW a \in Actors, Settling!Void(a) PROVE Effect
  BY <1>14, <1>a, <1>c DEF Settling!Void, Effect
<1>15. ASSUME NEW a \in Actors, Settling!ListForVoid(a) PROVE Effect
  <2>1. CopyGrows
    BY <1>0, <1>15 DEF Settling!ListForVoid, CopyGrows, Act
  <2> QED BY <1>15, <1>c, <2>1 DEF Settling!ListForVoid, Effect
<1>16. ASSUME NEW a \in Actors, Settling!VoidDone(a) PROVE Effect
  BY <1>16, <1>b, <1>c DEF Settling!VoidDone, Effect
<1>17. ASSUME NEW a \in Actors, Settling!Abandon(a) PROVE Effect
  BY <1>17, <1>b, <1>c DEF Settling!Abandon, Effect
<1>18. CASE UNCHANGED Settling!vars
  BY <1>18, <1>c DEF Settling!vars, Effect, CopyGrows
<1> QED
  BY <1>2, <1>3, <1>4, <1>5, <1>6, <1>7, <1>8, <1>9, <1>10, <1>11, <1>12, <1>13, <1>14,
     <1>15, <1>16, <1>17, <1>18 DEF Settling!Next, Settling!Round, Settling!Loop,
     Settling!Console

-----------------------------------------------------------------------------
(* A period nobody has settled, and one that was voided before *)

LEMMA StepUnsettled ==
  ASSUME SettlementTypes, Unsettled, [Settling!Next]_Settling!vars
  PROVE  Unsettled'
<1> DEFINE Fresh == settlement = "none" \/ voided = "in advance"
           Old == ~Fresh
<1>1. CASE Fresh
  <2>1. Untouched
    BY <1>1 DEF Unsettled
  <2>2. ASSUME NEW a \in Actors, Settling!Claim(a) PROVE Unsettled'
    BY <2>2, <1>1 DEF Settling!Claim, Unsettled
  <2>3. ASSUME NEW a \in Actors, Settling!VoidInAdvance(a) PROVE Unsettled'
    BY <2>3, <2>1 DEF Settling!VoidInAdvance, Unsettled, Untouched
  <2>4. ASSUME NEW a \in Actors, Settling!Rerun(a) PROVE FALSE
    BY <2>4, <1>1 DEF Settling!Rerun, Unsettled
  <2>5. ASSUME NEW a \in Actors, Settling!VoidExisting(a) PROVE FALSE
    BY <2>5, <1>1 DEF Settling!VoidExisting, Unsettled
  <2>6. \A a \in Actors, pc \in Pcs \ {"idle"} : ~Settling!At(a, pc)
    BY <2>1 DEF Settling!At, Untouched, Pcs
  <2>7. CASE UNCHANGED Settling!vars
    BY <2>7 DEF Settling!vars, Unsettled, Untouched
  <2>8. ASSUME NEW a \in Actors,
               \/ (\E w \in Winners : Settling!SavePlan(a, w)) \/ Settling!StartGrants(a)
                  \/ Settling!Fail(a) \/ Settling!Loop(a)
               \/ Settling!ResetToPending(a) \/ Settling!ListGrants(a) \/ Settling!Void(a)
                  \/ Settling!ListForVoid(a)
               \/ Settling!VoidDone(a) \/ Settling!Abandon(a)
        PROVE  FALSE
    BY <2>1, <2>6, <2>8
       DEF Settling!SavePlan, Settling!StartGrants, Settling!Fail, Settling!Loop,
           Settling!Granting, Settling!GrantOne, Settling!SaveGrant, Settling!Complete,
           Settling!ResetToPending, Settling!ListGrants, Settling!Void,
           Settling!ListForVoid, Settling!VoidDone, Settling!Abandon, Pcs, Settling!At,
           Untouched
  <2> QED BY <2>2, <2>3, <2>4, <2>5, <2>7, <2>8
             DEF Settling!Next, Settling!Round, Settling!Console
<1>2. CASE Old
  <2>1. settlement' # "none" /\ voided' # "in advance"
    <3>1. ASSUME NEW a \in Actors, Settling!Round(a)
          PROVE settlement' # "none" /\ voided' # "in advance"
      BY <1>2, <3>1
         DEF Settling!Round, Settling!Claim, Settling!SavePlan, Settling!StartGrants,
             Settling!Fail
    <3>2. ASSUME NEW a \in Actors, Settling!Loop(a)
          PROVE settlement' # "none" /\ voided' # "in advance"
      BY <1>2, <3>2
         DEF Settling!Loop, Settling!GrantOne, Settling!SaveGrant, Settling!Complete
    <3>3. ASSUME NEW a \in Actors, Settling!Console(a)
          PROVE settlement' # "none" /\ voided' # "in advance"
      BY <1>2, <3>3
         DEF Settling!Console, Settling!Rerun, Settling!ResetToPending,
             Settling!ListGrants, Settling!VoidInAdvance, Settling!VoidExisting,
             Settling!Void, Settling!ListForVoid, Settling!VoidDone
    <3>4. ASSUME NEW a \in Actors, Settling!Abandon(a)
          PROVE settlement' # "none" /\ voided' # "in advance"
      BY <1>2, <3>4 DEF Settling!Abandon
    <3>5. CASE UNCHANGED Settling!vars
      BY <1>2, <3>5 DEF Settling!vars
    <3> QED BY <3>1, <3>2, <3>3, <3>4, <3>5 DEF Settling!Next
  <2> QED BY <2>1 DEF Unsettled
<1> QED BY <1>1, <1>2


LEMMA SettlementInductive == Settling!Spec => []SettlementInv
<1>1. SettlementInv /\ [Settling!Next]_Settling!vars => SettlementInv'
  BY SettlementTypesStep, StepEffect, EffectKeeps, StepUnsettled DEF SettlementInv
<1> QED BY <1>1, SettlementInit, PTL DEF Settling!Spec

\* Whatever the other services do, a settlement sees its own steps only.
LEMMA SettlementAlone == MCSpec => Settling!Spec
<1>1. MCInit => Settling!Init
  BY DEF MCInit
<1>2. [MCNext]_MCvars => [Settling!Next]_Settling!vars
  BY DEF MCNext, MCvars, settlingVars, Settling!vars
<1> QED BY <1>1, <1>2, PTL DEF MCSpec, Settling!Spec

\* Rounds, reruns, voids and deaths of callers in any order reward nobody twice,
\* and a grant is only booked for a reward that was made: for any winners and
\* any number of calls.
THEOREM BookedRewards == MCSpec => []RewardsAreBooked
<1>1. SettlementInv => RewardsAreBooked
  BY DEF SettlementInv, RewardsAreBooked
<1> QED BY <1>1, SettlementAlone, SettlementInductive, PTL

\* A period voided before anybody settled it stays voided and rewards nobody.
THEOREM VoidedAhead == MCSpec => []VoidedInAdvance
<1>1. SettlementInv => VoidedInAdvance
  BY DEF SettlementInv, Unsettled, Untouched, Settling!VoidedInAdvance, VoidedInAdvance
<1> QED BY <1>1, SettlementAlone, SettlementInductive, PTL

\* What MaxCalls allows.
CallsBounded == calls \in 0 .. MaxCalls

\* The bound on calls is in the guards of those that start one.
LEMMA CallsBoundedStep ==
  ASSUME CallsBounded, [Settling!Next]_Settling!vars
  PROVE  CallsBounded'
<1>1. calls' = calls \/ (calls < MaxCalls /\ calls' = calls + 1)
  BY DEF Settling!Next, Settling!vars, Settling!Round, Settling!Loop, Settling!Console,
         Settling!Claim, Settling!SavePlan, Settling!StartGrants, Settling!Fail,
         Settling!GrantOne, Settling!SaveGrant, Settling!Complete, Settling!Rerun,
         Settling!ResetToPending, Settling!ListGrants, Settling!VoidInAdvance,
         Settling!VoidExisting, Settling!Void, Settling!ListForVoid, Settling!VoidDone,
         Settling!Abandon, Settling!Start
<1> QED BY <1>1, ServicesAssumption DEF CallsBounded

\* The variables of a settlement keep their types.
LEMMA SettlementTyped == MCSpec => []Settling!TypeOK
<1>1. Settling!Init => CallsBounded
  BY ServicesAssumption DEF Settling!Init, CallsBounded
<1>2. Settling!Spec => []CallsBounded
  BY <1>1, CallsBoundedStep, PTL DEF Settling!Spec
<1>3. SettlementInv /\ CallsBounded => Settling!TypeOK
  BY DEF SettlementInv, SettlementTypes, CallsBounded, Settling!TypeOK
<1> QED BY <1>2, <1>3, SettlementAlone, SettlementInductive, PTL

-----------------------------------------------------------------------------
(* Requests under one request_id: writes inject into the claims they ran      *)
(* under.                                                                     *)

Token1 == Nat \ {0}
AppliedWrites == [body : Bodies, token : Token1]
KeyRows == [token : Token1, body : Bodies, state : {"in_flight", "done"}, payload : Nat]

Early == {"clean", "insert", "read", "wait"}
Late == {"exec", "complete", "release"}
Claimants == [pc : Early \cup Late, body : Bodies, token : Token1]

RequestTypes ==
    /\ row \in {Idem!NoRow} \cup KeyRows
    /\ callers \in [Callers -> {Idem!Idle} \cup Claimants]
    /\ requests \in Nat
    /\ writes \subseteq AppliedWrites /\ IsFiniteSet(writes)
    /\ ended \subseteq Token1 /\ IsFiniteSet(ended)
    /\ masked \in Nat

Active(c) == callers[c].pc # "idle"
Waiting(c) == callers[c].pc \in Early

\* Tokens are numbered by the requests, so a new one was never seen before.
Numbered ==
    /\ \A c \in Callers : Active(c) => Idem!Token(c) <= requests
    /\ row # Idem!NoRow => row.token <= requests
    /\ \A t \in ended : t <= requests
    /\ \A w \in writes : w.token <= requests

Distinct ==
    \A c, d \in Callers :
      c # d /\ Active(c) /\ Active(d) => Idem!Token(c) # Idem!Token(d)

\* A caller that has no claim yet has left no trace of its token, one that
\* executes has the row unless its claim was deleted as expired.
Claims ==
    /\ \A c \in Callers : Waiting(c)
       => Idem!Token(c) \notin ended /\ row.token # Idem!Token(c)
    /\ \A c \in Callers : Idem!Holds(c) =>
         \/ Idem!Token(c) \in ended
         \/ /\ row # Idem!NoRow /\ row.state = "in_flight"
            /\ row.token = Idem!Token(c) /\ row.body = callers[c].body
    /\ row # Idem!NoRow => row.token \notin ended

\* What is stored as done, or is about to be, was written.
Written ==
    /\ \A c \in Callers : Idem!At(c, "complete") => Idem!Write(c) \in writes
    /\ row # Idem!NoRow /\ row.state = "done"
       => [body |-> row.body, token |-> row.payload] \in writes

Unwritten(c) == \A w \in writes : w.token # Idem!Token(c)

\* Each claim writes at most once, and a write without an error stays in the
\* row until its claim is counted as ended.
Once ==
    /\ \A v, w \in writes : v.token = w.token => v = w
    /\ \A c \in Callers : Waiting(c) \/ Idem!At(c, "exec") => Unwritten(c)

Accounted(veiled) ==
    /\ IsFiniteSet(veiled) /\ Cardinality(veiled) <= masked
    /\ \A w \in writes : w.token \in ended \cup veiled \cup {row.token}
    /\ \A c \in Callers : Idem!At(c, "release") => Idem!Token(c) \in veiled \/ Unwritten(c)

Hidden == \E veiled \in SUBSET Token1 : Accounted(veiled)

RequestInv ==
    RequestTypes /\ Numbered /\ Distinct /\ Claims /\ Written /\ Idem!ReplayIsTrue /\ Once
       /\ Hidden

-----------------------------------------------------------------------------
(* Initially *)

LEMMA RequestInit == Idem!Init => RequestInv
<1> SUFFICES ASSUME Idem!Init PROVE RequestInv
  OBVIOUS
<1>1. IsFiniteSet({}) /\ Cardinality({}) = 0
  BY FS_EmptySet
<1>2. \A c \in Callers : callers[c].pc = "idle"
  BY DEF Idem!Init, Idem!Idle
<1>3. RequestTypes
  BY <1>1 DEF Idem!Init, RequestTypes
<1>4. Numbered /\ Distinct /\ Claims /\ Written /\ Idem!ReplayIsTrue /\ Once
  BY <1>2
     DEF Idem!Init, Numbered, Distinct, Claims, Written, Idem!ReplayIsTrue, Once, Active,
         Waiting, Idem!Holds, Idem!At, Early
<1>5. Accounted({})
  BY <1>1, <1>2 DEF Idem!Init, Accounted, Idem!At
<1> QED BY <1>3, <1>4, <1>5 DEF RequestInv, Hidden

-----------------------------------------------------------------------------
(* What a step may do to a call: only its own step, and its token only when it
   begins *)

LEMMA GotoTypes ==
  ASSUME callers \in [Callers -> {Idem!Idle} \cup Claimants],
         NEW c \in Callers, callers[c] # Idem!Idle,
         NEW pc \in Early \cup Late, Idem!Goto(c, pc)
  PROVE  /\ callers' \in [Callers -> {Idem!Idle} \cup Claimants]
         /\ \A d \in Callers : d # c => callers'[d] = callers[d]
         /\ callers'[c].pc = pc
         /\ callers'[c].token = callers[c].token
         /\ callers'[c].body = callers[c].body
<1>1. callers[c] \in Claimants
  OBVIOUS
<1>2. [callers[c] EXCEPT !.pc = pc] \in Claimants
  BY <1>1 DEF Claimants
<1>3. callers' = [callers EXCEPT ![c] = [callers[c] EXCEPT !.pc = pc]]
  BY DEF Idem!Goto
<1> HIDE DEF Idem!Goto
<1>4. callers' \in [Callers -> {Idem!Idle} \cup Claimants]
  BY <1>2, <1>3
<1>5. callers'[c] = [callers[c] EXCEPT !.pc = pc]
  BY <1>3
<1> QED BY <1>1, <1>3, <1>4, <1>5 DEF Claimants

LEMMA ReturnTypes ==
  ASSUME callers \in [Callers -> {Idem!Idle} \cup Claimants],
         NEW c \in Callers, Idem!Return(c)
  PROVE  /\ callers' \in [Callers -> {Idem!Idle} \cup Claimants]
         /\ \A d \in Callers : d # c => callers'[d] = callers[d]
         /\ callers'[c].pc = "idle"
  BY DEF Idem!Return, Idem!Idle

LEMMA BeginTypes ==
  ASSUME callers \in [Callers -> {Idem!Idle} \cup Claimants], requests \in Nat,
         NEW c \in Callers, Idem!Begin(c)
  PROVE  /\ callers' \in [Callers -> {Idem!Idle} \cup Claimants]
         /\ \A d \in Callers : d # c => callers'[d] = callers[d]
         /\ callers'[c].pc = "clean"
         /\ callers'[c].token = requests + 1
<1>1. PICK body \in Bodies :
        callers' = [callers EXCEPT ![c] =
                         [pc |-> "clean", body |-> body, token |-> requests + 1]]
  BY DEF Idem!Begin
<1>2. [pc |-> "clean", body |-> body, token |-> requests + 1] \in Claimants
  BY DEF Claimants, Early, Late, Token1
<1> QED BY <1>1, <1>2

\* What is known of a call that is under way.
LEMMA CallerFacts ==
  ASSUME callers \in [Callers -> {Idem!Idle} \cup Claimants],
         NEW c \in Callers, callers[c].pc # "idle"
  PROVE  /\ callers[c] # Idem!Idle /\ callers[c] \in Claimants
         /\ Idem!Token(c) \in Token1 /\ callers[c].body \in Bodies
         /\ Waiting(c) \/ Idem!Holds(c)
  BY DEF Idem!Idle, Claimants, Idem!Token, Waiting, Idem!Holds, Early, Late

-----------------------------------------------------------------------------
(* Steps of a caller without a claim, and returns: the shared state stays *)

Quiet(c) ==
    /\ \/ Idem!Return(c)
       \/ Waiting(c) /\ \E pc \in Early : Idem!Goto(c, pc)
    /\ UNCHANGED <<row, requests, writes, ended, masked>>

LEMMA QuietKeeps ==
  ASSUME RequestInv, NEW c \in Callers, Quiet(c)
  PROVE  RequestTypes' /\ Numbered' /\ Distinct' /\ Claims' /\ Written' /\ Once' /\ Hidden'
<1>1. /\ callers' \in [Callers -> {Idem!Idle} \cup Claimants]
      /\ \A d \in Callers : d # c => callers'[d] = callers[d]
      /\ \/ callers'[c].pc = "idle"
         \/ callers'[c].pc \in Early /\ Waiting(c) /\ callers'[c].token = callers[c].token
  <2>1. CASE Idem!Return(c)
    BY <2>1, ReturnTypes DEF RequestInv, RequestTypes
  <2>2. ASSUME Waiting(c), NEW pc \in Early, Idem!Goto(c, pc)
        PROVE  /\ callers' \in [Callers -> {Idem!Idle} \cup Claimants]
               /\ \A d \in Callers : d # c => callers'[d] = callers[d]
               /\ callers'[c].pc \in Early /\ callers'[c].token = callers[c].token
    <3>1. callers[c] # Idem!Idle
      BY <2>2 DEF Waiting, Idem!Idle, Early
    <3> QED BY <2>2, <3>1, GotoTypes DEF RequestInv, RequestTypes
  <2> QED BY <2>1, <2>2 DEF Quiet
<1>2. /\ row' = row /\ requests' = requests /\ writes' = writes
      /\ ended' = ended /\ masked' = masked
  BY DEF Quiet
<1>3. RequestTypes'
  BY <1>1, <1>2 DEF RequestInv, RequestTypes
<1>4. Numbered'
  BY <1>1, <1>2 DEF RequestInv, Numbered, Active, Idem!Token, Waiting, Early
<1>5. Distinct'
  BY <1>1, <1>2 DEF RequestInv, Distinct, Active, Idem!Token, Waiting, Early
<1>6. Claims'
  BY <1>1, <1>2 DEF RequestInv, Claims, Waiting, Idem!Holds, Idem!Token, Early
<1>7. Written'
  BY <1>1, <1>2 DEF RequestInv, Written, Idem!At, Idem!Write, Idem!Token, Early
<1>8. Once'
  BY <1>1, <1>2 DEF RequestInv, Once, Waiting, Idem!At, Unwritten, Idem!Token, Early
<1>9. ASSUME NEW veiled \in SUBSET Token1, Accounted(veiled) PROVE Accounted(veiled)'
  BY <1>1, <1>2, <1>9 DEF Accounted, Idem!At, Unwritten, Idem!Token, Early
<1>10. Hidden'
  BY <1>9 DEF RequestInv, Hidden
<1> QED BY <1>3, <1>4, <1>5, <1>6, <1>7, <1>8, <1>10

-----------------------------------------------------------------------------
(* Begin: the token is new *)

LEMMA BeginKeeps ==
  ASSUME RequestInv, NEW c \in Callers, Idem!Begin(c)
  PROVE  RequestInv'
<1>1. /\ callers' \in [Callers -> {Idem!Idle} \cup Claimants]
      /\ \A d \in Callers : d # c => callers'[d] = callers[d]
      /\ callers'[c].pc = "clean"
      /\ callers'[c].token = requests + 1
  BY BeginTypes DEF RequestInv, RequestTypes
<1>2. /\ row' = row /\ requests' = requests + 1 /\ writes' = writes
      /\ ended' = ended /\ masked' = masked /\ answers' = answers
  BY DEF Idem!Begin
<1>3. requests \in Nat /\ ended \subseteq Nat /\ writes \subseteq AppliedWrites
      /\ row \in {Idem!NoRow} \cup KeyRows
  BY DEF RequestInv, RequestTypes, Token1
<1>4. \A d \in Callers : callers[d].pc # "idle" => Idem!Token(d) \in Token1
  BY CallerFacts DEF RequestInv, RequestTypes
<1>5. /\ \A d \in Callers : Active(d)
         => Idem!Token(d) # requests + 1 /\ Idem!Token(d) <= requests + 1
      /\ requests + 1 \notin ended /\ row.token # requests + 1
      /\ \A w \in writes : w.token # requests + 1
  BY <1>3, <1>4 DEF RequestInv, Numbered, Active, Idem!NoRow, KeyRows, AppliedWrites, Token1
<1>6. RequestTypes'
  BY <1>1, <1>2, <1>3 DEF RequestInv, RequestTypes
<1>7. Numbered'
  <2>1. \A d \in Callers : Active(d)' => (Idem!Token(d) <= requests)'
    BY <1>1, <1>2, <1>3, <1>5 DEF Active, Idem!Token
  <2>2. row # Idem!NoRow => row.token <= requests + 1
    BY <1>3 DEF RequestInv, Numbered, KeyRows, Token1
  <2>3. \A t \in ended : t <= requests + 1
    BY <1>3 DEF RequestInv, Numbered
  <2>4. \A w \in writes : w.token <= requests + 1
    BY <1>3 DEF RequestInv, Numbered, AppliedWrites, Token1
  <2> QED BY <1>2, <2>1, <2>2, <2>3, <2>4 DEF Numbered
<1>8. Distinct'
  BY <1>1, <1>5 DEF RequestInv, Distinct, Active, Idem!Token
<1>9. Claims'
  BY <1>1, <1>2, <1>5 DEF RequestInv, Claims, Waiting, Idem!Holds, Idem!Token, Early
<1>10. Written'
  BY <1>1, <1>2 DEF RequestInv, Written, Idem!At, Idem!Write, Idem!Token
<1>11. Once'
  BY <1>1, <1>2, <1>5 DEF RequestInv, Once, Waiting, Idem!At, Unwritten, Idem!Token, Early
<1>12. ASSUME NEW veiled \in SUBSET Token1, Accounted(veiled) PROVE Accounted(veiled)'
  BY <1>1, <1>2, <1>12 DEF Accounted, Idem!At, Unwritten, Idem!Token
<1>13. Hidden' /\ Idem!ReplayIsTrue'
  BY <1>2, <1>12 DEF RequestInv, Hidden, Idem!ReplayIsTrue
<1> QED BY <1>6, <1>7, <1>8, <1>9, <1>10, <1>11, <1>13 DEF RequestInv

-----------------------------------------------------------------------------
(* Clean: a claim that has run out is counted as ended *)

LEMMA CleanKeeps ==
  ASSUME RequestInv,
         NEW c \in Callers, Idem!Clean(c), row # Idem!NoRow, row' = Idem!NoRow,
         ended' = ended \cup {row.token}
  PROVE  RequestInv'
<1>1. callers[c] # Idem!Idle /\ callers[c].pc = "clean" /\ Idem!Goto(c, "insert")
  BY DEF Idem!Clean, Idem!At, Idem!Idle
<1>2. /\ callers' \in [Callers -> {Idem!Idle} \cup Claimants]
      /\ \A d \in Callers : d # c => callers'[d] = callers[d]
      /\ callers'[c].pc = "insert" /\ callers'[c].token = callers[c].token
  BY <1>1, GotoTypes DEF RequestInv, RequestTypes, Early
<1>3. /\ requests' = requests /\ writes' = writes /\ masked' = masked /\ answers' = answers
  BY DEF Idem!Clean
<1>4. row \in KeyRows /\ row.token \in Token1
  BY DEF RequestInv, RequestTypes, KeyRows
<1>5. RequestTypes'
  BY <1>2, <1>3, <1>4, FS_AddElement DEF RequestInv, RequestTypes
<1>6. Numbered'
  BY <1>1, <1>2, <1>3 DEF RequestInv, Numbered, Active, Idem!Token
<1>7. Distinct'
  BY <1>1, <1>2, <1>3 DEF RequestInv, Distinct, Active, Idem!Token
<1>8. Claims'
  <2>1. \A d \in Callers : callers[d].pc # "idle"
           => Idem!Token(d) \in Token1 /\ (Waiting(d) \/ Idem!Holds(d))
    BY CallerFacts DEF RequestInv, RequestTypes
  <2>2. Idem!NoRow.token = 0
    BY DEF Idem!NoRow
  <2>3. \A d \in Callers : Waiting(d)' => Waiting(d)
    BY <1>1, <1>2 DEF Waiting, Early
  <2>4. \A d \in Callers : Idem!Holds(d)' => Idem!Holds(d) /\ d # c
    BY <1>1, <1>2 DEF Idem!Holds
  <2>5. \A d \in Callers : callers'[d].token = callers[d].token
    BY <1>2
  <2>6. \A d \in Callers : Waiting(d)'
           => (Idem!Token(d) \notin ended /\ row.token # Idem!Token(d))'
    BY <2>1, <2>2, <2>3, <2>5 DEF RequestInv, Claims, Idem!Token, Waiting, Token1, Early
  <2>7. \A d \in Callers : Idem!Holds(d)' => (Idem!Token(d) \in ended)'
    BY <2>4, <2>5 DEF RequestInv, Claims, Idem!Token
  <2> QED BY <2>6, <2>7 DEF Claims
<1>9. Written'
  BY <1>1, <1>2, <1>3 DEF RequestInv, Written, Idem!At, Idem!Write, Idem!Token
<1>10. Once'
  BY <1>1, <1>2, <1>3 DEF RequestInv, Once, Waiting, Idem!At, Unwritten, Idem!Token, Early
<1>11. ASSUME NEW veiled \in SUBSET Token1, Accounted(veiled) PROVE Accounted(veiled)'
  BY <1>1, <1>2, <1>3, <1>11 DEF Accounted, Idem!At, Unwritten, Idem!Token
<1>12. Hidden' /\ Idem!ReplayIsTrue'
  BY <1>3, <1>11 DEF RequestInv, Hidden, Idem!ReplayIsTrue
<1> QED BY <1>5, <1>6, <1>7, <1>8, <1>9, <1>10, <1>12 DEF RequestInv

-----------------------------------------------------------------------------
(* Insert: a claim is granted *)

LEMMA InsertKeeps ==
  ASSUME RequestInv, NEW c \in Callers, Idem!Insert(c), row = Idem!NoRow
  PROVE  RequestInv'
<1>1. callers[c] # Idem!Idle /\ callers[c].pc = "insert" /\ Idem!Goto(c, "exec")
  BY DEF Idem!Insert, Idem!At, Idem!Idle
<1>2. /\ callers' \in [Callers -> {Idem!Idle} \cup Claimants]
      /\ \A d \in Callers : d # c => callers'[d] = callers[d]
      /\ callers'[c].pc = "exec" /\ callers'[c].token = callers[c].token
      /\ callers'[c].body = callers[c].body
  BY <1>1, GotoTypes DEF RequestInv, RequestTypes, Late
<1>3. /\ requests' = requests /\ writes' = writes /\ masked' = masked /\ answers' = answers
      /\ ended' = ended
      /\ row' = [token |-> Idem!Token(c), body |-> callers[c].body,
                 state |-> "in_flight", payload |-> 0]
  BY DEF Idem!Insert
<1>4. Idem!Token(c) \in Token1 /\ callers[c].body \in Bodies /\ Waiting(c)
  BY <1>1, CallerFacts DEF RequestInv, RequestTypes, Waiting, Early
<1>5. /\ row' \in KeyRows /\ row'.token = Idem!Token(c) /\ row'.body = callers[c].body
      /\ row'.state = "in_flight" /\ row' # Idem!NoRow
  BY <1>3, <1>4 DEF KeyRows, Idem!NoRow, Token1
<1>6. RequestTypes'
  BY <1>2, <1>3, <1>5 DEF RequestInv, RequestTypes
<1>7. Numbered'
  BY <1>1, <1>2, <1>3, <1>5 DEF RequestInv, Numbered, Active, Idem!Token
<1>8. Distinct'
  BY <1>1, <1>2, <1>3 DEF RequestInv, Distinct, Active, Idem!Token
<1>9. Claims'
  <2>1. Idem!Token(c) \notin ended
    BY <1>4 DEF RequestInv, Claims
  <2>2. \A d \in Callers : Waiting(d)' => Waiting(d) /\ d # c
    BY <1>1, <1>2 DEF Waiting, Early
  <2>3. \A d \in Callers : Idem!Holds(d)' /\ d # c => Idem!Holds(d)
    BY <1>2 DEF Idem!Holds
  <2>4. \A d \in Callers : callers'[d].token = callers[d].token
    BY <1>2
  <2>5. \A d \in Callers : d # c /\ Waiting(d) => Idem!Token(d) # Idem!Token(c)
    BY <1>1 DEF RequestInv, Distinct, Active, Waiting, Early
  <2>6. \A d \in Callers : Waiting(d)'
           => (Idem!Token(d) \notin ended /\ row.token # Idem!Token(d))'
    BY <1>3, <1>5, <2>2, <2>4, <2>5 DEF RequestInv, Claims, Idem!Token
  <2>7. ASSUME NEW d \in Callers, Idem!Holds(d)'
        PROVE  \/ (Idem!Token(d) \in ended)'
               \/ (row # Idem!NoRow /\ row.state = "in_flight"
                   /\ row.token = Idem!Token(d) /\ row.body = callers[d].body)'
    BY <1>2, <1>3, <1>5, <2>3, <2>4, <2>7 DEF RequestInv, Claims, Idem!Token
  <2> QED BY <1>3, <1>5, <2>1, <2>6, <2>7 DEF Claims
<1>10. Written'
  BY <1>2, <1>3, <1>5 DEF RequestInv, Written, Idem!At, Idem!Write, Idem!Token
<1>11. Once'
  BY <1>1, <1>2, <1>3 DEF RequestInv, Once, Waiting, Idem!At, Unwritten, Idem!Token, Early
<1>12. ASSUME NEW veiled \in SUBSET Token1, Accounted(veiled) PROVE Accounted(veiled)'
  <2>1. Idem!NoRow.token = 0 /\ writes \subseteq AppliedWrites
    BY DEF Idem!NoRow, RequestInv, RequestTypes
  <2>2. \A w \in writes : w.token \in ended \cup veiled
    BY <1>12, <2>1 DEF Accounted, AppliedWrites, Token1
  <2> QED BY <1>1, <1>2, <1>3, <1>12, <2>2 DEF Accounted, Idem!At, Unwritten, Idem!Token
<1>13. Hidden' /\ Idem!ReplayIsTrue'
  BY <1>3, <1>12 DEF RequestInv, Hidden, Idem!ReplayIsTrue
<1> QED BY <1>6, <1>7, <1>8, <1>9, <1>10, <1>11, <1>13 DEF RequestInv

-----------------------------------------------------------------------------
(* Execute and ExecuteFails: the write is applied, or not *)

LEMMA WriteKeeps ==
  ASSUME RequestInv, NEW c \in Callers, Idem!At(c, "exec"),
         NEW pc \in {"complete", "release"}, Idem!Goto(c, pc),
         UNCHANGED <<row, requests, answers, ended>>,
         \/ /\ writes' = writes \cup {Idem!Write(c)}
            /\ (pc = "complete" /\ masked' = masked) \/ masked' = masked + 1
         \/ writes' = writes /\ masked' = masked /\ pc = "release"
  PROVE  RequestInv'
<1>1. callers[c] # Idem!Idle /\ callers[c].pc = "exec" /\ Idem!Holds(c)
  BY DEF Idem!At, Idem!Idle, Idem!Holds
<1>2. /\ callers' \in [Callers -> {Idem!Idle} \cup Claimants]
      /\ \A d \in Callers : d # c => callers'[d] = callers[d]
      /\ callers'[c].pc = pc /\ callers'[c].token = callers[c].token
      /\ callers'[c].body = callers[c].body
  BY <1>1, GotoTypes DEF RequestInv, RequestTypes, Late
<1>3. row' = row /\ requests' = requests /\ answers' = answers /\ ended' = ended
  OBVIOUS
<1>4. Idem!Token(c) \in Token1 /\ callers[c].body \in Bodies /\ Idem!Token(c) <= requests
  BY <1>1, CallerFacts DEF RequestInv, RequestTypes, Numbered, Active
<1>5. /\ Idem!Write(c) \in AppliedWrites /\ Idem!Write(c).token = Idem!Token(c)
         /\ Idem!Write(c)' = Idem!Write(c)
      /\ Idem!Write(c).body = callers[c].body
  BY <1>2, <1>4 DEF Idem!Write, AppliedWrites, Idem!Token
<1>6. writes \subseteq writes' /\ writes' \subseteq writes \cup {Idem!Write(c)}
  OBVIOUS
<1>7. RequestTypes'
  <2>1. masked' \in Nat
    BY DEF RequestInv, RequestTypes
  <2>2. writes' \subseteq AppliedWrites /\ IsFiniteSet(writes')
    BY <1>5, FS_AddElement DEF RequestInv, RequestTypes
  <2> QED BY <1>2, <1>3, <2>1, <2>2 DEF RequestInv, RequestTypes
<1>8. Numbered'
  <2>1. \A w \in writes' : w.token <= requests
    BY <1>4, <1>5, <1>6 DEF RequestInv, Numbered
  <2> QED BY <1>1, <1>2, <1>3, <2>1 DEF RequestInv, Numbered, Active, Idem!Token
<1>9. Distinct'
  BY <1>1, <1>2 DEF RequestInv, Distinct, Active, Idem!Token
<1>10. Claims'
  <2>1. \A d \in Callers : Waiting(d)' => Waiting(d)
    BY <1>2 DEF Waiting, Early
  <2>2. \A d \in Callers : Idem!Holds(d)' => Idem!Holds(d)
    BY <1>1, <1>2 DEF Idem!Holds
  <2>3. \A d \in Callers : callers'[d].token = callers[d].token
    BY <1>2
  <2>4. \A d \in Callers : Idem!Holds(d)' => callers'[d].body = callers[d].body
    BY <1>2
  <2> QED BY <1>3, <2>1, <2>2, <2>3, <2>4 DEF RequestInv, Claims, Idem!Token
<1>11. Written'
  <2>1. Idem!At(c, "complete")' => Idem!Write(c) \in writes'
    BY <1>2 DEF Idem!At
  <2>2. \A d \in Callers : d # c /\ Idem!At(d, "complete")' => (Idem!Write(d) \in writes)'
    BY <1>2, <1>6 DEF RequestInv, Written, Idem!At, Idem!Write, Idem!Token
  <2>3. row # Idem!NoRow /\ row.state = "done"
           => [body |-> row.body, token |-> row.payload] \in writes'
    BY <1>6 DEF RequestInv, Written
  <2> QED BY <1>3, <1>5, <2>1, <2>2, <2>3 DEF Written
<1>12. Once'
  <2>1. Unwritten(c)
    BY DEF RequestInv, Once
  <2>2. \A v, w \in writes' : v.token = w.token => v = w
    BY <1>5, <1>6, <2>1 DEF RequestInv, Once, Unwritten
  <2>3. \A d \in Callers : d # c /\ Active(d) => Idem!Token(d) # Idem!Token(c)
    BY <1>1 DEF RequestInv, Distinct, Active
  <2>4. ASSUME NEW d \in Callers, (Waiting(d) \/ Idem!At(d, "exec"))'
        PROVE  Unwritten(d)'
    <3>1. d # c /\ callers'[d] = callers[d]
      BY <1>2, <2>4 DEF Waiting, Idem!At, Early
    <3>2. Active(d) /\ Unwritten(d)
      BY <2>4, <3>1 DEF RequestInv, Once, Waiting, Idem!At, Active, Early
    <3> QED BY <1>5, <1>6, <2>3, <3>1, <3>2 DEF Unwritten, Idem!Token
  <2> QED BY <2>2, <2>4 DEF Once
<1>13. PICK veiled \in SUBSET Token1 : Accounted(veiled)
  BY DEF RequestInv, Hidden
<1>14. \A d \in Callers : d # c /\ Idem!At(d, "release")' =>
         Idem!At(d, "release") /\ Idem!Token(d)' = Idem!Token(d)
            /\ Idem!Token(d) # Idem!Token(c)
  BY <1>1, <1>2 DEF RequestInv, Distinct, Active, Idem!At, Idem!Token
<1>15. Idem!Token(c) \in ended \cup {row.token}
  BY <1>1 DEF RequestInv, Claims
<1>16. Hidden'
  <2>1. CASE masked' = masked + 1
    <3>0. PICK more \in SUBSET Token1 : more = veiled \cup {Idem!Token(c)}
      BY <1>4
    <3>1. /\ IsFiniteSet(more)
          /\ Cardinality(more) = Cardinality(veiled)
             \/ Cardinality(more) = Cardinality(veiled) + 1
      BY <3>0, <1>13, FS_AddElement DEF Accounted
    <3>2. Cardinality(veiled) \in Nat /\ Cardinality(veiled) <= masked /\ masked \in Nat
      BY <1>13, FS_CardinalityType DEF Accounted, RequestInv, RequestTypes
    <3>3. Cardinality(more) <= masked'
      BY <2>1, <3>1, <3>2
    <3>4. \A w \in writes' : w.token \in ended \cup more \cup {row.token}
      BY <3>0, <1>5, <1>6, <1>13 DEF Accounted
    <3>5. ASSUME NEW d \in Callers, Idem!At(d, "release")'
          PROVE  Idem!Token(d)' \in more \/ Unwritten(d)'
      <4>1. CASE d = c
        BY <3>0, <1>2, <4>1 DEF Idem!Token
      <4>2. CASE d # c
        <5>1. Idem!At(d, "release") /\ Idem!Token(d)' = Idem!Token(d)
                 /\ Idem!Token(d) # Idem!Token(c)
          BY <1>14, <3>5, <4>2
        <5>2. Idem!Token(d) \in veiled \/ Unwritten(d)
          BY <1>13, <5>1 DEF Accounted
        <5> QED BY <3>0, <1>5, <1>6, <5>1, <5>2 DEF Unwritten
      <4> QED BY <4>1, <4>2
    <3>6. Accounted(more)'
      BY <1>3, <3>1, <3>3, <3>4, <3>5 DEF Accounted
    <3> QED BY <3>6 DEF Hidden
  <2>2. CASE masked' = masked
    <3>1. \A w \in writes' : w.token \in ended \cup veiled \cup {row.token}
      BY <1>5, <1>6, <1>13, <1>15 DEF Accounted
    <3>2. ASSUME NEW d \in Callers, Idem!At(d, "release")'
          PROVE  Idem!Token(d)' \in veiled \/ Unwritten(d)'
      <4>1. CASE d = c
        <5>1. pc = "release" /\ Unwritten(c)
          BY <1>2, <3>2, <4>1 DEF Idem!At, RequestInv, Once
        <5>2. writes' = writes
          BY <2>2, <5>1, <1>13, FS_CardinalityType DEF RequestInv, RequestTypes
        <5> QED BY <1>2, <4>1, <5>1, <5>2 DEF Unwritten, Idem!Token
      <4>2. CASE d # c
        <5>1. Idem!At(d, "release") /\ Idem!Token(d)' = Idem!Token(d)
                 /\ Idem!Token(d) # Idem!Token(c)
          BY <1>14, <3>2, <4>2
        <5>2. Idem!Token(d) \in veiled \/ Unwritten(d)
          BY <1>13, <5>1 DEF Accounted
        <5> QED BY <1>5, <1>6, <5>1, <5>2 DEF Unwritten
      <4> QED BY <4>1, <4>2
    <3>3. Accounted(veiled)'
      BY <1>3, <1>13, <2>2, <3>1, <3>2 DEF Accounted
    <3> QED BY <3>3 DEF Hidden
  <2> QED BY <2>1, <2>2
<1>17. Idem!ReplayIsTrue'
  BY <1>3, <1>6 DEF RequestInv, Idem!ReplayIsTrue
<1> QED BY <1>7, <1>8, <1>9, <1>10, <1>11, <1>12, <1>16, <1>17 DEF RequestInv

-----------------------------------------------------------------------------
(* Complete and Release: only the owner of the claim changes the row *)

LEMMA SettleKeeps ==
  ASSUME RequestInv, NEW c \in Callers, Idem!OwnsClaim(c), Idem!Return(c),
         UNCHANGED <<requests, writes, answers, ended, masked>>,
         \/ Idem!At(c, "complete")
            /\ row' = [row EXCEPT !.state = "done", !.payload = Idem!Token(c)]
         \/ Idem!At(c, "release") /\ row' = Idem!NoRow
  PROVE  RequestInv'
<1>1. callers[c].pc # "idle" /\ Idem!Holds(c)
  BY DEF Idem!At, Idem!Holds
<1>2. /\ callers' \in [Callers -> {Idem!Idle} \cup Claimants]
      /\ \A d \in Callers : d # c => callers'[d] = callers[d]
      /\ callers'[c].pc = "idle"
  BY ReturnTypes DEF RequestInv, RequestTypes
<1>3. /\ requests' = requests /\ writes' = writes /\ answers' = answers
      /\ ended' = ended /\ masked' = masked
  OBVIOUS
<1>4. row \in KeyRows /\ row.token = Idem!Token(c) /\ Idem!Token(c) \in Token1
         /\ row # Idem!NoRow
  BY <1>1, CallerFacts DEF RequestInv, RequestTypes, Idem!OwnsClaim
<1>5. row.body = callers[c].body /\ Idem!Token(c) \notin ended
  BY <1>1, <1>4 DEF RequestInv, Claims
<1>6. \/ /\ Idem!At(c, "complete") /\ row' \in KeyRows /\ row'.token = Idem!Token(c)
         /\ row'.body = row.body
         /\ row'.payload = Idem!Token(c) /\ row' # Idem!NoRow
      \/ Idem!At(c, "release") /\ row' = Idem!NoRow
  <2>1. CASE row' = [row EXCEPT !.state = "done", !.payload = Idem!Token(c)]
                /\ Idem!At(c, "complete")
    <3>1. row' \in KeyRows /\ row'.token = Idem!Token(c) /\ row'.body = row.body
             /\ row'.payload = Idem!Token(c)
      BY <1>4, <2>1 DEF KeyRows, Token1
    <3>2. row' # Idem!NoRow
      BY <3>1, <1>4 DEF Idem!NoRow, Token1
    <3> QED BY <2>1, <3>1, <3>2
  <2> QED BY <2>1
<1>7. Idem!NoRow.token = 0 /\ 0 \notin Token1
  BY DEF Idem!NoRow, Token1
<1>8. RequestTypes'
  BY <1>2, <1>3, <1>6 DEF RequestInv, RequestTypes
<1>9. Numbered'
  <2>1. row' # Idem!NoRow => row'.token <= requests
    BY <1>4, <1>6 DEF RequestInv, Numbered
  <2> QED BY <1>2, <1>3, <2>1 DEF RequestInv, Numbered, Active, Idem!Token
<1>10. Distinct'
  BY <1>2 DEF RequestInv, Distinct, Active, Idem!Token
<1>11. \A d \in Callers : Active(d)'
          => d # c /\ Active(d) /\ callers'[d] = callers[d] /\ Idem!Token(d) # Idem!Token(c)
  BY <1>1, <1>2 DEF RequestInv, Distinct, Active
<1>12. Claims'
  <2>1. ASSUME NEW d \in Callers, Waiting(d)'
        PROVE (Idem!Token(d) \notin ended /\ row.token # Idem!Token(d))'
    <3>1. Active(d)' /\ callers'[d] = callers[d] /\ Idem!Token(d) # Idem!Token(c)
      BY <1>11, <2>1 DEF Active, Waiting, Early
    <3>2. Waiting(d) /\ Idem!Token(d) \notin ended /\ Idem!Token(d) \in Token1
      BY <2>1, <3>1, CallerFacts DEF RequestInv, RequestTypes, Claims, Waiting, Early
    <3> QED BY <1>3, <1>6, <1>7, <3>1, <3>2 DEF Idem!Token
  <2>2. ASSUME NEW d \in Callers, Idem!Holds(d)' PROVE (Idem!Token(d) \in ended)'
    <3>1. Active(d)' /\ callers'[d] = callers[d] /\ Idem!Token(d) # Idem!Token(c)
      BY <1>11, <2>2 DEF Active, Idem!Holds
    <3>2. Idem!Holds(d)
      BY <2>2, <3>1 DEF Idem!Holds
    <3> QED BY <1>3, <1>4, <3>1, <3>2 DEF RequestInv, Claims, Idem!Token
  <2>3. row' # Idem!NoRow => row'.token \notin ended
    BY <1>5, <1>6
  <2> QED BY <1>3, <2>1, <2>2, <2>3 DEF Claims
<1>13. Written'
  <2>1. \A d \in Callers : Idem!At(d, "complete")' => (Idem!Write(d) \in writes)'
    BY <1>2, <1>3 DEF RequestInv, Written, Idem!At, Idem!Write, Idem!Token
  <2>2. row' # Idem!NoRow => [body |-> row'.body, token |-> row'.payload] \in writes
    <3>1. CASE row' = Idem!NoRow
      BY <3>1
    <3>2. CASE Idem!At(c, "complete") /\ row'.body = row.body /\ row'.payload = Idem!Token(c)
      BY <1>5, <3>2 DEF RequestInv, Written, Idem!Write
    <3> QED BY <1>6, <3>1, <3>2
  <2> QED BY <1>3, <2>1, <2>2 DEF Written
<1>14. Once'
  BY <1>2, <1>3 DEF RequestInv, Once, Waiting, Idem!At, Unwritten, Idem!Token, Early
<1>15. ASSUME NEW veiled \in SUBSET Token1, Accounted(veiled) PROVE Accounted(veiled)'
  <2>1. \A w \in writes : w.token \in ended \cup veiled \cup {row'.token}
    <3>1. CASE row'.token = Idem!Token(c)
      BY <1>4, <1>15, <3>1 DEF Accounted
    <3>2. CASE Idem!At(c, "release")
      BY <1>4, <1>15, <3>2 DEF Accounted, Unwritten
    <3> QED BY <1>6, <3>1, <3>2
  <2>2. \A d \in Callers : Idem!At(d, "release")'
           => Idem!Token(d)' \in veiled \/ Unwritten(d)'
    BY <1>2, <1>3, <1>15 DEF Accounted, Idem!At, Unwritten, Idem!Token
  <2> QED BY <1>3, <1>15, <2>1, <2>2 DEF Accounted
<1>16. Hidden' /\ Idem!ReplayIsTrue'
  BY <1>3, <1>15 DEF RequestInv, Hidden, Idem!ReplayIsTrue
<1> QED BY <1>8, <1>9, <1>10, <1>12, <1>13, <1>14, <1>16 DEF RequestInv

-----------------------------------------------------------------------------
(* Every step *)

LEMMA RequestStep ==
  ASSUME RequestInv, [Idem!Next]_Idem!vars
  PROVE  RequestInv'
<1>1. ASSUME NEW c \in Callers, Quiet(c), UNCHANGED answers PROVE RequestInv'
  BY <1>1, QuietKeeps DEF RequestInv, Idem!ReplayIsTrue, Quiet
<1>2. ASSUME NEW c \in Callers, Idem!Clean(c) PROVE RequestInv'
  <2>1. CASE row # Idem!NoRow /\ row' = Idem!NoRow /\ ended' = ended \cup {row.token}
    BY <1>2, <2>1, CleanKeeps
  <2>2. CASE UNCHANGED <<row, ended>>
    BY <1>1, <1>2, <2>2 DEF Idem!Clean, Quiet, Waiting, Idem!At, Early
  <2> QED BY <1>2, <2>1, <2>2 DEF Idem!Clean
<1>3. ASSUME NEW c \in Callers, Idem!Insert(c) PROVE RequestInv'
  <2>1. CASE row = Idem!NoRow
    BY <1>3, <2>1, InsertKeeps
  <2>2. CASE row # Idem!NoRow
    BY <1>1, <1>3, <2>2 DEF Idem!Insert, Quiet, Waiting, Idem!At, Early
  <2> QED BY <2>1, <2>2
<1>4. ASSUME NEW c \in Callers, Idem!Read(c) PROVE RequestInv'
  <2>1. CASE Idem!RowVanished(c) \/ Idem!KeyConflict(c) \/ Idem!InFlight(c)
    BY <1>1, <1>4, <2>1
       DEF Idem!Read, Idem!RowVanished, Idem!KeyConflict, Idem!InFlight, Quiet, Waiting,
           Idem!At, Early
  <2>2. CASE Idem!Replay(c)
    <3>1. Quiet(c)
      BY <1>4, <2>2 DEF Idem!Read, Idem!Replay, Quiet
    <3>2. Idem!ReplayIsTrue'
      BY <1>4, <2>2 DEF Idem!Read, Idem!Replay, RequestInv, Idem!ReplayIsTrue, Written
    <3> QED BY <3>1, <3>2, QuietKeeps DEF RequestInv
  <2> QED BY <1>4, <2>1, <2>2 DEF Idem!Read
<1>5. ASSUME NEW c \in Callers, Idem!Poll(c) PROVE RequestInv'
  BY <1>1, <1>5 DEF Idem!Poll, Quiet, Waiting, Idem!At, Early
<1>6. ASSUME NEW c \in Callers, Idem!Execute(c) PROVE RequestInv'
  BY <1>6, WriteKeeps DEF Idem!Execute
<1>7. ASSUME NEW c \in Callers, Idem!ExecuteFails(c) PROVE RequestInv'
  BY <1>7, WriteKeeps DEF Idem!ExecuteFails
<1>8. ASSUME NEW c \in Callers, Idem!Complete(c) \/ Idem!Release(c) PROVE RequestInv'
  <2>1. CASE Idem!OwnsClaim(c)
    BY <1>8, <2>1, SettleKeeps DEF Idem!Complete, Idem!Release
  <2>2. CASE ~Idem!OwnsClaim(c)
    BY <1>1, <1>8, <2>2 DEF Idem!Complete, Idem!Release, Quiet
  <2> QED BY <2>1, <2>2
<1>9. ASSUME NEW c \in Callers, Idem!Abandon(c) PROVE RequestInv'
  BY <1>1, <1>9 DEF Idem!Abandon, Quiet
<1>10. CASE UNCHANGED Idem!vars
  BY <1>10
     DEF Idem!vars, RequestInv, RequestTypes, Numbered, Distinct, Claims, Written,
         Idem!ReplayIsTrue, Once, Hidden, Accounted, Active, Waiting, Idem!Holds, Idem!At,
         Idem!Write, Idem!Token, Unwritten
<1> QED BY <1>2, <1>3, <1>4, <1>5, <1>6, <1>7, <1>8, <1>9, <1>10, BeginKeeps
           DEF Idem!Next, Idem!TryClaim, Idem!Settle


LEMMA RequestInductive == Idem!Spec => []RequestInv
  BY RequestInit, RequestStep, PTL DEF Idem!Spec

\* Whatever the other services do, a request sees its own steps only.
LEMMA RequestsAlone == MCSpec => Idem!Spec
<1>1. MCInit => Idem!Init
  BY DEF MCInit
<1>2. [MCNext]_MCvars => [Idem!Next]_Idem!vars
  BY DEF MCNext, MCvars, idempotencyVars, Idem!vars
<1> QED BY <1>1, <1>2, PTL DEF MCSpec, Idem!Spec

\* The instance and this module speak of the same cardinality.
LEMMA SameSize == ASSUME NEW S PROVE Idem!Cardinality(S) = Cardinality(S)
  BY DEF Idem!Cardinality, Cardinality

\* Two callers execute at a time only when the claim of one of them has run out.
THEOREM SingleHolder == MCSpec => []OneHolder
<1>1. RequestInv => OneHolder
  <2>1. ASSUME RequestInv, NEW c \in Callers,
               NEW d \in Callers, c # d, Idem!Holds(c), Idem!Holds(d)
        PROVE  Idem!Token(c) \in ended \/ Idem!Token(d) \in ended
    BY <2>1 DEF RequestInv, Claims, Distinct, Active, Idem!Holds
  <2> QED BY <2>1 DEF OneHolder, Idem!OneHolder
<1> QED BY <1>1, RequestsAlone, RequestInductive, PTL

\* A replayed response is that of a write that was applied, for the same body.
THEOREM TrueReplay == MCSpec => []ReplayIsTrue
<1>1. RequestInv => ReplayIsTrue
  BY DEF RequestInv, ReplayIsTrue
<1> QED BY <1>1, RequestsAlone, RequestInductive, PTL

\* Retries apply a write again only after a claim has run out or an error has
\* hidden a write: the tokens of the writes inject into the claims that ended,
\* the hidden writes and the row that is left.
THEOREM BoundedRepeats == MCSpec => []AppliedPerClaim
<1>1. ASSUME RequestInv PROVE AppliedPerClaim
  <2>1. PICK veiled \in SUBSET Token1 : Accounted(veiled)
    BY <1>1 DEF RequestInv, Hidden
  <2>2. IsFiniteSet(writes) /\ IsFiniteSet(ended) /\ IsFiniteSet(veiled) /\ masked \in Nat
    BY <1>1, <2>1 DEF RequestInv, RequestTypes, Accounted
  <2> DEFINE all == ended \cup veiled \cup {row.token}
             f == [w \in writes |-> w.token]
  <2>3. f \in Injection(writes, all)
    <3>1. f \in [writes -> all]
      BY <2>1 DEF Accounted
    <3>2. IsInjective(f)
      BY <1>1 DEF RequestInv, Once, IsInjective
    <3> QED BY <3>1, <3>2 DEF Injection
  <2>4. /\ IsFiniteSet(ended \cup veiled)
        /\ Cardinality(ended \cup veiled) <= Cardinality(ended) + Cardinality(veiled)
    <3>1. /\ IsFiniteSet(ended \cup veiled)
          /\ Cardinality(ended \cup veiled)
               = Cardinality(ended) + Cardinality(veiled) - Cardinality(ended \cap veiled)
      BY <2>2, FS_Union
    <3>2. IsFiniteSet(ended \cap veiled)
      BY <2>2, FS_Intersection
    <3>3. /\ Cardinality(ended) \in Nat /\ Cardinality(veiled) \in Nat
          /\ Cardinality(ended \cap veiled) \in Nat
      BY <2>2, <3>2, FS_CardinalityType
    <3> QED BY <3>1, <3>3
  <2>5. IsFiniteSet(all) /\ Cardinality(all) <= Cardinality(ended \cup veiled) + 1
    <3>1. Cardinality(ended \cup veiled) \in Nat
      BY <2>4, FS_CardinalityType
    <3>2. Cardinality((ended \cup veiled) \cup {row.token})
            \in {Cardinality(ended \cup veiled), Cardinality(ended \cup veiled) + 1}
      BY <2>4, FS_AddElement
    <3>3. IsFiniteSet((ended \cup veiled) \cup {row.token})
      BY <2>4, FS_AddElement
    <3> QED BY <3>1, <3>2, <3>3
  <2>6. Cardinality(writes) <= Cardinality(all)
    BY <2>3, <2>5, FS_Injection
  <2>7. /\ Cardinality(writes) \in Nat /\ Cardinality(all) \in Nat
        /\ Cardinality(ended) \in Nat /\ Cardinality(veiled) \in Nat
        /\ Cardinality(ended \cup veiled) \in Nat
    BY <2>2, <2>4, <2>5, FS_CardinalityType
  <2>8. Cardinality(veiled) <= masked
    BY <2>1 DEF Accounted
  <2> HIDE DEF all
  <2>9. Cardinality(writes) <= 1 + Cardinality(ended) + masked
    BY <2>2, <2>4, <2>5, <2>6, <2>7, <2>8
  <2> QED BY <2>9, SameSize DEF AppliedPerClaim, Idem!AppliedPerClaim
<1> QED BY <1>1, RequestsAlone, RequestInductive, PTL

\* What the properties need no part of: the bound, and what a new row has for an
\* answer.
RequestBound ==
    /\ requests <= MaxRequests
    /\ row # Idem!NoRow /\ row.state = "in_flight" => row.payload = 0

\* Only a request that begins counts, only a claim inserts a row.
LEMMA RequestBoundStep ==
  ASSUME RequestInv, RequestBound, [Idem!Next]_Idem!vars
  PROVE  RequestBound'
<1>1. /\ requests \in Nat
      /\ requests' = requests \/ (requests < MaxRequests /\ requests' = requests + 1)
  BY DEF RequestInv, RequestTypes, Idem!Next, Idem!vars, Idem!TryClaim, Idem!Settle,
         Idem!Begin, Idem!Clean, Idem!Insert, Idem!Read, Idem!Poll, Idem!Execute,
         Idem!ExecuteFails, Idem!Complete, Idem!Release, Idem!Abandon
<1>2. \/ row' = row \/ row' = Idem!NoRow
      \/ row' # Idem!NoRow /\ row'.payload = 0
      \/ row' # Idem!NoRow /\ row'.state = "done"
  <2>1. CASE UNCHANGED Idem!vars
    BY <2>1 DEF Idem!vars
  <2>2. ASSUME NEW c \in Callers, Idem!Insert(c), row = Idem!NoRow
        PROVE  row'.payload = 0 /\ row' # Idem!NoRow
    <3>1. row' = [token |-> Idem!Token(c), body |-> callers[c].body, state |-> "in_flight",
                  payload |-> 0]
      BY <2>2 DEF Idem!Insert
    <3> QED BY <3>1 DEF Idem!NoRow
  <2>3. ASSUME NEW c \in Callers, Idem!Complete(c), Idem!OwnsClaim(c)
        PROVE  row'.state = "done" /\ row' # Idem!NoRow
    <3>1. row \in KeyRows
      BY <2>3 DEF Idem!OwnsClaim, RequestInv, RequestTypes
    <3>2. row' = [row EXCEPT !.state = "done", !.payload = Idem!Token(c)]
      BY <2>3 DEF Idem!Complete
    <3>3. row'.state = "done"
      BY <3>1, <3>2 DEF KeyRows
    <3>4. row'.body = row.body /\ DOMAIN row' = {"token", "body", "state", "payload"}
      BY <3>1, <3>2 DEF KeyRows
    <3>5. DOMAIN Idem!NoRow = {"token"}
      BY DEF Idem!NoRow
    <3> QED BY <3>3, <3>4, <3>5
  <2>4. ASSUME NEW c \in Callers,
               Idem!Begin(c) \/ Idem!Clean(c) \/ Idem!Read(c) \/ Idem!Poll(c)
               \/ Idem!Execute(c) \/ Idem!ExecuteFails(c) \/ Idem!Release(c) \/ Idem!Abandon(c)
        PROVE row' = row \/ row' = Idem!NoRow
    BY <2>4
       DEF Idem!Begin, Idem!Clean, Idem!Read, Idem!Poll, Idem!Execute, Idem!ExecuteFails,
           Idem!Release, Idem!Abandon
  <2>5. ASSUME NEW c \in Callers, Idem!Insert(c), row # Idem!NoRow PROVE row' = row
    BY <2>5 DEF Idem!Insert
  <2>6. ASSUME NEW c \in Callers, Idem!Complete(c), ~Idem!OwnsClaim(c) PROVE row' = row
    BY <2>6 DEF Idem!Complete
  <2> QED BY <2>1, <2>2, <2>3, <2>4, <2>5, <2>6 DEF Idem!Next, Idem!TryClaim, Idem!Settle
<1>3. requests' <= MaxRequests
  BY <1>1, ServicesAssumption DEF RequestBound
<1>4. row' # Idem!NoRow /\ row'.state = "in_flight" => row'.payload = 0
  BY <1>2 DEF RequestBound
<1> QED BY <1>3, <1>4 DEF RequestBound

\* The variables of a request key keep their types: a token is the number of a
\* request, and an answer is the token of a write.
LEMMA RequestTyped == MCSpec => []Idem!TypeOK
<1>1. Idem!Init => RequestBound
  BY ServicesAssumption DEF Idem!Init, RequestBound
<1>2. Idem!Spec => []RequestBound
  BY <1>1, RequestBoundStep, RequestInductive, PTL DEF Idem!Spec
<1>3. ASSUME RequestInv, RequestBound PROVE Idem!TypeOK
  <2> USE ServicesAssumption
  <2>1. requests \in 0 .. MaxRequests /\ masked \in Nat
    BY <1>3 DEF RequestInv, RequestTypes, RequestBound
  <2>2. \A t \in Token1 : t <= requests => t \in Idem!Tokens
    BY <2>1 DEF Token1, Idem!Tokens
  <2>3. ended \subseteq Idem!Tokens
    BY <1>3, <2>2 DEF RequestInv, RequestTypes, Numbered
  <2>4. writes \subseteq [body : Bodies, token : Idem!Tokens]
    <3>1. ASSUME NEW w \in writes PROVE w \in [body : Bodies, token : Idem!Tokens]
      <4>1. w \in AppliedWrites /\ w.token <= requests
        BY <1>3 DEF RequestInv, RequestTypes, Numbered
      <4>2. w.token \in Idem!Tokens
        BY <4>1, <2>2 DEF AppliedWrites
      <4> QED BY <4>1, <4>2 DEF AppliedWrites
    <3> QED BY <3>1
  <2>5. answers \subseteq [body : Bodies, token : Idem!Tokens \cup {0}]
    <3>1. \A w \in [body : Bodies, token : Idem!Tokens] :
            w \in [body : Bodies, token : Idem!Tokens \cup {0}]
      OBVIOUS
    <3> QED BY <1>3, <2>4, <3>1 DEF RequestInv, Idem!ReplayIsTrue
  <2>6. row \in Idem!RowType
    <3>1. SUFFICES ASSUME row # Idem!NoRow PROVE row \in Idem!RowType
      BY DEF Idem!RowType
    <3>2. row \in KeyRows /\ row.token \in Idem!Tokens
      <4>1. row \in KeyRows /\ row.token <= requests
        BY <1>3, <3>1 DEF RequestInv, RequestTypes, Numbered
      <4> QED BY <4>1, <2>2 DEF KeyRows
    <3>3. row.payload \in Idem!Tokens \cup {0}
      <4>1. CASE row.state = "in_flight"
        BY <1>3, <3>1, <4>1 DEF RequestBound
      <4>2. CASE row.state = "done"
        <5>1. [body |-> row.body, token |-> row.payload] \in writes
          BY <1>3, <3>1, <4>2 DEF RequestInv, Written
        <5>2. [body |-> row.body, token |-> row.payload].token \in Idem!Tokens
          BY <5>1, <2>4
        <5> QED BY <5>2
      <4> QED BY <3>2, <4>1, <4>2 DEF KeyRows
    <3> QED BY <3>2, <3>3 DEF KeyRows, Idem!RowType
  <2>7. callers \in [Callers -> Idem!CallType]
    <3>1. callers \in [Callers -> {Idem!Idle} \cup Claimants]
      BY <1>3 DEF RequestInv, RequestTypes
    <3>2. ASSUME NEW c \in Callers PROVE callers[c] \in Idem!CallType
      <4>1. CASE callers[c] = Idem!Idle
        BY <4>1 DEF Idem!CallType
      <4>2. CASE callers[c] \in Claimants /\ callers[c] # Idem!Idle
        <5>1. callers[c].pc # "idle"
          BY <4>2 DEF Claimants, Early, Late
        <5>2. callers[c].token \in Token1 /\ callers[c].token <= requests
          BY <1>3, <4>2, <5>1 DEF RequestInv, Numbered, Active, Idem!Token, Claimants
        <5> QED BY <2>2, <4>2, <5>2 DEF Claimants, Early, Late, Idem!CallType
      <4> QED BY <3>1, <4>1, <4>2
    <3> QED BY <3>1, <3>2
  <2> QED BY <2>1, <2>3, <2>4, <2>5, <2>6, <2>7 DEF Idem!TypeOK
<1> QED BY <1>2, <1>3, RequestsAlone, RequestInductive, PTL

-----------------------------------------------------------------------------
(* Cron triggers: a claim takes the row past the instant it has claimed, so   *)
(* an instant can be claimed again only after the row was put back.           *)

RoundState == [pc : {"idle", "scan", "claim", "invoke", "undo", "restore"},
               now : 0 .. MaxInstant, due : Cron!Instant]

CronTypes ==
    /\ next \in Cron!Instant /\ now \in 0 .. MaxInstant
    /\ rounds \in [Workers -> RoundState]
    /\ sent \in [Cron!Instant -> Nat] /\ hidden \in [Cron!Instant -> Nat]
    /\ undone \in Nat

\* What a round has read as due lies in its past.
DueInPast ==
    \A w \in Workers : rounds[w].pc \notin {"idle", "scan"} => rounds[w].due <= rounds[w].now

\* Rounds that have claimed instant t and not enqueued it yet.
Claimed(t) == {w \in Workers : rounds[w].pc = "invoke" /\ rounds[w].due = t}

\* Whether the row still stands before t, so that t may be claimed.
Ahead(t) == IF next <= t THEN 1 ELSE 0

Accountable ==
    \A t \in Cron!Instant :
       /\ IsFiniteSet(Claimed(t))
       /\ sent[t] - hidden[t] + Cardinality(Claimed(t)) + Ahead(t) <= 1 + undone

CronInv == CronTypes /\ DueInPast /\ Accountable

\* The first scheduled instant after t is within a period of it.
LEMMA ScheduledLater ==
    ASSUME NEW t \in Nat
    PROVE  /\ Cron!Scheduled(t) \in Nat
           /\ t < Cron!Scheduled(t) /\ Cron!Scheduled(t) <= t + Period
  <1>1. Period \in Nat \ {0}
    BY ServicesAssumption
  <1> DEFINE q == t \div Period
  <1>2. q \in Nat /\ q * Period <= t /\ t < q * Period + Period
    BY <1>1
  <1>3. Cron!Scheduled(t) = q * Period + Period
    BY <1>1, <1>2 DEF Cron!Scheduled
  <1>4. q * Period \in Nat
    BY <1>1, <1>2
  <1> HIDE DEF q
  <1> QED
    BY <1>1, <1>2, <1>3, <1>4

\* The next run of an instant that is over lies after it and within bounds.
LEMMA NextRunLater ==
    ASSUME NEW due \in Cron!Instant, NEW t \in 0 .. MaxInstant, due <= t
    PROVE  Cron!NextRun(due, t) \in Cron!Instant /\ due < Cron!NextRun(due, t)
  <1>1. due \in Nat /\ t \in Nat /\ t <= MaxInstant /\ MaxInstant \in Nat /\ Period \in Nat
    BY ServicesAssumption DEF Cron!Instant
  <1>2. /\ Cron!Scheduled(due) \in Nat /\ Cron!Scheduled(t) \in Nat
        /\ due < Cron!Scheduled(due) /\ Cron!Scheduled(due) <= due + Period
        /\ t < Cron!Scheduled(t) /\ Cron!Scheduled(t) <= t + Period
    BY <1>1, ScheduledLater
  <1>3. Cron!NextRun(due, t) \in {Cron!Scheduled(due), Cron!Scheduled(t)}
    BY DEF Cron!NextRun
  <1> QED
    BY <1>1, <1>2, <1>3 DEF Cron!Instant

LEMMA CronInit == Cron!Init => CronInv
  <1> SUFFICES ASSUME Cron!Init PROVE CronInv
    OBVIOUS
  <1>1. MaxInstant \in Nat /\ Period \in Nat \ {0}
    BY ServicesAssumption
  <1>2. CronTypes /\ DueInPast
    BY <1>1 DEF Cron!Init, CronTypes, DueInPast, RoundState, Cron!NoRound, Cron!Instant
  <1>3. ASSUME NEW t \in Cron!Instant
        PROVE  Claimed(t) = {} /\ Ahead(t) <= 1 /\ sent[t] - hidden[t] = 0 /\ undone = 0
    BY <1>3 DEF Cron!Init, Claimed, Cron!NoRound, Ahead
  <1>4. ASSUME NEW t \in Cron!Instant
        PROVE  /\ IsFiniteSet(Claimed(t))
               /\ sent[t] - hidden[t] + Cardinality(Claimed(t)) + Ahead(t) <= 1 + undone
    BY <1>3, FS_EmptySet DEF Ahead
  <1> QED
    BY <1>2, <1>4 DEF CronInv, Accountable

\* A step of one round.
LEMMA RoundMoves ==
    ASSUME CronTypes, NEW w \in Workers, NEW x \in RoundState,
           rounds' = [rounds EXCEPT ![w] = x]
    PROVE  /\ rounds' \in [Workers -> RoundState] /\ rounds'[w] = x
           /\ \A v \in Workers : v # w => rounds'[v] = rounds[v]
           /\ \A t : Claimed(t)' = IF x.pc = "invoke" /\ x.due = t
                                   THEN Claimed(t) \cup {w} ELSE Claimed(t) \ {w}
  BY DEF CronTypes, Claimed

\* A set that may lose an element does not grow.
LEMMA Shrinks ==
    ASSUME NEW S, IsFiniteSet(S), NEW w
    PROVE  /\ IsFiniteSet(S \ {w})
           /\ Cardinality(S \ {w}) \in Nat /\ Cardinality(S) \in Nat
           /\ Cardinality(S \ {w}) <= Cardinality(S)
           /\ w \in S => Cardinality(S \ {w}) + 1 = Cardinality(S)
  <1>1. Cardinality(S) \in Nat
    BY FS_CardinalityType
  <1>2. CASE w \in S
    <2>1. IsFiniteSet(S \ {w}) /\ Cardinality(S \ {w}) = Cardinality(S) - 1
      BY <1>2, FS_RemoveElement
    <2>2. Cardinality(S \ {w}) \in Nat
      BY <2>1, FS_CardinalityType
    <2> QED
      BY <1>1, <2>1, <2>2
  <1>3. CASE w \notin S
    <2>1. S \ {w} = S
      BY <1>3
    <2>2. Cardinality(S \ {w}) = Cardinality(S) /\ IsFiniteSet(S \ {w})
      BY <2>1, Zenon
    <2> QED
      BY <1>1, <1>3, <2>2
  <1> QED
    BY <1>2, <1>3

\* Who moves on without a claim, and without having the row put back, takes
\* nothing from the account.
LEMMA NoClaim ==
    ASSUME CronTypes, DueInPast, Accountable, NEW w \in Workers, NEW x \in RoundState,
           rounds' = [rounds EXCEPT ![w] = x], x.pc # "invoke",
           x.pc \notin {"idle", "scan"} => x.due <= x.now,
           next' \in Cron!Instant, now' = now, next <= next',
           UNCHANGED <<sent, hidden, undone>>
    PROVE  CronInv'
  <1>1. /\ rounds' \in [Workers -> RoundState] /\ rounds'[w] = x
        /\ \A v \in Workers : v # w => rounds'[v] = rounds[v]
        /\ \A t : Claimed(t)' = Claimed(t) \ {w}
    BY RoundMoves
  <1>2. CronTypes' /\ DueInPast'
    BY <1>1 DEF CronTypes, DueInPast
  <1>3. ASSUME NEW t \in Cron!Instant
        PROVE  /\ IsFiniteSet(Claimed(t)')
               /\ sent'[t] - hidden'[t] + Cardinality(Claimed(t)') + Ahead(t)' <= 1 + undone'
    <2>1. /\ IsFiniteSet(Claimed(t)')
          /\ Cardinality(Claimed(t)') \in Nat /\ Cardinality(Claimed(t)) \in Nat
          /\ Cardinality(Claimed(t)') <= Cardinality(Claimed(t))
      BY <1>1, <1>3, Shrinks DEF Accountable
    <2>2. Ahead(t)' \in Nat /\ Ahead(t) \in Nat /\ Ahead(t)' <= Ahead(t)
      BY DEF Ahead, CronTypes, Cron!Instant
    <2>3. sent[t] - hidden[t] \in Int /\ undone \in Nat
      BY DEF CronTypes
    <2> QED
      BY <2>1, <2>2, <2>3 DEF Accountable
  <1> QED
    BY <1>2, <1>3 DEF CronInv, Accountable

\* The claim of an instant takes its place in the account of what lay ahead.
LEMMA ClaimKeeps ==
    ASSUME CronInv, NEW w \in Workers, Cron!ClaimDueCron(w)
    PROVE  CronInv'
  <1> DEFINE due == rounds[w].due
             t0 == rounds[w].now
  <1>1. /\ rounds[w] \in RoundState /\ rounds[w].pc = "claim"
        /\ due \in Cron!Instant /\ t0 \in 0 .. MaxInstant /\ due <= t0
    BY DEF CronInv, CronTypes, DueInPast, RoundState, Cron!ClaimDueCron, Cron!At
  <1>2. Cron!NextRun(due, t0) \in Cron!Instant /\ due < Cron!NextRun(due, t0)
    BY <1>1, NextRunLater
  <1>3. UNCHANGED <<now, sent, hidden, undone>> /\ Cron!NoRound \in RoundState
    BY ServicesAssumption DEF Cron!ClaimDueCron, Cron!NoRound, RoundState, Cron!Instant
  <1>4. CASE Cron!Return(w) /\ next' \in {next, Cron!NextRun(due, t0)} /\ next <= next'
    <2>1. /\ rounds' = [rounds EXCEPT ![w] = Cron!NoRound] /\ next' \in Cron!Instant
          /\ Cron!NoRound.pc = "idle"
      BY <1>2, <1>4 DEF Cron!Return, CronInv, CronTypes, Cron!NoRound
    <2> QED
      BY <1>3, <1>4, <2>1, NoClaim DEF CronInv
  <1>5. CASE /\ Cron!Goto(w, "invoke") /\ next = due /\ next' = Cron!NextRun(due, t0)
    <2> DEFINE x == [rounds[w] EXCEPT !.pc = "invoke"]
    <2>1. x \in RoundState /\ x.pc = "invoke" /\ x.due = due /\ x.now = t0
      BY <1>1 DEF RoundState
    <2>2. rounds' = [rounds EXCEPT ![w] = x]
      BY <1>5 DEF Cron!Goto
    <2> HIDE DEF x
    <2>3. /\ rounds' \in [Workers -> RoundState] /\ rounds'[w] = x
          /\ \A v \in Workers : v # w => rounds'[v] = rounds[v]
          /\ \A t : Claimed(t)' = IF x.pc = "invoke" /\ x.due = t
                                  THEN Claimed(t) \cup {w} ELSE Claimed(t) \ {w}
      BY <2>1, <2>2, RoundMoves DEF CronInv
    <2>4. CronTypes' /\ DueInPast'
      BY <1>1, <1>2, <1>3, <1>5, <2>1, <2>3 DEF CronInv, CronTypes, DueInPast
    <2>5. ASSUME NEW t \in Cron!Instant
          PROVE  /\ IsFiniteSet(Claimed(t)')
                 /\ sent'[t] - hidden'[t] + Cardinality(Claimed(t)') + Ahead(t)'
                      <= 1 + undone'
      <3>1. w \notin Claimed(t)
        BY <1>1 DEF Claimed
      <3>2. /\ IsFiniteSet(Claimed(t)) /\ Cardinality(Claimed(t)) \in Nat
            /\ sent[t] - hidden[t] + Cardinality(Claimed(t)) + Ahead(t) <= 1 + undone
        BY FS_CardinalityType DEF CronInv, Accountable
      <3>3. /\ Ahead(t) \in Nat /\ Ahead(t)' \in Nat
            /\ t = due => Ahead(t) = 1 /\ Ahead(t)' = 0
            /\ t # due => Ahead(t)' <= Ahead(t)
        BY <1>1, <1>2, <1>5 DEF Ahead, Cron!Instant
      <3>4. sent[t] - hidden[t] \in Int /\ undone \in Nat
        BY DEF CronInv, CronTypes
      <3>5. CASE t = due
        <4>1. Claimed(t)' = Claimed(t) \cup {w}
          BY <2>1, <2>3, <3>5
        <4>2. /\ IsFiniteSet(Claimed(t)')
              /\ Cardinality(Claimed(t)') = Cardinality(Claimed(t)) + 1
          BY <3>1, <3>2, <4>1, FS_AddElement
        <4> QED
          BY <1>3, <3>2, <3>3, <3>4, <3>5, <4>2
      <3>6. CASE t # due
        <4>1. Claimed(t)' = Claimed(t)
          BY <2>1, <2>3, <3>1, <3>6
        <4> QED
          BY <1>3, <3>2, <3>3, <3>4, <3>6, <4>1
      <3> QED
        BY <3>5, <3>6
    <2> QED
      BY <2>4, <2>5 DEF CronInv, Accountable
  <1>6. next \in Int
    BY DEF CronInv, CronTypes, Cron!Instant
  <1> QED
    BY <1>2, <1>4, <1>5, <1>6 DEF Cron!ClaimDueCron, Cron!Instant

\* Who has claimed an instant enqueues it, or loses the claim: one for one.
LEMMA InvokeKeeps ==
    ASSUME CronInv, NEW w \in Workers, NEW x \in RoundState,
           rounds[w].pc = "invoke", rounds' = [rounds EXCEPT ![w] = x],
           x.pc # "invoke", x.pc \notin {"idle", "scan"} => x.due <= x.now,
           UNCHANGED <<next, now, undone>>,
           \/ UNCHANGED <<sent, hidden>>
           \/ /\ sent' = [sent EXCEPT ![rounds[w].due] = @ + 1]
              /\ \/ UNCHANGED hidden
                 \/ hidden' = [hidden EXCEPT ![rounds[w].due] = @ + 1]
    PROVE  CronInv'
  <1> DEFINE due == rounds[w].due
  <1>1. /\ rounds' \in [Workers -> RoundState] /\ rounds'[w] = x
        /\ \A v \in Workers : v # w => rounds'[v] = rounds[v]
        /\ \A t : Claimed(t)' = Claimed(t) \ {w}
    BY RoundMoves DEF CronInv
  <1>2. due \in Cron!Instant /\ w \in Claimed(due)
    BY DEF CronInv, CronTypes, RoundState, Claimed
  <1>3. CronTypes' /\ DueInPast'
    BY <1>1, <1>2 DEF CronInv, CronTypes, DueInPast
  <1>4. ASSUME NEW t \in Cron!Instant
        PROVE  /\ IsFiniteSet(Claimed(t)')
               /\ sent'[t] - hidden'[t] + Cardinality(Claimed(t)') + Ahead(t)'
                    <= 1 + undone'
    <2>1. /\ IsFiniteSet(Claimed(t)')
          /\ Cardinality(Claimed(t)') \in Nat /\ Cardinality(Claimed(t)) \in Nat
          /\ Cardinality(Claimed(t)') <= Cardinality(Claimed(t))
          /\ t = due => Cardinality(Claimed(t)') + 1 = Cardinality(Claimed(t))
      BY <1>1, <1>2, <1>4, Shrinks DEF CronInv, Accountable
    <2>2. Ahead(t)' = Ahead(t) /\ Ahead(t) \in Nat
      BY DEF Ahead
    <2>3. /\ sent[t] \in Nat /\ hidden[t] \in Nat /\ undone \in Nat
          /\ sent'[t] \in Nat /\ hidden'[t] \in Nat
          /\ t # due => sent'[t] = sent[t] /\ hidden'[t] = hidden[t]
          /\ sent'[t] - hidden'[t] <= sent[t] - hidden[t] + 1
      BY <1>2, <1>3 DEF CronInv, CronTypes
    <2>4. sent[t] - hidden[t] + Cardinality(Claimed(t)) + Ahead(t) <= 1 + undone
      BY DEF CronInv, Accountable
    <2> QED
      BY <2>1, <2>2, <2>3, <2>4
  <1> QED
    BY <1>3, <1>4 DEF CronInv, Accountable

\* Writing the due instant back, whoever has advanced the row since, may let
\* every later instant be claimed once more.
LEMMA RestoreKeeps ==
    ASSUME CronInv, NEW w \in Workers, Cron!RestoreDue(w)
    PROVE  CronInv'
  <1>1. /\ rounds' = [rounds EXCEPT ![w] = Cron!NoRound] /\ rounds[w].pc = "restore"
        /\ next' = rounds[w].due /\ undone' = undone + 1 /\ UNCHANGED <<now, sent, hidden>>
    BY DEF Cron!RestoreDue, Cron!Return, Cron!At
  <1>2. Cron!NoRound \in RoundState /\ Cron!NoRound.pc = "idle"
    BY ServicesAssumption DEF Cron!NoRound, RoundState, Cron!Instant
  <1>3. /\ rounds' \in [Workers -> RoundState] /\ rounds'[w] = Cron!NoRound
        /\ \A v \in Workers : v # w => rounds'[v] = rounds[v]
        /\ \A t : Claimed(t)' = Claimed(t) \ {w}
    BY <1>1, <1>2, RoundMoves DEF CronInv
  <1>4. CronTypes' /\ DueInPast'
    BY <1>1, <1>2, <1>3 DEF CronInv, CronTypes, DueInPast, RoundState
  <1>5. ASSUME NEW t \in Cron!Instant
        PROVE  /\ IsFiniteSet(Claimed(t)')
               /\ sent'[t] - hidden'[t] + Cardinality(Claimed(t)') + Ahead(t)'
                    <= 1 + undone'
    <2>1. /\ IsFiniteSet(Claimed(t)')
          /\ Cardinality(Claimed(t)') = Cardinality(Claimed(t))
          /\ Cardinality(Claimed(t)) \in Nat
      <3>1. w \notin Claimed(t)
        BY <1>1 DEF Claimed
      <3>2. Claimed(t)' = Claimed(t)
        BY <1>3, <3>1
      <3> QED
        BY <3>2, FS_CardinalityType DEF CronInv, Accountable
    <2>2. Ahead(t)' \in 0 .. 1 /\ Ahead(t) \in 0 .. 1
      BY DEF Ahead
    <2>3. sent[t] - hidden[t] \in Int /\ undone \in Nat
      BY DEF CronInv, CronTypes
    <2>4. sent[t] - hidden[t] + Cardinality(Claimed(t)) + Ahead(t) <= 1 + undone
      BY DEF CronInv, Accountable
    <2> QED
      BY <1>1, <2>1, <2>2, <2>3, <2>4
  <1> QED
    BY <1>4, <1>5 DEF CronInv, Accountable

LEMMA CronStep == CronInv /\ [Cron!Next]_Cron!vars => CronInv'
  <1> SUFFICES ASSUME CronInv, [Cron!Next]_Cron!vars PROVE CronInv'
    OBVIOUS
  <1>1. Cron!NoRound \in RoundState /\ Cron!NoRound.pc = "idle"
    BY ServicesAssumption DEF Cron!NoRound, RoundState, Cron!Instant
  <1>2. next \in Cron!Instant /\ next <= next
    BY DEF CronInv, CronTypes, Cron!Instant
  <1>3. CASE Cron!Tick \/ UNCHANGED Cron!vars
    <2>1. /\ UNCHANGED <<next, rounds, sent, hidden, undone>> /\ now' \in 0 .. MaxInstant
      BY <1>3, ServicesAssumption DEF Cron!Tick, Cron!vars, CronInv, CronTypes
    <2>2. \A t : Claimed(t)' = Claimed(t) /\ Ahead(t)' = Ahead(t)
      BY <2>1 DEF Claimed, Ahead
    <2> QED
      BY <2>1, <2>2 DEF CronInv, CronTypes, DueInPast, Accountable
  <1>4. ASSUME NEW w \in Workers, Cron!Return(w), UNCHANGED <<next, now, sent, hidden, undone>>
        PROVE  CronInv'
    BY <1>1, <1>2, <1>4, NoClaim DEF Cron!Return, CronInv
  <1>5. ASSUME NEW w \in Workers, Cron!StartRound(w) PROVE CronInv'
    <2> DEFINE x == [pc |-> "scan", now |-> now, due |-> 0]
    <2>1. x \in RoundState
      BY ServicesAssumption DEF RoundState, CronInv, CronTypes, Cron!Instant
    <2> QED
      BY <1>2, <1>5, <2>1, NoClaim DEF Cron!StartRound, CronInv
  <1>6. ASSUME NEW w \in Workers, Cron!Scan(w) PROVE CronInv'
    <2>1. CASE next <= rounds[w].now
      <3> DEFINE x == [rounds[w] EXCEPT !.pc = "claim", !.due = next]
      <3>1. x \in RoundState /\ x.pc = "claim" /\ x.due <= x.now
        BY <2>1 DEF RoundState, CronInv, CronTypes
      <3>2. rounds' = [rounds EXCEPT ![w] = x]
        BY <1>6, <2>1 DEF Cron!Scan
      <3> HIDE DEF x
      <3> QED
        BY <1>2, <1>6, <3>1, <3>2, NoClaim DEF Cron!Scan, CronInv
    <2> QED
      BY <1>4, <1>6, <2>1 DEF Cron!Scan
  <1>7. ASSUME NEW w \in Workers, NEW pc \in {"undo", "restore"},
               rounds[w].pc \in {"invoke", "undo"}
        PROVE  /\ [rounds[w] EXCEPT !.pc = pc] \in RoundState
               /\ [rounds[w] EXCEPT !.pc = pc].pc = pc
               /\ [rounds[w] EXCEPT !.pc = pc].due <= [rounds[w] EXCEPT !.pc = pc].now
    BY <1>7 DEF RoundState, CronInv, CronTypes, DueInPast
  <1>8. ASSUME NEW w \in Workers, Cron!InvokeTrigger(w) PROVE CronInv'
    BY <1>1, <1>8, InvokeKeeps DEF Cron!InvokeTrigger, Cron!At, Cron!Return
  <1>9. ASSUME NEW w \in Workers, Cron!InvokeFails(w) PROVE CronInv'
    <2> DEFINE x == [rounds[w] EXCEPT !.pc = "undo"]
    <2>1. x \in RoundState /\ x.pc = "undo" /\ x.due <= x.now /\ rounds[w].pc = "invoke"
      BY <1>7, <1>9 DEF Cron!InvokeFails, Cron!At
    <2>2. rounds' = [rounds EXCEPT ![w] = x]
      BY <1>9 DEF Cron!InvokeFails, Cron!Goto
    <2> HIDE DEF x
    <2> QED
      BY <1>9, <2>1, <2>2, InvokeKeeps DEF Cron!InvokeFails
  <1>10. ASSUME NEW w \in Workers, Cron!ReadForUndo(w) PROVE CronInv'
    <2>1. CASE next > rounds[w].now
      <3> DEFINE x == [rounds[w] EXCEPT !.pc = "restore"]
      <3>1. x \in RoundState /\ x.pc = "restore" /\ x.due <= x.now
        BY <1>7, <1>10 DEF Cron!ReadForUndo, Cron!At
      <3>2. rounds' = [rounds EXCEPT ![w] = x]
        BY <1>10, <2>1 DEF Cron!ReadForUndo, Cron!Goto
      <3> HIDE DEF x
      <3> QED
        BY <1>2, <1>10, <3>1, <3>2, NoClaim DEF Cron!ReadForUndo, CronInv
    <2> QED
      BY <1>4, <1>10, <2>1 DEF Cron!ReadForUndo
  <1>11. ASSUME NEW w \in Workers, Cron!Abandon(w) PROVE CronInv'
    BY <1>4, <1>11 DEF Cron!Abandon
  <1> QED
    BY <1>3, <1>5, <1>6, <1>8, <1>9, <1>10, <1>11, ClaimKeeps, RestoreKeeps
       DEF Cron!Next, Cron!Dispatch, Cron!Undo

LEMMA CronInductive == Cron!Spec => []CronInv
  BY CronInit, CronStep, PTL DEF Cron!Spec

\* Whatever the other services do, a trigger sees its own steps only.
LEMMA CronAlone == MCSpec => Cron!Spec
<1>1. MCInit => Cron!Init
  BY DEF MCInit
<1>2. [MCNext]_MCvars => [Cron!Next]_Cron!vars
  BY DEF MCNext, MCvars, cronVars, Cron!vars
<1> QED BY <1>1, <1>2, PTL DEF MCSpec, Cron!Spec

\* Whatever workers read the row as due, and however late they claim it, an
\* instant is dispatched again only once for each run that was put back: for
\* any workers, schedule, grace and number of failed enqueues.
THEOREM RunsPerPutBack == MCSpec => []RunsOnce
<1>1. ASSUME CronInv PROVE RunsOnce
  <2> SUFFICES ASSUME NEW t \in Cron!Instant PROVE sent[t] - hidden[t] <= 1 + undone
    BY DEF RunsOnce, Cron!RunsOnce
  <2>1. /\ sent[t] - hidden[t] \in Int /\ undone \in Nat
        /\ Cardinality(Claimed(t)) \in Nat /\ Ahead(t) \in Nat
    BY <1>1, FS_CardinalityType DEF CronInv, CronTypes, Accountable, Ahead
  <2>2. sent[t] - hidden[t] + Cardinality(Claimed(t)) + Ahead(t) <= 1 + undone
    BY <1>1 DEF CronInv, Accountable
  <2> QED BY <2>1, <2>2
<1> QED BY <1>1, CronAlone, CronInductive, PTL

\* Rounds whose enqueue has failed and that may still put their run back.
Undoing == {w \in Workers : rounds[w].pc \in {"undo", "restore"}}

\* Every put-back, done or still possible, has cost an error.
CronBound ==
    /\ misfire \in {"skip", "catch_up_once"}
    /\ errors \in 0 .. MaxErrors
    /\ IsFiniteSet(Undoing)
    /\ undone + Cardinality(Undoing) <= errors

\* A step that neither fails an enqueue nor puts a run back adds to neither.
LEMMA CronBoundFewer ==
  ASSUME CronInv, CronBound, UNCHANGED <<misfire, errors, undone>>, Undoing' \subseteq Undoing
  PROVE  CronBound'
<1>1. IsFiniteSet(Undoing') /\ Cardinality(Undoing') <= Cardinality(Undoing)
  BY FS_Subset DEF CronBound
<1>2. Cardinality(Undoing') \in Nat /\ Cardinality(Undoing) \in Nat
  BY <1>1, FS_CardinalityType DEF CronBound
<1>3. undone \in Nat /\ errors \in Nat
  BY ServicesAssumption DEF CronInv, CronTypes, CronBound
<1> QED BY <1>1, <1>2, <1>3 DEF CronBound

\* A failed enqueue pays for the put-back it may lead to.
LEMMA CronBoundStep ==
  ASSUME CronInv, CronBound, [Cron!Next]_Cron!vars
  PROVE  CronBound'
<1> USE ServicesAssumption
<1>0. /\ rounds \in [Workers -> RoundState] /\ undone \in Nat /\ errors \in Nat
      /\ Cardinality(Undoing) \in Nat
  BY FS_CardinalityType DEF CronInv, CronTypes, CronBound
<1>1. CASE Cron!Tick \/ UNCHANGED Cron!vars
  <2>1. UNCHANGED <<rounds, misfire, errors, undone>>
    BY <1>1 DEF Cron!Tick, Cron!vars
  <2> QED BY <2>1, CronBoundFewer DEF Undoing
<1>2. ASSUME NEW w \in Workers, NEW v, rounds' = [rounds EXCEPT ![w] = v],
             v.pc \notin {"undo", "restore"} \/ rounds[w].pc \in {"undo", "restore"}
      PROVE  Undoing' \subseteq Undoing
  BY <1>0, <1>2 DEF Undoing
<1>3. ASSUME NEW w \in Workers,
             Cron!StartRound(w) \/ Cron!Scan(w) \/ Cron!ClaimDueCron(w)
             \/ Cron!InvokeTrigger(w) \/ Cron!ReadForUndo(w) \/ Cron!Abandon(w)
      PROVE  CronBound'
  <2>1. UNCHANGED <<misfire, errors, undone>>
    BY <1>3
       DEF Cron!StartRound, Cron!Scan, Cron!ClaimDueCron, Cron!InvokeTrigger,
           Cron!ReadForUndo, Cron!Abandon
  <2>2. \E v : /\ rounds' = [rounds EXCEPT ![w] = v]
               /\ v.pc \notin {"undo", "restore"} \/ rounds[w].pc \in {"undo", "restore"}
    <3>1. CASE Cron!Return(w)
      <4>1. Cron!NoRound.pc = "idle"
        BY DEF Cron!NoRound
      <4>2. rounds' = [rounds EXCEPT ![w] = Cron!NoRound]
        BY <3>1 DEF Cron!Return
      <4> QED BY <4>1, <4>2
    <3>2. CASE Cron!StartRound(w)
      <4>1. PICK v : v = [pc |-> "scan", now |-> now, due |-> 0]
        OBVIOUS
      <4>2. v.pc = "scan"
        BY <4>1
      <4>3. rounds' = [rounds EXCEPT ![w] = v]
        BY <3>2, <4>1 DEF Cron!StartRound
      <4> QED BY <4>2, <4>3
    <3>3. CASE Cron!Scan(w) /\ ~Cron!Return(w)
      <4>1. PICK v : v = [rounds[w] EXCEPT !.pc = "claim", !.due = next]
        OBVIOUS
      <4>2. v.pc = "claim"
        BY <1>0, <4>1 DEF RoundState
      <4>3. rounds' = [rounds EXCEPT ![w] = v]
        BY <3>3, <4>1 DEF Cron!Scan
      <4> QED BY <4>2, <4>3
    <3>4. CASE Cron!ClaimDueCron(w) /\ ~Cron!Return(w)
      <4>1. PICK v : v = [rounds[w] EXCEPT !.pc = "invoke"]
        OBVIOUS
      <4>2. v.pc = "invoke"
        BY <1>0, <4>1 DEF RoundState
      <4>3. rounds' = [rounds EXCEPT ![w] = v]
        BY <3>4, <4>1 DEF Cron!ClaimDueCron, Cron!Goto
      <4> QED BY <4>2, <4>3
    <3>5. CASE Cron!ReadForUndo(w) /\ ~Cron!Return(w)
      <4>1. rounds[w].pc = "undo"
        BY <3>5 DEF Cron!ReadForUndo, Cron!At
      <4>2. rounds' = [rounds EXCEPT ![w] = [rounds[w] EXCEPT !.pc = "restore"]]
        BY <3>5 DEF Cron!ReadForUndo, Cron!Goto
      <4> QED BY <4>1, <4>2
    <3> QED BY <1>3, <3>1, <3>2, <3>3, <3>4, <3>5 DEF Cron!InvokeTrigger, Cron!Abandon
  <2> QED BY <1>2, <2>1, <2>2, CronBoundFewer
<1>4. ASSUME NEW w \in Workers, Cron!InvokeFails(w) PROVE CronBound'
  <2>1. /\ rounds[w].pc = "invoke" /\ errors < MaxErrors /\ errors' = errors + 1
        /\ UNCHANGED <<misfire, undone>>
        /\ rounds' = [rounds EXCEPT ![w] = [rounds[w] EXCEPT !.pc = "undo"]]
    BY <1>4 DEF Cron!InvokeFails, Cron!At, Cron!Goto
  <2>2. [rounds[w] EXCEPT !.pc = "undo"].pc = "undo"
    BY <1>0 DEF RoundState
  <2>3. Undoing' = Undoing \cup {w}
    BY <1>0, <2>1, <2>2 DEF Undoing
  <2>4. /\ IsFiniteSet(Undoing')
        /\ Cardinality(Undoing') \in {Cardinality(Undoing), Cardinality(Undoing) + 1}
    BY <2>3, FS_AddElement DEF CronBound
  <2>5. undone + Cardinality(Undoing') <= errors + 1
    BY <1>0, <2>4 DEF CronBound
  <2> QED BY <1>0, <2>1, <2>4, <2>5 DEF CronBound
<1>5. ASSUME NEW w \in Workers, Cron!RestoreDue(w) PROVE CronBound'
  <2>1. /\ rounds[w].pc = "restore" /\ undone' = undone + 1
        /\ UNCHANGED <<misfire, errors>> /\ rounds' = [rounds EXCEPT ![w] = Cron!NoRound]
    BY <1>5 DEF Cron!RestoreDue, Cron!At, Cron!Return
  <2>2. Undoing' = Undoing \ {w} /\ w \in Undoing
    BY <1>0, <2>1 DEF Undoing, Cron!NoRound
  <2>3. IsFiniteSet(Undoing') /\ Cardinality(Undoing') = Cardinality(Undoing) - 1
    BY <2>2, FS_RemoveElement DEF CronBound
  <2>4. undone' + Cardinality(Undoing') <= errors
    BY <1>0, <2>1, <2>3 DEF CronBound
  <2> QED BY <2>1, <2>3, <2>4 DEF CronBound
<1> QED BY <1>1, <1>3, <1>4, <1>5 DEF Cron!Next, Cron!Dispatch, Cron!Undo

\* The variables of a cron trigger keep their types; there are no more put-backs
\* than errors.
LEMMA CronTyped == MCSpec => []Cron!TypeOK
<1>1. Cron!Init => CronBound
  <2> SUFFICES ASSUME Cron!Init PROVE CronBound
    OBVIOUS
  <2>1. Undoing = {}
    BY DEF Cron!Init, Undoing, Cron!NoRound
  <2>2. IsFiniteSet(Undoing) /\ Cardinality(Undoing) = 0
    BY <2>1, FS_EmptySet
  <2> QED BY <2>2, ServicesAssumption DEF Cron!Init, CronBound
<1>2. Cron!Spec => []CronBound
  BY <1>1, CronBoundStep, CronInductive, PTL DEF Cron!Spec
<1>3. ASSUME CronInv, CronBound PROVE Cron!TypeOK
  <2>1. undone \in 0 .. MaxErrors
    <3>1. Cardinality(Undoing) \in Nat /\ undone \in Nat
      BY <1>3, FS_CardinalityType DEF CronInv, CronTypes, CronBound
    <3> QED BY <1>3, <3>1, ServicesAssumption DEF CronBound
  <2> QED BY <1>3, <2>1 DEF CronInv, CronTypes, RoundState, CronBound, Cron!TypeOK
<1> QED BY <1>2, <1>3, CronAlone, CronInductive, PTL
=============================================================================
