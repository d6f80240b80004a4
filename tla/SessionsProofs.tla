---------------------------- MODULE SessionsProofs ----------------------------
(* Proofs about sessions: the chain of refresh tokens, and who is refused     *)
(* after a sign-out, for any number of tokens, tabs, servers and requests;    *)
(* and, with the proofs about the other services, the types of all of them.   *)
EXTENDS ClaimsProofs, AssetsProofs

-----------------------------------------------------------------------------
(* Refresh tokens: what one late registration costs, and that nothing else    *)
(* costs anything.                                                            *)

Minted == 1 .. minted

StoreTypes ==
    /\ minted \in Tokens!Tokens
    /\ current \in Minted \cup {Tokens!NoToken} /\ previous \in Minted \cup {Tokens!NoToken}
    /\ held \subseteq Minted
    /\ rotations \subseteq Minted \X Minted /\ IsFiniteSet(rotations)
    /\ revived \in [Tokens!Tokens -> Nat]

RefreshCall == [pc : {"idle", "rotate", "register", "reuse"},
                token : Tokens!Tokens \cup {Tokens!NoToken}]

RefreshTypes ==
    /\ refreshes \in [Refreshes -> RefreshCall]
    /\ \A c \in Refreshes : refreshes[c].pc # "idle" => refreshes[c].token \in Minted

TokenTypes == StoreTypes /\ RefreshTypes

Successors(t) == {p \in rotations : p[1] = t}

\* The token in front has one successor less than it may have.
Budgeted ==
    \A t \in Tokens!Tokens :
      Cardinality(Successors(t)) <= revived[t] + (IF t = current THEN 0 ELSE 1)

NeverLate == \A t \in Tokens!Tokens : revived[t] = 0

\* Without a late registration every token is in its place or has aged.
Placed ==
    NeverLate =>
      /\ current = Tokens!NoToken \/ \A t \in Minted : t \in {current, previous} \cup aged
      /\ \A c \in Refreshes : refreshes[c].pc = "reuse" => refreshes[c].token \in aged
      /\ culprit # Tokens!NoToken => culprit \in aged

TokenInv == TokenTypes /\ Budgeted /\ Placed

-----------------------------------------------------------------------------
(* Types *)

LEMMA TokenInitTypes == ASSUME MaxTokens \in Nat \ {0}, Tokens!Init PROVE TokenTypes
<1>1. IsFiniteSet({}) /\ 1 \in Tokens!Tokens
  BY FS_EmptySet DEF Tokens!Tokens
<1>2. StoreTypes
  BY <1>1 DEF Tokens!Init, StoreTypes, Minted, Tokens!NoToken, Tokens!Tokens
<1>3. RefreshTypes
  BY DEF Tokens!Init, RefreshTypes, RefreshCall, Tokens!Idle
<1>4. QED
  BY <1>2, <1>3 DEF TokenTypes

\* One call moves, and what was minted stays minted.
LEMMA RefreshMoves ==
    ASSUME RefreshTypes, NEW c \in Refreshes, NEW v \in RefreshCall,
           v.pc # "idle" => v.token \in Minted', Minted \subseteq Minted',
           refreshes' = [refreshes EXCEPT ![c] = v]
    PROVE  RefreshTypes'
<1>1. refreshes' \in [Refreshes -> RefreshCall]
  BY DEF RefreshTypes
<1>2. ASSUME NEW d \in Refreshes, refreshes'[d].pc # "idle"
      PROVE refreshes'[d].token \in Minted'
  <2>1. CASE d = c
    BY <1>2, <2>1 DEF RefreshTypes
  <2>2. CASE d # c
    BY <1>2, <2>2 DEF RefreshTypes
  <2>3. QED
    BY <2>1, <2>2
<1>3. QED
  BY <1>1, <1>2 DEF RefreshTypes, RefreshCall

LEMMA RefreshReturns ==
    ASSUME TokenTypes, NEW c \in Refreshes, Tokens!Return(c), minted' = minted
    PROVE RefreshTypes'
<1>1. Tokens!Idle \in RefreshCall /\ Tokens!Idle.pc = "idle"
  BY DEF Tokens!Idle, RefreshCall
<1>2. Minted' = Minted
  BY DEF Minted
<1>3. QED
  BY <1>1, <1>2, RefreshMoves DEF Tokens!Return, TokenTypes

LEMMA SameTypes ==
    ASSUME TokenTypes, UNCHANGED <<current, previous, held, minted, rotations, revived>>
    PROVE  StoreTypes' /\ (refreshes' = refreshes => RefreshTypes')
BY DEF TokenTypes, StoreTypes, RefreshTypes, RefreshCall, Minted

LEMMA RotateTypes ==
    ASSUME MaxTokens \in Nat \ {0}, TokenTypes, NEW c \in Refreshes, Tokens!Rotate(c)
    PROVE TokenTypes'
<1>1. /\ refreshes[c].token \in Minted /\ current \in Minted
      /\ Minted \subseteq Tokens!Tokens /\ minted \in Tokens!Tokens
  BY DEF Tokens!Rotate, Tokens!At, TokenTypes, StoreTypes, RefreshTypes, Minted,
         Tokens!Tokens
<1>2. CASE refreshes[c].token # current
  <2>1. UNCHANGED <<current, previous, minted, rotations, held, revived>>
    BY <1>2 DEF Tokens!Rotate
  <2> DEFINE v == IF refreshes[c].token = previous
                  THEN [pc |-> "register", token |-> current]
                  ELSE [pc |-> "reuse", token |-> refreshes[c].token]
  <2>2. refreshes' = [refreshes EXCEPT ![c] = v]
    BY <1>2 DEF Tokens!Rotate
  <2>3. v \in RefreshCall /\ v.token \in Minted
    BY <1>1 DEF RefreshCall
  <2>4. Minted' = Minted
    BY <2>1 DEF Minted
  <2> HIDE DEF v
  <2>5. RefreshTypes'
    BY <2>2, <2>3, <2>4, RefreshMoves DEF TokenTypes
  <2>6. QED
    BY <2>1, <2>5, SameTypes DEF TokenTypes
<1>3. CASE refreshes[c].token = current
  <2>1. /\ minted' = minted + 1 /\ current' = minted + 1 /\ previous' = current
        /\ minted < MaxTokens /\ rotations' = rotations \cup {<<current, minted + 1>>}
        /\ held' = held /\ revived' = revived
        /\ refreshes' = [refreshes EXCEPT ![c] = [pc |-> "register", token |-> minted + 1]]
    BY <1>3 DEF Tokens!Rotate, Tokens!Advance
  <2>2. minted + 1 \in Tokens!Tokens /\ minted + 1 \in Minted' /\ Minted \subseteq Minted'
    BY <1>1, <2>1 DEF Tokens!Tokens, Minted
  <2>3. [pc |-> "register", token |-> minted + 1] \in RefreshCall
    BY <2>2 DEF RefreshCall
  <2>4. RefreshTypes'
    BY <2>1, <2>2, <2>3, RefreshMoves DEF TokenTypes
  <2>5. IsFiniteSet(rotations')
    BY <2>1, FS_AddElement DEF TokenTypes, StoreTypes
  <2>6. rotations' \subseteq Minted' \X Minted'
    BY <1>1, <2>1, <2>2 DEF TokenTypes, StoreTypes
  <2>7. current' \in Minted' /\ previous' \in Minted' /\ held' \subseteq Minted'
        /\ minted' \in Tokens!Tokens
    BY <1>1, <2>1, <2>2 DEF TokenTypes, StoreTypes
  <2>8. QED
    BY <2>1, <2>4, <2>5, <2>6, <2>7 DEF TokenTypes, StoreTypes
<1>4. QED
  BY <1>2, <1>3

LEMMA TokenTypesStep ==
    ASSUME MaxTokens \in Nat \ {0}, TokenTypes, [Tokens!Next]_Tokens!vars PROVE TokenTypes'
<1>1. CASE UNCHANGED Tokens!vars
  BY <1>1, SameTypes DEF Tokens!vars, TokenTypes
<1>2. ASSUME NEW c \in Refreshes, NEW t \in held, Tokens!RefreshToken(c, t) PROVE TokenTypes'
  <2>1. t \in Minted /\ t \in Tokens!Tokens /\ Minted' = Minted
    BY <1>2 DEF TokenTypes, StoreTypes, Minted, Tokens!Tokens, Tokens!RefreshToken
  <2>2. [pc |-> "rotate", token |-> t] \in RefreshCall
    BY <2>1 DEF RefreshCall
  <2>3. RefreshTypes'
    BY <1>2, <2>1, <2>2, RefreshMoves DEF Tokens!RefreshToken, TokenTypes
  <2>4. QED
    BY <1>2, <2>3, SameTypes DEF Tokens!RefreshToken, Tokens!observed, TokenTypes
<1>3. ASSUME NEW c \in Refreshes, Tokens!Rotate(c) PROVE TokenTypes'
  BY <1>3, RotateTypes
<1>4. ASSUME NEW c \in Refreshes,
             Tokens!RotateMissing(c) \/ Tokens!Abandon(c) \/ Tokens!EndForReuse(c)
      PROVE  TokenTypes'
  <2>1. Tokens!Return(c) /\ UNCHANGED <<current, previous, held, minted, rotations, revived>>
    BY <1>4 DEF Tokens!RotateMissing, Tokens!Abandon, Tokens!EndForReuse, Tokens!observed
  <2>2. QED
    BY <2>1, RefreshReturns, SameTypes DEF TokenTypes
<1>5. ASSUME NEW c \in Refreshes, Tokens!Register(c) PROVE TokenTypes'
  <2>1. refreshes[c].token \in Minted /\ refreshes[c].token \in Tokens!Tokens
           /\ Minted' = Minted
    BY <1>5
       DEF Tokens!Register, Tokens!At, TokenTypes, StoreTypes, RefreshTypes, Minted,
           Tokens!Tokens
  <2>2. RefreshTypes'
    BY <1>5, RefreshReturns DEF Tokens!Register
  <2>3. revived' \in [Tokens!Tokens -> Nat]
    BY <1>5, <2>1 DEF Tokens!Register, TokenTypes, StoreTypes
  <2>4. current' \in Minted /\ previous' \in Minted \cup {Tokens!NoToken}
        /\ held' \subseteq Minted /\ minted' = minted /\ rotations' = rotations
    BY <1>5, <2>1 DEF Tokens!Register, TokenTypes, StoreTypes
  <2>5. QED
    BY <2>1, <2>2, <2>3, <2>4 DEF TokenTypes, StoreTypes
<1>6. CASE Tokens!GraceEnds \/ Tokens!ChainExpires
  <2>1. /\ refreshes' = refreshes /\ held' = held /\ minted' = minted
        /\ rotations' = rotations /\ revived' = revived
        /\ current' \in {current, Tokens!NoToken} /\ previous' \in {previous, Tokens!NoToken}
    BY <1>6 DEF Tokens!GraceEnds, Tokens!ChainExpires, Tokens!observed
  <2>2. Minted' = Minted
    BY <2>1 DEF Minted
  <2>3. StoreTypes'
    BY <2>1, <2>2 DEF TokenTypes, StoreTypes
  <2>4. RefreshTypes'
    BY <2>1, <2>2 DEF TokenTypes, RefreshTypes, RefreshCall
  <2>5. QED
    BY <2>3, <2>4 DEF TokenTypes
<1>7. CASE Tokens!SignOut
  BY <1>7, SameTypes DEF Tokens!SignOut, Tokens!observed, TokenTypes
<1>8. QED
  BY <1>1, <1>2, <1>3, <1>4, <1>5, <1>6, <1>7 DEF Tokens!Next, Tokens!Refresh

-----------------------------------------------------------------------------
(* Successors *)

LEMMA NoSuccessors ==
    ASSUME TokenTypes, NEW t, t \notin Minted PROVE Cardinality(Successors(t)) = 0
<1>1. Successors(t) = {}
  BY DEF TokenTypes, StoreTypes, Successors
<1>2. QED
  BY <1>1, FS_EmptySet

LEMMA SuccessorsCount ==
    ASSUME TokenTypes, NEW t
    PROVE  IsFiniteSet(Successors(t)) /\ Cardinality(Successors(t)) \in Nat
<1>1. Successors(t) \in SUBSET rotations /\ IsFiniteSet(rotations)
  BY DEF TokenTypes, StoreTypes, Successors
<1>2. IsFiniteSet(Successors(t))
  BY <1>1, FS_Subset
<1>3. QED
  BY <1>2, FS_CardinalityType

LEMMA RotateBudget ==
    ASSUME TokenTypes, Budgeted,
           NEW c \in Refreshes, Tokens!Rotate(c), refreshes[c].token = current,
           MaxTokens \in Nat \ {0}
    PROVE  Budgeted'
<1>1. /\ current \in Minted /\ current' = minted + 1 /\ revived' = revived
      /\ rotations' = rotations \cup {<<current, minted + 1>>}
  BY DEF Tokens!Rotate, Tokens!Advance, TokenTypes, StoreTypes, Minted, Tokens!NoToken,
         Tokens!At, Tokens!Tokens
<1>2. current' \notin Minted /\ current' # current
  BY <1>1 DEF Minted, TokenTypes, StoreTypes, Tokens!Tokens
<1> SUFFICES ASSUME NEW t \in Tokens!Tokens
             PROVE  Cardinality(Successors(t)') <= revived[t] + (IF t = current' THEN 0 ELSE 1)
  BY <1>1 DEF Budgeted
<1>3. revived[t] \in Nat /\ Cardinality(Successors(t)) \in Nat
  BY SuccessorsCount DEF TokenTypes, StoreTypes
<1>4. CASE t = current
  <2>1. Successors(t)' = Successors(t) \cup {<<current, minted + 1>>}
    BY <1>1, <1>4 DEF Successors
  <2> DEFINE S == Successors(t)
             p == <<current, minted + 1>>
  <2>6. IsFiniteSet(S) /\ Cardinality(S) \in Nat
    BY SuccessorsCount
  <2>7. Successors(t)' = S \cup {p}
    BY <2>1
  <2> HIDE DEF S, p
  <2>8. Cardinality(S \cup {p}) = IF p \in S THEN Cardinality(S) ELSE Cardinality(S) + 1
    BY <2>6, FS_AddElement
  <2>9. Cardinality(S \cup {p}) <= Cardinality(S) + 1 /\ Cardinality(S \cup {p}) \in Nat
    BY <2>6, <2>8
  <2>2. Cardinality(Successors(t)') <= Cardinality(Successors(t)) + 1
    BY <2>7, <2>9 DEF S
  <2>3. Cardinality(Successors(t)) <= revived[t]
    BY <1>3, <1>4 DEF Budgeted
  <2>4. Cardinality(Successors(t)') \in Nat
    BY <2>7, <2>9
  <2>5. QED
    BY <1>2, <1>3, <1>4, <2>2, <2>3, <2>4
<1>5. CASE t # current
  <2>1. Successors(t)' = Successors(t)
    BY <1>1, <1>5 DEF Successors
  <2>2. CASE t = current'
    BY <1>2, <1>3, <2>1, <2>2, NoSuccessors
  <2>3. CASE t # current'
    BY <1>3, <1>5, <2>1, <2>3 DEF Budgeted
  <2>4. QED
    BY <2>2, <2>3
<1>6. QED
  BY <1>4, <1>5

LEMMA RegisterBudget ==
    ASSUME MaxTokens \in Nat \ {0}, TokenTypes, Budgeted,
           NEW c \in Refreshes, Tokens!Register(c)
    PROVE  Budgeted'
<1> DEFINE r == refreshes[c].token
<1>1. r \in Tokens!Tokens /\ current' = r /\ rotations' = rotations
  <2>1. refreshes[c].pc # "idle" /\ current' = r /\ rotations' = rotations
    BY DEF Tokens!Register, Tokens!At
  <2>2. r \in Minted
    BY <2>1 DEF TokenTypes, RefreshTypes
  <2>3. Minted \subseteq Tokens!Tokens
    BY DEF TokenTypes, StoreTypes, Minted, Tokens!Tokens
  <2>4. QED
    BY <2>1, <2>2, <2>3
<1>2. revived' = IF current # r THEN [revived EXCEPT ![r] = @ + 1] ELSE revived
  BY DEF Tokens!Register
<1> SUFFICES ASSUME NEW t \in Tokens!Tokens
             PROVE  Cardinality(Successors(t)) <= revived'[t] + (IF t = r THEN 0 ELSE 1)
  BY <1>1 DEF Budgeted, Successors
<1>3. revived[t] \in Nat /\ Cardinality(Successors(t)) \in Nat
      /\ Cardinality(Successors(t)) <= revived[t] + (IF t = current THEN 0 ELSE 1)
  BY SuccessorsCount DEF TokenTypes, StoreTypes, Budgeted
<1>4. revived'[t] = IF current # r /\ t = r THEN revived[t] + 1 ELSE revived[t]
  BY <1>1, <1>2 DEF TokenTypes, StoreTypes
<1>5. QED
  BY <1>3, <1>4

LEMMA BudgetStep ==
    ASSUME MaxTokens \in Nat \ {0}, TokenTypes, Budgeted, [Tokens!Next]_Tokens!vars
    PROVE Budgeted'
<1>1. ASSUME NEW c \in Refreshes, Tokens!Rotate(c) PROVE Budgeted'
  <2>1. CASE refreshes[c].token = current
    BY <1>1, <2>1, RotateBudget
  <2>2. CASE refreshes[c].token # current
    BY <1>1, <2>2 DEF Tokens!Rotate, Budgeted, Successors
  <2>3. QED
    BY <2>1, <2>2
<1>2. ASSUME NEW c \in Refreshes, Tokens!Register(c) PROVE Budgeted'
  BY <1>2, RegisterBudget
<1>3. CASE Tokens!ChainExpires
  <2>1. current' = Tokens!NoToken /\ UNCHANGED <<rotations, revived>>
    BY <1>3 DEF Tokens!ChainExpires, Tokens!observed
  <2> SUFFICES ASSUME NEW t \in Tokens!Tokens
               PROVE  Cardinality(Successors(t)) <= revived[t] + 1
    BY <2>1 DEF Budgeted, Successors, Tokens!Tokens, Tokens!NoToken
  <2>2. revived[t] \in Nat /\ Cardinality(Successors(t)) \in Nat
    BY SuccessorsCount DEF TokenTypes, StoreTypes
  <2>3. QED
    BY <2>2 DEF Budgeted
<1>4. ASSUME UNCHANGED <<current, rotations, revived>> PROVE Budgeted'
  BY <1>4 DEF Budgeted, Successors
<1>5. QED
  BY <1>1, <1>2, <1>3, <1>4
     DEF Tokens!Next, Tokens!Refresh, Tokens!RefreshToken, Tokens!RotateMissing,
         Tokens!EndForReuse, Tokens!Abandon, Tokens!GraceEnds, Tokens!SignOut,
         Tokens!vars, Tokens!observed

-----------------------------------------------------------------------------
(* Places *)

LEMMA PlacedStep ==
    ASSUME MaxTokens \in Nat \ {0}, TokenTypes, Placed, [Tokens!Next]_Tokens!vars
    PROVE Placed'
<1> USE DEF Tokens!At, Tokens!Return, Tokens!Idle, Tokens!NoToken, Tokens!observed
<1>1. ASSUME NEW c \in Refreshes, Tokens!Rotate(c) PROVE Placed'
  <2>1. revived' = revived /\ culprit' = culprit /\ refreshes[c].token \in Minted
        /\ current \in Minted
    BY <1>1 DEF Tokens!Rotate, TokenTypes, StoreTypes, RefreshTypes
  <2> SUFFICES ASSUME NeverLate
      PROVE /\ \A t \in Minted' : t \in {current', previous'} \cup aged'
            /\ \A d \in Refreshes : refreshes'[d].pc = "reuse"
               => refreshes'[d].token \in aged'
            /\ culprit # Tokens!NoToken => culprit \in aged'
    BY <2>1 DEF Placed, NeverLate
  <2>2. CASE refreshes[c].token # current
    <3>1. UNCHANGED <<current, previous, minted, aged>>
      BY <1>1, <2>2 DEF Tokens!Rotate
    <3>2. refreshes'[c].pc = "reuse" => refreshes'[c].token \notin {current, previous}
                                    /\ refreshes'[c].token \in Minted
      BY <1>1, <2>1, <2>2 DEF Tokens!Rotate, TokenTypes, StoreTypes, RefreshTypes
    <3>3. \A d \in Refreshes : d # c => refreshes'[d] = refreshes[d]
      BY <1>1 DEF Tokens!Rotate, TokenTypes, StoreTypes, RefreshTypes
    <3>4. QED
      BY <2>1, <3>1, <3>2, <3>3
         DEF Placed, Minted, TokenTypes, StoreTypes, RefreshTypes, Tokens!Tokens
  <2>3. CASE refreshes[c].token = current
    <3>1. Tokens!Advance(current)
      BY <1>1, <2>3 DEF Tokens!Rotate
    <3>2. minted' = minted + 1 /\ current' = minted + 1 /\ previous' = current
          /\ aged' = aged \cup ({previous} \ {Tokens!NoToken, current})
      BY <3>1 DEF Tokens!Advance
    <3>3. \A t \in Minted' : t \in Minted \/ t = minted + 1
      BY <3>2 DEF Minted, TokenTypes, StoreTypes, RefreshTypes, Tokens!Tokens
    <3>4. \A t \in Minted : t # 0
      BY DEF Minted, TokenTypes, StoreTypes, RefreshTypes, Tokens!Tokens
    <3>5. \A t \in Minted' : t \in {current', previous'} \cup aged'
      BY <2>1, <3>2, <3>3, <3>4 DEF Placed
    <3>6. \A d \in Refreshes : refreshes'[d].pc = "reuse"
             => d # c /\ refreshes'[d] = refreshes[d]
      BY <1>1, <2>3 DEF Tokens!Rotate, TokenTypes, StoreTypes, RefreshTypes
    <3>7. QED
      BY <3>2, <3>5, <3>6 DEF Placed
  <2>4. QED
    BY <2>2, <2>3
<1>2. ASSUME NEW c \in Refreshes, Tokens!Register(c) PROVE Placed'
  <2>1. refreshes[c].token \in Tokens!Tokens
    BY <1>2 DEF Tokens!Register, TokenTypes, StoreTypes, RefreshTypes, Minted, Tokens!Tokens
  <2>2. CASE current # refreshes[c].token
    <3>1. revived'[refreshes[c].token] # 0
      BY <1>2, <2>1, <2>2 DEF Tokens!Register, TokenTypes, StoreTypes, RefreshTypes
    <3>2. QED
      BY <2>1, <3>1 DEF Placed, NeverLate
  <2>3. CASE current = refreshes[c].token
    <3>1. UNCHANGED <<current, previous, minted, revived, aged, culprit>>
      BY <1>2, <2>3 DEF Tokens!Register
    <3>2. \A d \in Refreshes : refreshes'[d].pc = "reuse" => refreshes'[d] = refreshes[d]
      BY <1>2 DEF Tokens!Register, TokenTypes, StoreTypes, RefreshTypes
    <3>3. QED
      BY <3>1, <3>2 DEF Placed, NeverLate, Minted
  <2>4. QED
    BY <2>2, <2>3
<1>3. ASSUME NEW c \in Refreshes, Tokens!EndForReuse(c) PROVE Placed'
  BY <1>3
     DEF Tokens!EndForReuse, Placed, NeverLate, Minted, TokenTypes, StoreTypes,
         RefreshTypes
<1>4. ASSUME NEW c \in Refreshes, Tokens!RotateMissing(c) \/ Tokens!Abandon(c) PROVE Placed'
  BY <1>4
     DEF Tokens!RotateMissing, Tokens!Abandon, Placed, NeverLate, Minted, TokenTypes,
         StoreTypes, RefreshTypes
<1>5. ASSUME NEW c \in Refreshes, NEW t \in held, Tokens!RefreshToken(c, t) PROVE Placed'
  BY <1>5
     DEF Tokens!RefreshToken, Placed, NeverLate, Minted, TokenTypes, StoreTypes,
         RefreshTypes
<1>6. CASE Tokens!GraceEnds
  BY <1>6 DEF Tokens!GraceEnds, Placed, NeverLate, Minted
<1>7. CASE Tokens!ChainExpires \/ Tokens!SignOut \/ UNCHANGED Tokens!vars
  BY <1>7 DEF Tokens!ChainExpires, Tokens!SignOut, Tokens!vars, Placed, NeverLate, Minted
<1>8. QED
  BY <1>1, <1>2, <1>3, <1>4, <1>5, <1>6, <1>7 DEF Tokens!Next, Tokens!Refresh


LEMMA TokenInit == ASSUME MaxTokens \in Nat \ {0}, Tokens!Init PROVE TokenInv
<1>1. TokenTypes
  BY TokenInitTypes
<1>2. \A t : Successors(t) = {}
  BY DEF Tokens!Init, Successors
<1>3. \A t : Cardinality(Successors(t)) = 0
  BY <1>2, FS_EmptySet
<1>4. Budgeted
  BY <1>3 DEF Tokens!Init, Budgeted
<1>5. Placed
  BY DEF Tokens!Init, Placed, Minted, Tokens!Idle, Tokens!NoToken
<1>6. QED
  BY <1>1, <1>4, <1>5 DEF TokenInv

LEMMA TokenStep == ASSUME MaxTokens \in Nat \ {0}, TokenInv, [Tokens!Next]_Tokens!vars
PROVE TokenInv'
BY TokenTypesStep, BudgetStep, PlacedStep DEF TokenInv

LEMMA TokenInductive == ASSUME MaxTokens \in Nat \ {0} PROVE Tokens!Spec => []TokenInv
BY TokenInit, TokenStep, PTL DEF Tokens!Spec

\* Whatever the other services do, a chain of tokens sees its own steps only.
LEMMA TokensAlone == MCSpec => Tokens!Spec
<1>1. MCInit => Tokens!Init
  BY DEF MCInit
<1>2. [MCNext]_MCvars => [Tokens!Next]_Tokens!vars
  BY DEF MCNext, MCvars, tokenVars, Tokens!vars
<1> QED BY <1>1, <1>2, PTL DEF MCSpec, Tokens!Spec

\* The instance and this module speak of the same cardinality.
LEMMA SameCardinal == ASSUME NEW S PROVE Tokens!Cardinality(S) = Cardinality(S)
  BY DEF Tokens!Cardinality, Cardinality

\* A token is exchanged for at most one more new token than registrations have
\* put it in front again: the two scripts alone, without the row or a lock,
\* keep any number of tabs in one lineage.
THEOREM OneLineage == MCSpec => []OneSuccessor
<1>1. Tokens!Spec => []TokenInv
  BY ServicesAssumption, TokenInductive
<1>2. ASSUME TokenInv PROVE OneSuccessor
  <2> SUFFICES ASSUME NEW t \in Tokens!Tokens
               PROVE  Cardinality(Successors(t)) <= 1 + revived[t]
    BY SameCardinal DEF OneSuccessor, Tokens!OneSuccessor, Successors
  <2>1. revived[t] \in Nat /\ Cardinality(Successors(t)) \in Nat
    BY <1>2, SuccessorsCount DEF TokenInv, TokenTypes, StoreTypes, RefreshTypes
  <2>2. QED
    BY <1>2, <2>1 DEF TokenInv, Budgeted
<1>3. QED
  BY <1>1, <1>2, TokensAlone, PTL

\* As long as no registration comes late, only a token that has aged ends a
\* session for reuse.
THEOREM GenuineReuse == MCSpec => []ReuseIsGenuine
<1>1. Tokens!Spec => []TokenInv
  BY ServicesAssumption, TokenInductive
<1>2. ASSUME TokenInv PROVE ReuseIsGenuine
  BY <1>2
     DEF TokenInv, TokenTypes, StoreTypes, RefreshTypes, Placed, NeverLate,
         ReuseIsGenuine, Tokens!ReuseIsGenuine
<1>3. QED
  BY <1>1, <1>2, TokensAlone, PTL

\* What only the observers of a chain look at.
TokenObserved ==
    /\ lineage \in {"live", "gone"}
    /\ aged \subseteq Tokens!Tokens
    /\ culprit \in Tokens!Tokens \cup {Tokens!NoToken}

\* Only tokens that were minted age or end a session.
LEMMA TokenObservedStep ==
  ASSUME TokenInv, TokenObserved, [Tokens!Next]_Tokens!vars
  PROVE  TokenObserved'
<1>0. /\ previous \in Tokens!Tokens \cup {Tokens!NoToken}
      /\ \A c \in Refreshes : refreshes[c].token \in Tokens!Tokens \cup {Tokens!NoToken}
  BY ServicesAssumption
     DEF TokenInv, TokenTypes, StoreTypes, RefreshTypes, RefreshCall, Minted, Tokens!Tokens
<1>1. lineage' \in {"live", "gone"}
  BY DEF TokenObserved, Tokens!Next, Tokens!Refresh, Tokens!vars, Tokens!RefreshToken,
         Tokens!Rotate, Tokens!RotateMissing, Tokens!Register, Tokens!EndForReuse,
         Tokens!Abandon, Tokens!GraceEnds, Tokens!ChainExpires, Tokens!SignOut
<1>2. aged' \subseteq aged \cup ({previous} \ {Tokens!NoToken})
  BY DEF Tokens!Next, Tokens!Refresh, Tokens!vars, Tokens!RefreshToken,
         Tokens!Rotate, Tokens!RotateMissing, Tokens!Register, Tokens!EndForReuse,
         Tokens!Abandon, Tokens!GraceEnds, Tokens!ChainExpires, Tokens!SignOut,
         Tokens!Advance, Tokens!observed
<1>3. culprit' = culprit \/ \E c \in Refreshes : culprit' = refreshes[c].token
  BY DEF Tokens!Next, Tokens!Refresh, Tokens!vars, Tokens!RefreshToken,
         Tokens!Rotate, Tokens!RotateMissing, Tokens!Register, Tokens!EndForReuse,
         Tokens!Abandon, Tokens!GraceEnds, Tokens!ChainExpires, Tokens!SignOut,
         Tokens!observed
<1> QED BY <1>0, <1>1, <1>2, <1>3 DEF TokenObserved

\* The variables of a chain of refresh tokens keep their types.
LEMMA TokenTyped == MCSpec => []Tokens!TypeOK
<1>1. Tokens!Init => TokenObserved
  BY DEF Tokens!Init, TokenObserved
<1>2. Tokens!Spec => []TokenInv
  BY ServicesAssumption, TokenInductive
<1>3. Tokens!Spec => []TokenObserved
  BY <1>1, <1>2, TokenObservedStep, PTL DEF Tokens!Spec
<1>4. ASSUME TokenInv, TokenObserved PROVE Tokens!TypeOK
  <2>1. Minted \subseteq Tokens!Tokens
    BY <1>4, ServicesAssumption DEF TokenInv, TokenTypes, StoreTypes, Minted, Tokens!Tokens
  <2>2. rotations \subseteq Tokens!Tokens \X Tokens!Tokens
    BY <1>4, <2>1 DEF TokenInv, TokenTypes, StoreTypes
  <2> QED BY <1>4, <2>1, <2>2
             DEF TokenInv, TokenTypes, StoreTypes, RefreshTypes, RefreshCall,
                 TokenObserved, Tokens!TypeOK
<1> QED BY <1>2, <1>3, <1>4, TokensAlone, PTL

-----------------------------------------------------------------------------
(* Sessions: the row is gone within a budget of the call, so what the caches  *)
(* and the requests still hold of it ends before a marker does.               *)

Visit == [pc : {"look", "check", "read", "put"}, server : Servers,
          since : Nat, after : BOOLEAN]

SigningOut == [pc : {"delete", "evict", "mark", "commit", "done", "failed"},
               server : Servers, since : Nat, tx : BOOLEAN]

PrincipalTypes ==
    /\ time \in Nat /\ marker \in Nat /\ late \in Nat /\ lost \in BOOLEAN
    /\ session \in {"live", "gone"}
    /\ cache \in [Servers -> [until : Nat]]
    /\ visits \in [Visitors -> {Principals!NoRequest} \cup Visit]
    /\ signOut \in {Principals!NoSignOut} \cup SigningOut

\* The row goes before anybody is told, and never without a call.
GoneInOrder ==
    /\ signOut # Principals!NoSignOut => signOut.since <= time
    /\ session = "gone" => signOut # Principals!NoSignOut
    /\ signOut.pc = "done" => session = "gone"
    /\ signOut.pc \in {"evict", "mark"} => session = "gone" \/ signOut.tx

\* Nobody read the row after it was gone.
FilledBefore ==
    /\ \A s \in Servers : cache[s].until <= time + TTL
    /\ \A v \in Visitors : visits[v].pc # "idle" => visits[v].since <= time
    /\ session = "gone" =>
         /\ \A s \in Servers : cache[s].until <= signOut.since + 2 * Budget + TTL
         /\ \A v \in Visitors : visits[v].pc = "put" =>
                                  visits[v].since <= signOut.since + Budget

\* Who comes afterwards finds an entry at most while there is one.
CameAfter ==
    \A v \in Visitors : visits[v].pc # "idle" /\ visits[v].after =>
       /\ signOut.pc = "done" /\ visits[v].pc # "put"
       /\ visits[v].pc = "check" => visits[v].since <= signOut.since + 2 * Budget + TTL

MarkerStands ==
    signOut.pc \in {"commit", "done"} => lost \/ marker >= signOut.since + MarkerTTL

AdmittedEarly ==
    late > 0 => /\ signOut.pc = "done" /\ lost
                /\ late <= signOut.since + 3 * Budget + TTL

PrincipalInv ==
    /\ PrincipalTypes /\ GoneInOrder /\ FilledBefore /\ CameAfter
    /\ MarkerStands /\ AdmittedEarly

LEMMA PrincipalInit == Principals!Init => PrincipalInv
  <1> SUFFICES ASSUME Principals!Init PROVE PrincipalInv
    OBVIOUS
  <1> USE ServicesAssumption
  <1>1. /\ Principals!NoRequest.pc = "idle" /\ Principals!NoSignOut.pc = "none"
        /\ Principals!NoEntry \in [until : Nat] /\ Principals!NoEntry.until = 0
    BY DEF Principals!NoRequest, Principals!NoSignOut, Principals!NoEntry
  <1>2. PrincipalTypes
    BY <1>1 DEF PrincipalTypes, Principals!Init
  <1>3. GoneInOrder /\ FilledBefore
    BY <1>1 DEF GoneInOrder, FilledBefore, Principals!Init
  <1>4. CameAfter /\ MarkerStands /\ AdmittedEarly
    BY <1>1 DEF CameAfter, MarkerStands, AdmittedEarly, Principals!Init
  <1> QED
    BY <1>2, <1>3, <1>4 DEF PrincipalInv

\* A request that goes one step further, and may drop an entry of the cache.
LEMMA VisitMoves ==
    ASSUME PrincipalInv, NEW v \in Visitors, NEW y \in {Principals!NoRequest} \cup Visit,
           visits' = [visits EXCEPT ![v] = y],
           UNCHANGED <<time, session, marker, signOut, lost>>,
           \/ UNCHANGED cache
           \/ \E s \in Servers : Principals!Evict(s),
           y.pc # "idle" => /\ y.since <= time
                            /\ y.pc = "put" => session = "live" /\ ~y.after
                            /\ y.after => signOut.pc = "done"
                            /\ y.pc = "check" /\ y.after =>
                                 y.since <= signOut.since + 2 * Budget + TTL,
           late' = late
    PROVE  PrincipalInv'
  <1> USE ServicesAssumption
  <1>1. /\ visits'[v] = y /\ \A u \in Visitors : u # v => visits'[u] = visits[u]
        /\ visits' \in [Visitors -> {Principals!NoRequest} \cup Visit]
    BY DEF PrincipalInv, PrincipalTypes
  <1>2. /\ cache' \in [Servers -> [until : Nat]]
        /\ \A s \in Servers : cache'[s].until <= cache[s].until
    <2>1. CASE UNCHANGED cache
      BY <2>1 DEF PrincipalInv, PrincipalTypes
    <2>2. ASSUME NEW s \in Servers, Principals!Evict(s)
          PROVE  /\ cache' \in [Servers -> [until : Nat]]
                 /\ \A x \in Servers : cache'[x].until <= cache[x].until
      <3>1. Principals!NoEntry \in [until : Nat] /\ Principals!NoEntry.until = 0
        BY DEF Principals!NoEntry
      <3> QED
        BY <2>2, <3>1 DEF Principals!Evict, PrincipalInv, PrincipalTypes
    <2> QED
      BY <2>1, <2>2
  <1>3. PrincipalTypes'
    BY <1>1, <1>2 DEF PrincipalInv, PrincipalTypes
  <1>4. GoneInOrder' /\ MarkerStands' /\ AdmittedEarly'
    BY DEF PrincipalInv, GoneInOrder, MarkerStands, AdmittedEarly
  <1>5. FilledBefore'
    <2>1. signOut # Principals!NoSignOut => signOut.since \in Nat
      BY DEF PrincipalInv, PrincipalTypes, SigningOut
    <2>2. \A s \in Servers : cache[s].until \in Nat /\ cache'[s].until \in Nat
      BY <1>2 DEF PrincipalInv, PrincipalTypes
    <2>3. \A s \in Servers : cache'[s].until <= time + TTL
      BY <1>2, <2>2 DEF PrincipalInv, PrincipalTypes, FilledBefore
    <2>4. ASSUME session = "gone", NEW s \in Servers
          PROVE  cache'[s].until <= signOut.since + 2 * Budget + TTL
      BY <1>2, <2>1, <2>2, <2>4 DEF PrincipalInv, GoneInOrder, FilledBefore
    <2>5. \A u \in Visitors : visits'[u].pc # "idle" => visits'[u].since <= time
      BY <1>1 DEF PrincipalInv, FilledBefore
    <2>6. ASSUME session = "gone", NEW u \in Visitors, visits'[u].pc = "put"
          PROVE  visits'[u].since <= signOut.since + Budget
      <3>1. u # v
        BY <1>1, <2>6
      <3> QED
        BY <1>1, <2>6, <3>1 DEF PrincipalInv, FilledBefore
    <2> QED
      BY <2>3, <2>4, <2>5, <2>6 DEF FilledBefore
  <1>6. CameAfter'
    BY <1>1 DEF PrincipalInv, CameAfter
  <1> QED
    BY <1>3, <1>4, <1>5, <1>6 DEF PrincipalInv

\* Whoever is admitted after the answer is admitted by the cache, which the
\* marker would have emptied: it was lost.
LEMMA AdmitKeeps ==
    ASSUME PrincipalInv, NEW v \in Visitors, Principals!At(v, "check"),
           time >= marker, Principals!Admit(v),
           UNCHANGED <<time, session, marker, cache, signOut, lost>>
    PROVE  PrincipalInv'
  <1> USE ServicesAssumption
  <1>1. /\ visits' = [visits EXCEPT ![v] = Principals!NoRequest]
        /\ Principals!NoRequest.pc = "idle"
        /\ late' = IF visits[v].after THEN time ELSE late
    BY DEF Principals!Admit, Principals!Return, Principals!NoRequest
  <1>2. CASE ~visits[v].after
    BY <1>1, <1>2, VisitMoves
  <1>3. CASE visits[v].after
    <2>1. visits[v] \in Visit /\ visits[v].pc = "check" /\ time <= visits[v].since + Budget
      BY DEF Principals!At, PrincipalInv, PrincipalTypes, Principals!NoRequest
    <2>2. /\ signOut.pc = "done"
          /\ visits[v].since <= signOut.since + 2 * Budget + TTL
      BY <1>3, <2>1 DEF PrincipalInv, CameAfter
    <2>3. signOut \in SigningOut
      BY <2>2 DEF PrincipalInv, PrincipalTypes, Principals!NoSignOut
    <2>4. /\ visits[v].since \in Nat /\ signOut.since \in Nat /\ time \in Nat /\ marker \in Nat
      BY <2>1, <2>3 DEF Visit, SigningOut, PrincipalInv, PrincipalTypes
    <2>5. time <= signOut.since + 3 * Budget + TTL
      BY <2>1, <2>2, <2>4
    <2>6. lost
      <3>1. lost \/ marker >= signOut.since + MarkerTTL
        BY <2>2 DEF PrincipalInv, MarkerStands
      <3>2. ~(marker >= signOut.since + MarkerTTL)
        BY <2>4, <2>5, MarkerAssumption
      <3> QED
        BY <3>1, <3>2
    <2>7. AdmittedEarly' /\ late' \in Nat
      BY <1>1, <1>3, <2>2, <2>4, <2>5, <2>6 DEF AdmittedEarly
    <2>8. /\ visits' \in [Visitors -> {Principals!NoRequest} \cup Visit]
          /\ visits'[v].pc = "idle"
          /\ \A u \in Visitors : u # v => visits'[u] = visits[u]
      BY <1>1 DEF PrincipalInv, PrincipalTypes
    <2>9. PrincipalTypes' /\ GoneInOrder' /\ MarkerStands'
      BY <2>7, <2>8 DEF PrincipalInv, PrincipalTypes, GoneInOrder, MarkerStands
    <2>10. FilledBefore' /\ CameAfter'
      BY <2>8 DEF PrincipalInv, FilledBefore, CameAfter
    <2> QED
      BY <2>7, <2>9, <2>10 DEF PrincipalInv
  <1> QED
    BY <1>2, <1>3

\* A cache filled late is filled within a budget of the row's end, and never for
\* somebody who came after the answer.
LEMMA PutKeeps ==
    ASSUME PrincipalInv, NEW v \in Visitors, Principals!Put(v)
    PROVE  PrincipalInv'
  <1> USE ServicesAssumption
  <1> DEFINE s == visits[v].server
             e == [until |-> time + TTL]
  <1>1. /\ visits[v] \in Visit /\ visits[v].pc = "put" /\ time <= visits[v].since + Budget
        /\ visits[v].since \in Nat /\ s \in Servers /\ time \in Nat
    BY DEF Principals!Put, Principals!At, PrincipalInv, PrincipalTypes,
           Principals!NoRequest, Visit
  <1>2. ~visits[v].after
    BY <1>1 DEF PrincipalInv, CameAfter
  <1>3. /\ visits' = [visits EXCEPT ![v] = Principals!NoRequest] /\ late' = late
        /\ Principals!NoRequest.pc = "idle"
        /\ cache' = [cache EXCEPT ![s] = e]
        /\ UNCHANGED <<time, session, marker, signOut, lost>>
    BY <1>2 DEF Principals!Put, Principals!Admit, Principals!Return, Principals!NoRequest
  <1>4. e \in [until : Nat] /\ e.until = time + TTL
    BY <1>1
  <1> HIDE DEF s, e
  <1>5. /\ visits' \in [Visitors -> {Principals!NoRequest} \cup Visit]
        /\ visits'[v].pc = "idle"
        /\ \A u \in Visitors : u # v => visits'[u] = visits[u]
        /\ cache' \in [Servers -> [until : Nat]] /\ cache'[s].until = time + TTL
        /\ \A x \in Servers : x # s => cache'[x] = cache[x]
    BY <1>1, <1>3, <1>4 DEF PrincipalInv, PrincipalTypes
  <1>6. PrincipalTypes' /\ GoneInOrder' /\ MarkerStands' /\ AdmittedEarly' /\ CameAfter'
    BY <1>3, <1>5
       DEF PrincipalInv, PrincipalTypes, GoneInOrder, MarkerStands, AdmittedEarly,
           CameAfter
  <1>7. session = "gone" => time + TTL <= signOut.since + 2 * Budget + TTL
    <2> SUFFICES ASSUME session = "gone"
                 PROVE  time + TTL <= signOut.since + 2 * Budget + TTL
      OBVIOUS
    <2>1. visits[v].since <= signOut.since + Budget
      BY <1>1 DEF PrincipalInv, FilledBefore
    <2>2. signOut.since \in Nat
      BY DEF PrincipalInv, PrincipalTypes, GoneInOrder, SigningOut
    <2> QED
      BY <1>1, <2>1, <2>2
  <1>8. FilledBefore'
    BY <1>1, <1>3, <1>5, <1>7 DEF PrincipalInv, FilledBefore
  <1> QED
    BY <1>6, <1>8 DEF PrincipalInv

LEMMA AuthenticateKeeps ==
    ASSUME PrincipalInv, NEW v \in Visitors, Principals!Authenticate(v)
    PROVE  PrincipalInv'
  <1> USE ServicesAssumption
  <1>1. Principals!NoRequest.pc = "idle"
    BY DEF Principals!NoRequest
  <1>2. ASSUME Principals!Return(v),
               UNCHANGED <<time, session, marker, signOut, lost, late, cache>>
        PROVE  PrincipalInv'
    BY <1>1, <1>2, VisitMoves DEF Principals!Return
  <1>3. ASSUME visits[v].pc # "idle"
        PROVE  /\ visits[v] \in Visit /\ visits[v].since <= time
               /\ visits[v].server \in Servers
    BY <1>3 DEF PrincipalInv, PrincipalTypes, FilledBefore, Principals!NoRequest, Visit
  <1>4. CASE Principals!Arrive(v)
    <2>1. PICK s \in Servers : visits' = [visits EXCEPT ![v] =
             [pc |-> "look", server |-> s, since |-> time, after |-> signOut.pc = "done"]]
      BY <1>4 DEF Principals!Arrive
    <2> DEFINE told == signOut.pc = "done"
               y == [pc |-> "look", server |-> s, since |-> time, after |-> told]
    <2>2. told \in BOOLEAN /\ time \in Nat
      BY DEF PrincipalInv, PrincipalTypes
    <2> HIDE DEF told
    <2>3. /\ y \in Visit /\ y.pc = "look" /\ y.since = time /\ y.since <= time
          /\ y.after = told
      BY <2>2 DEF Visit
    <2>4. y.after => signOut.pc = "done"
      BY <2>3 DEF told
    <2>5. visits' = [visits EXCEPT ![v] = y]
      BY <2>1 DEF told
    <2> HIDE DEF y
    <2> QED
      BY <1>4, <2>3, <2>4, <2>5, VisitMoves DEF Principals!Arrive
  <1>5. ASSUME NEW pc \in {"read", "put", "check"}, visits[v].pc # "idle"
        PROVE  LET y == [visits[v] EXCEPT !.pc = pc]
               IN  /\ y \in Visit /\ y.pc = pc
                   /\ y.since = visits[v].since /\ y.after = visits[v].after
    BY <1>3, <1>5 DEF Visit
  <1>6. ASSUME Principals!Goto(v, "read"), visits[v].pc # "idle",
               UNCHANGED <<time, session, marker, signOut, lost, late>>,
               UNCHANGED cache \/ \E s \in Servers : Principals!Evict(s)
        PROVE  PrincipalInv'
    <2> DEFINE y == [visits[v] EXCEPT !.pc = "read"]
    <2>1. /\ y \in Visit /\ y.pc = "read" /\ y.since <= time
          /\ y.after => signOut.pc = "done"
      BY <1>3, <1>5, <1>6 DEF PrincipalInv, CameAfter
    <2>2. visits' = [visits EXCEPT ![v] = y]
      BY <1>6 DEF Principals!Goto
    <2> HIDE DEF y
    <2> QED
      BY <1>6, <2>1, <2>2, VisitMoves
  <1>7. CASE Principals!Look(v)
    <2>1. visits[v].pc = "look" /\ UNCHANGED <<time, session, marker, signOut, lost, late>>
      BY <1>7 DEF Principals!Look, Principals!At
    <2>2. CASE Principals!Evict(visits[v].server) /\ Principals!Goto(v, "read")
      BY <1>3, <1>6, <2>1, <2>2
    <2>3. CASE /\ time <= cache[visits[v].server].until
               /\ Principals!Goto(v, "check") /\ UNCHANGED cache
      <3> DEFINE y == [visits[v] EXCEPT !.pc = "check"]
      <3>1. /\ y \in Visit /\ y.pc = "check" /\ y.since = visits[v].since /\ y.since <= time
            /\ y.after = visits[v].after
        BY <1>3, <1>5, <2>1
      <3>2. ASSUME y.after
            PROVE  signOut.pc = "done" /\ y.since <= signOut.since + 2 * Budget + TTL
        <4>1. signOut.pc = "done"
          BY <2>1, <3>1, <3>2 DEF PrincipalInv, CameAfter
        <4>2. cache[visits[v].server].until <= signOut.since + 2 * Budget + TTL
          BY <1>3, <2>1, <4>1 DEF PrincipalInv, GoneInOrder, FilledBefore
        <4>3. /\ signOut.since \in Nat /\ time \in Nat /\ y.since \in Nat
              /\ cache[visits[v].server].until \in Nat
          BY <1>3, <2>1, <3>1, <4>1
             DEF PrincipalInv, PrincipalTypes, Principals!NoSignOut, SigningOut, Visit
        <4> HIDE DEF y
        <4> QED
          BY <2>3, <3>1, <4>1, <4>2, <4>3
      <3>3. visits' = [visits EXCEPT ![v] = y]
        BY <2>3 DEF Principals!Goto
      <3> HIDE DEF y
      <3> QED
        BY <2>1, <2>3, <3>1, <3>2, <3>3, VisitMoves
    <2> QED
      BY <1>7, <2>2, <2>3 DEF Principals!Look
  <1>8. CASE Principals!CheckMarker(v)
    <2>1. visits[v].pc = "check" /\ UNCHANGED <<time, session, marker, signOut, lost>>
      BY <1>8 DEF Principals!CheckMarker, Principals!At
    <2>2. CASE /\ Principals!Evict(visits[v].server) /\ Principals!Goto(v, "read")
               /\ UNCHANGED late
      BY <1>3, <1>6, <2>1, <2>2
    <2>3. CASE time >= marker /\ Principals!Admit(v) /\ UNCHANGED cache
      BY <1>8, <2>1, <2>3, AdmitKeeps DEF Principals!CheckMarker
    <2> QED
      BY <1>8, <2>2, <2>3 DEF Principals!CheckMarker
  <1>9. CASE Principals!ReadSession(v)
    <2>1. /\ visits[v].pc = "read"
          /\ UNCHANGED <<time, session, marker, cache, signOut, lost, late>>
      BY <1>9 DEF Principals!ReadSession, Principals!At
    <2>2. CASE session = "live" /\ Principals!Goto(v, "put")
      <3> DEFINE y == [visits[v] EXCEPT !.pc = "put"]
      <3>1. /\ y \in Visit /\ y.pc = "put" /\ y.since <= time /\ y.after = visits[v].after
        BY <1>3, <1>5, <2>1
      <3>2. ~visits[v].after
        BY <2>1, <2>2 DEF PrincipalInv, CameAfter, GoneInOrder
      <3>3. visits' = [visits EXCEPT ![v] = y]
        BY <2>2 DEF Principals!Goto
      <3> HIDE DEF y
      <3> QED
        BY <2>1, <2>2, <3>1, <3>2, <3>3, VisitMoves
    <2> QED
      BY <1>2, <1>9, <2>1, <2>2 DEF Principals!ReadSession
  <1>10. CASE Principals!Leave(v)
    BY <1>2, <1>10 DEF Principals!Leave
  <1> QED
    BY <1>4, <1>7, <1>8, <1>9, <1>10, PutKeeps DEF Principals!Authenticate

\* The call that ends the session.
LEMMA EndKeeps == ASSUME PrincipalInv, Principals!End PROVE PrincipalInv'
  <1> USE ServicesAssumption
  <1>1. /\ Principals!NoSignOut.pc = "none"
        /\ signOut # Principals!NoSignOut => signOut \in SigningOut /\ signOut.since \in Nat
    BY DEF Principals!NoSignOut, PrincipalInv, PrincipalTypes, SigningOut
  <1>2. ASSUME NEW pc \in {"evict", "mark", "commit", "done", "failed"},
               signOut # Principals!NoSignOut
        PROVE  LET y == [signOut EXCEPT !.pc = pc]
               IN  /\ y \in SigningOut /\ y.pc = pc /\ y # Principals!NoSignOut
                   /\ y.since = signOut.since /\ y.tx = signOut.tx
    BY <1>1, <1>2 DEF SigningOut, Principals!NoSignOut
  <1>3. CASE Principals!BeginSignOut
    <2>1. PICK s \in Servers, tx \in BOOLEAN :
             signOut' = [pc |-> IF tx THEN "evict" ELSE "delete", server |-> s,
                         since |-> time, tx |-> tx]
      BY <1>3 DEF Principals!BeginSignOut
    <2>2. /\ signOut = Principals!NoSignOut
          /\ UNCHANGED <<time, session, marker, cache, visits, lost, late>>
      BY <1>3 DEF Principals!BeginSignOut
    <2>3. /\ signOut' \in SigningOut /\ signOut'.pc \in {"evict", "delete"}
          /\ signOut'.since = time
          /\ signOut'.pc = "evict" => signOut'.tx
      BY <2>1 DEF SigningOut, PrincipalInv, PrincipalTypes
    <2>4. PrincipalTypes' /\ GoneInOrder'
      BY <1>1, <2>2, <2>3 DEF PrincipalInv, PrincipalTypes, GoneInOrder
    <2>5. FilledBefore' /\ CameAfter' /\ MarkerStands' /\ AdmittedEarly'
      BY <1>1, <2>2, <2>3
         DEF PrincipalInv, GoneInOrder, FilledBefore, CameAfter, MarkerStands,
             AdmittedEarly
    <2> QED
      BY <2>4, <2>5 DEF PrincipalInv
  <1>4. ASSUME NEW pc \in {"evict", "done"}, signOut # Principals!NoSignOut,
               signOut.pc \in {"delete", "commit"}, time <= signOut.since + Budget,
               pc = "done" => signOut.pc = "commit",
               session' = "gone", signOut' = [signOut EXCEPT !.pc = pc],
               UNCHANGED <<time, marker, cache, visits, lost, late>>
        PROVE  PrincipalInv'
    <2>1. /\ signOut' \in SigningOut /\ signOut'.pc = pc
          /\ signOut' # Principals!NoSignOut /\ signOut'.since = signOut.since
      BY <1>2, <1>4
    <2>2. PrincipalTypes' /\ GoneInOrder' /\ MarkerStands'
      BY <1>4, <2>1 DEF PrincipalInv, PrincipalTypes, GoneInOrder, MarkerStands
    <2>3. CameAfter' /\ AdmittedEarly'
      BY <1>4, <2>1 DEF PrincipalInv, CameAfter, AdmittedEarly
    <2>4. /\ signOut.since \in Nat /\ time \in Nat
          /\ \A s \in Servers : cache[s].until \in Nat
          /\ \A v \in Visitors : visits[v].pc # "idle" => visits[v].since \in Nat
      BY <1>1, <1>4 DEF PrincipalInv, PrincipalTypes, Visit, Principals!NoRequest
    <2>5. \A s \in Servers : cache[s].until <= signOut.since + 2 * Budget + TTL
      BY <1>4, <2>4 DEF PrincipalInv, FilledBefore
    <2>6. \A v \in Visitors : visits[v].pc = "put" =>
                                visits[v].since <= signOut.since + Budget
      BY <1>4, <2>4 DEF PrincipalInv, FilledBefore
    <2>7. FilledBefore'
      BY <1>4, <2>1, <2>5, <2>6 DEF PrincipalInv, FilledBefore
    <2> QED
      BY <2>2, <2>3, <2>7 DEF PrincipalInv
  <1>5. CASE Principals!DeleteRow
    BY <1>1, <1>4, <1>5 DEF Principals!DeleteRow, Principals!Step
  <1>6. CASE Principals!CommitSignOut
    BY <1>1, <1>4, <1>6 DEF Principals!CommitSignOut, Principals!Step
  <1>7. CASE Principals!InvalidateLocal
    <2>1. /\ signOut.pc = "evict" /\ signOut # Principals!NoSignOut
          /\ signOut' = [signOut EXCEPT !.pc = "mark"]
          /\ Principals!Evict(signOut.server)
          /\ UNCHANGED <<time, session, marker, visits, lost, late>>
      BY <1>1, <1>7 DEF Principals!InvalidateLocal, Principals!Step
    <2>2. /\ signOut' \in SigningOut /\ signOut'.pc = "mark"
          /\ signOut' # Principals!NoSignOut /\ signOut'.since = signOut.since
          /\ signOut'.tx = signOut.tx
      BY <1>2, <2>1
    <2>3. Principals!NoEntry \in [until : Nat] /\ Principals!NoEntry.until = 0
      BY DEF Principals!NoEntry
    <2>4. /\ cache' \in [Servers -> [until : Nat]]
          /\ \A s \in Servers : /\ cache'[s].until <= cache[s].until
                                /\ cache'[s].until \in Nat /\ cache[s].until \in Nat
      <3> DEFINE here == signOut.server
      <3>1. cache' = [cache EXCEPT ![here] = Principals!NoEntry] /\ here \in Servers
        BY <1>1, <2>1 DEF Principals!Evict, SigningOut
      <3> HIDE DEF here
      <3> QED
        BY <2>3, <3>1 DEF PrincipalInv, PrincipalTypes
    <2>5. PrincipalTypes' /\ GoneInOrder' /\ MarkerStands'
      BY <2>1, <2>2, <2>4 DEF PrincipalInv, PrincipalTypes, GoneInOrder, MarkerStands
    <2>6. CameAfter' /\ AdmittedEarly'
      BY <2>1, <2>2 DEF PrincipalInv, CameAfter, AdmittedEarly
    <2>7. FilledBefore'
      BY <1>1, <2>1, <2>2, <2>4 DEF PrincipalInv, PrincipalTypes, FilledBefore
    <2> QED
      BY <2>5, <2>6, <2>7 DEF PrincipalInv
  <1>8. ASSUME NEW pc \in {"commit", "done", "failed"}, signOut # Principals!NoSignOut,
               signOut.pc # "done", pc = "done" => session = "gone",
               signOut' = [signOut EXCEPT !.pc = pc],
               marker' \in Nat, lost' \in BOOLEAN,
               pc \in {"commit", "done"} => lost' \/ marker' >= signOut.since + MarkerTTL,
               UNCHANGED <<time, session, cache, visits, late>>
        PROVE  PrincipalInv'
    <2>1. /\ signOut' \in SigningOut /\ signOut'.pc = pc
          /\ signOut' # Principals!NoSignOut /\ signOut'.since = signOut.since
      BY <1>2, <1>8
    <2>2. PrincipalTypes' /\ GoneInOrder' /\ MarkerStands'
      BY <1>8, <2>1 DEF PrincipalInv, PrincipalTypes, GoneInOrder, MarkerStands
    <2>3. FilledBefore' /\ CameAfter' /\ AdmittedEarly'
      BY <1>8, <2>1 DEF PrincipalInv, FilledBefore, CameAfter, AdmittedEarly
    <2> QED
      BY <2>2, <2>3 DEF PrincipalInv
  <1>9. CASE Principals!WriteMarker
    <2> DEFINE pc == IF signOut.tx THEN "commit" ELSE "done"
    <2>1. /\ signOut.pc = "mark" /\ signOut # Principals!NoSignOut
          /\ signOut' = [signOut EXCEPT !.pc = pc]
          /\ UNCHANGED <<time, session, cache, visits, late>>
          /\ \/ marker' = time + MarkerTTL /\ UNCHANGED lost
             \/ lost' = TRUE /\ UNCHANGED marker
      BY <1>1, <1>9 DEF Principals!WriteMarker, Principals!Step, Principals!AfterMark
    <2>2. pc \in {"commit", "done"} /\ (pc = "done" => session = "gone")
      BY <2>1 DEF PrincipalInv, GoneInOrder
    <2>3. /\ signOut.since \in Nat /\ time \in Nat /\ signOut.since <= time
          /\ marker \in Nat /\ lost \in BOOLEAN
      BY <1>1, <2>1 DEF PrincipalInv, PrincipalTypes, GoneInOrder
    <2>4. lost' \in BOOLEAN
      BY <2>1, <2>3
    <2>5. marker' \in Nat /\ (lost' \/ marker' >= signOut.since + MarkerTTL)
      <3>1. CASE marker' = time + MarkerTTL
        BY <2>3, <3>1
      <3>2. CASE lost' = TRUE /\ UNCHANGED marker
        BY <2>3, <3>2
      <3> QED
        BY <2>1, <3>1, <3>2
    <2> HIDE DEF pc
    <2> QED
      BY <1>8, <2>1, <2>2, <2>4, <2>5
  <1>10. CASE Principals!SignOutFails
    <2>1. /\ signOut # Principals!NoSignOut /\ signOut.pc # "done"
          /\ signOut' = [signOut EXCEPT !.pc = "failed"]
          /\ UNCHANGED <<time, session, marker, cache, visits, lost, late>>
      BY <1>1, <1>10 DEF Principals!SignOutFails
    <2>2. marker' \in Nat /\ lost' \in BOOLEAN
      BY <2>1 DEF PrincipalInv, PrincipalTypes
    <2> QED
      BY <1>8, <2>1, <2>2
  <1> QED
    BY <1>3, <1>5, <1>6, <1>7, <1>9, <1>10 DEF Principals!End

LEMMA PrincipalStep == PrincipalInv /\ [Principals!Next]_Principals!vars => PrincipalInv'
  <1> SUFFICES ASSUME PrincipalInv, [Principals!Next]_Principals!vars PROVE PrincipalInv'
    OBVIOUS
  <1>1. CASE Principals!Tick \/ UNCHANGED Principals!vars
    <2>1. /\ UNCHANGED <<session, marker, cache, visits, signOut, lost, late>>
          /\ time' \in Nat /\ time \in Nat /\ time <= time'
      BY <1>1 DEF Principals!Tick, Principals!vars, PrincipalInv, PrincipalTypes
    <2>2. /\ \A s \in Servers : cache[s].until \in Nat
          /\ \A v \in Visitors : visits[v].pc # "idle" => visits[v].since \in Nat
          /\ signOut # Principals!NoSignOut => signOut.since \in Nat
      BY DEF PrincipalInv, PrincipalTypes, Visit, Principals!NoRequest, SigningOut
    <2>3. PrincipalTypes' /\ CameAfter' /\ MarkerStands' /\ AdmittedEarly'
      BY <2>1 DEF PrincipalInv, PrincipalTypes, CameAfter, MarkerStands, AdmittedEarly
    <2>4. GoneInOrder' /\ FilledBefore'
      BY <2>1, <2>2, ServicesAssumption DEF PrincipalInv, GoneInOrder, FilledBefore
    <2> QED
      BY <2>3, <2>4 DEF PrincipalInv
  <1> QED
    BY <1>1, AuthenticateKeeps, EndKeeps DEF Principals!Next

LEMMA PrincipalInductive == Principals!Spec => []PrincipalInv
  BY PrincipalInit, PrincipalStep, PTL DEF Principals!Spec

\* Whatever the other services do, a session sees its own steps only.
LEMMA PrincipalsAlone == MCSpec => Principals!Spec
<1>1. MCInit => Principals!Init
  BY DEF MCInit
<1>2. [MCNext]_MCvars => [Principals!Next]_Principals!vars
  BY DEF MCNext, MCvars, principalVars, Principals!vars
<1> QED BY <1>1, <1>2, PTL DEF MCSpec, Principals!Spec

\* Whoever comes after a sign-out was answered is refused by every server, and
\* an entry of a cache, filled as late as it may be, lets him in only when the
\* marker was lost and only for the life of that entry: for any servers,
\* requests and clocks, as long as the marker outlives them.
THEOREM RefusedAfterwards == MCSpec => []RevokedIsRefused
<1>1. PrincipalInv => RevokedIsRefused
  BY DEF PrincipalInv, AdmittedEarly, RevokedIsRefused, Principals!RevokedIsRefused
<1> QED BY <1>1, PrincipalsAlone, PrincipalInductive, PTL

\* The clock is bounded, and nothing lies further ahead than a marker's life.
PrincipalBound ==
    time <= MaxTime /\ late <= time /\ marker <= time + MarkerTTL

\* Whoever is admitted late is so now, and a marker starts to live now.
LEMMA PrincipalBoundStep ==
  ASSUME PrincipalInv, PrincipalBound, [Principals!Next]_Principals!vars
  PROVE  PrincipalBound'
<1>0. time \in Nat /\ marker \in Nat /\ late \in Nat
  BY DEF PrincipalInv, PrincipalTypes
<1>1. CASE Principals!Tick
  BY <1>0, <1>1, ServicesAssumption DEF Principals!Tick, PrincipalBound
<1>2. CASE ~Principals!Tick
  <2>1. time' = time /\ late' \in {late, time} /\ marker' \in {marker, time + MarkerTTL}
    BY <1>2
       DEF Principals!Next, Principals!vars, Principals!Authenticate, Principals!End,
           Principals!Arrive, Principals!Look, Principals!CheckMarker,
           Principals!ReadSession, Principals!Put, Principals!Leave, Principals!Admit,
           Principals!BeginSignOut, Principals!DeleteRow, Principals!InvalidateLocal,
           Principals!WriteMarker, Principals!CommitSignOut, Principals!SignOutFails
  <2> QED BY <1>0, <2>1, ServicesAssumption DEF PrincipalBound
<1> QED BY <1>1, <1>2

\* The variables of sessions and caches keep their types: an entry ends within a
\* TTL of the clock, a call began before it.
LEMMA PrincipalTyped == MCSpec => []Principals!TypeOK
<1>1. Principals!Init => PrincipalBound
  BY ServicesAssumption DEF Principals!Init, PrincipalBound
<1>2. Principals!Spec => []PrincipalBound
  BY <1>1, PrincipalBoundStep, PrincipalInductive, PTL DEF Principals!Spec
<1>3. ASSUME PrincipalInv, PrincipalBound PROVE Principals!TypeOK
  <2> USE ServicesAssumption, MarkerAssumption
  <2>1. /\ time \in Nat /\ marker \in Nat /\ late \in Nat /\ lost \in BOOLEAN
        /\ session \in {"live", "gone"}
        /\ cache \in [Servers -> [until : Nat]]
        /\ visits \in [Visitors -> {Principals!NoRequest} \cup Visit]
        /\ signOut \in {Principals!NoSignOut} \cup SigningOut
    BY <1>3 DEF PrincipalInv, PrincipalTypes
  <2>2. time \in 0 .. MaxTime /\ late \in 0 .. MaxTime /\ marker \in Principals!Instant
    BY <1>3, <2>1 DEF PrincipalBound, Principals!Instant
  <2>3. \A t \in Nat : t <= time + TTL => t \in Principals!Instant
    BY <2>2 DEF Principals!Instant
  <2>4. \A t \in Nat : t <= time => t \in Principals!Instant
    BY <2>2 DEF Principals!Instant
  <2>5. cache \in [Servers -> [until : Principals!Instant]]
    <3>1. ASSUME NEW s \in Servers PROVE cache[s] \in [until : Principals!Instant]
      <4>1. cache[s] \in [until : Nat] /\ cache[s].until <= time + TTL
        BY <1>3, <2>1 DEF PrincipalInv, FilledBefore
      <4>2. cache[s].until \in Principals!Instant
        BY <2>3, <4>1
      <4> QED BY <4>1, <4>2
    <3> QED BY <2>1, <3>1
  <2>6. signOut \in {Principals!NoSignOut} \cup
           [pc : {"delete", "evict", "mark", "commit", "done", "failed"},
            server : Servers, since : Principals!Instant, tx : BOOLEAN]
    <3>1. CASE signOut = Principals!NoSignOut
      BY <3>1
    <3>2. CASE signOut # Principals!NoSignOut
      <4>1. signOut \in SigningOut /\ signOut.since <= time
        BY <1>3, <2>1, <3>2 DEF PrincipalInv, GoneInOrder
      <4>2. signOut.since \in Principals!Instant
        BY <2>4, <4>1 DEF SigningOut
      <4> QED BY <4>1, <4>2 DEF SigningOut
    <3> QED BY <3>1, <3>2
  <2>7. visits \in [Visitors -> {Principals!NoRequest} \cup
           [pc : {"look", "check", "read", "put"}, server : Servers,
            since : Principals!Instant, after : BOOLEAN]]
    <3>1. ASSUME NEW v \in Visitors
          PROVE  visits[v] \in {Principals!NoRequest} \cup
                   [pc : {"look", "check", "read", "put"}, server : Servers,
                    since : Principals!Instant, after : BOOLEAN]
      <4>1. CASE visits[v] = Principals!NoRequest
        BY <4>1
      <4>2. CASE visits[v] \in Visit
        <5>1. visits[v].since \in Nat /\ visits[v].since <= time
          BY <1>3, <4>2 DEF PrincipalInv, FilledBefore, Visit
        <5>2. visits[v].since \in Principals!Instant
          BY <2>4, <5>1
        <5> QED BY <4>2, <5>2 DEF Visit
      <4> QED BY <2>1, <4>1, <4>2
    <3> QED BY <2>1, <3>1
  <2> QED BY <2>1, <2>2, <2>5, <2>6, <2>7 DEF Principals!TypeOK
<1> QED BY <1>2, <1>3, PrincipalsAlone, PrincipalInductive, PTL

-----------------------------------------------------------------------------
(* The six services under one roof *)

\* Whatever the other services do, the holdings see their own steps only.
LEMMA AssetsAlone == MCSpec => Spec
<1>1. MCInit => Init
  BY DEF MCInit
<1>2. [MCNext]_MCvars => [Next]_vars
  BY DEF MCNext, MCvars
<1> QED BY <1>1, <1>2, PTL DEF MCSpec, Spec

\* Every variable of the six services keeps its type, for any values of the
\* constants that meet the assumptions.
THEOREM AllTyped == MCSpec => []AllTypesOK
<1>1. MCSpec => []TypeOK
  BY AssetsAlone, TypeCorrect, PTL
<1> QED BY <1>1, SettlementTyped, RequestTyped, CronTyped, TokenTyped, PrincipalTyped, PTL
           DEF AllTypesOK
=============================================================================
