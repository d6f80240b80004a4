----------------------------- MODULE AssetsProofs -----------------------------
(* Proofs about holdings and their ledger, for any number of owners, keys and  *)
(* overlapping transactions: replaying the ledger finds no drift, and nothing  *)
(* is made or lost.  Every command but the locking ones is one posting, a list *)
(* of entries with what the rows hold after them; the sums over a ledger are   *)
(* reasoned about by taking one element out of a finite set.  The last part    *)
(* shows that the buckets implement the accounts of HoldingsContract.          *)
EXTENDS Assets, FiniteSetTheorems, WellFoundedInduction, TLAPS

-----------------------------------------------------------------------------
(* Sums over finite sets of positions *)

\* What holds of a finite set as soon as it holds of its proper subsets holds.
LEMMA SubsetInduction ==
    ASSUME NEW S, IsFiniteSet(S), NEW Good,
           \A T \in SUBSET S : (\A U \in SUBSET T : U # T => U \in Good) => T \in Good
    PROVE  S \in Good
  <1> DEFINE Bad == {T \in SUBSET S : T \notin Good}
  <1> SUFFICES ASSUME S \notin Good PROVE FALSE
    OBVIOUS
  <1>1. Bad \subseteq FiniteSubsetsOf(S) /\ Bad # {}
    BY FS_Subset, Zenon DEF FiniteSubsetsOf
  <1> DEFINE R == StrictSubsetOrdering(S)
  <1>2. PICK T \in Bad : \A U \in Bad : <<U, T>> \notin R
    <2>1. IsWellFoundedOn(R, FiniteSubsetsOf(S))
      BY FS_StrictSubsetOrderingWellFounded
    <2> HIDE DEF Bad, R
    <2> QED
      BY <1>1, <2>1, WFMin
  <1>3. \A U \in SUBSET T : U # T => U \in Good
    <2> SUFFICES ASSUME NEW U \in SUBSET T, U # T, U \notin Good PROVE FALSE
      OBVIOUS
    <2>1. U \in Bad /\ <<U, T>> \in StrictSubsetOrdering(S)
      BY DEF StrictSubsetOrdering
    <2> QED
      BY <1>2, <2>1
  <1> QED
    BY <1>2, <1>3

\* Functions that agree on their domain are one.
LEMMA SameFunction ==
    ASSUME NEW D, NEW g, NEW h, g = [x \in D |-> g[x]], h = [x \in D |-> h[x]],
           \A x \in D : g[x] = h[x]
    PROVE  g = h
OBVIOUS

FirstOf(T) == CHOOSE x \in T : TRUE
Folding(f, S, g) ==
    g = [T \in SUBSET S |-> IF T = {} THEN 0 ELSE f[FirstOf(T)] + g[T \ {FirstOf(T)}]]

\* The sum over S is the value at S of a function that adds up every subset of S.
LEMMA SumIsFolding ==
    ASSUME NEW f, NEW S
    PROVE  SumFunctionOnSet(f, S) = (CHOOSE g : Folding(f, S, g))[S]
BY Zenon DEF SumFunctionOnSet, FoldFunctionOnSet, MapThenFoldSet, Folding, FirstOf

\* Such a function adds one element to what the others give.
LEMMA FoldingValues ==
    ASSUME NEW f, NEW S, NEW g, Folding(f, S, g)
    PROVE  \A T \in SUBSET S :
             g[T] = IF T = {} THEN 0 ELSE f[FirstOf(T)] + g[T \ {FirstOf(T)}]
  <1>1. g = [U \in SUBSET S |-> IF U = {} THEN 0 ELSE f[FirstOf(U)] + g[U \ {FirstOf(U)}]]
    BY Zenon DEF Folding
  <1>2. ASSUME NEW T \in SUBSET S
        PROVE  [U \in SUBSET S |-> IF U = {} THEN 0 ELSE f[FirstOf(U)] + g[U \ {FirstOf(U)}]][T]
                 = IF T = {} THEN 0 ELSE f[FirstOf(T)] + g[T \ {FirstOf(T)}]
    BY Zenon
  <1> QED
    BY <1>1, <1>2, Zenon

\* Two of them agree on every finite set they share.
LEMMA FoldingsAgree ==
    ASSUME NEW f, NEW S, NEW T, NEW g, NEW h, Folding(f, S, g), Folding(f, T, h),
           NEW W \in SUBSET (S \cap T), IsFiniteSet(W)
    PROVE  g[W] = h[W]
  <1>0. ASSUME NEW V \in SUBSET W
        PROVE  /\ g[V] = IF V = {} THEN 0 ELSE f[FirstOf(V)] + g[V \ {FirstOf(V)}]
               /\ h[V] = IF V = {} THEN 0 ELSE f[FirstOf(V)] + h[V \ {FirstOf(V)}]
    <2>1. V \in SUBSET S /\ V \in SUBSET T
      OBVIOUS
    <2>2. \A U \in SUBSET S :
            g[U] = IF U = {} THEN 0 ELSE f[FirstOf(U)] + g[U \ {FirstOf(U)}]
      BY FoldingValues
    <2>3. \A U \in SUBSET T :
            h[U] = IF U = {} THEN 0 ELSE f[FirstOf(U)] + h[U \ {FirstOf(U)}]
      BY FoldingValues
    <2> QED
      BY <2>1, <2>2, <2>3, Zenon
  <1> DEFINE Good == {U \in SUBSET W : g[U] = h[U]}
  <1>1. ASSUME NEW V \in SUBSET W, \A U \in SUBSET V : U # V => U \in Good
        PROVE  V \in Good
    <2> DEFINE U == V \ {FirstOf(V)}
    <2>4. V # {} => U \in SUBSET V /\ U # V
      BY DEF FirstOf
    <2>5. V # {} => g[U] = h[U]
      BY <1>1, <2>4, Zenon
    <2>6. g[V] = h[V]
      BY <1>0, <2>5, Zenon
    <2> QED
      BY <2>6
  <1>2. W \in Good
    <2> HIDE DEF Good
    <2> QED
      BY <1>1, SubsetInduction
  <1> QED
    BY <1>2

\* For a finite set there is one.
LEMMA FoldingExists ==
    ASSUME NEW f, NEW S, IsFiniteSet(S)
    PROVE  \E g : Folding(f, S, g)
  <1> DEFINE Good == {T \in SUBSET S : \E g : Folding(f, T, g)}
             Of(T) == CHOOSE g : Folding(f, T, g)
  <1>1. ASSUME NEW T \in SUBSET S, \A U \in SUBSET T : U # T => U \in Good
        PROVE  T \in Good
    <2> DEFINE rest(U) == U \ {FirstOf(U)}
               G == [U \in SUBSET T |-> IF U = {} THEN 0
                                        ELSE f[FirstOf(U)] + Of(rest(U))[rest(U)]]
    <2>1. ASSUME NEW U \in SUBSET T, U # {}
          PROVE  /\ rest(U) \in SUBSET U /\ rest(U) # U
                 /\ rest(U) \in SUBSET T /\ rest(U) # T
                 /\ IsFiniteSet(rest(U))
      <3>1. FirstOf(U) \in U
        BY <2>1 DEF FirstOf
      <3>2. IsFiniteSet(rest(U))
        <4>1. rest(U) \in SUBSET S
          OBVIOUS
        <4> QED
          BY <4>1, FS_Subset, Zenon
      <3> QED
        BY <3>1, <3>2
    <2> HIDE DEF rest
    <2>2. ASSUME NEW U \in SUBSET T, U # T
          PROVE  Folding(f, U, Of(U))
      BY <1>1, <2>2, Zenon
    <2> HIDE DEF Of
    <2>0. ASSUME NEW W \in SUBSET T, W # T
          PROVE  Of(W)[W] = IF W = {} THEN 0 ELSE f[FirstOf(W)] + Of(W)[rest(W)]
      <3>1. Folding(f, W, Of(W)) /\ W \in SUBSET W
        BY <2>2, <2>0, Zenon
      <3>2. Of(W)[W] = IF W = {} THEN 0 ELSE f[FirstOf(W)] + Of(W)[W \ {FirstOf(W)}]
        BY <3>1, FoldingValues
      <3> QED
        BY <3>2, Zenon DEF rest
    <2>3. ASSUME NEW U \in SUBSET T, U # {}
          PROVE  G[rest(U)] = Of(rest(U))[rest(U)]
      <3> DEFINE W == rest(U)
      <3>1. W \in SUBSET T /\ W # T /\ Folding(f, W, Of(W))
        BY <2>1, <2>2, <2>3, Zenon
      <3>2. Of(W)[W] = IF W = {} THEN 0 ELSE f[FirstOf(W)] + Of(W)[rest(W)]
        BY <2>0, <3>1, Zenon
      <3>3. ASSUME W # {} PROVE Of(W)[rest(W)] = Of(rest(W))[rest(W)]
        <4>1. /\ rest(W) \in SUBSET W /\ rest(W) \in SUBSET T /\ rest(W) # T
              /\ IsFiniteSet(rest(W))
          BY <2>1, <3>1, <3>3, Zenon
        <4>2. Folding(f, rest(W), Of(rest(W)))
          BY <2>2, <4>1, Zenon
        <4>3. rest(W) \in SUBSET (W \cap rest(W))
          BY <4>1
        <4> QED
          BY <3>1, <4>1, <4>2, <4>3, FoldingsAgree
      <3>4. G[W] = IF W = {} THEN 0 ELSE f[FirstOf(W)] + Of(rest(W))[rest(W)]
        BY <3>1, Zenon
      <3> QED
        BY <3>2, <3>3, <3>4, Zenon
    <2>4. G = [U \in SUBSET T |-> IF U = {} THEN 0 ELSE f[FirstOf(U)] + G[rest(U)]]
      <3> DEFINE H == [U \in SUBSET T |-> IF U = {} THEN 0 ELSE f[FirstOf(U)] + G[rest(U)]]
      <3>1. \A U \in SUBSET T : G[U] = H[U]
        BY <2>3, Zenon
      <3>2. G = [U \in SUBSET T |-> G[U]]
        OBVIOUS
      <3>3. H = [U \in SUBSET T |-> H[U]]
        <4> HIDE DEF G
        <4> QED
          OBVIOUS
      <3> HIDE DEF G, H
      <3>4. G = H
        BY <3>1, <3>2, <3>3, SameFunction
      <3> QED
        BY <3>4, Zenon DEF H
    <2>5. Folding(f, T, G)
      BY <2>4, Zenon DEF Folding, rest
    <2> QED
      BY <2>5, Zenon
  <1>2. S \in Good
    <2> HIDE DEF Good
    <2> QED
      BY <1>1, SubsetInduction
  <1> QED
    BY <1>2

\* Nothing adds up to 0.
LEMMA SumEmpty == ASSUME NEW f PROVE SumFunctionOnSet(f, {}) = 0
  <1>1. Folding(f, {}, CHOOSE g : Folding(f, {}, g))
    BY FoldingExists, FS_EmptySet, Zenon
  <1> QED
    BY <1>1, FoldingValues, SumIsFolding, Zenon

\* The chosen element of a finite set comes out of its sum.
LEMMA SumUnfold ==
    ASSUME NEW f, NEW S, IsFiniteSet(S), S # {}
    PROVE  SumFunctionOnSet(f, S)
             = f[FirstOf(S)] + SumFunctionOnSet(f, S \ {FirstOf(S)})
  <1> DEFINE R == S \ {FirstOf(S)}
             g == CHOOSE w : Folding(f, S, w)
             h == CHOOSE w : Folding(f, R, w)
  <1>1. IsFiniteSet(R) /\ R \in SUBSET (S \cap R)
    BY FS_RemoveElement, Zenon
  <1>2. Folding(f, S, g) /\ Folding(f, R, h)
    BY <1>1, FoldingExists, Zenon
  <1>3. SumFunctionOnSet(f, S) = g[S] /\ SumFunctionOnSet(f, R) = h[R]
    BY SumIsFolding, Zenon
  <1> HIDE DEF g, h
  <1>4. g[S] = f[FirstOf(S)] + g[R]
    BY <1>2, FoldingValues
  <1>5. g[R] = h[R]
    BY <1>1, <1>2, FoldingsAgree
  <1> QED
    BY <1>3, <1>4, <1>5, Zenon

\* Induction on the members taken away one at a time.
LEMMA RemovalInduction ==
    ASSUME NEW S, IsFiniteSet(S), NEW Good, {} \in Good,
           \A T \in SUBSET S : T # {} /\ T \ {FirstOf(T)} \in Good => T \in Good
    PROVE  S \in Good
  <1>1. ASSUME NEW T \in SUBSET S, \A U \in SUBSET T : U # T => U \in Good
        PROVE  T \in Good
    <2>1. CASE T = {}
      BY <2>1
    <2>2. CASE T # {}
      <3>1. FirstOf(T) \in T
        BY <2>2 DEF FirstOf
      <3>2. T \ {FirstOf(T)} \in SUBSET T /\ T \ {FirstOf(T)} # T
        BY <3>1
      <3> QED
        BY <1>1, <2>2, <3>2
    <2> QED
      BY <2>1, <2>2
  <1> QED
    BY <1>1, SubsetInduction

\* A sum of integers is an integer.
LEMMA SumType ==
    ASSUME NEW f, NEW S, IsFiniteSet(S), \A x \in S : f[x] \in Int
    PROVE  SumFunctionOnSet(f, S) \in Int
  <1> DEFINE Good == {T \in SUBSET S : SumFunctionOnSet(f, T) \in Int}
  <1>1. {} \in Good
    BY SumEmpty
  <1>2. ASSUME NEW T \in SUBSET S, T # {}, T \ {FirstOf(T)} \in Good
        PROVE  T \in Good
    <2>1. FirstOf(T) \in T
      BY <1>2 DEF FirstOf
    <2>2. IsFiniteSet(T)
      BY FS_Subset
    <2>3. SumFunctionOnSet(f, T) = f[FirstOf(T)] + SumFunctionOnSet(f, T \ {FirstOf(T)})
      BY <1>2, <2>2, SumUnfold
    <2> QED
      BY <1>2, <2>1, <2>3
  <1>3. S \in Good
    <2> HIDE DEF Good
    <2> QED
      BY <1>1, <1>2, RemovalInduction
  <1> QED
    BY <1>3

\* Any position may be taken out first.
LEMMA SumRemove ==
    ASSUME NEW f, NEW S, IsFiniteSet(S), \A x \in S : f[x] \in Int, NEW y \in S
    PROVE  SumFunctionOnSet(f, S) = f[y] + SumFunctionOnSet(f, S \ {y})
  <1> DEFINE Good == {T \in SUBSET S : \A x \in T :
                        SumFunctionOnSet(f, T) = f[x] + SumFunctionOnSet(f, T \ {x})}
  <1>1. ASSUME NEW T \in SUBSET S, \A U \in SUBSET T : U # T => U \in Good
        PROVE  T \in Good
    <2> SUFFICES ASSUME NEW x \in T
                 PROVE  SumFunctionOnSet(f, T) = f[x] + SumFunctionOnSet(f, T \ {x})
      OBVIOUS
    <2> DEFINE v == FirstOf(T)
    <2>1. v \in T /\ IsFiniteSet(T)
      BY FS_Subset DEF FirstOf
    <2>2. SumFunctionOnSet(f, T) = f[v] + SumFunctionOnSet(f, T \ {v})
      BY <2>1, SumUnfold
    <2> HIDE DEF v
    <2>3. CASE x # v
      <3>1. T \ {v} \in Good /\ T \ {x} \in Good
        BY <1>1, <2>1
      <3>2. SumFunctionOnSet(f, T \ {v}) = f[x] + SumFunctionOnSet(f, (T \ {v}) \ {x})
        BY <2>3, <3>1
      <3>3. SumFunctionOnSet(f, T \ {x}) = f[v] + SumFunctionOnSet(f, (T \ {x}) \ {v})
        BY <2>1, <2>3, <3>1
      <3>4. (T \ {v}) \ {x} = (T \ {x}) \ {v}
        OBVIOUS
      <3>5. SumFunctionOnSet(f, (T \ {x}) \ {v}) \in Int
        <4>1. IsFiniteSet((T \ {x}) \ {v})
          BY <2>1, FS_Subset
        <4> QED
          BY <4>1, SumType
      <3>6. f[x] \in Int /\ f[v] \in Int
        BY <2>1
      <3>7. SumFunctionOnSet(f, (T \ {v}) \ {x}) = SumFunctionOnSet(f, (T \ {x}) \ {v})
        BY <3>4, Zenon
      <3> HIDE DEF Good
      <3> QED
        BY <2>2, <3>2, <3>3, <3>5, <3>6, <3>7
    <2> QED
      BY <2>2, <2>3
  <1>2. S \in Good
    <2> HIDE DEF Good
    <2> QED
      BY <1>1, SubsetInduction
  <1> QED
    BY <1>2

\* One more element adds its value.
LEMMA SumAdd ==
    ASSUME NEW f, NEW S, IsFiniteSet(S), NEW y, y \notin S,
           \A x \in S \cup {y} : f[x] \in Int
    PROVE  SumFunctionOnSet(f, S \cup {y}) = SumFunctionOnSet(f, S) + f[y]
  <1>1. IsFiniteSet(S \cup {y}) /\ (S \cup {y}) \ {y} = S
    BY FS_AddElement
  <1>2. SumFunctionOnSet(f, S \cup {y}) = f[y] + SumFunctionOnSet(f, S)
    <2>1. y \in S \cup {y}
      OBVIOUS
    <2>2. SumFunctionOnSet(f, S \cup {y}) = f[y] + SumFunctionOnSet(f, (S \cup {y}) \ {y})
      BY <1>1, <2>1, SumRemove
    <2> QED
      BY <1>1, <2>2
  <1>3. SumFunctionOnSet(f, S) \in Int /\ f[y] \in Int
    BY SumType
  <1> QED
    BY <1>2, <1>3

\* The members of a set enter one at a time.
LEMMA AdditionInduction ==
    ASSUME NEW S, IsFiniteSet(S), NEW Good, {} \in Good,
           \A T \in SUBSET S : \A x \in S \ T : T \in Good => T \cup {x} \in Good
    PROVE  S \in Good
  <1>1. ASSUME NEW T \in SUBSET S, T # {}, T \ {FirstOf(T)} \in Good
        PROVE  T \in Good
    <2>1. FirstOf(T) \in T
      BY <1>1 DEF FirstOf
    <2>2. /\ T \ {FirstOf(T)} \in SUBSET S /\ FirstOf(T) \in S \ (T \ {FirstOf(T)})
          /\ (T \ {FirstOf(T)}) \cup {FirstOf(T)} = T
      BY <2>1
    <2> QED
      BY <1>1, <2>2
  <1> QED
    BY <1>1, RemovalInduction

\* Sums of two functions that are equal on what is summed, under a renaming of
\* the positions.
LEMMA SumRenamed ==
    ASSUME NEW f, NEW g, NEW S, IsFiniteSet(S), NEW m,
           \A x \in S : f[x] \in Int /\ f[x] = g[m[x]],
           \A x, y \in S : m[x] = m[y] => x = y
    PROVE  SumFunctionOnSet(f, S) = SumFunctionOnSet(g, {m[x] : x \in S})
  <1> DEFINE Im(T) == {m[x] : x \in T}
             Good == {T \in SUBSET S : /\ IsFiniteSet(Im(T))
                                       /\ SumFunctionOnSet(f, T) = SumFunctionOnSet(g, Im(T))}
  <1>1. {} \in Good
    <2>1. Im({}) = {}
      OBVIOUS
    <2> QED
      BY <2>1, SumEmpty, FS_EmptySet
  <1>2. ASSUME NEW T \in SUBSET S, NEW x \in S \ T, T \in Good
        PROVE  T \cup {x} \in Good
    <2>1. Im(T \cup {x}) = Im(T) \cup {m[x]} /\ m[x] \notin Im(T)
      OBVIOUS
    <2>2. IsFiniteSet(T) /\ IsFiniteSet(Im(T))
      BY <1>2, FS_Subset
    <2>3. IsFiniteSet(Im(T) \cup {m[x]})
      BY <2>2, FS_AddElement
    <2>4. SumFunctionOnSet(f, T \cup {x}) = SumFunctionOnSet(f, T) + f[x]
      BY <2>2, SumAdd
    <2>5. SumFunctionOnSet(g, Im(T) \cup {m[x]}) = SumFunctionOnSet(g, Im(T)) + g[m[x]]
      <3>1. \A z \in Im(T) \cup {m[x]} : g[z] \in Int
        OBVIOUS
      <3> HIDE DEF Im
      <3> QED
        BY <2>1, <2>2, <3>1, SumAdd
    <2>6. SumFunctionOnSet(f, T) = SumFunctionOnSet(g, Im(T)) /\ f[x] = g[m[x]]
      BY <1>2
    <2>7. SumFunctionOnSet(f, T \cup {x}) = SumFunctionOnSet(g, Im(T \cup {x}))
      <3> HIDE DEF Im, Good
      <3> QED
        BY <2>1, <2>4, <2>5, <2>6
    <2> QED
      BY <2>1, <2>3, <2>7
  <1>3. S \in Good
    <2> HIDE DEF Good
    <2> QED
      BY <1>1, <1>2, AdditionInduction
  <1> QED
    BY <1>3

\* Functions that agree on a set have one sum over it.
LEMMA SumSame ==
    ASSUME NEW f, NEW g, NEW S, IsFiniteSet(S), \A x \in S : f[x] \in Int /\ f[x] = g[x]
    PROVE  SumFunctionOnSet(f, S) = SumFunctionOnSet(g, S)
  <1> DEFINE m == [x \in S |-> x]
  <1>1. {m[x] : x \in S} = S
    OBVIOUS
  <1>2. \A x \in S : f[x] \in Int /\ f[x] = g[m[x]]
    OBVIOUS
  <1>3. \A x, y \in S : m[x] = m[y] => x = y
    OBVIOUS
  <1> HIDE DEF m
  <1>4. SumFunctionOnSet(f, S) = SumFunctionOnSet(g, {m[x] : x \in S})
    BY <1>2, <1>3, SumRenamed
  <1> QED
    BY <1>1, <1>4

\* The sum over two disjoint sets is that of their sums.
LEMMA SumUnion ==
    ASSUME NEW f, NEW S, NEW T, IsFiniteSet(S), IsFiniteSet(T), S \cap T = {},
           \A x \in S \cup T : f[x] \in Int
    PROVE  SumFunctionOnSet(f, S \cup T) = SumFunctionOnSet(f, S) + SumFunctionOnSet(f, T)
  <1> DEFINE Good == {U \in SUBSET T : SumFunctionOnSet(f, S \cup U)
                                         = SumFunctionOnSet(f, S) + SumFunctionOnSet(f, U)}
  <1>0. SumFunctionOnSet(f, S) \in Int
    BY SumType
  <1>1. {} \in Good
    <2>1. S \cup {} = S
      OBVIOUS
    <2> QED
      BY <1>0, <2>1, SumEmpty
  <1>2. ASSUME NEW U \in SUBSET T, NEW x \in T \ U, U \in Good
        PROVE  U \cup {x} \in Good
    <2>1. IsFiniteSet(U)
      BY FS_Subset
    <2>2. IsFiniteSet(S \cup U) /\ x \notin S \cup U
      BY <2>1, FS_Union
    <2>3. SumFunctionOnSet(f, (S \cup U) \cup {x}) = SumFunctionOnSet(f, S \cup U) + f[x]
      BY <2>2, SumAdd
    <2>4. SumFunctionOnSet(f, U \cup {x}) = SumFunctionOnSet(f, U) + f[x]
      BY <2>1, SumAdd
    <2>5. SumFunctionOnSet(f, U) \in Int /\ f[x] \in Int
      BY <2>1, SumType
    <2>6. (S \cup U) \cup {x} = S \cup (U \cup {x})
      OBVIOUS
    <2>7. SumFunctionOnSet(f, S \cup U) = SumFunctionOnSet(f, S) + SumFunctionOnSet(f, U)
      BY <1>2
    <2>8. SumFunctionOnSet(f, S \cup (U \cup {x}))
            = SumFunctionOnSet(f, S) + SumFunctionOnSet(f, U \cup {x})
      <3>1. SumFunctionOnSet(f, (S \cup U) \cup {x})
              = SumFunctionOnSet(f, S \cup (U \cup {x}))
        BY <2>6, Zenon
      <3> HIDE DEF Good
      <3> QED
        BY <1>0, <2>3, <2>4, <2>5, <2>7, <3>1
    <2> QED
      BY <2>8
  <1>3. T \in Good
    <2> HIDE DEF Good
    <2> QED
      BY <1>1, <1>2, AdditionInduction
  <1> QED
    BY <1>3

\* A sum of natural numbers is one.
LEMMA SumNat ==
    ASSUME NEW f, NEW S, IsFiniteSet(S), \A x \in S : f[x] \in Nat
    PROVE  SumFunctionOnSet(f, S) \in Nat
  <1> DEFINE Good == {T \in SUBSET S : SumFunctionOnSet(f, T) \in Nat}
  <1>1. {} \in Good
    BY SumEmpty
  <1>2. ASSUME NEW T \in SUBSET S, NEW x \in S \ T, T \in Good
        PROVE  T \cup {x} \in Good
    <2>1. IsFiniteSet(T)
      BY FS_Subset
    <2>2. SumFunctionOnSet(f, T \cup {x}) = SumFunctionOnSet(f, T) + f[x]
      BY <2>1, SumAdd
    <2> QED
      BY <1>2, <2>2
  <1>3. S \in Good
    <2> HIDE DEF Good
    <2> QED
      BY <1>1, <1>2, AdditionInduction
  <1> QED
    BY <1>3

\* What is summed in part is at most the whole.
LEMMA SumMonotone ==
    ASSUME NEW f, NEW S, IsFiniteSet(S), \A x \in S : f[x] \in Nat, NEW T \in SUBSET S
    PROVE  /\ SumFunctionOnSet(f, T) \in Nat /\ SumFunctionOnSet(f, S) \in Nat
           /\ SumFunctionOnSet(f, T) <= SumFunctionOnSet(f, S)
  <1>1. IsFiniteSet(T) /\ IsFiniteSet(S \ T)
    BY FS_Subset
  <1>2. T \cap (S \ T) = {} /\ T \cup (S \ T) = S
    OBVIOUS
  <1>3. SumFunctionOnSet(f, T \cup (S \ T))
          = SumFunctionOnSet(f, T) + SumFunctionOnSet(f, S \ T)
    BY <1>1, <1>2, SumUnion
  <1>4. SumFunctionOnSet(f, T) \in Nat /\ SumFunctionOnSet(f, S \ T) \in Nat
    BY <1>1, SumNat
  <1>5. SumFunctionOnSet(f, T \cup (S \ T)) = SumFunctionOnSet(f, S)
    BY <1>2, Zenon
  <1> QED
    BY <1>3, <1>4, <1>5

\* Positions that hold nothing do not count.
LEMMA SumIgnoresZeros ==
    ASSUME NEW f, NEW S, IsFiniteSet(S), NEW T \in SUBSET S,
           \A x \in T : f[x] \in Int, \A x \in S \ T : f[x] = 0
    PROVE  SumFunctionOnSet(f, S) = SumFunctionOnSet(f, T)
  <1> DEFINE Good == {U \in SUBSET (S \ T) : SumFunctionOnSet(f, U) = 0}
  <1>1. {} \in Good
    BY SumEmpty
  <1>2. ASSUME NEW U \in SUBSET (S \ T), NEW x \in (S \ T) \ U, U \in Good
        PROVE  U \cup {x} \in Good
    <2>1. IsFiniteSet(U)
      BY FS_Subset
    <2>2. SumFunctionOnSet(f, U \cup {x}) = SumFunctionOnSet(f, U) + f[x]
      BY <2>1, SumAdd
    <2> QED
      BY <1>2, <2>2
  <1>3. IsFiniteSet(S \ T) /\ IsFiniteSet(T)
    BY FS_Subset
  <1>4. S \ T \in Good
    <2> HIDE DEF Good
    <2> QED
      BY <1>1, <1>2, <1>3, AdditionInduction
  <1>5. T \cap (S \ T) = {} /\ T \cup (S \ T) = S
    OBVIOUS
  <1>6. SumFunctionOnSet(f, T \cup (S \ T))
          = SumFunctionOnSet(f, T) + SumFunctionOnSet(f, S \ T)
    BY <1>3, <1>5, SumUnion
  <1>7. SumFunctionOnSet(f, T) \in Int
    BY <1>3, SumType
  <1>8. SumFunctionOnSet(f, T \cup (S \ T)) = SumFunctionOnSet(f, S)
    BY <1>5, Zenon
  <1> QED
    BY <1>4, <1>6, <1>7, <1>8

\* The sum of what two functions add up to.
LEMMA SumPointwise ==
    ASSUME NEW f, NEW g, NEW h, NEW S, IsFiniteSet(S),
           \A x \in S : f[x] \in Int /\ g[x] \in Int /\ h[x] = f[x] + g[x]
    PROVE  SumFunctionOnSet(h, S) = SumFunctionOnSet(f, S) + SumFunctionOnSet(g, S)
  <1> DEFINE Good == {T \in SUBSET S : SumFunctionOnSet(h, T)
                                         = SumFunctionOnSet(f, T) + SumFunctionOnSet(g, T)}
  <1>1. {} \in Good
    BY SumEmpty
  <1>2. ASSUME NEW T \in SUBSET S, NEW x \in S \ T, T \in Good
        PROVE  T \cup {x} \in Good
    <2>1. IsFiniteSet(T)
      BY FS_Subset
    <2>2. /\ SumFunctionOnSet(f, T \cup {x}) = SumFunctionOnSet(f, T) + f[x]
          /\ SumFunctionOnSet(g, T \cup {x}) = SumFunctionOnSet(g, T) + g[x]
          /\ SumFunctionOnSet(h, T \cup {x}) = SumFunctionOnSet(h, T) + h[x]
      BY <2>1, SumAdd
    <2>3. SumFunctionOnSet(f, T) \in Int /\ SumFunctionOnSet(g, T) \in Int
      BY <2>1, SumType
    <2> QED
      BY <1>2, <2>2, <2>3
  <1>3. S \in Good
    <2> HIDE DEF Good
    <2> QED
      BY <1>1, <1>2, AdditionInduction
  <1> QED
    BY <1>3

\* A sum changes by what its members change by.
LEMMA SumChanges ==
    ASSUME NEW f, NEW g, NEW S, IsFiniteSet(S), \A x \in S : f[x] \in Int /\ g[x] \in Int,
           NEW T \in SUBSET S, \A x \in S \ T : g[x] = f[x]
    PROVE  SumFunctionOnSet(g, S)
             = SumFunctionOnSet(f, S) + SumFunctionOnSet([x \in S |-> g[x] - f[x]], T)
  <1> DEFINE d == [x \in S |-> g[x] - f[x]]
  <1>1. \A x \in S : d[x] \in Int /\ g[x] = f[x] + d[x]
    OBVIOUS
  <1>2. \A x \in S \ T : d[x] = 0
    OBVIOUS
  <1>3. \A x \in T : d[x] \in Int
    OBVIOUS
  <1> HIDE DEF d
  <1>4. SumFunctionOnSet(g, S) = SumFunctionOnSet(f, S) + SumFunctionOnSet(d, S)
    BY <1>1, SumPointwise
  <1>5. SumFunctionOnSet(d, S) = SumFunctionOnSet(d, T)
    BY <1>2, <1>3, SumIgnoresZeros
  <1> QED
    BY <1>4, <1>5 DEF d

\* One member that changes,
LEMMA SumChangesOnce ==
    ASSUME NEW f, NEW g, NEW S, IsFiniteSet(S), \A x \in S : f[x] \in Int /\ g[x] \in Int,
           NEW y \in S, \A x \in S \ {y} : g[x] = f[x]
    PROVE  SumFunctionOnSet(g, S) = SumFunctionOnSet(f, S) + (g[y] - f[y])
  <1>1. IsFiniteSet(S \ {y})
    BY FS_Subset
  <1>2. /\ SumFunctionOnSet(f, S) = f[y] + SumFunctionOnSet(f, S \ {y})
        /\ SumFunctionOnSet(g, S) = g[y] + SumFunctionOnSet(g, S \ {y})
    BY SumRemove
  <1>3. SumFunctionOnSet(f, S \ {y}) = SumFunctionOnSet(g, S \ {y})
    BY <1>1, SumSame
  <1>4. SumFunctionOnSet(g, S \ {y}) \in Int
    BY <1>1, SumType
  <1> QED
    BY <1>2, <1>3, <1>4

\* and a list of members, each of which grows by its number.
Growing(f, g, S, k, m, d) ==
    /\ \A x \in S : f[x] \in Int /\ g[x] \in Int
    /\ \A n \in 1 .. k : m[n] \in S /\ d[n] \in Int /\ g[m[n]] = f[m[n]] + d[n]
    /\ \A l, n \in 1 .. k : m[l] = m[n] => l = n
    /\ \A x \in S : (\A n \in 1 .. k : m[n] # x) => g[x] = f[x]

LEMMA SumGrows ==
    ASSUME NEW f, NEW g, NEW S, IsFiniteSet(S), NEW k \in Nat, NEW m, NEW d,
           Growing(f, g, S, k, m, d)
    PROVE  SumFunctionOnSet(g, S) = SumFunctionOnSet(f, S) + SumFunctionOnSet(d, 1 .. k)
  <1> DEFINE e == [x \in S |-> g[x] - f[x]]
             K == 1 .. k
             T == {m[n] : n \in K}
  <1>0. \A x \in S : f[x] \in Int /\ g[x] \in Int
    BY DEF Growing
  <1>1. T \in SUBSET S /\ \A x \in S \ T : g[x] = f[x]
    BY DEF Growing
  <1>2. /\ \A n \in K : d[n] \in Int /\ d[n] = e[m[n]]
        /\ \A l, n \in K : m[l] = m[n] => l = n
    BY DEF Growing
  <1>3. IsFiniteSet(K)
    BY FS_Interval
  <1> HIDE DEF e, K
  <1>4. SumFunctionOnSet(d, K) = SumFunctionOnSet(e, T)
    BY <1>2, <1>3, SumRenamed
  <1>5. SumFunctionOnSet(g, S) = SumFunctionOnSet(f, S) + SumFunctionOnSet([x \in S |-> g[x] - f[x]], T)
    <2> HIDE DEF T
    <2> QED
      BY <1>0, <1>1, SumChanges
  <1> QED
    BY <1>4, <1>5, Zenon DEF e, K

\* A sum of fewer is less.
LEMMA SumAtMost ==
    ASSUME NEW f, NEW g, NEW S, IsFiniteSet(S),
           \A x \in S : f[x] \in Nat /\ g[x] \in Nat /\ f[x] <= g[x]
    PROVE  SumFunctionOnSet(f, S) <= SumFunctionOnSet(g, S)
  <1> DEFINE d == [x \in S |-> g[x] - f[x]]
  <1>1. \A x \in S : d[x] \in Nat /\ d[x] \in Int /\ f[x] \in Int /\ g[x] = f[x] + d[x]
    OBVIOUS
  <1> HIDE DEF d
  <1>2. SumFunctionOnSet(g, S) = SumFunctionOnSet(f, S) + SumFunctionOnSet(d, S)
    BY <1>1, SumPointwise
  <1>3. SumFunctionOnSet(d, S) \in Nat /\ SumFunctionOnSet(f, S) \in Nat
    BY <1>1, SumNat
  <1> QED
    BY <1>2, <1>3

-----------------------------------------------------------------------------
(* Enumerations of finite sets *)

\* SetToSeq lists a finite set without repetition.
LEMMA SetToSeqEnumerates ==
    ASSUME NEW S, IsFiniteSet(S)
    PROVE  /\ SetToSeq(S) \in [1 .. Cardinality(S) -> S]
           /\ \A m, n \in 1 .. Cardinality(S) : SetToSeq(S)[m] = SetToSeq(S)[n] => m = n
  <1> DEFINE F == [1 .. Cardinality(S) -> S]
  <1>1. \E f \in F : IsInjective(f)
    <2>1. PICK f \in Bijection(1 .. Cardinality(S), S) : TRUE
      BY FS_CardinalityType, Zenon DEF ExistsBijection
    <2> QED
      BY <2>1 DEF Bijection, Injection
  <1>2. SetToSeq(S) = CHOOSE f \in F : IsInjective(f)
    BY Zenon DEF SetToSeq
  <1>3. SetToSeq(S) \in F /\ IsInjective(SetToSeq(S))
    BY <1>1, <1>2, Zenon
  <1> HIDE DEF F
  <1>4. DOMAIN SetToSeq(S) = 1 .. Cardinality(S)
    BY <1>3 DEF F
  <1> QED
    BY <1>3, <1>4, Zenon DEF IsInjective, F

OrderOf(R, S) ==
    /\ \A x \in S : <<x, x>> \notin R
    /\ \A x, y \in S : x # y => <<x, y>> \in R \/ <<y, x>> \in R
    /\ \A x, y, z \in S : <<x, y>> \in R /\ <<y, z>> \in R => <<x, z>> \in R

\* In a strict total order of a finite set there is, for every number below its
\* size, a member that so many others come before.
LEMMA Ranks ==
    ASSUME NEW S, IsFiniteSet(S), NEW R, OrderOf(R, S),
           NEW n \in 1 .. Cardinality(S)
    PROVE  \E x \in S : Cardinality({y \in S : <<y, x>> \in R}) = n - 1
  <1> DEFINE before(x) == {y \in S : <<y, x>> \in R}
             N == Cardinality(S)
             rank == [x \in S |-> Cardinality(before(x))]
  <1>0. /\ \A x \in S : <<x, x>> \notin R
        /\ \A x, y \in S : x # y => <<x, y>> \in R \/ <<y, x>> \in R
        /\ \A x, y, z \in S : <<x, y>> \in R /\ <<y, z>> \in R => <<x, z>> \in R
    BY DEF OrderOf
  <1>1. N \in Nat /\ N >= 1 /\ IsFiniteSet(0 .. N - 1) /\ Cardinality(0 .. N - 1) = N
    <2>1. N \in Nat
      BY FS_CardinalityType
    <2>2. N >= 1 /\ 0 \in Int /\ N - 1 \in Int
      BY <2>1
    <2> HIDE DEF N
    <2> QED
      BY <2>1, <2>2, FS_Interval
  <1>2. ASSUME NEW x \in S
        PROVE  IsFiniteSet(before(x)) /\ Cardinality(before(x)) \in 0 .. N - 1
    <2>1. before(x) \in SUBSET (S \ {x})
      BY <1>0
    <2>2. IsFiniteSet(S \ {x}) /\ Cardinality(S \ {x}) = N - 1
      BY FS_RemoveElement
    <2>3. IsFiniteSet(before(x)) /\ Cardinality(before(x)) <= Cardinality(S \ {x})
      BY <2>1, <2>2, FS_Subset
    <2>4. Cardinality(before(x)) \in Nat
      BY <2>3, FS_CardinalityType
    <2> QED
      BY <1>1, <2>2, <2>3, <2>4
  <1>3. ASSUME NEW x \in S, NEW y \in S, <<x, y>> \in R
        PROVE  Cardinality(before(x)) < Cardinality(before(y))
    <2>1. before(x) \in SUBSET (before(y) \ {x}) /\ x \in before(y)
      BY <1>0, <1>3
    <2>2. /\ IsFiniteSet(before(y) \ {x})
          /\ Cardinality(before(y) \ {x}) = Cardinality(before(y)) - 1
      BY <1>2, <2>1, FS_RemoveElement
    <2>3. Cardinality(before(x)) <= Cardinality(before(y) \ {x})
      BY <2>1, <2>2, FS_Subset
    <2>4. Cardinality(before(x)) \in Nat /\ Cardinality(before(y)) \in Nat
      BY <1>2, <2>1, FS_CardinalityType
    <2> HIDE DEF before
    <2> QED
      BY <2>2, <2>3, <2>4
  <1>4. rank \in [S -> 0 .. N - 1]
    BY <1>2
  <1>5. ASSUME NEW x \in S, NEW y \in S, rank[x] = rank[y] PROVE x = y
    <2>1. rank[x] = Cardinality(before(x)) /\ rank[y] = Cardinality(before(y))
      OBVIOUS
    <2>2. Cardinality(before(x)) \in Nat /\ Cardinality(before(y)) \in Nat
      BY <1>2, FS_CardinalityType
    <2>3. Cardinality(before(x)) = Cardinality(before(y))
      BY <1>5, <2>1
    <2>4. ~(<<x, y>> \in R) /\ ~(<<y, x>> \in R)
      <3> HIDE DEF before, rank
      <3> QED
        BY <1>3, <2>2, <2>3
    <2> QED
      BY <1>0, <2>4
  <1>6. rank \in Injection(S, 0 .. N - 1)
    BY <1>4, <1>5 DEF Injection, IsInjective
  <1>7. rank \in Surjection(S, 0 .. N - 1)
    <2> HIDE DEF rank
    <2> QED
      BY <1>1, <1>6, FS_Injection
  <1>8. n - 1 \in 0 .. N - 1
    BY <1>1
  <1>9. \E x \in S : rank[x] = n - 1
    BY <1>7, <1>8, Zenon DEF Surjection
  <1> QED
    BY <1>9

\* The queue of held rows has every one of them once.
LEMMA SoonestFirstEnumerates ==
    ASSUME NEW ids \in SUBSET RowId, IsFiniteSet(ids), \A i \in ids : rows[i].expiry \in Int
    PROVE  /\ SoonestFirst(ids) \in [1 .. Cardinality(ids) -> ids]
           /\ \A m, n \in 1 .. Cardinality(ids) :
                SoonestFirst(ids)[m] = SoonestFirst(ids)[n] => m = n
  <1> DEFINE R == {ij \in ids \X ids : InFront(ij[1], ij[2])}
             nth(n) == CHOOSE i \in ids : Cardinality({j \in ids : InFront(j, i)}) = n - 1
  <1>0. \A i \in ids : i \in Int
    BY DEF RowId
  <1>1. OrderOf(R, ids)
    BY <1>0 DEF InFront, OrderOf
  <1>2. ASSUME NEW i \in ids
        PROVE  {j \in ids : InFront(j, i)} = {j \in ids : <<j, i>> \in R}
    OBVIOUS
  <1>3. ASSUME NEW n \in 1 .. Cardinality(ids)
        PROVE  \E i \in ids : Cardinality({j \in ids : InFront(j, i)}) = n - 1
    <2> HIDE DEF R, nth
    <2>1. PICK i \in ids : Cardinality({j \in ids : <<j, i>> \in R}) = n - 1
      BY <1>1, Ranks
    <2> QED
      BY <1>2, <2>1, Zenon
  <1>4. ASSUME NEW n \in 1 .. Cardinality(ids)
        PROVE  nth(n) \in ids /\ Cardinality({j \in ids : InFront(j, nth(n))}) = n - 1
    BY <1>3, Zenon
  <1> HIDE DEF nth
  <1>5. SoonestFirst(ids) = [n \in 1 .. Cardinality(ids) |-> nth(n)]
    BY Zenon DEF SoonestFirst, nth
  <1>6. ASSUME NEW m \in 1 .. Cardinality(ids), NEW n \in 1 .. Cardinality(ids), nth(m) = nth(n)
        PROVE  m = n
    <2>1. m - 1 = n - 1
      BY <1>4, <1>6, Zenon
    <2>2. Cardinality(ids) \in Nat
      BY FS_CardinalityType
    <2> QED
      BY <2>1, <2>2
  <1> QED
    BY <1>4, <1>5, <1>6

-----------------------------------------------------------------------------
(* The invariant *)

EntryKind == {"grant", "consume", "out", "in", "mutate", "expire"}
LedgerKey ==
    (Keys \cup RowId) \X {"main", "earlier", "consume", "out", "in", "expire"} \X Nat
LedgerEntry == [key : LedgerKey, row : RowId, kind : EntryKind,
                delta : -MaxQuantity .. MaxQuantity, after : Int]
OpenTx ==
    {x \in [pc : {"listing", "listing to", "locked"}, key : Keys, cmd : Command,
            now : 0 .. Never, wants : SUBSET RowId, locks : SUBSET RowId] :
       x.cmd.verb = "transfer" => x.now \in 0 .. MaxClock}

Types ==
    /\ class \in {"currency", "stack", "instance", "entitlement"}
    /\ rows \in [RowId -> Row \cup {NoRow}]
    /\ book \in Seq(LedgerEntry)
    /\ txs \in [Txs -> OpenTx \cup {Idle}]
    /\ clock \in 0 .. MaxClock

\* What a step does to the ledger and to the rows: entries of different rows,
\* each with the quantity its row then has, and the other rows as they were.  All
\* entries together change as much as those that make or end quantities.
Making == {"grant", "consume", "expire"}
Deltas(es) == [n \in DOMAIN es |-> es[n].delta]
Balanced(es) ==
    SumFunctionOnSet(Deltas(es), DOMAIN es)
      = SumFunctionOnSet(Deltas(es), {n \in DOMAIN es : es[n].kind \in Making})

Posting(es, own) ==
    /\ es \in Seq(LedgerEntry)
    /\ book' = book \o es
    /\ rows' \in [RowId -> Row \cup {NoRow}]
    /\ \A n \in DOMAIN es :
         /\ es[n].row \in own
         /\ es[n].after = rows[es[n].row].qty + es[n].delta
         /\ rows'[es[n].row].qty = es[n].after
    /\ \A m, n \in DOMAIN es : es[m].row = es[n].row => m = n
    /\ \A i \in RowId : (\A n \in DOMAIN es : es[n].row # i) => rows'[i] = rows[i]
    /\ Balanced(es)

\* Whoever commits has locked every row that was there.
OnRecord == Held \subseteq UsedIds
LocksHeld == \A t \in Txs : LockedBy(t) \subseteq Held
LocksApart == \A t, u \in Txs : t # u => LockedBy(t) \cap LockedBy(u) = {}
LegalCommands == \A t \in Txs : txs[t] # Idle => Valid(txs[t].cmd)

IInv ==
    /\ Types /\ NoClash /\ OnRecord /\ LocksHeld /\ LocksApart /\ LegalCommands
    /\ ZeroDrift /\ Conserved

-----------------------------------------------------------------------------
(* What an entry does to the ledger *)

\* A row that is not there holds nothing, any other something.
LEMMA Quantities ==
    ASSUME Types, NEW i \in RowId
    PROVE  rows[i].qty \in 0 .. MaxQuantity /\ (rows[i] = NoRow <=> rows[i].qty = 0)
BY AssetAssumption DEF Types, Row, NoRow

\* There are finitely many rows.
LEMMA RowsFinite == IsFiniteSet(RowId)
BY FS_Interval, AssetAssumption DEF RowId

\* The ledger after a posting: the entries it had, then the new ones.
LEMMA PostedBook ==
    ASSUME Types, NEW es, NEW own, Posting(es, own)
    PROVE  /\ book' \in Seq(LedgerEntry)
           /\ Len(book) \in Nat /\ Len(es) \in Nat
           /\ DOMAIN book = 1 .. Len(book) /\ DOMAIN es = 1 .. Len(es)
           /\ DOMAIN book' = 1 .. Len(book) + Len(es)
           /\ \A p \in DOMAIN book : book[p] \in LedgerEntry /\ book'[p] = book[p]
           /\ \A n \in DOMAIN es : es[n] \in LedgerEntry /\ book'[Len(book) + n] = es[n]
           /\ \A p \in DOMAIN book' : p \in DOMAIN book
                \/ (p - Len(book) \in DOMAIN es /\ p = Len(book) + (p - Len(book)))
  <1>1. book \in Seq(LedgerEntry) /\ es \in Seq(LedgerEntry) /\ book' = book \o es
    BY DEF Types, Posting
  <1> QED
    BY <1>1

\* A row a posting creates has its first entry in it.
LEMMA PostedKeepsRecord ==
    ASSUME Types, OnRecord, NEW es, NEW own, Posting(es, own)
    PROVE  OnRecord'
  <1> SUFFICES ASSUME NEW i \in Held' PROVE i \in UsedIds'
    BY DEF OnRecord
  <1>1. CASE \E n \in DOMAIN es : es[n].row = i
    <2>1. PICK n \in DOMAIN es : es[n].row = i
      BY <1>1
    <2>2. Len(book) + n \in DOMAIN book' /\ book'[Len(book) + n].row = i
      BY <2>1, PostedBook
    <2> QED
      BY <2>2 DEF UsedIds
  <1>2. CASE \A n \in DOMAIN es : es[n].row # i
    <2>1. i \in Held
      BY <1>2 DEF Posting, Held
    <2>2. PICK p \in DOMAIN book : book[p].row = i
      BY <2>1 DEF OnRecord, UsedIds
    <2>3. p \in DOMAIN book' /\ book'[p].row = i
      BY <2>2, PostedBook
    <2> QED
      BY <2>3 DEF UsedIds
  <1> QED
    BY <1>1, <1>2

\* Every set of entries has a sum.
LEMMA LedgerSums ==
    ASSUME Types, NEW S \in SUBSET (DOMAIN book)
    PROVE  IsFiniteSet(S) /\ \A p \in S : Deltas(book)[p] \in Int
  <1>1. book \in Seq(LedgerEntry)
    BY DEF Types
  <1>2. DOMAIN book = 1 .. Len(book) /\ Len(book) \in Nat
    BY <1>1
  <1>3. IsFiniteSet(DOMAIN book)
    BY <1>2, FS_Interval
  <1>4. \A p \in S : book[p] \in LedgerEntry
    BY <1>1
  <1>5. \A p \in S : book[p].delta \in Int
    BY <1>4, AssetAssumption DEF LedgerEntry
  <1> QED
    BY <1>3, <1>5, FS_Subset DEF Deltas

\* Older entries count for what they did.
LEMMA PostedKeepsSums ==
    ASSUME Types, NEW es, NEW own, Posting(es, own), NEW S \in SUBSET (DOMAIN book)
    PROVE  /\ \A p \in S : Deltas(book')[p] = Deltas(book)[p] /\ Deltas(book')[p] \in Int
           /\ SumFunctionOnSet(Deltas(book'), S) = SumFunctionOnSet(Deltas(book), S)
  <1>1. IsFiniteSet(S) /\ \A p \in S : Deltas(book)[p] \in Int
    BY LedgerSums
  <1>2. \A p \in S : Deltas(book)[p] = Deltas(book')[p]
    BY PostedBook DEF Deltas
  <1> QED
    BY <1>1, <1>2, SumSame

\* A posting writes the running quantities of its rows.
LEMMA PostedKeepsZeroDrift ==
    ASSUME Types, ZeroDrift, NEW es, NEW own, Posting(es, own)
    PROVE  ZeroDrift'
  <1> DEFINE L == Len(book)
             f == Deltas(book)
             g == Deltas(book')
             chain(i) == {p \in DOMAIN book : book[p].row = i}
             longer(i) == {p \in DOMAIN book' : book'[p].row = i}
  <1>1. ASSUME NEW i \in RowId
        PROVE  /\ \A p \in chain(i) : book[p].after = SumFunctionOnSet(f, {q \in chain(i) : q <= p})
               /\ rows[i].qty = SumFunctionOnSet(f, chain(i))
    BY DEF ZeroDrift, Sum, Deltas
  <1>2. ASSUME NEW i \in RowId
        PROVE  /\ \A p \in longer(i) :
                    book'[p].after = SumFunctionOnSet(g, {q \in longer(i) : q <= p})
               /\ rows'[i].qty = SumFunctionOnSet(g, longer(i))
    <2> DEFINE C == chain(i)
               D == longer(i)
    <2>1. C \in SUBSET (DOMAIN book)
      OBVIOUS
    <2>2. ASSUME NEW p \in C
          PROVE  book'[p].after = SumFunctionOnSet(g, {q \in C : q <= p})
      <3>1. {q \in C : q <= p} \in SUBSET (DOMAIN book)
        BY <2>1
      <3>2. SumFunctionOnSet(g, {q \in C : q <= p}) = SumFunctionOnSet(f, {q \in C : q <= p})
        <4> HIDE DEF f, g, C
        <4> QED
          BY <3>1, PostedKeepsSums DEF f, g
      <3>3. book'[p] = book[p]
        BY <2>1, PostedBook
      <3> QED
        BY <1>1, <3>2, <3>3
    <2>3. CASE \A n \in DOMAIN es : es[n].row # i
      <3>1. D = C
        BY <2>3, PostedBook
      <3>2. rows'[i] = rows[i]
        BY <2>3 DEF Posting
      <3>3. SumFunctionOnSet(g, C) = SumFunctionOnSet(f, C)
        BY <2>1, PostedKeepsSums
      <3> QED
        BY <1>1, <2>2, <3>1, <3>2, <3>3
    <2>4. CASE \E n \in DOMAIN es : es[n].row = i
      <3>1. PICK n \in DOMAIN es : es[n].row = i
        BY <2>4
      <3> DEFINE last == L + n
      <3>2. /\ last \in DOMAIN book' /\ book'[last] = es[n] /\ last \notin DOMAIN book
            /\ \A p \in DOMAIN book : p < last
        BY PostedBook
      <3>3. D = C \cup {last}
        <4>1. ASSUME NEW p \in D PROVE p \in C \cup {last}
          <5>1. p \in DOMAIN book' /\ book'[p].row = i
            OBVIOUS
          <5>2. CASE p \in DOMAIN book
            BY <5>1, <5>2, PostedBook
          <5>3. CASE p - L \in DOMAIN es /\ p = L + (p - L)
            <6>1. es[p - L].row = i
              BY <5>1, <5>3, PostedBook
            <6>2. p - L = n
              BY <3>1, <5>3, <6>1 DEF Posting
            <6> QED
              BY <5>3, <6>2
          <5> QED
            BY <5>1, <5>2, <5>3, PostedBook
        <4>2. ASSUME NEW p \in C PROVE p \in D
          BY <4>2, PostedBook
        <4>3. last \in D
          BY <3>1, <3>2
        <4> QED
          BY <4>1, <4>2, <4>3
      <3>4. SumFunctionOnSet(g, C \cup {last}) = SumFunctionOnSet(f, C) + es[n].delta
        <4>1. IsFiniteSet(C) /\ \A p \in C : f[p] \in Int
          BY <2>1, LedgerSums
        <4>2. \A p \in C : f[p] = g[p]
          BY <2>1, PostedKeepsSums
        <4>3. g[last] = es[n].delta /\ g[last] \in Int
          <5>1. es[n] \in LedgerEntry
            BY PostedBook
          <5>2. es[n].delta \in Int
            BY <5>1, AssetAssumption DEF LedgerEntry
          <5> QED
            BY <3>2, <5>2 DEF Deltas
        <4>4. last \notin C
          BY <2>1, <3>2
        <4> HIDE DEF f, g, C, last
        <4>5. SumFunctionOnSet(g, C \cup {last}) = SumFunctionOnSet(g, C) + g[last]
          BY <4>1, <4>2, <4>3, <4>4, SumAdd
        <4>6. SumFunctionOnSet(g, C) = SumFunctionOnSet(f, C)
          BY <4>1, <4>2, SumSame
        <4> QED
          BY <4>3, <4>5, <4>6
      <3>5. /\ rows[i].qty = SumFunctionOnSet(f, C)
            /\ es[n].after = rows[i].qty + es[n].delta /\ rows'[i].qty = es[n].after
        BY <1>1, <3>1 DEF Posting
      <3>6. ASSUME NEW p \in D
            PROVE  book'[p].after = SumFunctionOnSet(g, {q \in D : q <= p})
        <4>1. CASE p \in C
          <5>1. {q \in D : q <= p} = {q \in C : q <= p}
            <6>1. ~(last <= p)
              BY <2>1, <3>2, <4>1, PostedBook
            <6> QED
              BY <3>3, <6>1
          <5> QED
            BY <2>2, <4>1, <5>1
        <4>2. CASE p = last
          <5>1. \A q \in C : q <= last
            BY <2>1, <3>2, PostedBook
          <5>2. last <= last
            BY PostedBook
          <5>3. {q \in D : q <= p} = C \cup {last}
            BY <3>3, <4>2, <5>1, <5>2
          <5> QED
            BY <3>2, <3>4, <3>5, <4>2, <5>3
        <4> QED
          BY <3>3, <4>1, <4>2
      <3> QED
        BY <3>3, <3>4, <3>5, <3>6
    <2> QED
      BY <2>3, <2>4
  <1> QED
    BY <1>2 DEF ZeroDrift, Sum, Deltas

Lasting == {p \in DOMAIN book : book[p].kind \in Making}

\* Rows that are not there add nothing to the total.
LEMMA HeldTotal ==
    ASSUME NEW r \in [RowId -> Row \cup {NoRow}]
    PROVE  SumFunctionOnSet([i \in RowId |-> r[i].qty], {i \in RowId : r[i] # NoRow})
             = SumFunctionOnSet([i \in RowId |-> r[i].qty], RowId)
  <1> DEFINE q == [i \in RowId |-> r[i].qty]
             H == {i \in RowId : r[i] # NoRow}
  <1>1. \A i \in H : q[i] \in Int
    BY AssetAssumption DEF Row
  <1>2. \A i \in RowId \ H : q[i] = 0
    BY DEF NoRow
  <1>3. H \in SUBSET RowId
    OBVIOUS
  <1> HIDE DEF q, H
  <1>4. SumFunctionOnSet(q, RowId) = SumFunctionOnSet(q, H)
    BY <1>1, <1>2, <1>3, RowsFinite, SumIgnoresZeros
  <1> QED
    BY <1>4 DEF q, H

\* A posting changes the total by what it makes and ends.
LEMMA PostedConserves ==
    ASSUME Types, Conserved, NEW es, NEW own, Posting(es, own)
    PROVE  Conserved'
  <1> DEFINE L == Len(book)
             q == [i \in RowId |-> rows[i].qty]
             r == [i \in RowId |-> rows'[i].qty]
             d == [i \in RowId |-> rows'[i].qty - rows[i].qty]
             e == Deltas(es)
             f == Deltas(book)
             g == Deltas(book')
             N == {n \in DOMAIN es : es[n].kind \in Making}
             rowOf == [n \in DOMAIN es |-> es[n].row]
             placeOf == [n \in DOMAIN es |-> L + n]
             Touched == {rowOf[n] : n \in DOMAIN es}
             New == {placeOf[n] : n \in N}
  <1>1. Total(Held) = SumFunctionOnSet(q, RowId) /\ Total(Held)' = SumFunctionOnSet(r, RowId)
    <2>1. Total(Held) = SumFunctionOnSet(q, RowId)
      <3>1. rows \in [RowId -> Row \cup {NoRow}]
        BY DEF Types
      <3> QED
        BY <3>1, HeldTotal DEF Total, Held
    <2>2. Total(Held)' = SumFunctionOnSet(r, RowId)
      <3>1. rows' \in [RowId -> Row \cup {NoRow}]
        BY DEF Posting
      <3> QED
        BY <3>1, HeldTotal DEF Total, Held
    <2> QED
      BY <2>1, <2>2
  <1>2. ASSUME NEW i \in RowId
        PROVE  q[i] \in Int /\ r[i] \in Int /\ d[i] \in Int /\ r[i] = q[i] + d[i]
    <2>1. rows[i].qty \in Int
      BY Quantities, AssetAssumption
    <2>2. rows'[i].qty \in Int
      BY AssetAssumption DEF Posting, Row, NoRow
    <2> QED
      BY <2>1, <2>2
  <1>3. /\ DOMAIN es = 1 .. Len(es) /\ IsFiniteSet(DOMAIN es)
        /\ \A n \in DOMAIN es : /\ es[n] \in LedgerEntry /\ rowOf[n] \in RowId
                                /\ e[n] \in Int /\ e[n] = d[rowOf[n]]
    <2>1. DOMAIN es = 1 .. Len(es) /\ IsFiniteSet(DOMAIN es)
      BY PostedBook, FS_Interval
    <2>2. ASSUME NEW n \in DOMAIN es
          PROVE  /\ es[n] \in LedgerEntry /\ rowOf[n] \in RowId
                 /\ e[n] \in Int /\ e[n] = d[rowOf[n]]
      <3>1. es[n] \in LedgerEntry
        BY PostedBook
      <3>2. es[n].row \in RowId /\ es[n].delta \in Int
        BY <3>1, AssetAssumption DEF LedgerEntry
      <3>3. rows[es[n].row].qty \in Int
        BY <3>2, Quantities, AssetAssumption
      <3>4. rows'[es[n].row].qty = rows[es[n].row].qty + es[n].delta
        BY DEF Posting
      <3> QED
        BY <3>1, <3>2, <3>3, <3>4 DEF Deltas
    <2> QED
      BY <2>1, <2>2
  <1>4. \A m, n \in DOMAIN es : rowOf[m] = rowOf[n] => m = n
    BY DEF Posting
  <1>5. ASSUME NEW i \in RowId \ Touched PROVE d[i] = 0
    <2>1. \A n \in DOMAIN es : es[n].row # i
      OBVIOUS
    <2>2. rows'[i] = rows[i]
      BY <2>1 DEF Posting
    <2> QED
      BY <1>2, <2>2
  <1>6. Touched \in SUBSET RowId /\ N \in SUBSET (DOMAIN es) /\ IsFiniteSet(N)
    <2>1. Touched \in SUBSET RowId
      BY <1>3
    <2> QED
      BY <1>3, <2>1, FS_Subset
  <1>7. /\ Lasting \in SUBSET (DOMAIN book) /\ Lasting \cap New = {}
        /\ Lasting' = Lasting \cup New
    <2>1. Lasting \in SUBSET (DOMAIN book)
      BY DEF Lasting
    <2>2. \A p \in New : p \notin DOMAIN book
      BY PostedBook
    <2>3. ASSUME NEW p \in Lasting' PROVE p \in Lasting \cup New
      <3>1. p \in DOMAIN book' /\ book'[p].kind \in Making
        BY DEF Lasting
      <3>2. CASE p \in DOMAIN book
        BY <3>1, <3>2, PostedBook DEF Lasting
      <3>3. CASE p - L \in DOMAIN es /\ p = L + (p - L)
        <4>1. p - L \in N
          BY <3>1, <3>3, PostedBook
        <4>2. p = placeOf[p - L]
          BY <3>3
        <4> QED
          BY <4>1, <4>2
      <3> QED
        BY <3>1, <3>2, <3>3, PostedBook
    <2>4. ASSUME NEW p \in Lasting PROVE p \in Lasting'
      BY <2>4, PostedBook DEF Lasting
    <2>5. ASSUME NEW n \in N PROVE placeOf[n] \in Lasting'
      BY <2>5, PostedBook DEF Lasting
    <2> QED
      BY <2>1, <2>2, <2>3, <2>4, <2>5
  <1>8. /\ IsFiniteSet(Lasting) /\ IsFiniteSet(New)
        /\ \A p \in Lasting : f[p] \in Int /\ f[p] = g[p]
        /\ \A n \in N : e[n] \in Int /\ e[n] = g[placeOf[n]]
        /\ \A p \in Lasting \cup New : g[p] \in Int
    <2>1. IsFiniteSet(Lasting) /\ \A p \in Lasting : f[p] \in Int
      BY <1>7, LedgerSums
    <2>2. \A p \in Lasting : f[p] = g[p]
      BY <1>7, PostedKeepsSums
    <2>3. \A n \in N : e[n] \in Int /\ e[n] = g[placeOf[n]]
      <3> SUFFICES ASSUME NEW n \in N PROVE e[n] \in Int /\ e[n] = g[placeOf[n]]
        OBVIOUS
      <3>1. /\ n \in DOMAIN es /\ L + n \in DOMAIN book' /\ book'[L + n] = es[n]
            /\ placeOf[n] = L + n
        BY PostedBook
      <3>2. g[L + n] = book'[L + n].delta
        BY <3>1 DEF Deltas
      <3>3. e[n] = es[n].delta /\ e[n] \in Int
        BY <1>3, <3>1 DEF Deltas
      <3> QED
        BY <3>1, <3>2, <3>3
    <2>4. IsFiniteSet(New)
      <3>1. placeOf \in [DOMAIN es -> New \cup {placeOf[n] : n \in DOMAIN es}]
        OBVIOUS
      <3>2. New \in SUBSET (1 .. L + Len(es))
        BY PostedBook
      <3>3. IsFiniteSet(1 .. L + Len(es))
        BY PostedBook, FS_Interval
      <3> QED
        BY <3>2, <3>3, FS_Subset
    <2> QED
      BY <2>1, <2>2, <2>3, <2>4
  <1>9. \A m, n \in N : placeOf[m] = placeOf[n] => m = n
    BY PostedBook
  <1>10. SumFunctionOnSet(e, DOMAIN es) = SumFunctionOnSet(e, N)
    BY DEF Posting, Balanced
  <1>11. Conserved <=> Total(Held) = SumFunctionOnSet(f, Lasting)
    BY DEF Conserved, Sum, Lasting, Making, Deltas
  <1>12. Conserved' <=> Total(Held)' = SumFunctionOnSet(g, Lasting')
    BY DEF Conserved, Sum, Lasting, Making, Deltas
  <1> HIDE DEF L, q, r, d, e, f, g, N, rowOf, placeOf
  <1>13. SumFunctionOnSet(r, RowId) = SumFunctionOnSet(q, RowId) + SumFunctionOnSet(d, RowId)
    BY <1>2, RowsFinite, SumPointwise
  <1>14. SumFunctionOnSet(d, RowId) = SumFunctionOnSet(d, Touched)
    <2>1. \A i \in Touched : d[i] \in Int
      BY <1>2, <1>6
    <2> HIDE DEF Touched
    <2> QED
      BY <1>5, <1>6, <2>1, RowsFinite, SumIgnoresZeros
  <1>15. SumFunctionOnSet(e, DOMAIN es) = SumFunctionOnSet(d, Touched)
    <2>1. \A n \in DOMAIN es : e[n] \in Int /\ e[n] = d[rowOf[n]]
      BY <1>3
    <2>2. IsFiniteSet(DOMAIN es)
      BY <1>3
    <2> QED
      BY <1>4, <2>1, <2>2, SumRenamed
  <1>16. SumFunctionOnSet(e, N) = SumFunctionOnSet(g, New)
    <2>1. \A m, n \in N : placeOf[m] = placeOf[n] => m = n
      BY <1>9
    <2> QED
      BY <1>6, <1>8, <2>1, SumRenamed
  <1>17. SumFunctionOnSet(g, Lasting \cup New)
           = SumFunctionOnSet(g, Lasting) + SumFunctionOnSet(g, New)
    <2> HIDE DEF New
    <2> QED
      BY <1>7, <1>8, SumUnion
  <1>18. SumFunctionOnSet(f, Lasting) = SumFunctionOnSet(g, Lasting)
    BY <1>8, SumSame
  <1>19. Total(Held) = SumFunctionOnSet(f, Lasting)
    BY <1>11
  <1>20. SumFunctionOnSet(g, Lasting') = SumFunctionOnSet(g, Lasting \cup New)
    BY <1>7, Zenon
  <1> QED
    <2> HIDE DEF Touched, New
    <2> QED
      BY <1>1, <1>10, <1>12, <1>13, <1>14, <1>15, <1>16, <1>17, <1>18, <1>19, <1>20

-----------------------------------------------------------------------------
(* What a transaction has locked, and identifiers for what it inserts *)

\* What a transaction that is under way looks like.
LEMMA Opened ==
    ASSUME Types, NEW t \in Txs, txs[t].pc # "idle"
    PROVE  /\ txs[t] \in OpenTx /\ txs[t] # Idle
           /\ LockedBy(t) = txs[t].locks
           /\ txs[t].cmd \in Command
  <1>1. txs[t] \in OpenTx \cup {Idle}
    BY DEF Types
  <1>2. txs[t] # Idle
    BY DEF Idle
  <1>3. txs[t] \in OpenTx
    BY <1>1, <1>2
  <1> QED
    BY <1>2, <1>3 DEF OpenTx, LockedBy

\* What a row that is there looks like.
LEMMA Stored ==
    ASSUME Types, NEW i \in Held
    PROVE  /\ i \in RowId /\ i \in Int /\ rows[i] \in Row
           /\ rows[i].owner \in Owners /\ rows[i].expiry \in Instant /\ rows[i].expiry \in Int
           /\ rows[i].qty \in 1 .. MaxQuantity
  <1>1. i \in RowId /\ i \in Int /\ rows[i] \in Row
    BY DEF Held, Types, RowId
  <1> QED
    BY <1>1, AssetAssumption DEF Row, Instant, Never

\* The live rows of a command are there and locked by it.
LEMMA Live ==
    ASSUME Types, LocksHeld, NEW t \in Txs, txs[t].pc # "idle", NEW o
    PROVE  /\ LiveRows(t, o) \in SUBSET RowId /\ IsFiniteSet(LiveRows(t, o))
           /\ \A i \in LiveRows(t, o) :
                i \in Held /\ i \in LockedBy(t) /\ rows[i].owner = o
  <1>1. LockedBy(t) \in SUBSET Held /\ LockedBy(t) = txs[t].locks
    BY Opened DEF LocksHeld
  <1>2. LiveRows(t, o) \in SUBSET RowId
    BY <1>1 DEF LiveRows, Held
  <1> QED
    BY <1>1, <1>2, RowsFinite, FS_Subset DEF LiveRows

\* A row holds at most what its owner's live rows hold together.
LEMMA LiveTotal ==
    ASSUME Types, NEW S \in SUBSET RowId
    PROVE  /\ Total(S) \in Nat
           /\ \A i \in S : rows[i].qty <= Total(S)
           /\ \A T \in SUBSET S : Total(T) \in Nat /\ Total(T) <= Total(S)
  <1> DEFINE q == [i \in RowId |-> rows[i].qty]
  <1>1. IsFiniteSet(S) /\ \A i \in S : q[i] \in Nat
    BY RowsFinite, FS_Subset, Quantities, AssetAssumption
  <1>2. ASSUME NEW i \in S PROVE rows[i].qty <= Total(S)
    <2>1. IsFiniteSet(S \ {i})
      BY <1>1, FS_Subset
    <2>2. q[i] = rows[i].qty
      OBVIOUS
    <2> HIDE DEF q
    <2>3. SumFunctionOnSet(q, S) = q[i] + SumFunctionOnSet(q, S \ {i})
      BY <1>1, SumRemove
    <2>4. SumFunctionOnSet(q, S \ {i}) \in Nat
      BY <1>1, <2>1, SumNat
    <2> QED
      BY <1>1, <2>2, <2>3, <2>4 DEF Total, q
  <1>3. Total(S) \in Nat /\ \A T \in SUBSET S : Total(T) \in Nat /\ Total(T) <= Total(S)
    <2>1. Total(S) = SumFunctionOnSet(q, S) /\ \A T : Total(T) = SumFunctionOnSet(q, T)
      BY DEF Total
    <2> HIDE DEF q
    <2> QED
      BY <1>1, <2>1, SumMonotone, SumNat
  <1> QED
    BY <1>2, <1>3

\* New identifiers are of rows that are not there, and differ.
LEMMA Fresh ==
    ASSUME Types, OnRecord
    PROVE  /\ FreshIds \in SUBSET RowId /\ Cardinality(FreshIds) \in Nat
           /\ \A i \in FreshIds : i \notin Held /\ rows[i] = NoRow /\ rows[i].qty = 0
           /\ \A n \in 1 .. Cardinality(FreshIds) : NewId(n) \in FreshIds
           /\ \A m, n \in 1 .. Cardinality(FreshIds) : NewId(m) = NewId(n) => m = n
           /\ FreshIds # {} => Cardinality(FreshIds) >= 1
  <1>1. FreshIds \in SUBSET RowId /\ IsFiniteSet(FreshIds)
    BY RowsFinite, FS_Subset DEF FreshIds
  <1>2. \A i \in FreshIds : i \notin Held /\ rows[i] = NoRow /\ rows[i].qty = 0
    BY DEF FreshIds, OnRecord, Held, NoRow
  <1>3. /\ \A n \in 1 .. Cardinality(FreshIds) : NewId(n) \in FreshIds
        /\ \A m, n \in 1 .. Cardinality(FreshIds) : NewId(m) = NewId(n) => m = n
    BY <1>1, SetToSeqEnumerates DEF NewId
  <1>4. Cardinality(FreshIds) \in Nat /\ (FreshIds # {} => Cardinality(FreshIds) >= 1)
    <2>1. Cardinality(FreshIds) \in Nat /\ (Cardinality(FreshIds) = 0 <=> FreshIds = {})
      BY <1>1, FS_CardinalityType, FS_EmptySet
    <2> QED
      BY <2>1
  <1> QED
    BY <1>1, <1>2, <1>3, <1>4

\* Quantities arrive in a live bucket of the same expiry, or in a new row.
LEMMA TargetRow ==
    ASSUME NEW t, NEW o, NEW e, NEW fresh
    PROVE  \/ Target(t, o, e, fresh) = fresh
           \/ /\ Target(t, o, e, fresh) \in LiveRows(t, o) /\ class # "instance"
              /\ rows[Target(t, o, e, fresh)].expiry = e
  <1> DEFINE same == {i \in LiveRows(t, o) : class # "instance" /\ rows[i].expiry = e}
             one == CHOOSE i \in same : TRUE
  <1>1. Target(t, o, e, fresh) = IF same = {} THEN fresh ELSE one
    BY Zenon DEF Target
  <1>2. same # {} => one \in same
    OBVIOUS
  <1> HIDE DEF one
  <1> QED
    BY <1>1, <1>2

\* A ledger entry has its type, and what makes or ends quantities is balanced.
LEMMA EntryTyped ==
    ASSUME NEW k \in Keys \cup RowId,
           NEW w \in {"main", "earlier", "consume", "out", "in", "expire"}, NEW n \in Nat,
           NEW i \in RowId, NEW kind \in EntryKind, NEW d \in -MaxQuantity .. MaxQuantity,
           NEW after \in Int
    PROVE  Entry(<<k, w, n>>, i, kind, d, after) \in LedgerEntry
  <1>1. <<k, w, n>> \in LedgerKey
    BY DEF LedgerKey
  <1> QED
    BY <1>1 DEF Entry, LedgerEntry

\* Entries that all make or end quantities are balanced,
LEMMA MakingIsBalanced ==
    ASSUME NEW es, \A n \in DOMAIN es : es[n].kind \in Making
    PROVE  Balanced(es)
  <1>1. {n \in DOMAIN es : es[n].kind \in Making} = DOMAIN es
    OBVIOUS
  <1> QED
    BY <1>1, Zenon DEF Balanced

\* and so are entries that only move them and cancel out.
LEMMA MovingIsBalanced ==
    ASSUME NEW es, \A n \in DOMAIN es : es[n].kind \notin Making,
           SumFunctionOnSet(Deltas(es), DOMAIN es) = 0
    PROVE  Balanced(es)
  <1>1. {n \in DOMAIN es : es[n].kind \in Making} = {}
    OBVIOUS
  <1> QED
    BY <1>1, SumEmpty, Zenon DEF Balanced

\* A single entry.
LEMMA OnePosting ==
    ASSUME NEW e, e \in LedgerEntry, NEW own, e.row \in own,
           book' = book \o <<e>>,
           rows' \in [RowId -> Row \cup {NoRow}],
           e.after = rows[e.row].qty + e.delta, rows'[e.row].qty = e.after,
           \A i \in RowId : i # e.row => rows'[i] = rows[i],
           e.kind \in Making \/ e.delta = 0
    PROVE  Posting(<<e>>, own)
  <1> DEFINE es == <<e>>
  <1>1. es \in Seq(LedgerEntry) /\ DOMAIN es = {1} /\ es[1] = e
    OBVIOUS
  <1>2. Balanced(es)
    <2>1. CASE e.kind \in Making
      BY <1>1, <2>1, MakingIsBalanced
    <2>2. CASE e.kind \notin Making /\ e.delta = 0
      <3>1. Deltas(es)[1] = 0
        BY <1>1, <2>2 DEF Deltas
      <3>2. SumFunctionOnSet(Deltas(es), {1}) = SumFunctionOnSet(Deltas(es), {})
        <4>1. IsFiniteSet({1}) /\ {} \in SUBSET {1} /\ {1} \ {} = {1}
          BY FS_Singleton
        <4>2. \A x \in {} : Deltas(es)[x] \in Int
          OBVIOUS
        <4>3. \A x \in {1} \ {} : Deltas(es)[x] = 0
          BY <3>1
        <4> QED
          BY <4>1, <4>2, <4>3, SumIgnoresZeros
      <3>3. SumFunctionOnSet(Deltas(es), DOMAIN es) = 0
        BY <1>1, <3>2, SumEmpty
      <3> QED
        BY <1>1, <2>2, <3>3, MovingIsBalanced
    <2> QED
      BY <2>1, <2>2
  <1> HIDE DEF es
  <1> QED
    BY <1>1, <1>2 DEF Posting, es

-----------------------------------------------------------------------------
(* What the operations post *)

\* A grant is one entry: in a bucket of the owner or in a new row.
LEMMA GrantPosts ==
    ASSUME Types, OnRecord, LocksHeld, NEW t \in Txs, Grant(t)
    PROVE  \E es : Posting(es, LockedBy(t) \cup FreshIds)
  <1> DEFINE x == txs[t]
             c == x.cmd
             i == Target(t, c.owner, c.expiry, NewId(1))
             after == rows[i].qty + c.qty
             row == [owner |-> c.owner, expiry |-> c.expiry, qty |-> after]
             e == Entry(MainKey(x.key), i, "grant", c.qty, after)
  <1>1. /\ x.pc = "locked" /\ MayReceive(t, c.owner, c.qty) /\ FreshIds # {}
        /\ book' = book \o <<e>> /\ rows' = [rows EXCEPT ![i] = row]
    BY DEF Grant, Commit
  <1>2. /\ x.key \in Keys /\ c.owner \in Owners /\ c.expiry \in Instant
        /\ c.qty \in 1 .. MaxQuantity
    BY <1>1, Opened DEF OpenTx, Command
  <1>3. i \in RowId /\ i \in LockedBy(t) \cup FreshIds
    <2>1. NewId(1) \in FreshIds /\ FreshIds \in SUBSET RowId
      BY <1>1, Fresh
    <2>2. i = NewId(1) \/ i \in LiveRows(t, c.owner)
      BY TargetRow
    <2>3. LiveRows(t, c.owner) \in SUBSET RowId /\ LiveRows(t, c.owner) \in SUBSET LockedBy(t)
      BY <1>1, Live
    <2> HIDE DEF i, c
    <2> QED
      BY <2>1, <2>2, <2>3
  <1>4. after \in 1 .. MaxQuantity
    <2>1. Total(LiveRows(t, c.owner)) + c.qty <= MaxQuantity
      BY <1>1 DEF MayReceive
    <2>2. LiveRows(t, c.owner) \in SUBSET RowId
      BY <1>1, Live
    <2>3. Total(LiveRows(t, c.owner)) \in Nat
      BY <2>2, LiveTotal
    <2>4. rows[i].qty \in Nat /\ rows[i].qty <= Total(LiveRows(t, c.owner))
      <3>1. rows[i].qty \in Nat
        BY <1>3, Quantities, AssetAssumption
      <3>2. CASE i = NewId(1)
        <4>1. rows[i].qty = 0
          BY <1>1, <3>2, Fresh
        <4> QED
          BY <2>3, <4>1
      <3>3. CASE i \in LiveRows(t, c.owner)
        BY <2>2, <3>1, <3>3, LiveTotal
      <3> QED
        BY <3>2, <3>3, TargetRow
    <2> HIDE DEF i, c
    <2> QED
      BY <1>2, <2>1, <2>3, <2>4, AssetAssumption
  <1>5. rows' \in [RowId -> Row \cup {NoRow}]
    <2>1. row \in Row
      BY <1>2, <1>4 DEF Row
    <2> HIDE DEF row, i
    <2> QED
      BY <1>1, <1>3, <2>1 DEF Types
  <1>6. e \in LedgerEntry
    <2>1. c.qty \in -MaxQuantity .. MaxQuantity /\ after \in Int
      BY <1>2, <1>4, AssetAssumption
    <2> HIDE DEF i, c, after
    <2> QED
      BY <1>2, <1>3, <2>1, EntryTyped DEF MainKey, EntryKind
  <1>7. /\ e.row = i /\ e.delta = c.qty /\ e.after = after /\ e.kind = "grant"
        /\ rows'[i].qty = after /\ \A j \in RowId : j # i => rows'[j] = rows[j]
    <2>1. rows'[i] = row /\ \A j \in RowId : j # i => rows'[j] = rows[j]
      <3> HIDE DEF row, i
      <3> QED
        BY <1>1, <1>3 DEF Types
    <2> HIDE DEF i, after
    <2> QED
      BY <2>1 DEF Entry
  <1>8. Posting(<<e>>, LockedBy(t) \cup FreshIds)
    <2>1. e.after = rows[e.row].qty + e.delta
      BY <1>7
    <2> HIDE DEF e, i, after, row, c, x
    <2> QED
      BY <1>1, <1>3, <1>5, <1>6, <1>7, <2>1, OnePosting DEF Making
  <1> QED
    BY <1>8

\* A mutation is an entry of 0.
LEMMA MutatePosts ==
    ASSUME Types, LocksHeld, NEW t \in Txs, Mutate(t)
    PROVE  \E es : Posting(es, LockedBy(t) \cup FreshIds)
  <1> DEFINE x == txs[t]
             i == x.cmd.row
             e == Entry(MainKey(x.key), i, "mutate", 0, rows[i].qty)
  <1>1. /\ x.pc = "locked" /\ i \in x.locks
        /\ book' = book \o <<e>> /\ rows' = [rows EXCEPT ![i].expiry = x.cmd.expiry]
    BY DEF Mutate, Commit
  <1>2. x.key \in Keys /\ x.cmd.expiry \in Instant /\ i \in LockedBy(t) /\ i \in Held
    <2>1. x \in OpenTx /\ x.cmd \in Command /\ LockedBy(t) = x.locks
      BY <1>1, Opened
    <2>2. i \in LockedBy(t) /\ i \in Held
      <3> HIDE DEF x, i
      <3> QED
        BY <1>1, <2>1 DEF LocksHeld
    <2> HIDE DEF x
    <2> QED
      BY <2>1, <2>2 DEF OpenTx, Command
  <1>3. i \in RowId /\ rows[i] \in Row /\ rows[i].qty \in Int
    BY <1>2, Stored, AssetAssumption
  <1> HIDE DEF i
  <1>4. /\ rows'[i].qty = rows[i].qty /\ rows'[i] \in Row
        /\ \A j \in RowId : j # i => rows'[j] = rows[j]
        /\ rows' \in [RowId -> Row \cup {NoRow}]
    <2>1. [rows[i] EXCEPT !.expiry = x.cmd.expiry] \in Row
      BY <1>2, <1>3 DEF Row
    <2>2. rows'[i] = [rows[i] EXCEPT !.expiry = x.cmd.expiry]
      BY <1>1, <1>3 DEF Types
    <2>3. rows'[i].qty = rows[i].qty
      BY <1>3, <2>2 DEF Row
    <2> QED
      BY <1>1, <1>3, <2>1, <2>2, <2>3 DEF Types
  <1>5. e \in LedgerEntry
    <2>1. 0 \in -MaxQuantity .. MaxQuantity
      BY AssetAssumption
    <2> QED
      BY <1>2, <1>3, <2>1, EntryTyped DEF MainKey, EntryKind
  <1>6. /\ e.row = i /\ e.delta = 0 /\ e.after = rows[i].qty
        /\ rows[i].qty = rows[i].qty + 0
    BY <1>3 DEF Entry
  <1>7. Posting(<<e>>, LockedBy(t) \cup FreshIds)
    <2> HIDE DEF e, x
    <2> QED
      BY <1>1, <1>2, <1>4, <1>5, <1>6, OnePosting
  <1> QED
    BY <1>7

\* An expiry takes the whole of its row.
LEMMA ExpirePosts ==
    ASSUME Types, LocksHeld, NEW t \in Txs, Expire(t)
    PROVE  \E es : Posting(es, LockedBy(t) \cup FreshIds)
  <1> DEFINE x == txs[t]
             i == x.cmd.row
             e == Entry(MainKey(x.key), i, "expire", -rows[i].qty, 0)
  <1>1. /\ x.pc = "locked" /\ i \in x.locks
        /\ book' = book \o <<e>> /\ rows' = [rows EXCEPT ![i] = NoRow]
    BY DEF Expire, Commit
  <1>2. x.key \in Keys /\ i \in LockedBy(t) /\ i \in Held
    <2>1. x \in OpenTx /\ x.cmd \in Command /\ LockedBy(t) = x.locks
      BY <1>1, Opened
    <2>2. i \in LockedBy(t) /\ i \in Held
      <3> HIDE DEF x, i
      <3> QED
        BY <1>1, <2>1 DEF LocksHeld
    <2> HIDE DEF x
    <2> QED
      BY <2>1, <2>2 DEF OpenTx, Command
  <1>3. i \in RowId /\ rows[i].qty \in 1 .. MaxQuantity
    BY <1>2, Stored
  <1> HIDE DEF i
  <1>4. /\ rows'[i].qty = 0 /\ \A j \in RowId : j # i => rows'[j] = rows[j]
        /\ rows' \in [RowId -> Row \cup {NoRow}]
    BY <1>1, <1>3 DEF Types, NoRow
  <1>5. e \in LedgerEntry
    <2>1. -rows[i].qty \in -MaxQuantity .. MaxQuantity
      BY <1>3, AssetAssumption
    <2> QED
      BY <1>2, <1>3, <2>1, EntryTyped DEF MainKey, EntryKind
  <1>6. /\ e.row = i /\ e.delta = -rows[i].qty /\ e.after = 0 /\ e.kind \in Making
        /\ 0 = rows[i].qty + (-rows[i].qty)
    BY <1>3, AssetAssumption DEF Entry, Making
  <1>7. Posting(<<e>>, LockedBy(t) \cup FreshIds)
    <2> HIDE DEF e, x
    <2> QED
      BY <1>1, <1>2, <1>4, <1>5, <1>6, OnePosting
  <1> QED
    BY <1>7

\* The scan posts an entry for every row it found, and touches no others.
LEMMA ExpireDuePosts ==
    ASSUME Types, NEW ids \in SUBSET Held, ExpireDue(ids)
    PROVE  \E es : Posting(es, Held \ UNION {LockedBy(t) : t \in Txs})
  <1> DEFINE K == Cardinality(ids)
             queue == SoonestFirst(ids)
             entry(i) == Entry(<<i, "expire", rows[i].expiry>>, i, "expire", -rows[i].qty, 0)
             es == [n \in 1 .. K |-> entry(queue[n])]
             free == Held \ UNION {LockedBy(t) : t \in Txs}
  <1>1. /\ ids \in SUBSET free
        /\ book' = book \o es
        /\ rows' = [i \in RowId |-> IF i \in ids THEN NoRow ELSE rows[i]]
    BY DEF ExpireDue
  <1>2. ids \in SUBSET RowId /\ IsFiniteSet(ids) /\ K \in Nat
    <2>1. ids \in SUBSET RowId
      BY DEF Held
    <2>2. IsFiniteSet(ids)
      BY <2>1, RowsFinite, FS_Subset
    <2> QED
      BY <2>1, <2>2, FS_CardinalityType
  <1>3. /\ queue \in [1 .. K -> ids]
        /\ \A m, n \in 1 .. K : queue[m] = queue[n] => m = n
    <2>1. \A i \in ids : rows[i].expiry \in Int
      BY Stored
    <2> QED
      BY <1>2, <2>1, SoonestFirstEnumerates
  <1>4. \A i \in ids : \E n \in 1 .. K : queue[n] = i
    <2>1. queue \in Injection(1 .. K, ids)
      <3> HIDE DEF queue, K
      <3> QED
        BY <1>3 DEF Injection, IsInjective
    <2>2. Cardinality(1 .. K) = Cardinality(ids)
      <3>1. IsFiniteSet(1 .. K) /\ Cardinality(1 .. K) = K
        BY <1>2, FS_Interval
      <3> QED
        BY <3>1
    <2>3. queue \in Surjection(1 .. K, ids)
      <3> HIDE DEF queue, K
      <3> QED
        BY <1>2, <2>1, <2>2, FS_Injection
    <2> HIDE DEF queue, K
    <2> QED
      BY <2>3 DEF Surjection
  <1> HIDE DEF queue, K
  <1>5. ASSUME NEW i \in ids
        PROVE  entry(i) \in LedgerEntry
    <2>1. i \in RowId /\ rows[i].expiry \in Nat /\ rows[i].qty \in 1 .. MaxQuantity
      BY Stored, AssetAssumption DEF Instant, Never
    <2>2. -rows[i].qty \in -MaxQuantity .. MaxQuantity
      BY <2>1, AssetAssumption
    <2> QED
      BY <2>1, <2>2, EntryTyped DEF EntryKind
  <1>6. ASSUME NEW i \in ids
        PROVE  /\ entry(i).row = i /\ entry(i).kind \in Making /\ entry(i).after = 0
               /\ 0 = rows[i].qty + entry(i).delta
    <2>1. rows[i].qty \in 1 .. MaxQuantity
      BY Stored
    <2> QED
      BY <2>1, AssetAssumption DEF Entry, Making
  <1> HIDE DEF entry
  <1>7. es \in Seq(LedgerEntry) /\ DOMAIN es = 1 .. K
    <2>1. \A n \in 1 .. K : entry(queue[n]) \in LedgerEntry
      BY <1>3, <1>5
    <2> QED
      BY <1>2, <2>1
  <1>8. rows' \in [RowId -> Row \cup {NoRow}]
    BY <1>1 DEF Types
  <1>9. ASSUME NEW n \in 1 .. K
        PROVE  /\ es[n] = entry(queue[n]) /\ queue[n] \in ids
               /\ es[n].row = queue[n] /\ es[n].row \in free
               /\ es[n].after = rows[es[n].row].qty + es[n].delta
               /\ rows'[es[n].row].qty = es[n].after
               /\ es[n].kind \in Making
    <2>1. es[n] = entry(queue[n]) /\ queue[n] \in ids /\ queue[n] \in RowId
      BY <1>2, <1>3
    <2>2. rows'[queue[n]] = NoRow
      BY <1>1, <2>1
    <2>3. queue[n] \in free
      BY <1>1, <2>1
    <2> HIDE DEF es, free
    <2> QED
      BY <1>6, <2>1, <2>2, <2>3 DEF NoRow
  <1>10. \A i \in RowId : (\A n \in 1 .. K : es[n].row # i) => rows'[i] = rows[i]
    BY <1>1, <1>4, <1>9
  <1> HIDE DEF es, free
  <1>11. Balanced(es)
    BY <1>7, <1>9, MakingIsBalanced
  <1>12. \A m, n \in DOMAIN es : es[m].row = es[n].row => m = n
    BY <1>3, <1>7, <1>9
  <1>13. Posting(es, free)
    BY <1>1, <1>7, <1>8, <1>9, <1>10, <1>11, <1>12 DEF Posting
  <1> QED
    BY <1>13 DEF free

-----------------------------------------------------------------------------
(* Consumption *)

\* A set of positions that is closed downwards is an interval from 1.
LEMMA InitialSegment ==
    ASSUME NEW N \in Nat, NEW U \in SUBSET (1 .. N), \A n \in U : \A m \in 1 .. n : m \in U
    PROVE  Cardinality(U) \in Nat /\ U = 1 .. Cardinality(U)
  <1> DEFINE k == Cardinality(U)
  <1>1. IsFiniteSet(U) /\ k \in Nat
    <2>1. IsFiniteSet(1 .. N)
      BY FS_Interval
    <2>2. IsFiniteSet(U)
      BY <2>1, FS_Subset
    <2> QED
      BY <2>2, FS_CardinalityType
  <1>2. ASSUME NEW n \in U PROVE n \in 1 .. k
    <2>1. n \in Nat /\ n >= 1 /\ 1 .. n \in SUBSET U
      OBVIOUS
    <2>2. Cardinality(1 .. n) = n
      BY <2>1, FS_Interval
    <2>3. Cardinality(1 .. n) <= k
      BY <1>1, <2>1, FS_Subset
    <2> HIDE DEF k
    <2> QED
      BY <1>1, <2>1, <2>2, <2>3
  <1>3. IsFiniteSet(1 .. k) /\ Cardinality(1 .. k) = k
    <2> HIDE DEF k
    <2> QED
      BY <1>1, FS_Interval
  <1>4. U \in SUBSET (1 .. k)
    BY <1>2
  <1>5. 1 .. k = U
    BY <1>3, <1>4, FS_Subset
  <1> QED
    BY <1>1, <1>5

\* The smaller one of two numbers.
LEMMA MinOfTwo ==
    ASSUME NEW a \in Int, NEW b \in Int
    PROVE  Min({a, b}) \in {a, b} /\ Min({a, b}) <= a /\ Min({a, b}) <= b
  <1> DEFINE S == {a, b}
  <1>1. \E x \in S : \A y \in S : x <= y
    OBVIOUS
  <1>2. Min(S) = CHOOSE x \in S : \A y \in S : x <= y
    BY Zenon DEF Min
  <1>3. Min(S) \in S /\ \A y \in S : Min(S) <= y
    BY <1>1, <1>2, Zenon
  <1> QED
    BY <1>3

\* Every bucket gives something, none more than it has or than is asked for.
Shares(takes, ids, qty) ==
    /\ takes \in Seq([row : ids, qty : 1 .. qty])
    /\ Len(takes) \in Nat /\ DOMAIN takes = 1 .. Len(takes)
    /\ \A n \in 1 .. Len(takes) : /\ takes[n].row \in ids /\ takes[n].qty \in 1 .. qty
                                   /\ takes[n].qty <= rows[takes[n].row].qty
    /\ \A m, n \in 1 .. Len(takes) : takes[m].row = takes[n].row => m = n

\* What the first buckets of the queue hold that stand before the n-th.
Before(t, o, n) == Total({Fefo(t, o)[m] : m \in 1 .. n - 1})

\* The buckets of a quantity are the first of the queue, until it is met: each
\* gives all it has or what is still missing.
LEMMA Buckets ==
    ASSUME Types, LocksHeld, NEW t \in Txs, txs[t].pc # "idle", NEW o, NEW qty \in 1 .. MaxQuantity
    PROVE  LET live == LiveRows(t, o)
               N == Cardinality(live)
               b == Fefo(t, o)
               takes == Takes(t, o, qty)
               k == Len(takes)
           IN  /\ N \in Nat /\ k \in 0 .. N
               /\ \A i \in live : rows[i].qty \in 1 .. MaxQuantity
               /\ b \in [1 .. N -> live]
               /\ \A m, n \in 1 .. N : b[m] = b[n] => m = n
               /\ \A n \in 1 .. N :
                    /\ {b[m] : m \in 1 .. n - 1} \in SUBSET RowId
                    /\ Before(t, o, n) \in Nat
                    /\ \A l \in 1 .. n : Before(t, o, l) <= Before(t, o, n)
                    /\ n \in 1 .. k <=> Before(t, o, n) < qty
               /\ takes = [n \in 1 .. k |-> [row |-> b[n],
                                            qty |-> Min({rows[b[n]].qty, qty - Before(t, o, n)})]]
  <1> DEFINE live == LiveRows(t, o)
             N == Cardinality(live)
             b == Fefo(t, o)
             before(n) == Before(t, o, n)
             used == {n \in DOMAIN b : before(n) < qty}
             k == Cardinality(used)
             part(n) == Min({rows[b[n]].qty, qty - before(n)})
             takes == [n \in 1 .. k |-> [row |-> b[n], qty |-> part(n)]]
  <1>1. Takes(t, o, qty) = takes
    BY Zenon DEF Takes, Before
  <1>2. /\ live \in SUBSET RowId /\ N \in Nat
        /\ \A i \in live : rows[i].expiry \in Int /\ rows[i].qty \in 1 .. MaxQuantity
    <2>1. live \in SUBSET RowId /\ IsFiniteSet(live) /\ \A i \in live : i \in Held
      BY Live
    <2> HIDE DEF live
    <2> QED
      BY <2>1, Stored, FS_CardinalityType
  <1>3. /\ b \in [1 .. N -> live] /\ DOMAIN b = 1 .. N
        /\ \A m, n \in 1 .. N : b[m] = b[n] => m = n
    <2>1. IsFiniteSet(live)
      BY Live
    <2> HIDE DEF live
    <2> QED
      BY <1>2, <2>1, SoonestFirstEnumerates DEF Fefo, live
  <1> HIDE DEF b, live, N
  <1>4. ASSUME NEW n \in 1 .. N
        PROVE  /\ {b[m] : m \in 1 .. n - 1} \in SUBSET RowId
               /\ before(n) \in Nat
               /\ \A l \in 1 .. n : l \in 1 .. N /\ before(l) <= before(n)
    <2> DEFINE S(l) == {b[m] : m \in 1 .. l - 1}
    <2>0. \A l : before(l) = Total(S(l))
      BY DEF Before, b
    <2>1. ASSUME NEW l \in 1 .. n
          PROVE  l \in 1 .. N /\ S(l) \in SUBSET RowId /\ S(l) \in SUBSET S(n)
      <3>1. \A m \in 1 .. l - 1 : m \in 1 .. n - 1 /\ m \in 1 .. N
        BY <1>2
      <3> QED
        BY <1>2, <1>3, <3>1
    <2>2. S(n) \in SUBSET RowId
      <3>1. n \in 1 .. n
        OBVIOUS
      <3> QED
        BY <2>1, <3>1
    <2> HIDE DEF S
    <2>3. Total(S(n)) \in Nat /\ \A l \in 1 .. n : Total(S(l)) <= Total(S(n))
      BY <2>1, <2>2, LiveTotal
    <2>4. {b[m] : m \in 1 .. n - 1} \in SUBSET RowId
      BY <2>2 DEF S
    <2>5. n \in 1 .. n
      OBVIOUS
    <2> HIDE DEF before
    <2> QED
      BY <2>0, <2>1, <2>3, <2>4, <2>5
  <1> HIDE DEF before
  <1>5. k \in Nat /\ used = 1 .. k
    <2>1. used \in SUBSET (1 .. N)
      BY <1>3
    <2>2. ASSUME NEW n \in used, NEW m \in 1 .. n PROVE m \in used
      <3>1. n \in 1 .. N /\ before(n) < qty /\ before(n) \in Nat
        BY <1>3, <1>4
      <3>2. m \in 1 .. N /\ before(m) <= before(n)
        BY <1>4, <3>1
      <3>3. before(m) \in Nat
        BY <1>4, <3>2
      <3> QED
        BY <1>3, <3>1, <3>2, <3>3
    <2> HIDE DEF used
    <2> QED
      BY <1>2, <2>1, <2>2, InitialSegment
  <1>6. /\ k \in 0 .. N /\ Len(takes) = k
        /\ \A n \in 1 .. N : n \in 1 .. k <=> before(n) < qty
    <2>0. N \in Nat
      BY <1>2
    <2>1. IsFiniteSet(1 .. N) /\ Cardinality(1 .. N) = N
      BY <2>0, FS_Interval
    <2>2. Cardinality(used) <= N
      <3>1. used \in SUBSET (1 .. N)
        BY <1>3
      <3> HIDE DEF used
      <3> QED
        BY <2>1, <3>1, FS_Subset
    <2>3. \A n \in 1 .. N : n \in 1 .. k <=> before(n) < qty
      BY <1>3, <1>5
    <2>4. k \in Nat /\ k <= N
      BY <1>5, <2>2
    <2> HIDE DEF k, part
    <2>5. Len(takes) = k
      BY <2>4
    <2> HIDE DEF takes
    <2> QED
      BY <2>0, <2>3, <2>4, <2>5
  <1> HIDE DEF used, k
  <1>7. Len(Takes(t, o, qty)) = k
    BY <1>1, <1>6
  <1> HIDE DEF takes
  <1> QED
    BY <1>1, <1>2, <1>3, <1>4, <1>6, <1>7 DEF b, live, N, before, part, takes

\* What a quantity takes: from different live rows, from none more than it has.
LEMMA TakesFromLive ==
    ASSUME Types, LocksHeld, NEW t \in Txs, txs[t].pc # "idle", NEW o, NEW qty \in 1 .. MaxQuantity
    PROVE  Shares(Takes(t, o, qty), LiveRows(t, o), qty)
  <1> DEFINE live == LiveRows(t, o)
             N == Cardinality(live)
             b == Fefo(t, o)
             before(n) == Before(t, o, n)
             part(n) == Min({rows[b[n]].qty, qty - before(n)})
             takes == Takes(t, o, qty)
             k == Len(takes)
  <1>1. /\ N \in Nat /\ k \in 0 .. N /\ k \in Nat
        /\ \A i \in live : rows[i].qty \in 1 .. MaxQuantity
        /\ b \in [1 .. N -> live]
        /\ \A m, n \in 1 .. N : b[m] = b[n] => m = n
        /\ \A n \in 1 .. N : before(n) \in Nat /\ (n \in 1 .. k <=> before(n) < qty)
        /\ takes = [n \in 1 .. k |-> [row |-> b[n], qty |-> part(n)]]
    <2>1. /\ N \in Nat /\ k \in 0 .. N
          /\ \A i \in live : rows[i].qty \in 1 .. MaxQuantity
          /\ b \in [1 .. N -> live]
          /\ \A m, n \in 1 .. N : b[m] = b[n] => m = n
          /\ \A n \in 1 .. N : before(n) \in Nat /\ (n \in 1 .. k <=> before(n) < qty)
          /\ takes = [n \in 1 .. k |-> [row |-> b[n], qty |-> part(n)]]
      <3>1. \A n \in 1 .. N : before(n) \in Nat /\ (n \in 1 .. k <=> before(n) < qty)
        BY Buckets, Zenon
      <3>2. N \in Nat /\ k \in 0 .. N /\ b \in [1 .. N -> live]
        BY Buckets, Zenon
      <3>3. /\ \A i \in live : rows[i].qty \in 1 .. MaxQuantity
            /\ \A m, n \in 1 .. N : b[m] = b[n] => m = n
        BY Buckets, Zenon
      <3>4. takes = [n \in 1 .. k |-> [row |-> b[n], qty |-> part(n)]]
        BY Buckets, Zenon
      <3> HIDE DEF live, N, b, before, takes, k, part
      <3> QED
        BY <3>1, <3>2, <3>3, <3>4
    <2> HIDE DEF live, N, b, before, takes, k, part
    <2> QED
      BY <2>1
  <1> HIDE DEF live, N, b, before, takes, k
  <1>2. ASSUME NEW n \in 1 .. k
        PROVE  /\ n \in 1 .. N /\ b[n] \in live
               /\ part(n) \in 1 .. qty /\ part(n) <= rows[b[n]].qty
    <2>1. n \in 1 .. N /\ before(n) < qty /\ before(n) \in Nat
      BY <1>1
    <2>2. b[n] \in live /\ rows[b[n]].qty \in 1 .. MaxQuantity
      BY <1>1, <2>1
    <2> DEFINE u == rows[b[n]].qty
               v == qty - before(n)
    <2>3. u \in Int /\ v \in Int /\ u >= 1 /\ v >= 1 /\ v <= qty
      BY <2>1, <2>2, AssetAssumption
    <2>4. Min({u, v}) \in {u, v} /\ Min({u, v}) <= u /\ Min({u, v}) <= v
      <3> HIDE DEF u, v
      <3> QED
        BY <2>3, MinOfTwo
    <2>5. Min({u, v}) \in 1 .. qty /\ Min({u, v}) <= u
      <3> HIDE DEF u, v
      <3> QED
        BY <2>3, <2>4, AssetAssumption
    <2> QED
      BY <2>1, <2>2, <2>5
  <1> HIDE DEF part
  <1>3. takes \in Seq([row : live, qty : 1 .. qty]) /\ DOMAIN takes = 1 .. k /\ Len(takes) = k
    <2>1. \A n \in 1 .. k : [row |-> b[n], qty |-> part(n)] \in [row : live, qty : 1 .. qty]
      BY <1>2
    <2> QED
      BY <1>1, <2>1
  <1>4. \A n \in 1 .. k : takes[n].row = b[n] /\ takes[n].qty = part(n)
    BY <1>1
  <1>5. \A n \in 1 .. k : /\ takes[n].row \in live /\ takes[n].qty \in 1 .. qty
                           /\ takes[n].qty <= rows[takes[n].row].qty
    BY <1>2, <1>4
  <1>6. \A m, n \in 1 .. k : takes[m].row = takes[n].row => m = n
    BY <1>1, <1>2, <1>4
  <1>7. Shares(takes, live, qty)
    BY <1>1, <1>3, <1>5, <1>6 DEF Shares
  <1> QED
    BY <1>7 DEF takes, live

\* What the rows hold when the buckets have given.
LEMMA TakenRows ==
    ASSUME Types, NEW takes, NEW k \in Nat, DOMAIN takes = 1 .. k,
           \A n \in 1 .. k : /\ takes[n].row \in RowId /\ takes[n].qty \in Nat
                             /\ rows[takes[n].row] \in Row
                             /\ takes[n].qty <= rows[takes[n].row].qty,
           \A m, n \in 1 .. k : takes[m].row = takes[n].row => m = n
    PROVE  /\ Taken(takes) \in [RowId -> Row \cup {NoRow}]
           /\ \A n \in 1 .. k :
                LET i == takes[n].row IN
                /\ Taken(takes)[i].qty = rows[i].qty - takes[n].qty
                /\ \/ Taken(takes)[i] = NoRow
                   \/ /\ Taken(takes)[i].owner = rows[i].owner
                      /\ Taken(takes)[i].expiry = rows[i].expiry
           /\ \A i \in RowId : (\A n \in 1 .. k : takes[n].row # i) => Taken(takes)[i] = rows[i]
  <1> DEFINE at(i) == CHOOSE n \in DOMAIN takes : takes[n].row = i
             left(i) == IF \E n \in DOMAIN takes : takes[n].row = i
                        THEN Less(i, takes[at(i)].qty) ELSE rows[i]
  <1>1. Taken(takes) = [i \in RowId |-> left(i)]
    BY Zenon DEF Taken
  <1>2. ASSUME NEW n \in 1 .. k
        PROVE  at(takes[n].row) = n
    <2>1. \E m \in DOMAIN takes : takes[m].row = takes[n].row
      OBVIOUS
    <2>2. at(takes[n].row) \in DOMAIN takes /\ takes[at(takes[n].row)].row = takes[n].row
      BY <2>1
    <2> HIDE DEF at
    <2> QED
      BY <2>2
  <1> HIDE DEF at
  <1>3. ASSUME NEW n \in 1 .. k
        PROVE  /\ left(takes[n].row) \in Row \cup {NoRow}
               /\ left(takes[n].row).qty = rows[takes[n].row].qty - takes[n].qty
               /\ \/ left(takes[n].row) = NoRow
                  \/ /\ left(takes[n].row).owner = rows[takes[n].row].owner
                     /\ left(takes[n].row).expiry = rows[takes[n].row].expiry
    <2> DEFINE i == takes[n].row
               v == takes[n].qty
    <2>1. left(i) = Less(i, v)
      BY <1>2
    <2>2. i \in RowId /\ rows[i] \in Row /\ v \in Nat /\ v <= rows[i].qty
      OBVIOUS
    <2>3. rows[i].qty \in 1 .. MaxQuantity
      BY <2>2 DEF Row
    <2> SUFFICES /\ left(i) \in Row \cup {NoRow} /\ left(i).qty = rows[i].qty - v
                 /\ \/ left(i) = NoRow
                    \/ left(i).owner = rows[i].owner /\ left(i).expiry = rows[i].expiry
      OBVIOUS
    <2> HIDE DEF i, v, left
    <2>4. CASE rows[i].qty = v
      BY <2>1, <2>3, <2>4, AssetAssumption DEF Less, NoRow
    <2>5. CASE rows[i].qty # v
      <3> DEFINE w == rows[i].qty - v
      <3>1. w \in 1 .. MaxQuantity
        BY <2>2, <2>3, <2>5, AssetAssumption
      <3>2. left(i) = [rows[i] EXCEPT !.qty = w]
        BY <2>1, <2>5, Zenon DEF Less
      <3> HIDE DEF w
      <3>3. /\ left(i) \in Row /\ left(i).qty = w
            /\ left(i).owner = rows[i].owner /\ left(i).expiry = rows[i].expiry
        BY <2>2, <3>1, <3>2 DEF Row
      <3> QED
        BY <3>3 DEF w
    <2> QED
      BY <2>4, <2>5
  <1>4. ASSUME NEW i \in RowId, \A n \in 1 .. k : takes[n].row # i
        PROVE  left(i) = rows[i]
    BY <1>4
  <1> HIDE DEF left
  <1>5. ASSUME NEW i \in RowId PROVE left(i) \in Row \cup {NoRow}
    <2>1. CASE \E n \in 1 .. k : takes[n].row = i
      BY <1>3, <2>1
    <2>2. CASE \A n \in 1 .. k : takes[n].row # i
      BY <1>4, <2>2 DEF Types
    <2> QED
      BY <2>1, <2>2
  <1>6. \A n \in 1 .. k : takes[n].row \in RowId
    OBVIOUS
  <1> QED
    BY <1>1, <1>3, <1>4, <1>5, <1>6

\* The entries of what is taken.
LEMMA TakeEntriesTyped ==
    ASSUME Types, NEW key \in Keys, NEW kind \in {"consume", "out"},
           NEW takes, NEW k \in Nat, DOMAIN takes = 1 .. k,
           \A n \in 1 .. k : takes[n].row \in RowId /\ takes[n].qty \in 1 .. MaxQuantity
    PROVE  LET es == TakeEntries(key, kind, takes) IN
           /\ es \in Seq(LedgerEntry) /\ DOMAIN es = 1 .. k /\ Len(es) = k
           /\ \A n \in 1 .. k :
                /\ es[n].row = takes[n].row /\ es[n].kind = kind
                /\ es[n].delta = -takes[n].qty
                /\ es[n].after = rows[takes[n].row].qty - takes[n].qty
                /\ es[n].after = rows[takes[n].row].qty + (-takes[n].qty)
  <1> DEFINE entry(n) == Entry(DerivedKey(key, kind, n), takes[n].row, kind, -takes[n].qty,
                               rows[takes[n].row].qty - takes[n].qty)
             es == TakeEntries(key, kind, takes)
  <1>1. es = [n \in 1 .. k |-> entry(n)]
    BY DEF TakeEntries
  <1>2. ASSUME NEW n \in 1 .. k PROVE entry(n) \in LedgerEntry
    <2>1. /\ takes[n].row \in RowId /\ -takes[n].qty \in -MaxQuantity .. MaxQuantity
          /\ rows[takes[n].row].qty - takes[n].qty \in Int
      BY Quantities, AssetAssumption
    <2>2. \E w \in {"main", "earlier", "consume", "out", "in", "expire"}, m \in Nat :
            DerivedKey(key, kind, n) = <<key, w, m>>
      BY DEF DerivedKey, MainKey
    <2> QED
      BY <2>1, <2>2, EntryTyped DEF EntryKind
  <1>3. ASSUME NEW n \in 1 .. k
        PROVE  /\ entry(n).row = takes[n].row /\ entry(n).kind = kind
               /\ entry(n).delta = -takes[n].qty
               /\ entry(n).after = rows[takes[n].row].qty - takes[n].qty
               /\ entry(n).after = rows[takes[n].row].qty + (-takes[n].qty)
    <2>1. takes[n].qty \in Int /\ rows[takes[n].row].qty \in Int
      BY Quantities, AssetAssumption
    <2> QED
      BY <2>1 DEF Entry
  <1> HIDE DEF entry
  <1> QED
    BY <1>1, <1>2, <1>3

\* A consumption is an entry for each bucket it takes from.
LEMMA ConsumePosts ==
    ASSUME Types, LocksHeld, NEW t \in Txs, Consume(t)
    PROVE  \E es : Posting(es, LockedBy(t) \cup FreshIds)
  <1> DEFINE x == txs[t]
             c == x.cmd
             takes == Takes(t, c.owner, c.qty)
             es == TakeEntries(x.key, "consume", takes)
             k == Len(takes)
             own == LockedBy(t) \cup FreshIds
  <1>1. /\ x.pc = "locked" /\ book' = book \o es /\ rows' = Taken(takes)
    BY DEF Consume, Commit
  <1>2. x.key \in Keys /\ c.qty \in 1 .. MaxQuantity
    BY <1>1, Opened DEF OpenTx, Command
  <1>3. Shares(takes, LiveRows(t, c.owner), c.qty)
    <2>1. txs[t].pc # "idle" /\ c.qty \in 1 .. MaxQuantity
      BY <1>1, <1>2
    <2> HIDE DEF c
    <2> QED
      BY <2>1, TakesFromLive
  <1> HIDE DEF takes
  <1>4. /\ k \in Nat /\ DOMAIN takes = 1 .. k
        /\ \A n \in 1 .. k : /\ takes[n].row \in RowId /\ takes[n].row \in own
                              /\ takes[n].qty \in 1 .. MaxQuantity /\ takes[n].qty \in Nat
                              /\ rows[takes[n].row] \in Row
                              /\ takes[n].qty <= rows[takes[n].row].qty
        /\ \A m, n \in 1 .. k : takes[m].row = takes[n].row => m = n
    <2>1. \A i \in LiveRows(t, c.owner) : i \in RowId /\ i \in own /\ rows[i] \in Row
      <3> HIDE DEF c
      <3> QED
        BY <1>1, Live, Stored
    <2> HIDE DEF c, own
    <2> QED
      BY <1>2, <1>3, <2>1, AssetAssumption DEF Shares
  <1> HIDE DEF k
  <1>5. /\ rows' \in [RowId -> Row \cup {NoRow}]
        /\ \A n \in 1 .. k : rows'[takes[n].row].qty = rows[takes[n].row].qty - takes[n].qty
        /\ \A i \in RowId : (\A n \in 1 .. k : takes[n].row # i) => rows'[i] = rows[i]
    BY <1>1, <1>4, TakenRows
  <1>6. /\ es \in Seq(LedgerEntry) /\ DOMAIN es = 1 .. k
        /\ \A n \in 1 .. k :
             /\ es[n].row = takes[n].row /\ es[n].kind = "consume"
             /\ es[n].delta = -takes[n].qty
             /\ es[n].after = rows[takes[n].row].qty - takes[n].qty
             /\ es[n].after = rows[takes[n].row].qty + (-takes[n].qty)
    <2> HIDE DEF x
    <2> QED
      BY <1>2, <1>4, TakeEntriesTyped
  <1> HIDE DEF es, own
  <1>7. Balanced(es)
    BY <1>6, MakingIsBalanced DEF Making
  <1>8. ASSUME NEW n \in DOMAIN es
        PROVE  /\ es[n].row \in own
               /\ es[n].after = rows[es[n].row].qty + es[n].delta
               /\ rows'[es[n].row].qty = es[n].after
    BY <1>4, <1>5, <1>6
  <1>9. \A m, n \in DOMAIN es : es[m].row = es[n].row => m = n
    BY <1>4, <1>6
  <1>10. \A i \in RowId : (\A n \in DOMAIN es : es[n].row # i) => rows'[i] = rows[i]
    BY <1>5, <1>6
  <1>11. book' = book \o es
    BY <1>1 DEF es
  <1>12. Posting(es, own)
    BY <1>5, <1>6, <1>7, <1>8, <1>9, <1>10, <1>11 DEF Posting
  <1> QED
    BY <1>12 DEF own

-----------------------------------------------------------------------------
(* Transfer *)

\* What leaves one row and arrives in another adds up to nothing.
LEMMA OppositesCancel ==
    ASSUME NEW D, NEW k \in Nat,
           \A n \in 1 .. k : D[n] \in Int /\ D[k + n] \in Int /\ D[n] + D[k + n] = 0
    PROVE  SumFunctionOnSet(D, 1 .. k + k) = 0
  <1> DEFINE I == 1 .. k
             at == [n \in I |-> k + n]
             J == {at[n] : n \in I}
             u == [n \in I |-> D[k + n]]
             z == [n \in I |-> 0]
  <1>1. IsFiniteSet(I) /\ IsFiniteSet(1 .. k + k)
    BY FS_Interval
  <1>2. J \in SUBSET (1 .. k + k) /\ I \cap J = {} /\ I \cup J = 1 .. k + k
    <2>1. J \in SUBSET (1 .. k + k) /\ I \cap J = {}
      OBVIOUS
    <2>2. ASSUME NEW p \in 1 .. k + k, p \notin I PROVE p \in J
      <3>1. p - k \in I /\ p = k + (p - k)
        BY <2>2
      <3>2. p = at[p - k]
        BY <3>1
      <3> QED
        BY <3>1, <3>2
    <2> QED
      BY <2>1, <2>2
  <1>3. IsFiniteSet(J)
    BY <1>1, <1>2, FS_Subset
  <1>4. /\ \A n \in I : u[n] \in Int /\ u[n] = D[at[n]] /\ D[n] \in Int /\ z[n] = D[n] + u[n]
        /\ \A m, n \in I : at[m] = at[n] => m = n
    OBVIOUS
  <1>5. \A p \in I \cup J : D[p] \in Int
    OBVIOUS
  <1>6. \A n \in I : z[n] = 0
    OBVIOUS
  <1> HIDE DEF I, at, u, z
  <1>7. SumFunctionOnSet(u, I) = SumFunctionOnSet(D, J)
    <2>1. \A n \in I : u[n] \in Int /\ u[n] = D[at[n]]
      BY <1>4
    <2>2. \A m, n \in I : at[m] = at[n] => m = n
      BY <1>4
    <2> QED
      BY <1>1, <2>1, <2>2, SumRenamed
  <1> HIDE DEF J
  <1>8. SumFunctionOnSet(z, I) = SumFunctionOnSet(D, I) + SumFunctionOnSet(u, I)
    <2>1. \A n \in I : D[n] \in Int /\ u[n] \in Int /\ z[n] = D[n] + u[n]
      BY <1>4
    <2> QED
      BY <1>1, <2>1, SumPointwise
  <1>9. SumFunctionOnSet(z, I) = 0
    <2>1. {} \in SUBSET I /\ (\A n \in {} : z[n] \in Int) /\ (\A n \in I \ {} : z[n] = 0)
      BY <1>6
    <2>2. SumFunctionOnSet(z, I) = SumFunctionOnSet(z, {})
      BY <1>1, <2>1, SumIgnoresZeros
    <2> QED
      BY <2>2, SumEmpty
  <1>10. SumFunctionOnSet(D, I \cup J) = SumFunctionOnSet(D, I) + SumFunctionOnSet(D, J)
    BY <1>1, <1>2, <1>3, <1>5, SumUnion
  <1>11. SumFunctionOnSet(D, I \cup J) = SumFunctionOnSet(D, 1 .. k + k)
    BY <1>2, Zenon
  <1> QED
    BY <1>7, <1>8, <1>9, <1>10, <1>11

\* What arrives goes to rows of the other owner, one for each bucket.
LEMMA MovesApart ==
    ASSUME Types, NoClash, OnRecord, LocksHeld, NEW t \in Txs, txs[t].pc # "idle",
           NEW c \in Command, c.owner # c.to, MayReceive(t, c.to, c.qty),
           NEW takes, Shares(takes, LiveRows(t, c.owner), c.qty),
           Cardinality(FreshIds) >= Len(takes)
    PROVE  LET moves == Moves(t, c, takes)
               k == Len(takes)
           IN  /\ DOMAIN moves = 1 .. k
               /\ \A n \in 1 .. k :
                    /\ moves[n].row \in RowId /\ moves[n].row \in LockedBy(t) \cup FreshIds
                    /\ moves[n].expiry \in Instant /\ moves[n].qty = takes[n].qty
                    /\ moves[n].qty \in 1 .. MaxQuantity
                    /\ rows[moves[n].row].qty + moves[n].qty \in 1 .. MaxQuantity
                    /\ \/ rows[moves[n].row] = NoRow
                       \/ /\ moves[n].row \in LiveRows(t, c.to)
                          /\ rows[moves[n].row].expiry = moves[n].expiry
                    /\ moves[n].expiry = rows[takes[n].row].expiry
                    /\ \A m \in 1 .. k : moves[n].row # takes[m].row
               /\ \A m, n \in 1 .. k : moves[m].row = moves[n].row => m = n
  <1> DEFINE moves == Moves(t, c, takes)
             k == Len(takes)
             due(n) == rows[takes[n].row].expiry
             target(n) == Target(t, c.to, due(n), NewId(n))
  <1>0. c.owner \in Owners /\ c.to \in Owners /\ c.qty \in 1 .. MaxQuantity
    BY DEF Command
  <1>1. /\ k \in Nat /\ DOMAIN takes = 1 .. k
        /\ \A n \in 1 .. k : /\ takes[n].row \in LiveRows(t, c.owner)
                             /\ takes[n].qty \in 1 .. c.qty
        /\ \A m, n \in 1 .. k : takes[m].row = takes[n].row => m = n
    BY DEF Shares
  <1> HIDE DEF k
  <1>2. /\ DOMAIN moves = 1 .. k
        /\ \A n \in 1 .. k : /\ moves[n].row = target(n) /\ moves[n].expiry = due(n)
                             /\ moves[n].qty = takes[n].qty
    <2>1. moves = [n \in 1 .. k |-> [row |-> target(n), expiry |-> due(n), qty |-> takes[n].qty]]
      BY <1>1 DEF Moves
    <2> HIDE DEF moves, target, due
    <2> QED
      BY <2>1
  <1>3. ASSUME NEW n \in 1 .. k
        PROVE  /\ takes[n].row \in Held /\ rows[takes[n].row].owner = c.owner
               /\ due(n) \in Instant
    BY <1>1, Live, Stored
  <1>4. ASSUME NEW n \in 1 .. k
        PROVE  NewId(n) \in FreshIds /\ n \in 1 .. Cardinality(FreshIds)
    <2>1. n \in 1 .. Cardinality(FreshIds)
      BY <1>1, Fresh DEF k
    <2> QED
      BY <2>1, Fresh
  <1>5. ASSUME NEW n \in 1 .. k
        PROVE  \/ target(n) = NewId(n)
               \/ /\ target(n) \in LiveRows(t, c.to) /\ class # "instance"
                  /\ rows[target(n)].expiry = due(n)
    BY TargetRow
  <1>6. \A i \in LiveRows(t, c.to) :
          i \in RowId /\ i \in Held /\ i \in LockedBy(t) /\ rows[i].owner = c.to
    BY Live
  <1>7. \A i \in FreshIds : i \in RowId /\ i \notin Held /\ rows[i] = NoRow /\ rows[i].qty = 0
    BY Fresh
  <1> HIDE DEF target
  <1>8. ASSUME NEW n \in 1 .. k
        PROVE  rows[target(n)].qty + takes[n].qty \in 1 .. MaxQuantity
    <2>1. Total(LiveRows(t, c.to)) + c.qty <= MaxQuantity
      BY DEF MayReceive
    <2>2. LiveRows(t, c.to) \in SUBSET RowId
      BY <1>6
    <2>3. Total(LiveRows(t, c.to)) \in Nat
      BY <2>2, LiveTotal
    <2>4. rows[target(n)].qty \in Nat /\ rows[target(n)].qty <= Total(LiveRows(t, c.to))
      <3>1. CASE target(n) = NewId(n)
        BY <1>4, <1>7, <2>3, <3>1
      <3>2. CASE target(n) \in LiveRows(t, c.to)
        <4>1. rows[target(n)].qty \in Nat
          BY <1>6, <3>2, Quantities, AssetAssumption
        <4> QED
          BY <2>2, <3>2, <4>1, LiveTotal
      <3> QED
        BY <1>5, <3>1, <3>2
    <2>5. takes[n].qty \in 1 .. c.qty
      BY <1>1
    <2> QED
      BY <1>0, <2>1, <2>3, <2>4, <2>5, AssetAssumption
  <1>9. ASSUME NEW m \in 1 .. k, NEW n \in 1 .. k
        PROVE  target(n) # takes[m].row
    <2>1. CASE target(n) = NewId(n)
      BY <1>3, <1>4, <1>7, <2>1
    <2>2. CASE target(n) \in LiveRows(t, c.to)
      BY <1>3, <1>6, <2>2
    <2> QED
      BY <1>5, <2>1, <2>2
  <1>10. ASSUME NEW m \in 1 .. k, NEW n \in 1 .. k, target(m) = target(n)
         PROVE  m = n
    <2>1. CASE target(m) = NewId(m) /\ target(n) = NewId(n)
      BY <1>4, <1>10, <2>1, Fresh
    <2>2. CASE target(m) = NewId(m) /\ target(n) \in LiveRows(t, c.to)
      BY <1>4, <1>6, <1>7, <1>10, <2>2
    <2>3. CASE target(n) = NewId(n) /\ target(m) \in LiveRows(t, c.to)
      BY <1>4, <1>6, <1>7, <1>10, <2>3
    <2>4. CASE /\ target(m) \in LiveRows(t, c.to) /\ target(n) \in LiveRows(t, c.to)
               /\ class # "instance"
               /\ rows[target(m)].expiry = due(m) /\ rows[target(n)].expiry = due(n)
      <3>1. due(m) = due(n)
        BY <1>10, <2>4
      <3>2. <<rows[takes[m].row].owner, rows[takes[m].row].expiry>>
              = <<rows[takes[n].row].owner, rows[takes[n].row].expiry>>
        BY <1>3, <3>1
      <3>3. takes[m].row = takes[n].row
        BY <1>3, <2>4, <3>2 DEF NoClash
      <3> QED
        BY <1>1, <3>3
    <2> QED
      BY <1>5, <2>1, <2>2, <2>3, <2>4
  <1>11. ASSUME NEW n \in 1 .. k
         PROVE  target(n) \in RowId /\ target(n) \in LockedBy(t) \cup FreshIds
    BY <1>4, <1>5, <1>6, <1>7
  <1>12. \A n \in 1 .. k : takes[n].qty \in 1 .. MaxQuantity
    BY <1>0, <1>1, AssetAssumption
  <1>13. ASSUME NEW n \in 1 .. k
         PROVE  \/ rows[target(n)] = NoRow
                \/ target(n) \in LiveRows(t, c.to) /\ rows[target(n)].expiry = due(n)
    BY <1>4, <1>5, <1>7
  <1>14. \A n \in 1 .. k : due(n) = rows[takes[n].row].expiry
    OBVIOUS
  <1> HIDE DEF moves, due
  <1> QED
    BY <1>2, <1>3, <1>8, <1>9, <1>10, <1>11, <1>12, <1>13, <1>14 DEF moves, k

\* Two lists of entries in a row are one.
LEMMA Joined ==
    ASSUME NEW S, NEW a \in Seq(S), NEW b \in Seq(S)
    PROVE  /\ a \o b \in Seq(S)
           /\ Len(a \o b) = Len(a) + Len(b) /\ DOMAIN (a \o b) = 1 .. Len(a) + Len(b)
           /\ \A n \in 1 .. Len(a) + Len(b) :
                (a \o b)[n] = IF n <= Len(a) THEN a[n] ELSE b[n - Len(a)]
OBVIOUS

\* A transfer is an entry for each bucket it takes from and one for each that arrives,
\* in rows of different owners, which cancel out.
LEMMA TransferPosts ==
    ASSUME Types, NoClash, OnRecord, LocksHeld, LegalCommands, NEW t \in Txs, Transfer(t)
    PROVE  \E es : Posting(es, LockedBy(t) \cup FreshIds)
  <1> DEFINE x == txs[t]
             c == x.cmd
             takes == Takes(t, c.owner, c.qty)
             k == Len(takes)
             moves == Moves(t, c, takes)
             after(n) == rows[moves[n].row].qty + moves[n].qty
             out == TakeEntries(x.key, "out", takes)
             arrival(n) == Entry(<<x.key, "in", k + n - 1>>, moves[n].row, "in",
                                 moves[n].qty, after(n))
             in == [n \in DOMAIN moves |-> arrival(n)]
             es == out \o in
             at(i) == CHOOSE n \in DOMAIN moves : moves[n].row = i
             arrived(n) == [owner |-> c.to, expiry |-> moves[n].expiry, qty |-> after(n)]
             taken == Taken(takes)
             own == LockedBy(t) \cup FreshIds
  <1>1. /\ x.pc = "locked" /\ c.verb = "transfer" /\ MayReceive(t, c.to, c.qty)
        /\ Cardinality(FreshIds) >= k
        /\ book' = book \o es
        /\ rows' = [i \in RowId |-> IF \E n \in DOMAIN moves : moves[n].row = i
                                    THEN arrived(at(i)) ELSE taken[i]]
    BY Zenon DEF Transfer, Commit
  <1>2. /\ x.key \in Keys /\ c \in Command /\ c.owner # c.to /\ c.to \in Owners
        /\ c.qty \in 1 .. MaxQuantity
    <2>1. x \in OpenTx /\ c \in Command /\ x # Idle
      BY <1>1, Opened
    <2>2. Valid(c)
      BY <2>1 DEF LegalCommands
    <2> HIDE DEF c, x
    <2>3. c.owner # c.to
      BY <1>1, <2>2 DEF Valid
    <2> QED
      BY <2>1, <2>3 DEF OpenTx, Command
  <1>3. Shares(takes, LiveRows(t, c.owner), c.qty)
    <2>1. txs[t].pc # "idle" /\ c.qty \in 1 .. MaxQuantity
      BY <1>1, <1>2
    <2> HIDE DEF c
    <2> QED
      BY <2>1, TakesFromLive
  <1> HIDE DEF takes
  <1>4. /\ k \in Nat /\ DOMAIN takes = 1 .. k
        /\ \A n \in 1 .. k : /\ takes[n].row \in RowId /\ takes[n].row \in own
                              /\ takes[n].qty \in 1 .. MaxQuantity /\ takes[n].qty \in Nat
                              /\ rows[takes[n].row] \in Row
                              /\ takes[n].qty <= rows[takes[n].row].qty
        /\ \A m, n \in 1 .. k : takes[m].row = takes[n].row => m = n
    <2>1. \A i \in LiveRows(t, c.owner) : i \in RowId /\ i \in own /\ rows[i] \in Row
      <3> HIDE DEF c
      <3> QED
        BY <1>1, Live, Stored
    <2>2. /\ k \in Nat /\ DOMAIN takes = 1 .. k
          /\ \A n \in 1 .. k : /\ takes[n].row \in LiveRows(t, c.owner)
                                /\ takes[n].qty \in 1 .. c.qty
                                /\ takes[n].qty <= rows[takes[n].row].qty
          /\ \A m, n \in 1 .. k : takes[m].row = takes[n].row => m = n
      <3> HIDE DEF c
      <3> QED
        BY <1>3 DEF Shares
    <2>3. \A v \in 1 .. c.qty : v \in 1 .. MaxQuantity /\ v \in Nat
      <3> HIDE DEF c
      <3> QED
        BY <1>2, AssetAssumption
    <2> HIDE DEF c, own, k
    <2> QED
      BY <2>1, <2>2, <2>3
  <1>5. /\ DOMAIN moves = 1 .. k
        /\ \A n \in 1 .. k :
             /\ moves[n].row \in RowId /\ moves[n].row \in own
             /\ moves[n].expiry \in Instant /\ moves[n].qty = takes[n].qty
             /\ moves[n].qty \in 1 .. MaxQuantity
             /\ after(n) \in 1 .. MaxQuantity
             /\ \A m \in 1 .. k : moves[n].row # takes[m].row
        /\ \A m, n \in 1 .. k : moves[m].row = moves[n].row => m = n
    <2>1. txs[t].pc # "idle"
      BY <1>1
    <2> HIDE DEF c, x
    <2> QED
      BY <1>1, <1>2, <1>3, <2>1, MovesApart
  <1>6. /\ taken \in [RowId -> Row \cup {NoRow}]
        /\ \A n \in 1 .. k : taken[takes[n].row].qty = rows[takes[n].row].qty - takes[n].qty
        /\ \A i \in RowId : (\A n \in 1 .. k : takes[n].row # i) => taken[i] = rows[i]
    <2> HIDE DEF own, k
    <2> QED
      BY <1>4, TakenRows
  <1>7. /\ out \in Seq(LedgerEntry) /\ DOMAIN out = 1 .. k /\ Len(out) = k
        /\ \A n \in 1 .. k :
             /\ out[n].row = takes[n].row /\ out[n].kind = "out"
             /\ out[n].delta = -takes[n].qty
             /\ out[n].after = rows[takes[n].row].qty - takes[n].qty
             /\ out[n].after = rows[takes[n].row].qty + (-takes[n].qty)
    <2> HIDE DEF x, own, k
    <2> QED
      BY <1>2, <1>4, TakeEntriesTyped
  <1> HIDE DEF moves, out, k, taken, own
  <1>8. ASSUME NEW n \in 1 .. k
        PROVE  /\ arrival(n) \in LedgerEntry
               /\ arrival(n).row = moves[n].row /\ arrival(n).kind = "in"
               /\ arrival(n).delta = takes[n].qty
               /\ arrival(n).after = after(n)
               /\ arrival(n).after = rows[moves[n].row].qty + arrival(n).delta
    <2> HIDE DEF x
    <2>1. /\ k + n - 1 \in Nat /\ moves[n].qty \in -MaxQuantity .. MaxQuantity
          /\ after(n) \in Int
      BY <1>4, <1>5, AssetAssumption
    <2> HIDE DEF after
    <2>2. arrival(n) \in LedgerEntry
      BY <1>2, <1>5, <2>1, EntryTyped DEF EntryKind
    <2> QED
      BY <1>5, <2>2 DEF Entry, after
  <1> HIDE DEF arrival
  <1>9. /\ in \in Seq(LedgerEntry) /\ DOMAIN in = 1 .. k /\ Len(in) = k
        /\ \A n \in 1 .. k : in[n] = arrival(n)
    BY <1>4, <1>5, <1>8
  <1> HIDE DEF in
  <1>10. /\ es \in Seq(LedgerEntry) /\ DOMAIN es = 1 .. k + k
         /\ \A n \in 1 .. k : es[n] = out[n] /\ k + n \in 1 .. k + k /\ es[k + n] = arrival(n)
         /\ \A p \in 1 .. k + k : p \in 1 .. k \/ (p - k \in 1 .. k /\ p = k + (p - k))
    <2>0. out \in Seq(LedgerEntry) /\ in \in Seq(LedgerEntry) /\ Len(out) = k /\ Len(in) = k
      BY <1>7, <1>9, Zenon
    <2>1. /\ es \in Seq(LedgerEntry) /\ DOMAIN es = 1 .. k + k
          /\ \A n \in 1 .. k + k : es[n] = IF n <= k THEN out[n] ELSE in[n - k]
      <3>1. /\ es \in Seq(LedgerEntry) /\ DOMAIN es = 1 .. Len(out) + Len(in)
            /\ \A n \in 1 .. Len(out) + Len(in) :
                 es[n] = IF n <= Len(out) THEN out[n] ELSE in[n - Len(out)]
        BY <2>0, Joined, Zenon
      <3> HIDE DEF es
      <3> QED
        BY <2>0, <3>1, Zenon
    <2>2. ASSUME NEW n \in 1 .. k
          PROVE  es[n] = out[n] /\ k + n \in 1 .. k + k /\ es[k + n] = arrival(n)
      <3> HIDE DEF es
      <3>1. n \in 1 .. k + k /\ n <= k
        BY <1>4
      <3>2. k + n \in 1 .. k + k /\ ~(k + n <= k) /\ (k + n) - k = n
        BY <1>4
      <3>3. es[n] = out[n]
        BY <2>1, <3>1
      <3>4. es[k + n] = in[n]
        BY <2>1, <3>2
      <3> QED
        BY <1>9, <3>2, <3>3, <3>4
    <2>3. \A p \in 1 .. k + k : p \in 1 .. k \/ (p - k \in 1 .. k /\ p = k + (p - k))
      BY <1>4
    <2> QED
      BY <2>1, <2>2, <2>3
  <1> HIDE DEF es
  <1>0. ASSUME NEW n \in 1 .. k
        PROVE  /\ es[n].row = takes[n].row /\ es[n].kind = "out" /\ es[n].delta = -takes[n].qty
               /\ es[k + n].row = moves[n].row /\ es[k + n].kind = "in"
               /\ es[k + n].delta = takes[n].qty
    <2>1. es[n] = out[n] /\ es[k + n] = arrival(n)
      BY <1>10
    <2>2. out[n].row = takes[n].row /\ out[n].kind = "out" /\ out[n].delta = -takes[n].qty
      BY <1>7
    <2>3. /\ arrival(n).row = moves[n].row /\ arrival(n).kind = "in"
          /\ arrival(n).delta = takes[n].qty
      BY <1>8
    <2> QED
      BY <2>1, <2>2, <2>3
  <1>11. Balanced(es)
    <2> DEFINE D == Deltas(es)
    <2>1. \A n \in 1 .. k : D[n] = -takes[n].qty /\ D[k + n] = takes[n].qty
      <3>1. \A p \in 1 .. k + k : D[p] = es[p].delta
        BY <1>10 DEF Deltas
      <3>2. \A n \in 1 .. k : n \in 1 .. k + k
        BY <1>4
      <3> HIDE DEF D
      <3> QED
        BY <1>10, <1>0, <3>1, <3>2
    <2> HIDE DEF D
    <2>2. \A n \in 1 .. k : D[n] \in Int /\ D[k + n] \in Int /\ D[n] + D[k + n] = 0
      BY <1>4, <2>1
    <2>3. SumFunctionOnSet(D, 1 .. k + k) = 0
      BY <1>4, <2>2, OppositesCancel
    <2>4. \A p \in 1 .. k + k : es[p].kind \notin Making
      <3> SUFFICES ASSUME NEW p \in 1 .. k + k PROVE es[p].kind \in {"out", "in"}
        BY DEF Making
      <3>1. CASE p \in 1 .. k
        BY <1>0, <3>1
      <3>2. CASE p - k \in 1 .. k /\ p = k + (p - k)
        <4> DEFINE n == p - k
        <4>1. n \in 1 .. k /\ p = k + n
          BY <3>2
        <4> HIDE DEF n
        <4> QED
          BY <1>0, <4>1
      <3> QED
        BY <1>10, <3>1, <3>2
    <2> QED
      BY <1>10, <2>3, <2>4, MovingIsBalanced DEF D
  <1>12. ASSUME NEW n \in 1 .. k
         PROVE  at(moves[n].row) = n
    <2>1. \E m \in DOMAIN moves : moves[m].row = moves[n].row
      BY <1>5
    <2>2. at(moves[n].row) \in DOMAIN moves /\ moves[at(moves[n].row)].row = moves[n].row
      BY <2>1
    <2> HIDE DEF at
    <2> QED
      BY <1>5, <2>2
  <1> HIDE DEF at
  <1>13. ASSUME NEW n \in 1 .. k
         PROVE  /\ rows'[moves[n].row] = arrived(n) /\ arrived(n) \in Row
                /\ rows'[moves[n].row].qty = after(n)
    <2>1. \E m \in DOMAIN moves : moves[m].row = moves[n].row
      BY <1>5
    <2>2. rows'[moves[n].row] = arrived(at(moves[n].row))
      <3> HIDE DEF arrived
      <3> QED
        BY <1>1, <1>5, <2>1
    <2>3. rows'[moves[n].row] = arrived(n)
      <3> HIDE DEF arrived
      <3> QED
        BY <1>12, <2>2
    <2>4. arrived(n) \in Row
      <3> HIDE DEF after, c
      <3> QED
        BY <1>2, <1>5 DEF Row
    <2>5. arrived(n).qty = after(n)
      <3> HIDE DEF after, c
      <3> QED
        OBVIOUS
    <2> HIDE DEF arrived, after
    <2> QED
      BY <2>3, <2>4, <2>5
  <1> HIDE DEF arrived, after
  <1>14. ASSUME NEW i \in RowId, \A n \in 1 .. k : moves[n].row # i
         PROVE  rows'[i] = taken[i]
    BY <1>1, <1>5, <1>14
  <1>15. rows' \in [RowId -> Row \cup {NoRow}]
    <2>1. ASSUME NEW i \in RowId PROVE rows'[i] \in Row \cup {NoRow}
      <3>1. CASE \E n \in 1 .. k : moves[n].row = i
        BY <1>13, <3>1
      <3>2. CASE \A n \in 1 .. k : moves[n].row # i
        BY <1>6, <1>14, <3>2
      <3> QED
        BY <3>1, <3>2
    <2>2. rows' = [i \in RowId |-> rows'[i]]
      BY <1>1
    <2> QED
      BY <2>1, <2>2
  <1>16. ASSUME NEW p \in DOMAIN es
         PROVE  /\ es[p].row \in own
                /\ es[p].after = rows[es[p].row].qty + es[p].delta
                /\ rows'[es[p].row].qty = es[p].after
    <2>1. CASE p \in 1 .. k
      <3>1. rows'[takes[p].row] = taken[takes[p].row]
        BY <1>4, <1>5, <1>14, <2>1
      <3> QED
        BY <1>4, <1>6, <1>7, <1>10, <2>1, <3>1
    <2>2. CASE p - k \in 1 .. k /\ p = k + (p - k)
      <3>1. es[p] = arrival(p - k)
        BY <1>10, <2>2
      <3> QED
        BY <1>5, <1>8, <1>13, <2>2, <3>1
    <2> QED
      BY <1>10, <2>1, <2>2
  <1>17. ASSUME NEW p \in DOMAIN es, NEW q \in DOMAIN es, es[p].row = es[q].row
         PROVE  p = q
    <2>1. ASSUME NEW r \in 1 .. k + k
          PROVE  \/ r \in 1 .. k /\ es[r].row = takes[r].row
                 \/ r - k \in 1 .. k /\ r = k + (r - k) /\ es[r].row = moves[r - k].row
      <3>1. CASE r \in 1 .. k
        BY <1>0, <3>1
      <3>2. CASE r - k \in 1 .. k /\ r = k + (r - k)
        <4> DEFINE n == r - k
        <4>1. n \in 1 .. k /\ r = k + n
          BY <3>2
        <4>2. es[r].row = moves[n].row
          <5> HIDE DEF n
          <5> QED
            BY <1>0, <4>1
        <4> QED
          BY <4>1, <4>2
      <3> QED
        BY <1>10, <3>1, <3>2
    <2>2. CASE p \in 1 .. k /\ es[p].row = takes[p].row
      <3>1. CASE q \in 1 .. k /\ es[q].row = takes[q].row
        BY <1>4, <1>17, <2>2, <3>1
      <3>2. CASE q - k \in 1 .. k /\ es[q].row = moves[q - k].row
        <4> DEFINE n == q - k
        <4>1. n \in 1 .. k /\ es[q].row = moves[n].row
          BY <3>2
        <4>2. moves[n].row = takes[p].row
          BY <1>17, <2>2, <4>1
        <4>3. moves[n].row # takes[p].row
          <5> HIDE DEF n
          <5> QED
            BY <1>5, <2>2, <4>1
        <4> QED
          BY <4>2, <4>3
      <3> QED
        BY <1>10, <2>1, <3>1, <3>2
    <2>3. CASE p - k \in 1 .. k /\ p = k + (p - k) /\ es[p].row = moves[p - k].row
      <3>1. CASE q \in 1 .. k /\ es[q].row = takes[q].row
        BY <1>5, <1>17, <2>3, <3>1
      <3>2. CASE q - k \in 1 .. k /\ q = k + (q - k) /\ es[q].row = moves[q - k].row
        <4>1. p - k = q - k
          BY <1>5, <1>17, <2>3, <3>2
        <4> QED
          BY <2>3, <3>2, <4>1
      <3> QED
        BY <1>10, <2>1, <3>1, <3>2
    <2> QED
      BY <1>10, <2>1, <2>2, <2>3
  <1>18. ASSUME NEW i \in RowId, \A p \in DOMAIN es : es[p].row # i
         PROVE  rows'[i] = rows[i]
    <2>1. \A n \in 1 .. k : moves[n].row # i
      BY <1>8, <1>10, <1>18
    <2>2. \A n \in 1 .. k : takes[n].row # i
      <3>1. \A n \in 1 .. k : n \in 1 .. k + k
        BY <1>4
      <3> QED
        BY <1>7, <1>10, <1>18, <3>1
    <2> QED
      BY <1>6, <1>14, <2>1, <2>2
  <1>19. book' = book \o es
    BY <1>1
  <1>20. Posting(es, own)
    BY <1>10, <1>11, <1>15, <1>16, <1>17, <1>18, <1>19 DEF Posting
  <1> QED
    BY <1>20 DEF own

-----------------------------------------------------------------------------
(* The invariant is inductive *)

\* The earlier grants are on record.
LEMMA InitInv == Init => IInv
  <1> SUFFICES ASSUME Init PROVE IInv
    OBVIOUS
  <1> DEFINE D == DOMAIN EarlierGrants
  <1>1. /\ D \in SUBSET RowId /\ D \in SUBSET Nat /\ FirstOwner \in Owners
        /\ \E n \in Nat : D = 1 .. n
        /\ \A i \in D : EarlierGrants[i] \in Instant
        /\ \A i, j \in D : EarlierGrants[i] = EarlierGrants[j] => i = j
    <2>1. FirstOwner \in Owners
      BY AssetAssumption DEF FirstOwner
    <2>2. 1 \in RowId /\ 2 \in RowId /\ 1 \in Instant /\ Never \in Instant /\ Never # 1
      BY AssetAssumption DEF RowId, Instant, Never
    <2>3. CASE class = "currency"
      <3>1. EarlierGrants = <<Never>>
        BY <2>3 DEF EarlierGrants
      <3>2. D = 1 .. 1
        BY <3>1
      <3> QED
        BY <2>1, <2>2, <3>1, <3>2
    <2>4. CASE class = "entitlement"
      <3>1. EarlierGrants = << >>
        BY <2>4 DEF EarlierGrants
      <3>2. D = 1 .. 0
        BY <3>1
      <3> QED
        BY <2>1, <2>2, <3>1, <3>2
    <2>5. CASE class \notin {"currency", "entitlement"}
      <3>1. EarlierGrants = <<1, Never>>
        BY <2>5 DEF EarlierGrants
      <3>2. D = 1 .. 2
        BY <3>1
      <3> QED
        BY <2>1, <2>2, <3>1, <3>2
    <2> QED
      BY <2>3, <2>4, <2>5
  <1> DEFINE given(i) == [owner |-> FirstOwner, expiry |-> EarlierGrants[i], qty |-> 1]
             noted(i) == Entry(<<i, "earlier", 0>>, i, "grant", 1, 1)
  <1>2. /\ class \in {"currency", "stack", "instance", "entitlement"}
        /\ rows = [i \in RowId |-> IF i \in D THEN given(i) ELSE NoRow]
        /\ book = [i \in D |-> noted(i)]
        /\ txs = [t \in Txs |-> Idle] /\ clock = 0
    BY DEF Init
  <1>3. \A i \in D : given(i) \in Row /\ given(i).qty = 1 /\ given(i) # NoRow
    BY <1>1, AssetAssumption DEF Row, NoRow
  <1>4. ASSUME NEW i \in D
        PROVE  /\ noted(i) \in LedgerEntry
               /\ noted(i).row = i /\ noted(i).delta = 1 /\ noted(i).after = 1
               /\ noted(i).kind \in Making
    <2>1. 1 \in -MaxQuantity .. MaxQuantity
      BY AssetAssumption
    <2> QED
      BY <1>1, <2>1, EntryTyped DEF EntryKind, Entry, Making
  <1> HIDE DEF given, noted, D
  <1>5. Types
    <2>1. rows \in [RowId -> Row \cup {NoRow}]
      BY <1>2, <1>3
    <2>2. book \in Seq(LedgerEntry)
      BY <1>1, <1>2, <1>4
    <2>3. txs \in [Txs -> OpenTx \cup {Idle}] /\ clock \in 0 .. MaxClock
      BY <1>2, AssetAssumption
    <2> QED
      BY <1>2, <2>1, <2>2, <2>3 DEF Types
  <1>6. Held = D
    BY <1>1, <1>2, <1>3 DEF Held
  <1>7. NoClash
    <2>1. \A i \in D : rows[i].expiry = EarlierGrants[i]
      BY <1>1, <1>2 DEF given
    <2> QED
      BY <1>1, <1>6, <2>1 DEF NoClash
  <1>8. DOMAIN book = D /\ \A i \in D : book[i] = noted(i)
    BY <1>2
  <1>9. OnRecord
    BY <1>4, <1>6, <1>8 DEF OnRecord, UsedIds
  <1>10. LocksHeld /\ LocksApart /\ LegalCommands
    BY <1>2 DEF LocksHeld, LocksApart, LegalCommands, LockedBy, Idle
  <1>11. \A i \in D : Deltas(book)[i] = 1 /\ rows[i].qty = 1
    BY <1>1, <1>2, <1>3, <1>4, <1>8 DEF Deltas
  <1>12. ZeroDrift
    <2> SUFFICES ASSUME NEW i \in RowId
                 PROVE  LET chain == {p \in DOMAIN book : book[p].row = i} IN
                        /\ \A p \in chain :
                             book[p].after = SumFunctionOnSet(Deltas(book), {q \in chain : q <= p})
                        /\ rows[i].qty = SumFunctionOnSet(Deltas(book), chain)
      BY DEF ZeroDrift, Sum, Deltas
    <2> DEFINE chain == {p \in DOMAIN book : book[p].row = i}
    <2>1. CASE i \in D
      <3>1. chain = {i}
        BY <1>4, <1>8, <2>1
      <3>2. {q \in chain : q <= i} = {i}
        <4>1. i <= i
          BY <1>1, <2>1
        <4> QED
          BY <3>1, <4>1
      <3>3. SumFunctionOnSet(Deltas(book), {} \cup {i}) = 1
        <4>1. SumFunctionOnSet(Deltas(book), {} \cup {i})
                = SumFunctionOnSet(Deltas(book), {}) + Deltas(book)[i]
          <5>1. \A p \in {} \cup {i} : Deltas(book)[p] \in Int
            BY <1>11, <2>1
          <5> QED
            BY <5>1, FS_EmptySet, SumAdd
        <4> QED
          BY <1>11, <2>1, <4>1, SumEmpty
      <3>4. SumFunctionOnSet(Deltas(book), {i}) = 1
        BY <3>3
      <3>5. rows[i].qty = 1 /\ book[i].after = 1
        BY <1>4, <1>8, <1>11, <2>1
      <3> HIDE DEF chain
      <3> QED
        BY <3>1, <3>2, <3>4, <3>5 DEF chain
    <2>2. CASE i \notin D
      <3>1. chain = {}
        BY <1>4, <1>8, <2>2
      <3>2. rows[i].qty = 0
        BY <1>2, <2>2 DEF NoRow
      <3> HIDE DEF chain
      <3> QED
        BY <3>1, <3>2, SumEmpty DEF chain
    <2> QED
      BY <2>1, <2>2
  <1>13. Conserved
    <2> DEFINE q == [i \in RowId |-> rows[i].qty]
    <2>1. {p \in DOMAIN book : book[p].kind \in Making} = D
      BY <1>4, <1>8
    <2>2. \A i \in D : q[i] \in Int /\ q[i] = Deltas(book)[i]
      BY <1>1, <1>11
    <2>3. IsFiniteSet(D)
      BY <1>1, FS_Interval
    <2> HIDE DEF q
    <2>4. SumFunctionOnSet(q, D) = SumFunctionOnSet(Deltas(book), D)
      BY <2>2, <2>3, SumSame
    <2>5. Total(Held) = SumFunctionOnSet(q, D)
      BY <1>6, Zenon DEF Total, q
    <2>6. Sum({p \in DOMAIN book : book[p].kind \in {"grant", "consume", "expire"}})
            = SumFunctionOnSet(Deltas(book), D)
      BY <2>1, Zenon DEF Sum, Deltas, Making
    <2> QED
      BY <2>4, <2>5, <2>6 DEF Conserved
  <1> QED
    BY <1>5, <1>7, <1>9, <1>10, <1>12, <1>13 DEF IInv

\* The other transactions keep the rows they have locked.
LEMMA PostedTypes ==
    ASSUME Types, NEW es, NEW own, Posting(es, own)
    PROVE  /\ rows' \in [RowId -> Row \cup {NoRow}]
           /\ book' \in Seq(LedgerEntry)
           /\ \A i \in Held \ own : i \in Held' /\ rows'[i] = rows[i]
  <1>1. ASSUME NEW i \in Held \ own PROVE rows'[i] = rows[i]
    BY DEF Posting, Held
  <1> QED
    BY <1>1, PostedBook DEF Posting, Held

\* Every command ends with a posting in rows it has locked or inserts.
LEMMA CommitKeepsInv ==
    ASSUME IInv, NEW t \in Txs, txs[t].pc = "locked", NoClash',
           NEW es, Posting(es, LockedBy(t) \cup FreshIds),
           txs' = [txs EXCEPT ![t] = Idle], UNCHANGED <<class, clock>>
    PROVE  IInv'
  <1> DEFINE own == LockedBy(t) \cup FreshIds
  <1>0. Types /\ OnRecord /\ LocksHeld /\ LocksApart /\ LegalCommands /\ ZeroDrift /\ Conserved
    BY DEF IInv
  <1>1. ZeroDrift' /\ Conserved' /\ OnRecord'
    BY <1>0, PostedKeepsZeroDrift, PostedConserves, PostedKeepsRecord
  <1>2. /\ txs' \in [Txs -> OpenTx \cup {Idle}]
        /\ txs'[t] = Idle /\ \A u \in Txs \ {t} : txs'[u] = txs[u]
    BY <1>0 DEF Types
  <1>3. Types'
    BY <1>0, <1>2, PostedTypes DEF Types
  <1>4. /\ LockedBy(t)' = {}
        /\ \A u \in Txs \ {t} : LockedBy(u)' = LockedBy(u)
    BY <1>2 DEF LockedBy, Idle
  <1>5. ASSUME NEW u \in Txs, NEW i \in LockedBy(u)' PROVE i \in Held'
    <2>1. u # t /\ i \in LockedBy(u)
      BY <1>4
    <2>2. i \in Held /\ i \notin LockedBy(t)
      BY <1>0, <2>1 DEF LocksHeld, LocksApart
    <2>3. i \notin own
      BY <1>0, <2>2 DEF OnRecord, FreshIds
    <2> QED
      BY <1>0, <2>2, <2>3, PostedTypes
  <1>6. LocksHeld' /\ LocksApart'
    BY <1>0, <1>4, <1>5 DEF LocksHeld, LocksApart
  <1>7. LegalCommands'
    BY <1>0, <1>2 DEF LegalCommands, Valid
  <1> QED
    BY <1>1, <1>3, <1>6, <1>7 DEF IInv

\* What the invariant says of the rows and of the ledger, while neither changes.
LEMMA LedgerStands ==
    ASSUME IInv, UNCHANGED <<class, rows, book>>
    PROVE  NoClash' /\ OnRecord' /\ ZeroDrift' /\ Conserved' /\ Held' = Held
  <1>1. class' = class /\ rows' = rows /\ book' = book
    OBVIOUS
  <1>2. Held' = Held /\ UsedIds' = UsedIds
    BY <1>1 DEF Held, UsedIds
  <1>3. NoClash'
    BY <1>1, <1>2 DEF IInv, NoClash
  <1>4. OnRecord'
    BY <1>2 DEF IInv, OnRecord
  <1>5. ZeroDrift'
    BY <1>1, Zenon DEF IInv, ZeroDrift, Sum
  <1>6. Total(Held)' = Total(Held)
    BY <1>1, <1>2, Zenon DEF Total
  <1>7. Conserved'
    BY <1>1, <1>6, Zenon DEF IInv, Conserved, Sum
  <1> QED
    BY <1>2, <1>3, <1>4, <1>5, <1>7

\* All of it, when the transactions stand as well.
LEMMA ClockKeepsInv ==
    ASSUME IInv, UNCHANGED <<class, rows, book, txs>>, clock' \in 0 .. MaxClock
    PROVE  IInv'
  <1>1. NoClash' /\ OnRecord' /\ ZeroDrift' /\ Conserved' /\ Held' = Held
    BY LedgerStands
  <1>2. class' = class /\ rows' = rows /\ book' = book /\ txs' = txs
    OBVIOUS
  <1>3. Types'
    BY <1>2 DEF IInv, Types
  <1>4. \A t \in Txs : LockedBy(t)' = LockedBy(t)
    BY <1>2 DEF LockedBy
  <1>5. LocksHeld' /\ LocksApart'
    BY <1>1, <1>4 DEF IInv, LocksHeld, LocksApart
  <1>6. LegalCommands'
    BY <1>2 DEF IInv, LegalCommands, Valid
  <1> QED
    BY <1>1, <1>3, <1>5, <1>6 DEF IInv

\* The commands that are tried are commands.
LEMMA CommandsTyped == Commands \subseteq Command
  <1>1. /\ FirstOwner \in Owners /\ 1 \in 1 .. MaxQuantity /\ Never \in Instant
        /\ 1 \in RowId /\ Held \in SUBSET RowId
    BY AssetAssumption DEF FirstOwner, Never, Instant, RowId, Held
  <1>2. GrantSizes \subseteq 1 .. MaxQuantity
    BY AssetAssumption
  <1> QED
    BY <1>1, <1>2 DEF Commands, Command

\* Only a valid command begins, and it has locked nothing.
LEMMA BeginKeepsInv ==
    ASSUME IInv, NEW t \in Txs, NEW k \in Keys, NEW c \in Commands, Begin(t, k, c)
    PROVE  IInv'
  <1> DEFINE now == IF c.verb = "transfer" THEN clock ELSE Never
             x == [pc |-> "listing", key |-> k, cmd |-> c, now |-> now,
                   wants |-> FirstList(c), locks |-> {}]
  <1>0. Types /\ LocksHeld /\ LocksApart /\ LegalCommands
    BY DEF IInv
  <1>1. Valid(c) /\ txs' = [txs EXCEPT ![t] = x] /\ UNCHANGED <<class, rows, book, clock>>
    BY DEF Begin
  <1>2. c \in Command
    BY CommandsTyped
  <1>3. x \in OpenTx /\ x # Idle /\ x.cmd = c /\ x.pc # "idle" /\ x.locks = {}
    <2>1. FirstList(c) \in SUBSET RowId
      BY DEF FirstList, OwnedBy, Held
    <2>2. now \in 0 .. Never /\ (c.verb = "transfer" => now \in 0 .. MaxClock)
      BY <1>0, AssetAssumption DEF Types, Never
    <2> HIDE DEF now
    <2> QED
      BY <1>2, <2>1, <2>2 DEF OpenTx, Idle
  <1> HIDE DEF x, now
  <1>4. txs' \in [Txs -> OpenTx \cup {Idle}] /\ txs'[t] = x /\ \A u \in Txs \ {t} : txs'[u] = txs[u]
    BY <1>0, <1>1, <1>3 DEF Types
  <1>5. Types'
    BY <1>0, <1>1, <1>4 DEF Types
  <1>6. LockedBy(t)' = {} /\ \A u \in Txs \ {t} : LockedBy(u)' = LockedBy(u)
    BY <1>3, <1>4 DEF LockedBy
  <1>7. LocksHeld' /\ LocksApart'
    BY <1>0, <1>1, <1>6 DEF LocksHeld, LocksApart, Held
  <1>8. LegalCommands'
    BY <1>0, <1>1, <1>3, <1>4 DEF LegalCommands, Valid
  <1>9. NoClash' /\ OnRecord' /\ ZeroDrift' /\ Conserved'
    BY <1>1, LedgerStands
  <1> QED
    BY <1>5, <1>7, <1>8, <1>9 DEF IInv

\* A list statement locks rows that are there and nobody else has.
LEMMA LockKeepsInv ==
    ASSUME IInv, NEW t \in Txs, Lock(t)
    PROVE  IInv'
  <1> DEFINE x == txs[t]
             got == x.locks \cup (x.wants \cap Held)
             to == OwnedBy(x.cmd.to)
             y == IF x.cmd.verb = "transfer" /\ x.pc = "listing"
                  THEN [x EXCEPT !.pc = "listing to", !.locks = got, !.wants = to]
                  ELSE [x EXCEPT !.pc = "locked", !.locks = got, !.wants = {}]
  <1>0. Types /\ LocksHeld /\ LocksApart /\ LegalCommands
    BY DEF IInv
  <1>1. /\ x.pc \in {"listing", "listing to"} /\ x.wants \cap Held \cap LockedByOthers(t) = {}
        /\ txs' = [txs EXCEPT ![t] = y] /\ UNCHANGED <<class, rows, book, clock>>
    BY Zenon DEF Lock
  <1>2. x \in OpenTx /\ LockedBy(t) = x.locks /\ x # Idle
    BY <1>0, <1>1, Opened
  <1>3. got \in SUBSET RowId /\ got \in SUBSET Held /\ to \in SUBSET RowId
    BY <1>0, <1>2 DEF LocksHeld, Held, OwnedBy
  <1> HIDE DEF got, to, x
  <1>4. y \in OpenTx /\ y.locks = got /\ y.cmd = x.cmd /\ y.pc # "idle" /\ y # Idle
    BY <1>2, <1>3 DEF OpenTx, Idle
  <1> HIDE DEF y
  <1>5. txs' \in [Txs -> OpenTx \cup {Idle}] /\ txs'[t] = y /\ \A u \in Txs \ {t} : txs'[u] = txs[u]
    BY <1>0, <1>1, <1>4 DEF Types
  <1>6. Types'
    BY <1>0, <1>1, <1>5 DEF Types
  <1>7. LockedBy(t)' = got /\ \A u \in Txs \ {t} : LockedBy(u)' = LockedBy(u)
    BY <1>4, <1>5 DEF LockedBy
  <1>8. Held' = Held
    BY <1>1 DEF Held
  <1>9. LocksHeld'
    BY <1>0, <1>3, <1>7, <1>8 DEF LocksHeld
  <1>10. \A u \in Txs \ {t} : got \cap LockedBy(u) = {}
    BY <1>0, <1>1, <1>2 DEF LocksApart, LockedByOthers, got
  <1>11. LocksApart'
    BY <1>0, <1>7, <1>10 DEF LocksApart
  <1>12. LegalCommands'
    <2>1. \A u \in Txs : txs[u] # Idle => Valid(txs[u].cmd)
      BY <1>0 DEF LegalCommands
    <2>2. Valid(x.cmd)
      BY <1>2, <2>1 DEF x
    <2>3. class' = class
      BY <1>1
    <2>4. ASSUME NEW u \in Txs, txs'[u] # Idle PROVE Valid(txs[u].cmd)'
      <3>1. txs'[u].cmd = (IF u = t THEN x.cmd ELSE txs[u].cmd)
        BY <1>4, <1>5
      <3>2. Valid(txs'[u].cmd)
        <4>1. CASE u = t
          BY <2>2, <3>1, <4>1
        <4>2. CASE u # t
          BY <1>5, <2>1, <2>4, <3>1, <4>2
        <4> QED
          BY <4>1, <4>2
      <3> QED
        BY <2>3, <3>2 DEF Valid
    <2> QED
      BY <2>4 DEF LegalCommands
  <1>13. NoClash' /\ OnRecord' /\ ZeroDrift' /\ Conserved'
    BY <1>1, LedgerStands
  <1> QED
    BY <1>6, <1>9, <1>11, <1>12, <1>13 DEF IInv

\* A transaction that fails leaves the rows and the ledger as they were.
LEMMA RollbackKeepsInv ==
    ASSUME IInv, NEW t \in Txs, Rollback(t)
    PROVE  IInv'
  <1>0. Types /\ LocksHeld /\ LocksApart /\ LegalCommands
    BY DEF IInv
  <1>1. txs' = [txs EXCEPT ![t] = Idle] /\ UNCHANGED <<class, rows, book, clock>>
    BY DEF Rollback
  <1>2. txs' \in [Txs -> OpenTx \cup {Idle}] /\ txs'[t] = Idle /\ \A u \in Txs \ {t} : txs'[u] = txs[u]
    BY <1>0, <1>1 DEF Types
  <1>3. LockedBy(t)' = {} /\ \A u \in Txs \ {t} : LockedBy(u)' = LockedBy(u)
    BY <1>2 DEF LockedBy, Idle
  <1>4. Types'
    BY <1>0, <1>1, <1>2 DEF Types
  <1>5. LocksHeld' /\ LocksApart'
    BY <1>0, <1>1, <1>3 DEF LocksHeld, LocksApart, Held
  <1>6. LegalCommands'
    BY <1>0, <1>1, <1>2 DEF LegalCommands, Valid
  <1>7. NoClash' /\ OnRecord' /\ ZeroDrift' /\ Conserved'
    BY <1>1, LedgerStands
  <1> QED
    BY <1>4, <1>5, <1>6, <1>7 DEF IInv

\* The periodic scan is a posting in rows nobody has locked.
LEMMA ExpireDueKeepsInv ==
    ASSUME IInv, NEW ids \in SUBSET Held, ExpireDue(ids)
    PROVE  IInv'
  <1> DEFINE free == Held \ UNION {LockedBy(t) : t \in Txs}
  <1>0. /\ Types /\ NoClash /\ OnRecord /\ LocksHeld /\ LocksApart /\ LegalCommands
        /\ ZeroDrift /\ Conserved
    BY DEF IInv
  <1>1. PICK es : Posting(es, free)
    BY <1>0, ExpireDuePosts
  <1>2. /\ UNCHANGED <<class, txs, clock>>
        /\ rows' = [i \in RowId |-> IF i \in ids THEN NoRow ELSE rows[i]]
    BY DEF ExpireDue
  <1>3. ZeroDrift' /\ Conserved' /\ OnRecord'
    BY <1>0, <1>1, PostedKeepsZeroDrift, PostedConserves, PostedKeepsRecord
  <1>4. Types'
    BY <1>0, <1>1, <1>2, PostedTypes DEF Types
  <1>5. \A i \in Held' : i \in Held /\ rows'[i] = rows[i]
    BY <1>2 DEF Held
  <1>6. NoClash'
    BY <1>0, <1>2, <1>5 DEF NoClash
  <1>7. \A u \in Txs : LockedBy(u)' = LockedBy(u)
    BY <1>2 DEF LockedBy
  <1>8. ASSUME NEW u \in Txs, NEW i \in LockedBy(u)' PROVE i \in Held'
    <2>1. i \in LockedBy(u) /\ i \in Held
      BY <1>0, <1>7 DEF LocksHeld
    <2>2. i \in Held \ free
      BY <2>1
    <2> QED
      BY <1>0, <1>1, <2>2, PostedTypes
  <1>9. LocksHeld' /\ LocksApart'
    BY <1>0, <1>7, <1>8 DEF LocksHeld, LocksApart
  <1>10. LegalCommands'
    BY <1>0, <1>2 DEF LegalCommands, Valid
  <1> QED
    BY <1>3, <1>4, <1>6, <1>9, <1>10 DEF IInv

\* One step per action.
LEMMA NextKeepsInv == IInv /\ [Next]_vars => IInv'
  <1> SUFFICES ASSUME IInv, [Next]_vars PROVE IInv'
    OBVIOUS
  <1>0. /\ Types /\ NoClash /\ OnRecord /\ LocksHeld /\ LocksApart /\ LegalCommands
        /\ ZeroDrift /\ Conserved
    BY DEF IInv
  <1>1. ASSUME NEW t \in Txs, NEW k \in Keys, NEW c \in Commands, Begin(t, k, c) PROVE IInv'
    BY <1>1, BeginKeepsInv
  <1>2. ASSUME NEW t \in Txs, Lock(t) PROVE IInv'
    BY <1>2, LockKeepsInv
  <1>3. ASSUME NEW t \in Txs, Rollback(t) PROVE IInv'
    BY <1>3, RollbackKeepsInv
  <1>4. ASSUME NEW t \in Txs, txs[t].pc = "locked", NoClash', txs' = [txs EXCEPT ![t] = Idle],
               UNCHANGED <<class, clock>>,
               \E es : Posting(es, LockedBy(t) \cup FreshIds)
        PROVE  IInv'
    BY <1>4, CommitKeepsInv
  <1>5. ASSUME NEW t \in Txs, Grant(t) PROVE IInv'
    <2>1. /\ txs[t].pc = "locked" /\ NoClash' /\ txs' = [txs EXCEPT ![t] = Idle]
          /\ UNCHANGED <<class, clock>>
      BY <1>5 DEF Grant, Commit
    <2> QED
      BY <1>0, <1>4, <1>5, <2>1, GrantPosts
  <1>6. ASSUME NEW t \in Txs, Consume(t) PROVE IInv'
    <2>1. /\ txs[t].pc = "locked" /\ NoClash' /\ txs' = [txs EXCEPT ![t] = Idle]
          /\ UNCHANGED <<class, clock>>
      BY <1>6 DEF Consume, Commit
    <2> QED
      BY <1>0, <1>4, <1>6, <2>1, ConsumePosts
  <1>7. ASSUME NEW t \in Txs, Transfer(t) PROVE IInv'
    <2>1. /\ txs[t].pc = "locked" /\ NoClash' /\ txs' = [txs EXCEPT ![t] = Idle]
          /\ UNCHANGED <<class, clock>>
      BY <1>7 DEF Transfer, Commit
    <2> QED
      BY <1>0, <1>4, <1>7, <2>1, TransferPosts
  <1>8. ASSUME NEW t \in Txs, Mutate(t) PROVE IInv'
    <2>1. /\ txs[t].pc = "locked" /\ NoClash' /\ txs' = [txs EXCEPT ![t] = Idle]
          /\ UNCHANGED <<class, clock>>
      BY <1>8 DEF Mutate, Commit
    <2> QED
      BY <1>0, <1>4, <1>8, <2>1, MutatePosts
  <1>9. ASSUME NEW t \in Txs, Expire(t) PROVE IInv'
    <2>1. /\ txs[t].pc = "locked" /\ NoClash' /\ txs' = [txs EXCEPT ![t] = Idle]
          /\ UNCHANGED <<class, clock>>
      BY <1>9 DEF Expire, Commit
    <2> QED
      BY <1>0, <1>4, <1>9, <2>1, ExpirePosts
  <1>10. ASSUME NEW ids \in SUBSET Held, ExpireDue(ids) PROVE IInv'
    BY <1>10, ExpireDueKeepsInv
  <1>11. CASE Tick
    <2>1. clock' \in 0 .. MaxClock /\ UNCHANGED <<class, rows, book, txs>>
      BY <1>0, <1>11, AssetAssumption DEF Tick, Types
    <2> QED
      BY <2>1, ClockKeepsInv
  <1>12. CASE UNCHANGED vars
    <2>1. clock' \in 0 .. MaxClock /\ UNCHANGED <<class, rows, book, txs>>
      BY <1>0, <1>12 DEF vars, Types
    <2> QED
      BY <2>1, ClockKeepsInv
  <1> QED
    BY <1>1, <1>2, <1>3, <1>5, <1>6, <1>7, <1>8, <1>9, <1>10, <1>11, <1>12 DEF Next, Run

\* Locks are kept apart, commands are valid, rows are on record, and the books
\* balance, in every state.
THEOREM Invariance == Spec => []IInv
  <1>1. Init => IInv
    BY InitInv
  <1>2. IInv /\ [Next]_vars => IInv'
    BY NextKeepsInv
  <1> QED
    BY <1>1, <1>2, PTL DEF Spec

\* The reconciliation of a project's ledger with its holdings finds no drift,
\* whatever overlaps, fails or is repeated.
THEOREM NoDrift == Spec => []ZeroDrift
  <1>1. IInv => ZeroDrift
    BY DEF IInv
  <1> QED
    BY <1>1, Invariance, PTL

\* Transfers, retries and overlapping commands make and lose nothing.
THEOREM NothingMadeOrLost == Spec => []Conserved
  <1>1. IInv => Conserved
    BY DEF IInv
  <1> QED
    BY <1>1, Invariance, PTL

\* The unique index of the buckets holds and every variable keeps its type.
THEOREM TypeCorrect == Spec => []TypeOK
  <1>1. IInv => TypeOK
    <2> SUFFICES ASSUME IInv PROVE TypeOK
      OBVIOUS
    <2>1. Types /\ NoClash
      BY DEF IInv
    <2>2. \A p \in DOMAIN book : book[p] \in LedgerEntry
      BY <2>1 DEF Types
    <2>3. \A p \in DOMAIN book :
            book[p].row \in RowId /\ book[p].delta \in -MaxQuantity .. MaxQuantity
      BY <2>2 DEF LedgerEntry
    <2>4. \A t \in Txs : txs[t].pc \in {"idle", "listing", "listing to", "locked"}
      <3> SUFFICES ASSUME NEW t \in Txs
                   PROVE  txs[t].pc \in {"idle", "listing", "listing to", "locked"}
        OBVIOUS
      <3>1. txs[t] \in OpenTx \/ txs[t] = Idle
        BY <2>1 DEF Types
      <3>2. CASE txs[t] \in OpenTx
        BY <3>2 DEF OpenTx
      <3>3. CASE txs[t] = Idle
        BY <3>3 DEF Idle
      <3> QED
        BY <3>1, <3>2, <3>3
    <2> QED
      BY <2>1, <2>3, <2>4 DEF TypeOK, Types
  <1> QED
    BY <1>1, Invariance, PTL

-----------------------------------------------------------------------------
(* The accounts of the owners, as a sum over all rows *)

Table == [RowId -> Row \cup {NoRow}]
Instants == 0 .. MaxClock

\* A row counts for its owner until it expires.
Counts(r, at, o, i) == r[i] # NoRow /\ r[i].owner = o /\ r[i].expiry > at
Part(r, at, o, i) == IF Counts(r, at, o, i) THEN r[i].qty ELSE 0
Parts(r, at, o) == [i \in RowId |-> Part(r, at, o, i)]
Account(r, at, o) == SumFunctionOnSet(Parts(r, at, o), RowId)

\* What a row counts for is a number, 0 for a row that is not there.
LEMMA PartsTyped ==
    ASSUME NEW r \in Table, NEW at, NEW o, NEW i \in RowId
    PROVE  /\ Parts(r, at, o)[i] = Part(r, at, o, i)
           /\ Part(r, at, o, i) \in Nat /\ Part(r, at, o, i) \in Int
           /\ r[i].qty \in Nat
           /\ r[i] = NoRow => Part(r, at, o, i) = 0
  <1>1. r[i] \in Row \cup {NoRow}
    BY DEF Table
  <1>2. r[i].qty \in Nat
    BY <1>1, AssetAssumption DEF Row, NoRow
  <1> QED
    BY <1>2 DEF Parts, Part, Counts

\* An account adds up what counts for it.
LEMMA AccountSum ==
    ASSUME NEW r \in Table, NEW at, NEW o
    PROVE  /\ SumFunctionOnSet([i \in RowId |-> r[i].qty], {i \in RowId : Counts(r, at, o, i)})
                = Account(r, at, o)
           /\ Account(r, at, o) \in Nat
  <1> DEFINE q == [i \in RowId |-> r[i].qty]
             C == {i \in RowId : Counts(r, at, o, i)}
             f == Parts(r, at, o)
  <1>1. C \in SUBSET RowId /\ IsFiniteSet(C)
    BY RowsFinite, FS_Subset
  <1>2. \A i \in RowId : f[i] \in Nat /\ f[i] \in Int
    BY PartsTyped
  <1>3. \A i \in C : q[i] \in Int /\ q[i] = f[i]
    BY PartsTyped DEF Part
  <1>4. \A i \in RowId \ C : f[i] = 0
    BY PartsTyped DEF Part
  <1> HIDE DEF q, C, f
  <1>5. SumFunctionOnSet(q, C) = SumFunctionOnSet(f, C)
    BY <1>1, <1>3, SumSame
  <1>6. SumFunctionOnSet(f, RowId) = SumFunctionOnSet(f, C)
    BY <1>1, <1>2, <1>4, RowsFinite, SumIgnoresZeros
  <1>7. SumFunctionOnSet(f, RowId) \in Nat
    BY <1>2, RowsFinite, SumNat
  <1> QED
    BY <1>5, <1>6, <1>7 DEF Account, q, C, f

\* What an owner holds, before and after a step.
LEMMA AccountsOf ==
    ASSUME Types, Types', NEW o \in Owners, NEW at \in Instants
    PROVE  /\ Left(o, at) = Account(rows, at, o) /\ Left(o, at)' = Account(rows', at, o)
           /\ Left(o, at) \in Nat /\ Left(o, at)' \in Nat
  <1> DEFINE q == [i \in RowId |-> rows[i].qty]
             r == [i \in RowId |-> rows'[i].qty]
  <1>1. rows \in Table /\ rows' \in Table
    BY DEF Types, Table
  <1>2. {i \in OwnedBy(o) : rows[i].expiry > at} = {i \in RowId : Counts(rows, at, o, i)}
    BY DEF OwnedBy, Held, Counts
  <1>3. {i \in OwnedBy(o) : rows[i].expiry > at}' = {i \in RowId : Counts(rows', at, o, i)}
    BY DEF OwnedBy, Held, Counts
  <1>4. Left(o, at) = SumFunctionOnSet(q, {i \in RowId : Counts(rows, at, o, i)})
    BY <1>2, Zenon DEF Left, Total
  <1>5. Left(o, at)' = SumFunctionOnSet(r, {i \in RowId : Counts(rows', at, o, i)})
    BY <1>3, Zenon DEF Left, Total
  <1>6. Account(rows, at, o) \in Nat /\ Account(rows', at, o) \in Nat
    BY <1>1, AccountSum, Zenon
  <1>7. Left(o, at) = Account(rows, at, o)
    BY <1>1, <1>4, AccountSum, Zenon
  <1>8. Left(o, at)' = Account(rows', at, o)
    BY <1>1, <1>5, AccountSum, Zenon
  <1> QED
    BY <1>6, <1>7, <1>8, Zenon

\* A step that changes one row changes an account by what the row counts for it.
LEMMA OneRowChanges ==
    ASSUME NEW r \in Table, NEW s \in Table, NEW at, NEW o, NEW j \in RowId,
           \A i \in RowId : i # j => s[i] = r[i]
    PROVE  Account(s, at, o) = Account(r, at, o) + (Part(s, at, o, j) - Part(r, at, o, j))
  <1> DEFINE f == Parts(r, at, o)
             g == Parts(s, at, o)
  <1>1. \A i \in RowId : f[i] \in Int /\ g[i] \in Int
    BY PartsTyped
  <1>2. \A i \in RowId \ {j} : g[i] = f[i]
    BY PartsTyped DEF Part, Counts
  <1>3. f[j] = Part(r, at, o, j) /\ g[j] = Part(s, at, o, j)
    BY PartsTyped
  <1> HIDE DEF f, g
  <1>4. SumFunctionOnSet(g, RowId) = SumFunctionOnSet(f, RowId) + (g[j] - f[j])
    BY <1>1, <1>2, RowsFinite, SumChangesOnce
  <1> QED
    BY <1>3, <1>4 DEF Account, f, g

\* One that leaves what every row counts for leaves the account.
LEMMA NoRowChanges ==
    ASSUME NEW r \in Table, NEW s \in Table, NEW at, NEW o,
           \A i \in RowId : Part(s, at, o, i) = Part(r, at, o, i)
    PROVE  Account(s, at, o) = Account(r, at, o)
  <1> DEFINE f == Parts(r, at, o)
             g == Parts(s, at, o)
  <1>1. f = g
    BY DEF Parts
  <1> QED
    BY <1>1, Zenon DEF Account

\* Rows that grow in an account.
Rising(r, s, at, o, k, m, d) ==
    /\ \A n \in 1 .. k : /\ m[n] \in RowId /\ d[n] \in Int
                         /\ Part(s, at, o, m[n]) = Part(r, at, o, m[n]) + d[n]
    /\ \A l, n \in 1 .. k : m[l] = m[n] => l = n
    /\ \A i \in RowId : (\A n \in 1 .. k : m[n] # i)
                          => Part(s, at, o, i) = Part(r, at, o, i)

\* They let the account grow by as much.
LEMMA RowsGrow ==
    ASSUME NEW r \in Table, NEW s \in Table, NEW at, NEW o,
           NEW k \in Nat, NEW m, NEW d, Rising(r, s, at, o, k, m, d)
    PROVE  Account(s, at, o) = Account(r, at, o) + SumFunctionOnSet(d, 1 .. k)
  <1> DEFINE f == Parts(r, at, o)
             g == Parts(s, at, o)
  <1>1. \A i \in RowId : f[i] \in Int /\ g[i] \in Int
    BY PartsTyped
  <1>2. \A n \in 1 .. k : m[n] \in RowId /\ d[n] \in Int /\ g[m[n]] = f[m[n]] + d[n]
    BY PartsTyped DEF Rising
  <1>3. \A l, n \in 1 .. k : m[l] = m[n] => l = n
    BY DEF Rising
  <1>4. \A i \in RowId : (\A n \in 1 .. k : m[n] # i) => g[i] = f[i]
    BY PartsTyped DEF Rising
  <1> HIDE DEF f, g
  <1>5. SumFunctionOnSet(g, RowId) = SumFunctionOnSet(f, RowId) + SumFunctionOnSet(d, 1 .. k)
    <2>1. Growing(f, g, RowId, k, m, d)
      BY <1>1, <1>2, <1>3, <1>4 DEF Growing
    <2> QED
      BY <2>1, RowsFinite, SumGrows
  <1> QED
    BY <1>5 DEF Account, f, g

-----------------------------------------------------------------------------
(* What is taken adds up *)

\* The buckets of a quantity that is there give exactly that quantity.
LEMMA TakesAddUp ==
    ASSUME Types, LocksHeld, NEW t \in Txs, txs[t].pc # "idle", NEW o, NEW qty \in 1 .. MaxQuantity,
           qty <= Total(LiveRows(t, o))
    PROVE  LET takes == Takes(t, o, qty)
               k == Len(takes)
           IN  k >= 1 /\ SumFunctionOnSet([n \in 1 .. k |-> takes[n].qty], 1 .. k) = qty
  <1> DEFINE live == LiveRows(t, o)
             N == Cardinality(live)
             b == Fefo(t, o)
             before(n) == Before(t, o, n)
             takes == Takes(t, o, qty)
             k == Len(takes)
             q == [i \in RowId |-> rows[i].qty]
             first(n) == {b[m] : m \in 1 .. n}
             given == [n \in 1 .. k |-> takes[n].qty]
             part(n) == Min({rows[b[n]].qty, qty - before(n)})
  <1>0. qty \in Nat /\ MaxQuantity \in Nat
    BY AssetAssumption
  <1>1. /\ N \in Nat /\ k \in 0 .. N /\ \A i \in live : rows[i].qty \in 1 .. MaxQuantity
        /\ b \in [1 .. N -> live] /\ \A m, n \in 1 .. N : b[m] = b[n] => m = n
    <2>1. N \in Nat /\ k \in 0 .. N /\ b \in [1 .. N -> live]
      BY Buckets, Zenon
    <2>2. /\ \A i \in live : rows[i].qty \in 1 .. MaxQuantity
          /\ \A m, n \in 1 .. N : b[m] = b[n] => m = n
      BY Buckets, Zenon
    <2> QED
      BY <2>1, <2>2
  <1>2. \A n \in 1 .. N : before(n) \in Nat /\ (n \in 1 .. k <=> before(n) < qty)
    BY Buckets, Zenon
  <1>3. takes = [n \in 1 .. k |-> [row |-> b[n], qty |-> part(n)]]
    BY Buckets, Zenon
  <1>4. live \in SUBSET RowId /\ IsFiniteSet(live) /\ Total(live) >= qty
    <2>1. live \in SUBSET RowId /\ IsFiniteSet(live)
      BY Live
    <2> HIDE DEF live
    <2>2. Total(live) \in Nat
      BY <2>1, LiveTotal
    <2> QED
      BY <2>1, <2>2 DEF live
  <1>5. \A n : before(n) = SumFunctionOnSet(q, {b[m] : m \in 1 .. n - 1})
    BY DEF Before, Total
  <1>6. \A i \in RowId : q[i] = rows[i].qty /\ q[i] \in Int /\ q[i] \in Nat
    BY Quantities, AssetAssumption
  <1>7. Total(live) = SumFunctionOnSet(q, live)
    BY DEF Total
  <1> HIDE DEF live, b, before, takes, k, q
  <1>8. N >= 1
    <2>1. N = 0 <=> live = {}
      BY <1>4, FS_EmptySet
    <2>2. live # {}
      BY <1>4, <1>7, SumEmpty
    <2> HIDE DEF N
    <2> QED
      BY <1>1, <2>1, <2>2
  <1>9. first(N) = live
    <2>1. b \in Injection(1 .. N, live)
      <3> HIDE DEF N
      <3> QED
        BY <1>1 DEF Injection, IsInjective
    <2>2. Cardinality(1 .. N) = Cardinality(live)
      <3>1. Cardinality(1 .. N) = N
        BY <1>1, FS_Interval
      <3> QED
        BY <3>1
    <2>3. IsFiniteSet(1 .. N)
      BY <1>1, FS_Interval
    <2> HIDE DEF N
    <2>4. b \in Surjection(1 .. N, live)
      BY <1>4, <2>1, <2>2, <2>3, FS_Injection
    <2> QED
      BY <1>1, <2>4 DEF Surjection
  <1> HIDE DEF N
  <1>10. ASSUME NEW n \in 1 .. N
         PROVE  /\ b[n] \in live /\ rows[b[n]].qty \in 1 .. MaxQuantity
                /\ SumFunctionOnSet(q, first(n)) = before(n) + rows[b[n]].qty
    <2> DEFINE F == {b[m] : m \in 1 .. n - 1}
    <2>1. first(n) = F \cup {b[n]}
      <3>1. \A m : m \in 1 .. n <=> m \in 1 .. n - 1 \/ m = n
        BY <1>1
      <3> QED
        BY <3>1
    <2>2. b[n] \notin F
      BY <1>1
    <2>3. F \in SUBSET RowId /\ b[n] \in live /\ b[n] \in RowId
      BY <1>1, <1>4
    <2>4. before(n) = SumFunctionOnSet(q, F)
      BY <1>5
    <2> HIDE DEF F, first
    <2>5. IsFiniteSet(F)
      BY <2>3, RowsFinite, FS_Subset
    <2>6. \A i \in F \cup {b[n]} : q[i] \in Int
      BY <1>6, <2>3
    <2>7. SumFunctionOnSet(q, F \cup {b[n]}) = SumFunctionOnSet(q, F) + q[b[n]]
      BY <2>2, <2>5, <2>6, SumAdd
    <2>8. SumFunctionOnSet(q, first(n)) = SumFunctionOnSet(q, F \cup {b[n]})
      BY <2>1, Zenon
    <2> QED
      BY <1>1, <1>6, <2>3, <2>4, <2>7, <2>8
  <1>11. ASSUME NEW n \in 1 .. N, n # N
         PROVE  n + 1 \in 1 .. N /\ before(n + 1) = before(n) + rows[b[n]].qty
    <2>1. n + 1 \in 1 .. N /\ (n + 1) - 1 = n
      BY <1>1, <1>11
    <2>2. before(n + 1) = SumFunctionOnSet(q, {b[m] : m \in 1 .. (n + 1) - 1})
      BY <1>5
    <2>3. before(n + 1) = SumFunctionOnSet(q, first(n))
      BY <2>1, <2>2
    <2> HIDE DEF first
    <2> QED
      BY <1>10, <2>1, <2>3
  <1>12. before(N) + rows[b[N]].qty >= qty
    <2>1. N \in 1 .. N
      BY <1>1, <1>8
    <2>2. SumFunctionOnSet(q, first(N)) = SumFunctionOnSet(q, live)
      BY <1>9, Zenon
    <2> HIDE DEF first
    <2> QED
      BY <1>4, <1>7, <1>10, <2>1, <2>2
  <1>13. k \in 1 .. N
    <2>1. 1 \in 1 .. N /\ {b[m] : m \in 1 .. 1 - 1} = {}
      BY <1>1, <1>8
    <2>2. before(1) = SumFunctionOnSet(q, {})
      BY <1>5, <2>1
    <2>3. before(1) = 0
      BY <2>2, SumEmpty
    <2> QED
      BY <1>1, <1>2, <2>1, <2>3
  <1> HIDE DEF first
  <1>14. ASSUME NEW n \in 1 .. N
         PROVE  /\ part(n) \in {rows[b[n]].qty, qty - before(n)}
                /\ part(n) <= rows[b[n]].qty /\ part(n) <= qty - before(n)
    <2>1. rows[b[n]].qty \in Int /\ qty - before(n) \in Int
      BY <1>0, <1>2, <1>10
    <2> QED
      BY <2>1, MinOfTwo
  <1>15. ASSUME NEW n \in 1 .. k
         PROVE  n \in 1 .. N /\ given[n] = part(n) /\ given[n] \in Int
    <2>1. n \in 1 .. N
      BY <1>1, <1>13
    <2>2. given[n] = part(n)
      <3> HIDE DEF part
      <3> QED
        BY <1>3
    <2>3. part(n) \in Int
      BY <1>0, <1>2, <1>10, <1>14, <2>1
    <2> HIDE DEF given, part
    <2> QED
      BY <2>1, <2>2, <2>3
  <1> HIDE DEF given, part
  <1>16. ASSUME NEW n \in 1 .. k - 1
         PROVE  n \in 1 .. k /\ given[n] = q[b[n]]
    <2>1. n \in 1 .. k /\ n \in 1 .. N /\ n # N /\ n + 1 \in 1 .. k
      BY <1>1, <1>13
    <2>2. before(n) + rows[b[n]].qty < qty
      <3>1. n + 1 \in 1 .. N /\ before(n + 1) = before(n) + rows[b[n]].qty
        BY <1>11, <2>1
      <3> QED
        BY <1>2, <2>1, <3>1
    <2>3. part(n) = rows[b[n]].qty
      BY <1>0, <1>2, <1>10, <1>14, <2>1, <2>2
    <2> QED
      BY <1>4, <1>6, <1>10, <1>15, <2>1, <2>3
  <1>17. given[k] = qty - before(k)
    <2>1. before(k) + rows[b[k]].qty >= qty
      <3>1. CASE k = N
        BY <1>12, <3>1
      <3>2. CASE k # N
        <4>1. k + 1 \in 1 .. N /\ before(k + 1) = before(k) + rows[b[k]].qty
          BY <1>11, <1>13, <3>2
        <4>2. k + 1 \notin 1 .. k
          BY <1>1, <1>13
        <4> QED
          BY <1>2, <4>1, <4>2
      <3> QED
        BY <3>1, <3>2
    <2>2. k \in 1 .. k
      BY <1>13
    <2>3. part(k) = qty - before(k)
      BY <1>0, <1>2, <1>10, <1>13, <1>14, <2>1
    <2> QED
      BY <1>15, <2>2, <2>3
  <1>18. SumFunctionOnSet(given, 1 .. k - 1) = before(k)
    <2> DEFINE S == 1 .. k - 1
    <2>1. IsFiniteSet(S)
      <3>1. 1 \in Int /\ k - 1 \in Int
        BY <1>13
      <3> QED
        BY <3>1, FS_Interval
    <2>2. \A n \in S : given[n] \in Int /\ given[n] = q[b[n]]
      BY <1>15, <1>16
    <2>3. \A m, n \in S : b[m] = b[n] => m = n
      BY <1>1, <1>15, <1>16
    <2>4. before(k) = SumFunctionOnSet(q, {b[m] : m \in S})
      BY <1>5
    <2> HIDE DEF S
    <2>5. SumFunctionOnSet(given, S) = SumFunctionOnSet(q, {b[m] : m \in S})
      BY <2>1, <2>2, <2>3, SumRenamed
    <2> QED
      BY <2>4, <2>5 DEF S
  <1>19. SumFunctionOnSet(given, 1 .. k) = qty
    <2> DEFINE S == 1 .. k - 1
    <2>1. S \cup {k} = 1 .. k /\ k \notin S
      BY <1>13
    <2>2. IsFiniteSet(S)
      <3>1. 1 \in Int /\ k - 1 \in Int
        BY <1>13
      <3> QED
        BY <3>1, FS_Interval
    <2>3. \A n \in S \cup {k} : given[n] \in Int
      BY <1>15, <2>1
    <2> HIDE DEF S
    <2>4. SumFunctionOnSet(given, S \cup {k}) = SumFunctionOnSet(given, S) + given[k]
      BY <2>1, <2>2, <2>3, SumAdd
    <2>5. SumFunctionOnSet(given, S \cup {k}) = SumFunctionOnSet(given, 1 .. k)
      BY <2>1, Zenon
    <2> QED
      BY <1>2, <1>13, <1>17, <1>18, <2>4, <2>5 DEF S
  <1>20. k >= 1
    BY <1>13
  <1> QED
    BY <1>19, <1>20 DEF given, takes, k

-----------------------------------------------------------------------------
(* Keys that take effect *)

Done == {k \in Keys : Recorded(MainKey(k))}
Begun == [k \in Keys |-> {txs[t].now : t \in Transferring(k)}]
Books(r) == [o \in Owners |-> [at \in Instants |-> Account(r, at, o)]]
TakesEffect(k) == k \notin Done /\ Done' = Done \cup {k}

\* A key is on record after entries were added when it was or when one has it.
LEMMA RecordedAfter ==
    ASSUME Types, NEW es \in Seq(LedgerEntry), book' = book \o es, NEW key
    PROVE  Recorded(key)' <=> Recorded(key) \/ \E n \in DOMAIN es : es[n].key = key
  <1> DEFINE L == Len(book)
  <1>1. book \in Seq(LedgerEntry) /\ book' = book \o es
    BY DEF Types
  <1>2. /\ L \in Nat /\ DOMAIN book = 1 .. L /\ DOMAIN es = 1 .. Len(es) /\ Len(es) \in Nat
        /\ DOMAIN book' = 1 .. L + Len(es)
        /\ \A p \in 1 .. L : book'[p] = book[p]
        /\ \A n \in 1 .. Len(es) : book'[L + n] = es[n]
        /\ \A p \in 1 .. L + Len(es) : p \in 1 .. L \/ (p - L \in 1 .. Len(es) /\ p = L + (p - L))
    BY <1>1
  <1> HIDE DEF L
  <1>3. ASSUME Recorded(key)' PROVE Recorded(key) \/ \E n \in DOMAIN es : es[n].key = key
    <2>1. PICK p \in DOMAIN book' : book'[p].key = key
      BY <1>3 DEF Recorded
    <2>2. CASE p \in 1 .. L
      BY <1>2, <2>1, <2>2 DEF Recorded
    <2>3. CASE p - L \in 1 .. Len(es) /\ p = L + (p - L)
      <3> DEFINE n == p - L
      <3>1. n \in 1 .. Len(es) /\ p = L + n
        BY <2>3
      <3> HIDE DEF n
      <3> QED
        BY <1>2, <2>1, <3>1
    <2> QED
      BY <1>2, <2>1, <2>2, <2>3
  <1>4. ASSUME Recorded(key) PROVE Recorded(key)'
    <2>1. PICK p \in 1 .. L : book[p].key = key
      BY <1>2, <1>4 DEF Recorded
    <2>2. p \in DOMAIN book' /\ book'[p].key = key
      BY <1>2, <2>1
    <2> QED
      BY <2>2 DEF Recorded
  <1>5. ASSUME NEW n \in DOMAIN es, es[n].key = key PROVE Recorded(key)'
    <2>1. L + n \in DOMAIN book' /\ book'[L + n].key = key
      BY <1>2, <1>5
    <2> QED
      BY <2>1 DEF Recorded
  <1> QED
    BY <1>3, <1>4, <1>5

\* A command adds its own key to those that have taken effect.
LEMMA KeyTakesEffect ==
    ASSUME Types, NEW t \in Txs, txs[t].key \in Keys, ~Recorded(MainKey(txs[t].key)),
           NEW es \in Seq(LedgerEntry), book' = book \o es,
           \A k \in Keys : (\E n \in DOMAIN es : es[n].key = MainKey(k)) <=> k = txs[t].key
    PROVE  TakesEffect(txs[t].key)
  <1>1. txs[t].key \notin Done
    BY DEF Done
  <1>2. ASSUME NEW k \in Keys
        PROVE  Recorded(MainKey(k))' <=> Recorded(MainKey(k)) \/ k = txs[t].key
    BY RecordedAfter
  <1>3. Done' = Done \cup {txs[t].key}
    BY <1>2 DEF Done
  <1> QED
    BY <1>1, <1>3 DEF TakesEffect

\* A ledger that stays where it is has the same keys.
LEMMA KeysStand ==
    ASSUME UNCHANGED book
    PROVE  Done' = Done
BY DEF Done, Recorded

\* One entry under the key of its command.
LEMMA OneEntryTakesEffect ==
    ASSUME Types, Types', NEW t \in Txs, txs[t].key \in Keys, ~Recorded(MainKey(txs[t].key)),
           NEW i, NEW kind, NEW d, NEW after,
           Entry(MainKey(txs[t].key), i, kind, d, after) \in LedgerEntry,
           book' = book \o <<Entry(MainKey(txs[t].key), i, kind, d, after)>>
    PROVE  TakesEffect(txs[t].key)
  <1> DEFINE e == Entry(MainKey(txs[t].key), i, kind, d, after)
             es == <<e>>
  <1>1. es \in Seq(LedgerEntry) /\ DOMAIN es = {1} /\ es[1] = e
    OBVIOUS
  <1>2. e.key = MainKey(txs[t].key)
    BY DEF Entry
  <1>3. \A k \in Keys : MainKey(txs[t].key) = MainKey(k) <=> k = txs[t].key
    BY DEF MainKey
  <1>4. book' = book \o es
    OBVIOUS
  <1> HIDE DEF e, es
  <1>5. \A k \in Keys : (\E n \in DOMAIN es : es[n].key = MainKey(k)) <=> k = txs[t].key
    BY <1>1, <1>2, <1>3
  <1> QED
    BY <1>1, <1>4, <1>5, KeyTakesEffect

\* The accounts of the contract, before and after a step.
LEMMA BooksOf ==
    ASSUME Types, Types'
    PROVE  LET B == Books(rows)
               C == Books(rows')
           IN  /\ [o \in Owners |-> [at \in 0 .. MaxClock |-> Left(o, at)]] = B
               /\ [o \in Owners |-> [at \in 0 .. MaxClock |-> Left(o, at)]]' = C
               /\ B \in [Owners -> [Instants -> Nat]] /\ C \in [Owners -> [Instants -> Nat]]
               /\ \A o \in Owners, at \in Instants :
                    B[o][at] = Account(rows, at, o) /\ C[o][at] = Account(rows', at, o)
  <1>1. rows \in Table /\ rows' \in Table
    BY DEF Types, Table
  <1>2. \A o \in Owners, at \in Instants :
          Account(rows, at, o) \in Nat /\ Account(rows', at, o) \in Nat
    BY <1>1, AccountSum
  <1>3. \A o \in Owners, at \in 0 .. MaxClock :
          Left(o, at) = Account(rows, at, o) /\ Left(o, at)' = Account(rows', at, o)
    BY AccountsOf DEF Instants
  <1> QED
    BY <1>2, <1>3 DEF Books, Instants

\* The transfers under way under a key look at the clock when they begin, and one
\* that is not under way any more has no instant.
LEMMA TransfersBegin ==
    ASSUME NEW t \in Txs, \A u \in Txs \ {t} : txs'[u] = txs[u],
           \/ txs'[t].pc = "idle" \/ txs'[t].cmd.verb # "transfer" \/ txs'[t].now = clock
           \/ /\ txs[t].pc # "idle" /\ txs'[t].key = txs[t].key
              /\ txs'[t].cmd = txs[t].cmd /\ txs'[t].now = txs[t].now
    PROVE  \A k \in Keys : Begun'[k] \subseteq Begun[k] \cup {clock}
  <1> SUFFICES ASSUME NEW k \in Keys, NEW s \in Begun'[k]
               PROVE  s \in Begun[k] \cup {clock}
    OBVIOUS
  <1>1. PICK u \in Txs : /\ txs'[u].pc # "idle" /\ txs'[u].key = k
                         /\ txs'[u].cmd.verb = "transfer" /\ s = txs'[u].now
    BY DEF Begun, Transferring
  <1>2. ASSUME txs[u].pc # "idle", txs[u].key = k, txs[u].cmd.verb = "transfer", s = txs[u].now
        PROVE  s \in Begun[k]
    BY <1>2 DEF Begun, Transferring
  <1>3. CASE u # t
    BY <1>1, <1>2, <1>3
  <1>4. CASE u = t
    BY <1>1, <1>2, <1>4
  <1> QED
    BY <1>3, <1>4

\* What a row that changes does to the accounts: an amount arrives at one owner,
\* leaves it, or gets another expiry.
Arrives(B, C, p, v, e) ==
    \A o \in Owners, at \in Instants :
      C[o][at] = B[o][at] + (IF o = p /\ at < e THEN v ELSE 0)
Departs(B, C, p, v, e) ==
    \A o \in Owners, at \in Instants :
      C[o][at] = B[o][at] - (IF o = p /\ at < e THEN v ELSE 0)
Passes(B, C, p, v, f, e) ==
    \A o \in Owners, at \in Instants :
      C[o][at] = B[o][at] + (IF o = p /\ at < e THEN v ELSE 0)
                   - (IF o = p /\ at < f THEN v ELSE 0)

\* An amount that arrives in the account of one owner,
LEMMA OneGains ==
    ASSUME NEW B \in [Owners -> [Instants -> Nat]], NEW C \in [Owners -> [Instants -> Nat]],
           NEW p \in Owners, NEW e \in Int, NEW v \in Nat, Arrives(B, C, p, v, e)
    PROVE  C = [B EXCEPT ![p] = Accounts!With(B[p], v, e)]
  <1>1. ASSUME NEW o \in Owners, o # p PROVE C[o] = B[o]
    <2>1. \A at \in Instants : C[o][at] = B[o][at]
      BY <1>1 DEF Arrives
    <2> QED
      BY <2>1
  <1>2. C[p] = Accounts!With(B[p], v, e)
    <2>1. \A at \in Instants : C[p][at] = B[p][at] + (IF at < e THEN v ELSE 0)
      BY DEF Arrives
    <2>2. C[p] \in [Instants -> Nat]
      OBVIOUS
    <2> QED
      BY <2>1, <2>2 DEF Accounts!With, Accounts!Instants, Instants
  <1> QED
    BY <1>1, <1>2

\* or leaves it,
LEMMA OneLoses ==
    ASSUME NEW B \in [Owners -> [Instants -> Nat]], NEW C \in [Owners -> [Instants -> Nat]],
           NEW p \in Owners, NEW e \in Int, NEW v \in Nat, Departs(B, C, p, v, e)
    PROVE  C = [B EXCEPT ![p] = Accounts!Without(B[p], v, e)]
  <1>1. ASSUME NEW o \in Owners, o # p PROVE C[o] = B[o]
    <2>1. \A at \in Instants : C[o][at] = B[o][at]
      BY <1>1 DEF Departs
    <2> QED
      BY <2>1
  <1>2. C[p] = Accounts!Without(B[p], v, e)
    <2>1. \A at \in Instants : C[p][at] = B[p][at] - (IF at < e THEN v ELSE 0)
      BY DEF Departs
    <2>2. C[p] \in [Instants -> Nat]
      OBVIOUS
    <2> QED
      BY <2>1, <2>2 DEF Accounts!Without, Accounts!Instants, Instants
  <1> QED
    BY <1>1, <1>2

\* or is given another expiry.
LEMMA OnePasses ==
    ASSUME NEW B \in [Owners -> [Instants -> Nat]], NEW C \in [Owners -> [Instants -> Nat]],
           NEW p \in Owners, NEW e \in Int, NEW f \in Int, NEW v \in Nat,
           Passes(B, C, p, v, f, e)
    PROVE  C = [B EXCEPT ![p] = Accounts!With(Accounts!Without(B[p], v, f), v, e)]
  <1>1. ASSUME NEW o \in Owners, o # p PROVE C[o] = B[o]
    <2>1. \A at \in Instants : C[o][at] = B[o][at]
      BY <1>1 DEF Passes
    <2> QED
      BY <2>1
  <1>2. C[p] = Accounts!With(Accounts!Without(B[p], v, f), v, e)
    <2> DEFINE D == Accounts!With(Accounts!Without(B[p], v, f), v, e)
    <2>1. D = [at \in Instants |-> (B[p][at] - (IF at < f THEN v ELSE 0))
                                     + (IF at < e THEN v ELSE 0)]
      BY DEF Accounts!With, Accounts!Without, Accounts!Instants, Instants
    <2>2. C[p] \in [Instants -> Nat]
      OBVIOUS
    <2>3. \A at \in Instants : C[p][at] = D[at]
      <3> SUFFICES ASSUME NEW at \in Instants PROVE C[p][at] = D[at]
        OBVIOUS
      <3> DEFINE gain == IF at < e THEN v ELSE 0
                 loss == IF at < f THEN v ELSE 0
      <3>1. C[p][at] = B[p][at] + gain - loss /\ B[p][at] \in Nat
        BY DEF Passes
      <3>2. D[at] = (B[p][at] - loss) + gain
        <4> HIDE DEF D
        <4> QED
          BY <2>1
      <3>3. gain \in Nat /\ loss \in Nat
        OBVIOUS
      <3> HIDE DEF D, gain, loss
      <3> QED
        BY <3>1, <3>2, <3>3
    <2> HIDE DEF D
    <2> QED
      BY <2>1, <2>2, <2>3 DEF D
  <1> QED
    BY <1>1, <1>2

-----------------------------------------------------------------------------
(* The commands keep the accounts *)

\* A grant arrives in the account until it expires.
LEMMA GrantKeepsAccounts ==
    ASSUME IInv, IInv', NEW t \in Txs, Grant(t)
    PROVE  txs[t].key \in Keys /\ Accounts!Command(txs[t].key)
  <1> DEFINE x == txs[t]
             c == x.cmd
             i == Target(t, c.owner, c.expiry, NewId(1))
             after == rows[i].qty + c.qty
             row == [owner |-> c.owner, expiry |-> c.expiry, qty |-> after]
             e == Entry(MainKey(x.key), i, "grant", c.qty, after)
  <1>0. Types /\ Types' /\ OnRecord /\ LocksHeld
    BY DEF IInv
  <1>1. /\ x.pc = "locked" /\ FreshIds # {} /\ ~Recorded(MainKey(x.key))
        /\ book' = book \o <<e>> /\ rows' = [rows EXCEPT ![i] = row]
    BY DEF Grant, Commit
  <1>2. /\ x.key \in Keys /\ c.owner \in Owners /\ c.expiry \in Instant
        /\ c.qty \in 1 .. MaxQuantity
    BY <1>0, <1>1, Opened DEF OpenTx, Command
  <1>3. /\ i \in RowId
        /\ \/ rows[i] = NoRow
           \/ rows[i] # NoRow /\ rows[i].owner = c.owner /\ rows[i].expiry = c.expiry
    <2>1. NewId(1) \in FreshIds /\ \A j \in FreshIds : j \in RowId /\ rows[j] = NoRow
      BY <1>0, <1>1, Fresh
    <2>2. ASSUME NEW j \in LiveRows(t, c.owner)
          PROVE  j \in RowId /\ rows[j] # NoRow /\ rows[j].owner = c.owner
      <3>1. LiveRows(t, c.owner) \in SUBSET RowId /\ \A l \in LiveRows(t, c.owner) : l \in Held
        BY <1>0, <1>1, Live
      <3> QED
        BY <3>1 DEF Held, LiveRows
    <2>3. \/ i = NewId(1)
          \/ i \in LiveRows(t, c.owner) /\ rows[i].expiry = c.expiry
      BY TargetRow
    <2> HIDE DEF i, c
    <2> QED
      BY <2>1, <2>2, <2>3
  <1> HIDE DEF i
  <1>4. rows'[i] = row /\ \A j \in RowId : j # i => rows'[j] = rows[j]
    <2> HIDE DEF row
    <2> QED
      BY <1>0, <1>1, <1>3 DEF Types
  <1>5. rows \in Table /\ rows' \in Table /\ rows[i].qty \in Nat
    BY <1>0, <1>3, PartsTyped DEF Types, Table
  <1>6. c.qty \in Nat /\ c.qty >= 1 /\ after \in Nat /\ after >= 1 /\ c.expiry \in Int
    BY <1>2, <1>5, AssetAssumption DEF Instant, Never
  <1>7. /\ rows'[i] # NoRow /\ rows'[i].owner = c.owner /\ rows'[i].expiry = c.expiry
        /\ rows'[i].qty = after
    <2>1. row.owner = c.owner /\ row.expiry = c.expiry /\ row.qty = after
      <3> HIDE DEF after, c
      <3> QED
        OBVIOUS
    <2> HIDE DEF row, after, c
    <2> QED
      BY <1>4, <1>6, <2>1 DEF NoRow
  <1> HIDE DEF row
  <1> DEFINE B == Books(rows)
             C == Books(rows')
  <1>8. ASSUME NEW o \in Owners, NEW at \in Instants
        PROVE  C[o][at] = B[o][at] + (IF o = c.owner /\ at < c.expiry THEN c.qty ELSE 0)
    <2> DEFINE a == Part(rows, at, o, i)
               b == Part(rows', at, o, i)
               until == o = c.owner /\ at < c.expiry
    <2>0. at \in Int
      BY DEF Instants
    <2>1. b - a = IF until THEN c.qty ELSE 0
      <3>1. b = IF until THEN rows[i].qty + c.qty ELSE 0
        BY <1>6, <1>7, <2>0 DEF Part, Counts
      <3>2. a = IF until THEN rows[i].qty ELSE 0
        BY <1>3, <1>6, <2>0 DEF Part, Counts, NoRow
      <3> HIDE DEF a, b, c, until
      <3> QED
        BY <1>5, <1>6, <3>1, <3>2
    <2>2. Account(rows', at, o) = Account(rows, at, o) + (b - a)
      BY <1>3, <1>4, <1>5, OneRowChanges
    <2>3. B[o][at] = Account(rows, at, o) /\ C[o][at] = Account(rows', at, o)
      BY <1>0, BooksOf
    <2> HIDE DEF a, b, c, B, C
    <2> QED
      BY <2>1, <2>2, <2>3
  <1>9. TakesEffect(x.key)
    <2>1. e \in LedgerEntry
      <3>1. c.qty \in -MaxQuantity .. MaxQuantity /\ after \in Int
        BY <1>2, <1>6, AssetAssumption
      <3> HIDE DEF c, after
      <3> QED
        BY <1>2, <1>3, <3>1, EntryTyped DEF MainKey, EntryKind
    <2> HIDE DEF c, after
    <2> QED
      BY <1>0, <1>1, <1>2, <2>1, OneEntryTakesEffect
  <1>10. /\ [o \in Owners |-> [at \in 0 .. MaxClock |-> Left(o, at)]] = B
         /\ [o \in Owners |-> [at \in 0 .. MaxClock |-> Left(o, at)]]' = C
         /\ B \in [Owners -> [Instants -> Nat]] /\ C \in [Owners -> [Instants -> Nat]]
    BY <1>0, BooksOf
  <1> HIDE DEF B, C, c, x
  <1>11. C = [B EXCEPT ![c.owner] = Accounts!With(B[c.owner], c.qty, c.expiry)]
    <2>1. Arrives(B, C, c.owner, c.qty, c.expiry)
      BY <1>8 DEF Arrives
    <2>2. B \in [Owners -> [Instants -> Nat]] /\ C \in [Owners -> [Instants -> Nat]]
      BY <1>10
    <2>3. c.owner \in Owners /\ c.qty \in Nat /\ c.expiry \in Int
      BY <1>2, <1>6
    <2> QED
      BY <2>1, <2>2, <2>3, OneGains
  <1>12. Accounts!Grant(c.owner, c.qty, c.expiry)
    BY <1>10, <1>11 DEF Accounts!Grant
  <1>13. Accounts!Command(x.key)
    BY <1>2, <1>9, <1>12
       DEF Accounts!Command, Accounts!Quantity, Accounts!Expiries, Instant, Never, TakesEffect, Done
  <1> QED
    BY <1>2, <1>13 DEF x

\* A mutation gives what the row holds another expiry.
LEMMA MutateKeepsAccounts ==
    ASSUME IInv, IInv', NEW t \in Txs, Mutate(t)
    PROVE  txs[t].key \in Keys /\ Accounts!Command(txs[t].key)
  <1> DEFINE x == txs[t]
             i == x.cmd.row
             p == rows[i].owner
             v == rows[i].qty
             was == rows[i].expiry
             due == x.cmd.expiry
             e == Entry(MainKey(x.key), i, "mutate", 0, v)
             B == Books(rows)
             C == Books(rows')
  <1>0. Types /\ Types' /\ LocksHeld
    BY DEF IInv
  <1>1. /\ x.pc = "locked" /\ i \in x.locks /\ ~Recorded(MainKey(x.key))
        /\ book' = book \o <<e>> /\ rows' = [rows EXCEPT ![i].expiry = x.cmd.expiry]
    BY DEF Mutate, Commit
  <1>2. x.key \in Keys /\ x.cmd.expiry \in Instant /\ i \in Held
    <2>1. x \in OpenTx /\ x.cmd \in Command /\ LockedBy(t) = x.locks
      BY <1>0, <1>1, Opened
    <2>2. i \in Held
      <3> HIDE DEF x, i
      <3> QED
        BY <1>0, <1>1, <2>1 DEF LocksHeld
    <2> HIDE DEF x
    <2> QED
      BY <2>1, <2>2 DEF OpenTx, Command
  <1>3. /\ i \in RowId /\ rows[i] \in Row /\ rows[i] # NoRow
        /\ p \in Owners /\ v \in 1 .. MaxQuantity /\ v \in Nat /\ was \in Instant /\ was \in Int
    BY <1>0, <1>2, Stored, AssetAssumption DEF Held
  <1> HIDE DEF i
  <1>4. /\ rows'[i] # NoRow /\ rows'[i].owner = p /\ rows'[i].expiry = x.cmd.expiry
        /\ rows'[i].qty = v /\ \A j \in RowId : j # i => rows'[j] = rows[j]
    <2>1. rows'[i] = [rows[i] EXCEPT !.expiry = x.cmd.expiry]
      BY <1>0, <1>1, <1>3 DEF Types
    <2>2. rows'[i].owner = p /\ rows'[i].expiry = x.cmd.expiry /\ rows'[i].qty = v
      BY <1>3, <2>1 DEF Row
    <2>3. rows'[i] # NoRow
      <3> HIDE DEF v
      <3> QED
        BY <1>3, <2>2, AssetAssumption DEF NoRow
    <2> QED
      BY <1>0, <1>1, <1>3, <2>2, <2>3 DEF Types
  <1>5. rows \in Table /\ rows' \in Table
    BY <1>0 DEF Types, Table
  <1>6. due \in Int /\ due \in Instant
    BY <1>2 DEF Instant, Never
  <1>7. ASSUME NEW o \in Owners, NEW at \in Instants
        PROVE  C[o][at] = B[o][at] + (IF o = p /\ at < due THEN v ELSE 0)
                            - (IF o = p /\ at < was THEN v ELSE 0)
    <2> DEFINE a == Part(rows, at, o, i)
               b == Part(rows', at, o, i)
    <2>0. at \in Int
      BY DEF Instants
    <2>1. a = (IF o = p /\ at < was THEN v ELSE 0) /\ b = (IF o = p /\ at < due THEN v ELSE 0)
      BY <1>3, <1>4, <1>6, <2>0 DEF Part, Counts
    <2>2. Account(rows', at, o) = Account(rows, at, o) + (b - a)
      BY <1>3, <1>4, <1>5, OneRowChanges
    <2>3. B[o][at] = Account(rows, at, o) /\ C[o][at] = Account(rows', at, o) /\ B[o][at] \in Nat
      BY <1>0, BooksOf
    <2> HIDE DEF a, b, was, due, B, C, p, v
    <2> QED
      BY <1>3, <2>1, <2>2, <2>3
  <1>8. TakesEffect(x.key)
    <2>1. e \in LedgerEntry
      <3>1. 0 \in -MaxQuantity .. MaxQuantity /\ v \in Int
        BY <1>3, AssetAssumption
      <3> HIDE DEF v
      <3> QED
        BY <1>2, <1>3, <3>1, EntryTyped DEF MainKey, EntryKind
    <2> HIDE DEF v
    <2> QED
      BY <1>0, <1>1, <1>2, <2>1, OneEntryTakesEffect
  <1>9. /\ [o \in Owners |-> [at \in 0 .. MaxClock |-> Left(o, at)]] = B
        /\ [o \in Owners |-> [at \in 0 .. MaxClock |-> Left(o, at)]]' = C
        /\ B \in [Owners -> [Instants -> Nat]] /\ C \in [Owners -> [Instants -> Nat]]
    BY <1>0, BooksOf
  <1> HIDE DEF was, due, B, C, p, v, x
  <1>10. C = [B EXCEPT ![p] = Accounts!With(Accounts!Without(B[p], v, was), v, due)]
    <2>1. Passes(B, C, p, v, was, due)
      BY <1>7 DEF Passes
    <2>2. B \in [Owners -> [Instants -> Nat]] /\ C \in [Owners -> [Instants -> Nat]]
      BY <1>9
    <2>3. p \in Owners /\ v \in Nat /\ was \in Int /\ due \in Int
      BY <1>3, <1>6
    <2> QED
      BY <2>1, <2>2, <2>3, OnePasses
  <1>11. Accounts!Alter(p, v, was, due)
    BY <1>9, <1>10 DEF Accounts!Alter
  <1>12. Accounts!Command(x.key)
    BY <1>2, <1>3, <1>6, <1>8, <1>11
       DEF Accounts!Command, Accounts!Quantity, Accounts!Expiries, Instant, Never, TakesEffect, Done
  <1> QED
    BY <1>2, <1>12 DEF x

\* An expiry by hand takes what its row holds out of the account.
LEMMA ExpireKeepsAccounts ==
    ASSUME IInv, IInv', NEW t \in Txs, Expire(t)
    PROVE  txs[t].key \in Keys /\ Accounts!Command(txs[t].key)
  <1> DEFINE x == txs[t]
             i == x.cmd.row
             p == rows[i].owner
             v == rows[i].qty
             was == rows[i].expiry
             e == Entry(MainKey(x.key), i, "expire", -v, 0)
             B == Books(rows)
             C == Books(rows')
  <1>0. Types /\ Types' /\ LocksHeld
    BY DEF IInv
  <1>1. /\ x.pc = "locked" /\ i \in x.locks /\ ~Recorded(MainKey(x.key))
        /\ book' = book \o <<e>> /\ rows' = [rows EXCEPT ![i] = NoRow]
    BY DEF Expire, Commit
  <1>2. x.key \in Keys /\ i \in Held
    <2>1. x \in OpenTx /\ x.cmd \in Command /\ LockedBy(t) = x.locks
      BY <1>0, <1>1, Opened
    <2>2. i \in Held
      <3> HIDE DEF x, i
      <3> QED
        BY <1>0, <1>1, <2>1 DEF LocksHeld
    <2> HIDE DEF x
    <2> QED
      BY <2>1, <2>2 DEF OpenTx
  <1>3. /\ i \in RowId /\ rows[i] # NoRow
        /\ p \in Owners /\ v \in 1 .. MaxQuantity /\ v \in Nat /\ was \in Instant /\ was \in Int
    BY <1>0, <1>2, Stored, AssetAssumption DEF Held
  <1> HIDE DEF i
  <1>4. rows'[i] = NoRow /\ \A j \in RowId : j # i => rows'[j] = rows[j]
    BY <1>0, <1>1, <1>3 DEF Types
  <1>5. rows \in Table /\ rows' \in Table
    BY <1>0 DEF Types, Table
  <1>6. ASSUME NEW o \in Owners, NEW at \in Instants
        PROVE  C[o][at] = B[o][at] - (IF o = p /\ at < was THEN v ELSE 0)
    <2> DEFINE a == Part(rows, at, o, i)
               b == Part(rows', at, o, i)
    <2>0. at \in Int
      BY DEF Instants
    <2>1. a = (IF o = p /\ at < was THEN v ELSE 0) /\ b = 0
      BY <1>3, <1>4, <2>0 DEF Part, Counts
    <2>2. Account(rows', at, o) = Account(rows, at, o) + (b - a)
      BY <1>3, <1>4, <1>5, OneRowChanges
    <2>3. B[o][at] = Account(rows, at, o) /\ C[o][at] = Account(rows', at, o) /\ B[o][at] \in Nat
      BY <1>0, BooksOf
    <2> HIDE DEF a, b, was, B, C, p, v
    <2> QED
      BY <1>3, <2>1, <2>2, <2>3
  <1>7. TakesEffect(x.key)
    <2>1. e \in LedgerEntry
      <3>1. -v \in -MaxQuantity .. MaxQuantity /\ 0 \in Int
        BY <1>3, AssetAssumption
      <3> HIDE DEF v
      <3> QED
        BY <1>2, <1>3, <3>1, EntryTyped DEF MainKey, EntryKind
    <2> HIDE DEF v
    <2> QED
      BY <1>0, <1>1, <1>2, <2>1, OneEntryTakesEffect
  <1>8. /\ [o \in Owners |-> [at \in 0 .. MaxClock |-> Left(o, at)]] = B
        /\ [o \in Owners |-> [at \in 0 .. MaxClock |-> Left(o, at)]]' = C
        /\ B \in [Owners -> [Instants -> Nat]] /\ C \in [Owners -> [Instants -> Nat]]
    BY <1>0, BooksOf
  <1> HIDE DEF was, B, C, p, v, x
  <1>9. C = [B EXCEPT ![p] = Accounts!Without(B[p], v, was)]
    <2>1. Departs(B, C, p, v, was)
      BY <1>6 DEF Departs
    <2>2. B \in [Owners -> [Instants -> Nat]] /\ C \in [Owners -> [Instants -> Nat]]
      BY <1>8
    <2>3. p \in Owners /\ v \in Nat /\ was \in Int
      BY <1>3
    <2> QED
      BY <2>1, <2>2, <2>3, OneLoses
  <1>10. Accounts!Revoke(p, v, was)
    BY <1>8, <1>9 DEF Accounts!Revoke
  <1>11. Accounts!Command(x.key)
    BY <1>2, <1>3, <1>7, <1>10
       DEF Accounts!Command, Accounts!Quantity, Accounts!Expiries, Instant, Never, TakesEffect, Done
  <1> QED
    BY <1>2, <1>11 DEF x

\* The account of one owner grows row by row, and nothing else changes.
Filling(r, s, at, p, k, m, d) ==
    /\ \A n \in 1 .. k : m[n] \in RowId /\ d[n] \in Int
    /\ \A l, n \in 1 .. k : m[l] = m[n] => l = n
    /\ \A n \in 1 .. k : \A o \in Owners :
         Part(s, at, o, m[n]) = Part(r, at, o, m[n]) + (IF o = p THEN d[n] ELSE 0)
    /\ \A i \in RowId : (\A n \in 1 .. k : m[n] # i) => s[i] = r[i]

\* The account of one owner is larger by an amount in the second table.
Raises(r, s, at, p, q) ==
    \A o \in Owners : Account(s, at, o) = Account(r, at, o) + (IF o = p THEN q ELSE 0)

\* It grows by as much as its rows.
LEMMA OwnerFills ==
    ASSUME NEW r \in Table, NEW s \in Table, NEW at, NEW p \in Owners,
           NEW k \in Nat, NEW m, NEW d, Filling(r, s, at, p, k, m, d)
    PROVE  Raises(r, s, at, p, SumFunctionOnSet(d, 1 .. k))
  <1>1. ASSUME NEW i \in RowId, \A n \in 1 .. k : m[n] # i, NEW o \in Owners
        PROVE  Part(s, at, o, i) = Part(r, at, o, i)
    <2>1. s[i] = r[i]
      BY <1>1 DEF Filling
    <2> QED
      BY <2>1 DEF Part, Counts
  <1>2. Account(s, at, p) = Account(r, at, p) + SumFunctionOnSet(d, 1 .. k)
    <2>1. Rising(r, s, at, p, k, m, d)
      BY <1>1 DEF Filling, Rising
    <2> QED
      BY <2>1, RowsGrow
  <1>3. ASSUME NEW o \in Owners, o # p
        PROVE  Account(s, at, o) = Account(r, at, o)
    <2>1. ASSUME NEW i \in RowId
          PROVE  Part(s, at, o, i) = Part(r, at, o, i)
      <3>1. CASE \E n \in 1 .. k : m[n] = i
        <4>1. Part(s, at, o, i) = Part(r, at, o, i) + 0
          BY <1>3, <3>1 DEF Filling
        <4>2. Part(r, at, o, i) \in Int
          BY PartsTyped
        <4> QED
          BY <4>1, <4>2
      <3>2. CASE \A n \in 1 .. k : m[n] # i
        BY <1>1, <3>2
      <3> QED
        BY <3>1, <3>2
    <2> QED
      BY <2>1, NoRowChanges
  <1>4. ASSUME NEW o \in Owners
        PROVE  Account(s, at, o)
                 = Account(r, at, o) + (IF o = p THEN SumFunctionOnSet(d, 1 .. k) ELSE 0)
    <2>1. CASE o = p
      BY <1>2, <2>1
    <2>2. CASE o # p
      <3>1. Account(r, at, o) \in Nat
        BY AccountSum
      <3> QED
        BY <1>3, <2>2, <3>1
    <2> QED
      BY <2>1, <2>2
  <1> QED
    BY <1>4 DEF Raises

\* How much of what is taken expires after an instant.
Share(takes, at, n) == IF rows[takes[n].row].expiry > at THEN takes[n].qty ELSE 0
SharesOf(takes, at) == [n \in 1 .. Len(takes) |-> Share(takes, at, n)]
Sent(takes, at) == SumFunctionOnSet(SharesOf(takes, at), 1 .. Len(takes))

\* All of it expires after the instant live rows are told by, and the later, the
\* less.
LEMMA SentBounds ==
    ASSUME Types, LocksHeld, NEW t \in Txs, txs[t].pc # "idle", NEW p \in Owners,
           NEW v \in 1 .. MaxQuantity, v <= Total(LiveRows(t, p)),
           Judged(t) \in Int
    PROVE  LET takes == Takes(t, p, v)
           IN  /\ \A at \in Instants : Sent(takes, at) \in 0 .. v
               /\ \A at \in Instants : at <= Judged(t) => Sent(takes, at) = v
               /\ \A at, then \in Instants : at <= then => Sent(takes, then) <= Sent(takes, at)
  <1> DEFINE takes == Takes(t, p, v)
             k == Len(takes)
             all == [n \in 1 .. k |-> takes[n].qty]
             of(at) == SharesOf(takes, at)
             due(n) == rows[takes[n].row].expiry
  <1>1. Shares(takes, LiveRows(t, p), v)
    BY TakesFromLive
  <1>2. SumFunctionOnSet(all, 1 .. k) = v
    BY TakesAddUp, Zenon
  <1> HIDE DEF takes
  <1>3. /\ k \in Nat
        /\ \A n \in 1 .. k : takes[n].row \in LiveRows(t, p) /\ takes[n].qty \in 1 .. v
    BY <1>1 DEF Shares
  <1>4. IsFiniteSet(1 .. k) /\ v \in Nat /\ \A at \in Instants : at \in Int
    BY <1>3, FS_Interval, AssetAssumption DEF Instants
  <1>5. ASSUME NEW n \in 1 .. k
        PROVE  due(n) \in Int /\ due(n) > Judged(t)
    <2>1. takes[n].row \in Held
      BY <1>3, Live
    <2> QED
      BY <1>3, <2>1, Stored DEF LiveRows
  <1>6. ASSUME NEW n \in 1 .. k, NEW at \in Instants
        PROVE  /\ all[n] = takes[n].qty /\ all[n] \in Nat
               /\ of(at)[n] = (IF due(n) > at THEN all[n] ELSE 0) /\ of(at)[n] \in Nat
    <2>1. takes[n].qty \in Nat
      BY <1>3, <1>4
    <2> QED
      BY <2>1 DEF SharesOf, Share
  <1> HIDE DEF all, of, k, due
  <1>7. ASSUME NEW at \in Instants
        PROVE  SumFunctionOnSet(of(at), 1 .. k) \in 0 .. v
    <2>1. \A n \in 1 .. k : of(at)[n] \in Nat /\ all[n] \in Nat /\ of(at)[n] <= all[n]
      BY <1>6
    <2>2. SumFunctionOnSet(of(at), 1 .. k) <= v /\ SumFunctionOnSet(of(at), 1 .. k) \in Nat
      BY <1>2, <1>4, <2>1, SumAtMost, SumNat
    <2> QED
      BY <1>4, <2>2
  <1>8. ASSUME NEW at \in Instants, at <= Judged(t)
        PROVE  SumFunctionOnSet(of(at), 1 .. k) = v
    <2>1. ASSUME NEW n \in 1 .. k PROVE of(at)[n] = all[n] /\ of(at)[n] \in Int
      <3>1. due(n) > at
        BY <1>4, <1>5, <1>8
      <3> QED
        BY <1>6, <3>1
    <2>2. SumFunctionOnSet(of(at), 1 .. k) = SumFunctionOnSet(all, 1 .. k)
      BY <1>4, <2>1, SumSame
    <2> QED
      BY <1>2, <2>2
  <1>9. ASSUME NEW at \in Instants, NEW then \in Instants, at <= then
        PROVE  SumFunctionOnSet(of(then), 1 .. k) <= SumFunctionOnSet(of(at), 1 .. k)
    <2>1. ASSUME NEW n \in 1 .. k
          PROVE  of(then)[n] \in Nat /\ of(at)[n] \in Nat /\ of(then)[n] <= of(at)[n]
      <3>1. due(n) > then => due(n) > at
        BY <1>4, <1>5, <1>9
      <3> QED
        BY <1>6, <3>1
    <2> QED
      BY <1>4, <2>1, SumAtMost
  <1>10. \A at : Sent(takes, at) = SumFunctionOnSet(of(at), 1 .. k)
    BY DEF Sent, of, k
  <1> QED
    BY <1>7, <1>8, <1>9, <1>10 DEF takes

\* What is taken leaves the account of its owner, and no other.
LEMMA TakenAccounts ==
    ASSUME Types, LocksHeld, NEW t \in Txs, txs[t].pc # "idle", NEW p \in Owners,
           NEW v \in 1 .. MaxQuantity, NEW at \in Instants
    PROVE  /\ Taken(Takes(t, p, v)) \in Table
           /\ \A o \in Owners :
                Account(Taken(Takes(t, p, v)), at, o)
                  = Account(rows, at, o) - (IF o = p THEN Sent(Takes(t, p, v), at) ELSE 0)
  <1> DEFINE takes == Takes(t, p, v)
             k == Len(takes)
             T == Taken(takes)
             given == SharesOf(takes, at)
             from == [n \in 1 .. k |-> takes[n].row]
  <1>1. Shares(takes, LiveRows(t, p), v)
    BY TakesFromLive
  <1>2. SumFunctionOnSet(given, 1 .. k) = Sent(takes, at)
    BY Zenon DEF Sent
  <1> HIDE DEF takes
  <1>3. /\ k \in Nat /\ DOMAIN takes = 1 .. k
        /\ \A n \in 1 .. k : /\ takes[n].row \in LiveRows(t, p) /\ takes[n].qty \in 1 .. v
                             /\ takes[n].qty <= rows[takes[n].row].qty
        /\ \A m, n \in 1 .. k : takes[m].row = takes[n].row => m = n
    BY <1>1 DEF Shares
  <1>4. ASSUME NEW i \in LiveRows(t, p)
        PROVE  i \in RowId /\ rows[i] \in Row /\ rows[i] # NoRow /\ rows[i].owner = p
    <2>1. i \in Held
      BY Live
    <2> QED
      BY <2>1, Stored DEF LiveRows, Held
  <1>5. \A n \in 1 .. k : given[n] = Share(takes, at, n)
    BY DEF SharesOf
  <1> HIDE DEF k, given
  <1>6. /\ T \in [RowId -> Row \cup {NoRow}]
        /\ \A n \in 1 .. k :
             LET i == takes[n].row IN
             /\ T[i].qty = rows[i].qty - takes[n].qty
             /\ T[i] = NoRow \/ (T[i].owner = rows[i].owner /\ T[i].expiry = rows[i].expiry)
        /\ \A i \in RowId : (\A n \in 1 .. k : takes[n].row # i) => T[i] = rows[i]
    <2>1. \A n \in 1 .. k : /\ takes[n].row \in RowId /\ takes[n].qty \in Nat
                             /\ rows[takes[n].row] \in Row
                             /\ takes[n].qty <= rows[takes[n].row].qty
      BY <1>3, <1>4
    <2> HIDE DEF T
    <2> QED
      BY <1>3, <2>1, TakenRows DEF T
  <1> HIDE DEF T
  <1>7. rows \in Table /\ T \in Table
    BY <1>6 DEF Types, Table
  <1>8. ASSUME NEW n \in 1 .. k, NEW o \in Owners
        PROVE  /\ Part(rows, at, o, from[n])
                    = Part(T, at, o, from[n]) + (IF o = p THEN given[n] ELSE 0)
               /\ given[n] \in Int
    <2> DEFINE i == takes[n].row
               d == takes[n].qty
    <2>1. i \in RowId /\ rows[i] # NoRow /\ rows[i].owner = p /\ d \in Int
      BY <1>3, <1>4
    <2>2. /\ T[i].qty = rows[i].qty - d
          /\ T[i] = NoRow \/ (T[i] # NoRow /\ T[i].owner = p /\ T[i].expiry = rows[i].expiry)
      BY <1>6, <2>1
    <2>3. rows[i].qty \in Int
      BY <2>1, Quantities, AssetAssumption
    <2>4. from[n] = i /\ given[n] = IF rows[i].expiry > at THEN d ELSE 0
      BY <1>5 DEF Share
    <2> DEFINE late == rows[i].expiry > at
    <2> HIDE DEF i, d, from
    <2>5. Part(rows, at, o, i) = IF o = p /\ late THEN rows[i].qty ELSE 0
      BY <2>1 DEF Part, Counts
    <2>6. Part(T, at, o, i) = IF o = p /\ late THEN rows[i].qty - d ELSE 0
      <3>1. CASE T[i] = NoRow
        <4>1. rows[i].qty - d = 0
          BY <2>2, <3>1 DEF NoRow
        <4> QED
          BY <3>1, <4>1 DEF Part, Counts
      <3>2. CASE T[i] # NoRow
        BY <2>2, <3>2 DEF Part, Counts
      <3> QED
        BY <3>1, <3>2
    <2>7. given[n] = IF late THEN d ELSE 0
      BY <2>4
    <2> HIDE DEF late
    <2> QED
      BY <2>1, <2>3, <2>4, <2>5, <2>6, <2>7
  <1>9. \A o \in Owners :
          Account(rows, at, o) = Account(T, at, o) + (IF o = p THEN Sent(takes, at) ELSE 0)
    <2>1. \A n \in 1 .. k : from[n] \in RowId /\ given[n] \in Int
      BY <1>3, <1>4, <1>8
    <2>2. \A l, n \in 1 .. k : from[l] = from[n] => l = n
      BY <1>3
    <2>3. \A i \in RowId : (\A n \in 1 .. k : from[n] # i) => rows[i] = T[i]
      BY <1>6
    <2> HIDE DEF from
    <2>4. Filling(T, rows, at, p, k, from, given)
      BY <1>8, <2>1, <2>2, <2>3 DEF Filling
    <2>5. k \in Nat
      BY <1>3
    <2>6. Raises(T, rows, at, p, SumFunctionOnSet(given, 1 .. k))
      BY <1>7, <2>4, <2>5, OwnerFills
    <2>7. Raises(T, rows, at, p, Sent(takes, at))
      BY <1>2, <2>6
    <2> QED
      BY <2>7 DEF Raises
  <1>10. Sent(takes, at) \in Int
    <2>1. IsFiniteSet(1 .. k) /\ \A n \in 1 .. k : given[n] \in Int
      BY <1>3, <1>8, FS_Interval
    <2> QED
      BY <1>2, <2>1, SumType
  <1>11. ASSUME NEW o \in Owners
         PROVE  Account(T, at, o)
                  = Account(rows, at, o) - (IF o = p THEN Sent(takes, at) ELSE 0)
    <2>1. Account(T, at, o) \in Nat /\ Account(rows, at, o) \in Nat
      BY <1>7, AccountSum
    <2> QED
      BY <1>9, <1>10, <2>1
  <1> QED
    BY <1>7, <1>11 DEF T, takes

\* The entries of what is taken have the key of the command in front, and keys
\* derived from it.
LEMMA TakenKeys ==
    ASSUME NEW key \in Keys, NEW kind \in {"consume", "out"}, NEW takes, NEW n \in DOMAIN takes,
           NEW k \in Keys
    PROVE  TakeEntries(key, kind, takes)[n].key = MainKey(k) <=> n = 1 /\ k = key
  <1>1. TakeEntries(key, kind, takes)[n].key = DerivedKey(key, kind, n)
    BY DEF TakeEntries, Entry
  <1>2. DerivedKey(key, kind, n) = MainKey(k) <=> n = 1 /\ k = key
    BY DEF DerivedKey, MainKey
  <1> QED
    BY <1>1, <1>2

\* A consumption takes exactly its quantity of what has not expired.
LEMMA ConsumeKeepsAccounts ==
    ASSUME IInv, IInv', NEW t \in Txs, Consume(t)
    PROVE  txs[t].key \in Keys /\ Accounts!Command(txs[t].key)
  <1> DEFINE x == txs[t]
             c == x.cmd
             p == c.owner
             v == c.qty
             takes == Takes(t, p, v)
             k == Len(takes)
             es == TakeEntries(x.key, "consume", takes)
             B == Books(rows)
             C == Books(rows')
             gone(at) == Sent(takes, at)
  <1>0. Types /\ Types' /\ LocksHeld
    BY DEF IInv
  <1>1. /\ x.pc = "locked" /\ v <= Total(LiveRows(t, p)) /\ ~Recorded(MainKey(x.key))
        /\ book' = book \o es /\ rows' = Taken(takes) /\ Judged(t) = clock
    BY DEF Consume, Commit, Judged
  <1>2. x.key \in Keys /\ p \in Owners /\ v \in 1 .. MaxQuantity /\ v \in Nat
    <2>1. x.key \in Keys /\ p \in Owners /\ v \in 1 .. MaxQuantity
      BY <1>0, <1>1, Opened DEF OpenTx, Command
    <2> HIDE DEF v
    <2> QED
      BY <2>1, AssetAssumption
  <1> HIDE DEF p, v, c
  <1>3. x.pc # "idle" /\ clock \in Int
    BY <1>0, <1>1 DEF Types
  <1>4. ASSUME NEW o \in Owners, NEW at \in Instants
        PROVE  C[o][at] = B[o][at] - (IF o = p THEN gone(at) ELSE 0) /\ B[o][at] \in Nat
    <2>1. Account(Taken(takes), at, o)
            = Account(rows, at, o) - (IF o = p THEN gone(at) ELSE 0)
      BY <1>0, <1>2, <1>3, TakenAccounts
    <2>2. /\ B[o][at] = Account(rows, at, o) /\ C[o][at] = Account(rows', at, o)
          /\ B[o][at] \in Nat
      BY <1>0, BooksOf
    <2> HIDE DEF B, C, takes, gone
    <2> QED
      BY <1>1, <2>1, <2>2
  <1>5. /\ \A at \in Instants : gone(at) \in 0 .. v
        /\ \A at \in Instants : at <= clock => gone(at) = v
        /\ \A at, then \in Instants : at <= then => gone(then) <= gone(at)
    BY <1>0, <1>1, <1>2, <1>3, SentBounds
  <1>6. Shares(takes, LiveRows(t, p), v) /\ k >= 1
    BY <1>0, <1>1, <1>2, <1>3, TakesFromLive, TakesAddUp
  <1> HIDE DEF takes, gone
  <1>7. /\ k \in Nat /\ DOMAIN takes = 1 .. k
        /\ \A n \in 1 .. k : takes[n].row \in RowId /\ takes[n].qty \in 1 .. MaxQuantity
    <2>1. \A i \in LiveRows(t, p) : i \in RowId
      BY <1>0, <1>3, Live
    <2> QED
      BY <1>2, <1>6, <2>1, AssetAssumption DEF Shares
  <1>8. TakesEffect(x.key)
    <2>1. es \in Seq(LedgerEntry) /\ DOMAIN es = 1 .. k
      <3>1. k \in Nat
        BY <1>7
      <3>2. DOMAIN takes = 1 .. k
        BY <1>7
      <3>3. \A n \in 1 .. k : takes[n].row \in RowId /\ takes[n].qty \in 1 .. MaxQuantity
        BY <1>7
      <3>4. x.key \in Keys
        BY <1>2
      <3> HIDE DEF x, k
      <3> QED
        BY <1>0, <3>1, <3>2, <3>3, <3>4, TakeEntriesTyped
    <2>2. ASSUME NEW key \in Keys
          PROVE  (\E n \in DOMAIN es : es[n].key = MainKey(key)) <=> key = x.key
      <3>1. \A n \in 1 .. k : es[n].key = MainKey(key) <=> n = 1 /\ key = x.key
        <4> HIDE DEF x, k
        <4> QED
          BY <1>2, <1>7, TakenKeys
      <3>2. 1 \in 1 .. k
        BY <1>6, <1>7
      <3> HIDE DEF es, k, x
      <3> QED
        BY <2>1, <3>1, <3>2
    <2> HIDE DEF es
    <2> QED
      BY <1>0, <1>1, <1>2, <2>1, <2>2, KeyTakesEffect
  <1>9. /\ [o \in Owners |-> [at \in 0 .. MaxClock |-> Left(o, at)]] = B
        /\ [o \in Owners |-> [at \in 0 .. MaxClock |-> Left(o, at)]]' = C
        /\ B \in [Owners -> [Instants -> Nat]] /\ C \in [Owners -> [Instants -> Nat]]
    BY <1>0, BooksOf
  <1> HIDE DEF B, C, x
  <1>10. \A at \in Instants : B[p][at] - C[p][at] = gone(at)
    <2> SUFFICES ASSUME NEW at \in Instants PROVE B[p][at] - C[p][at] = gone(at)
      OBVIOUS
    <2>1. C[p][at] = B[p][at] - gone(at) /\ B[p][at] \in Nat /\ gone(at) \in Int
      BY <1>2, <1>4, <1>5
    <2> QED
      BY <2>1
  <1>11. Accounts!Leaves(p, v, clock)
    BY <1>5, <1>9, <1>10 DEF Accounts!Leaves, Accounts!Gone, Accounts!Instants, Instants
  <1>12. ASSUME NEW o \in Owners \ {p} PROVE C[o] = B[o]
    <2>1. \A at \in Instants : C[o][at] = B[o][at]
      BY <1>4
    <2> QED
      BY <1>9, <2>1
  <1>13. Accounts!Consume(p, v)
    BY <1>9, <1>11, <1>12 DEF Accounts!Consume
  <1>14. Accounts!Command(x.key)
    BY <1>2, <1>8, <1>13 DEF Accounts!Command, Accounts!Quantity, TakesEffect, Done
  <1> QED
    BY <1>2, <1>14 DEF x

\* What a transfer takes from one owner arrives at the other.
LEMMA TransferMoves ==
    ASSUME IInv, IInv', NEW t \in Txs, Transfer(t)
    PROVE  LET c == txs[t].cmd
               B == Books(rows)
               C == Books(rows')
               gone(at) == Sent(Takes(t, c.owner, c.qty), at)
           IN  /\ txs[t].key \in Keys /\ c.owner \in Owners /\ c.to \in Owners /\ c.owner # c.to
               /\ c.qty \in 1 .. MaxQuantity /\ Judged(t) \in Instants
               /\ Judged(t) \in Begun[txs[t].key]
               /\ \A at \in Instants : gone(at) \in 0 .. c.qty
               /\ \A at \in Instants : at <= Judged(t) => gone(at) = c.qty
               /\ \A at, then \in Instants : at <= then => gone(then) <= gone(at)
               /\ \A u \in Owners, at \in Instants :
                    C[u][at] = B[u][at] - (IF u = c.owner THEN gone(at) ELSE 0)
                                 + (IF u = c.to THEN gone(at) ELSE 0)
  <1> DEFINE x == txs[t]
             c == x.cmd
             o == c.owner
             p == c.to
             v == c.qty
             takes == Takes(t, c.owner, c.qty)
             k == Len(takes)
             moves == Moves(t, c, takes)
             taken == Taken(takes)
             at(i) == CHOOSE n \in DOMAIN moves : moves[n].row = i
             arrived(n) == [owner |-> c.to, expiry |-> moves[n].expiry,
                            qty |-> rows[moves[n].row].qty + moves[n].qty]
             into == [n \in 1 .. k |-> moves[n].row]
             B == Books(rows)
             C == Books(rows')
  <1>0. Types /\ Types' /\ NoClash /\ OnRecord /\ LocksHeld /\ LegalCommands
    BY DEF IInv
  <1>1. /\ x.pc = "locked" /\ c.verb = "transfer" /\ MayReceive(t, c.to, c.qty)
        /\ c.qty <= Total(LiveRows(t, c.owner))
        /\ Cardinality(FreshIds) >= k
        /\ rows' = [i \in RowId |-> IF \E n \in DOMAIN moves : moves[n].row = i
                                    THEN arrived(at(i)) ELSE taken[i]]
    BY Zenon DEF Transfer, Commit
  <1>2. /\ x.key \in Keys /\ c \in Command /\ c.owner # c.to /\ c.to \in Owners
        /\ c.owner \in Owners /\ c.qty \in 1 .. MaxQuantity
        /\ Judged(t) \in Instants /\ Judged(t) \in Begun[x.key]
    <2>1. x \in OpenTx /\ c \in Command /\ x # Idle
      BY <1>0, <1>1, Opened
    <2>2. Valid(c)
      BY <1>0, <2>1 DEF LegalCommands
    <2>3. Judged(t) = x.now
      BY <1>1 DEF Judged
    <2>4. x.key \in Keys => x.now \in Begun[x.key]
      BY <1>1 DEF Begun, Transferring
    <2> HIDE DEF c, x
    <2>5. c.owner # c.to
      BY <1>1, <2>2 DEF Valid
    <2>6. x.key \in Keys /\ (x.cmd.verb = "transfer" => x.now \in Instants)
      BY <2>1 DEF OpenTx, Instants
    <2>7. x.now \in Instants
      BY <1>1, <2>6 DEF c
    <2> QED
      BY <2>1, <2>3, <2>4, <2>5, <2>6, <2>7 DEF Command
  <1>3. Shares(takes, LiveRows(t, c.owner), c.qty)
    <2>1. txs[t].pc # "idle" /\ c.qty \in 1 .. MaxQuantity
      BY <1>1, <1>2
    <2> HIDE DEF c
    <2> QED
      BY <1>0, <2>1, TakesFromLive
  <1>4. /\ \A s \in Instants : Sent(takes, s) \in 0 .. v
        /\ \A s \in Instants : s <= Judged(t) => Sent(takes, s) = v
        /\ \A s, then \in Instants : s <= then => Sent(takes, then) <= Sent(takes, s)
    <2>1. x.pc # "idle"
      BY <1>1
    <2>0. Judged(t) \in Int
      <3>1. Judged(t) \in Instants
        BY <1>2
      <3> HIDE DEF c, x
      <3> QED
        BY <3>1, AssetAssumption DEF Instants
    <2>2. c.owner \in Owners /\ c.qty \in 1 .. MaxQuantity /\ c.qty <= Total(LiveRows(t, c.owner))
      BY <1>1, <1>2
    <2> HIDE DEF c
    <2> QED
      BY <1>0, <2>0, <2>1, <2>2, SentBounds DEF v
  <1>5. ASSUME NEW s \in Instants
        PROVE  /\ taken \in Table
               /\ \A u \in Owners :
                    Account(taken, s, u)
                      = Account(rows, s, u) - (IF u = o THEN Sent(takes, s) ELSE 0)
    <2>1. x.pc # "idle"
      BY <1>1
    <2>2. c.owner \in Owners /\ c.qty \in 1 .. MaxQuantity
      BY <1>2
    <2> HIDE DEF c
    <2> QED
      BY <1>0, <2>1, <2>2, TakenAccounts
  <1> HIDE DEF takes
  <1>6. /\ k \in Nat /\ DOMAIN takes = 1 .. k
        /\ \A n \in 1 .. k : takes[n].row \in LiveRows(t, c.owner) /\ takes[n].qty \in 1 .. c.qty
    <2> HIDE DEF c
    <2> QED
      BY <1>3 DEF Shares
  <1>7. /\ DOMAIN moves = 1 .. k
        /\ \A n \in 1 .. k :
             /\ moves[n].row \in RowId /\ moves[n].qty = takes[n].qty
             /\ \/ rows[moves[n].row] = NoRow
                \/ /\ moves[n].row \in LiveRows(t, c.to)
                   /\ rows[moves[n].row].expiry = moves[n].expiry
             /\ moves[n].expiry = rows[takes[n].row].expiry
             /\ \A m \in 1 .. k : moves[n].row # takes[m].row
        /\ \A m, n \in 1 .. k : moves[m].row = moves[n].row => m = n
    <2>1. txs[t].pc # "idle"
      BY <1>1
    <2> HIDE DEF c, x
    <2> QED
      BY <1>0, <1>1, <1>2, <1>3, <2>1, MovesApart
  <1>8. \A i \in RowId : (\A n \in 1 .. k : takes[n].row # i) => taken[i] = rows[i]
    BY <1>6 DEF Taken
  <1>9. \A i \in LiveRows(t, p) : rows[i].owner = p /\ rows[i] # NoRow
    <2>1. \A i \in LiveRows(t, p) : i \in Held
      <3>1. txs[t].pc # "idle"
        BY <1>1
      <3> HIDE DEF p
      <3> QED
        BY <1>0, <3>1, Live
    <2> QED
      BY <2>1 DEF LiveRows, Held
  <1> HIDE DEF moves, k, taken
  <1>10. rows' \in Table /\ rows \in Table
    BY <1>0 DEF Types, Table
  <1> DEFINE due(n) == rows[takes[n].row].expiry
             amount(n) == takes[n].qty
  <1>11. ASSUME NEW n \in 1 .. k
         PROVE  /\ into[n] \in RowId /\ amount(n) \in Nat
                /\ taken[into[n]] = rows[into[n]]
                /\ rows[into[n]] = NoRow \/ (/\ rows[into[n]] # NoRow /\ rows[into[n]].owner = p
                                             /\ rows[into[n]].expiry = due(n))
                /\ rows'[into[n]] # NoRow /\ rows'[into[n]].owner = p
                /\ rows'[into[n]].expiry = due(n)
                /\ rows'[into[n]].qty = rows[into[n]].qty + amount(n)
    <2>1. at(moves[n].row) = n
      BY <1>7
    <2>2. rows'[moves[n].row] = arrived(n)
      BY <1>1, <1>7, <2>1
    <2>3. amount(n) \in Nat /\ amount(n) >= 1 /\ into[n] = moves[n].row
      <3>1. v \in Nat
        BY <1>2, AssetAssumption
      <3> HIDE DEF v
      <3>2. takes[n].qty \in 1 .. v
        BY <1>6 DEF v
      <3> QED
        BY <3>1, <3>2
    <2>4. rows[into[n]].qty \in Nat /\ into[n] \in RowId
      BY <1>7, <1>10, <2>3, PartsTyped
    <2>5. /\ arrived(n).owner = p /\ arrived(n).expiry = due(n)
          /\ arrived(n).qty = rows[into[n]].qty + amount(n)
      BY <1>7, <2>3
    <2>6. taken[into[n]] = rows[into[n]]
      BY <1>7, <1>8, <2>3
    <2>7. rows[into[n]] = NoRow \/ (/\ rows[into[n]] # NoRow /\ rows[into[n]].owner = p
                                    /\ rows[into[n]].expiry = due(n))
      BY <1>7, <1>9, <2>3
    <2> HIDE DEF arrived, into, due, amount
    <2>8. arrived(n) # NoRow
      BY <2>3, <2>4, <2>5 DEF NoRow
    <2> QED
      BY <2>2, <2>3, <2>4, <2>5, <2>6, <2>7, <2>8
  <1>12. \A l, n \in 1 .. k : into[l] = into[n] => l = n
    BY <1>7
  <1>13. \A i \in RowId : (\A n \in 1 .. k : into[n] # i) => rows'[i] = taken[i]
    <2> SUFFICES ASSUME NEW i \in RowId, \A n \in 1 .. k : into[n] # i
                 PROVE  rows'[i] = taken[i]
      OBVIOUS
    <2>1. \A n \in 1 .. k : moves[n].row # i
      OBVIOUS
    <2> QED
      BY <1>1, <1>7, <2>1
  <1>14. k \in Nat
    BY <1>6
  <1> HIDE DEF into
  <1>15. ASSUME NEW s \in Instants
         PROVE  Filling(taken, rows', s, p, k, into, SharesOf(takes, s))
    <2> DEFINE given == SharesOf(takes, s)
    <2>1. ASSUME NEW n \in 1 .. k
          PROVE  given[n] = (IF due(n) > s THEN amount(n) ELSE 0) /\ given[n] \in Int
      <3>1. given[n] = IF due(n) > s THEN amount(n) ELSE 0
        BY DEF SharesOf, Share, k
      <3>2. amount(n) \in Nat
        BY <1>11
      <3> HIDE DEF given, due, amount
      <3> QED
        BY <3>1, <3>2
    <2>2. ASSUME NEW n \in 1 .. k, NEW u \in Owners
          PROVE  Part(rows', s, u, into[n])
                   = Part(taken, s, u, into[n]) + (IF u = p THEN given[n] ELSE 0)
      <3> DEFINE i == into[n]
                 late == due(n) > s
      <3>1. Part(rows', s, u, i) = IF u = p /\ late THEN rows[i].qty + amount(n) ELSE 0
        BY <1>11 DEF Part, Counts
      <3>2. Part(taken, s, u, i) = IF u = p /\ late THEN rows[i].qty ELSE 0
        <4>1. CASE rows[i] = NoRow
          BY <1>11, <4>1 DEF Part, Counts, NoRow
        <4>2. CASE rows[i] # NoRow
          BY <1>11, <4>2 DEF Part, Counts
        <4> QED
          BY <4>1, <4>2
      <3>3. amount(n) \in Nat /\ rows[i].qty \in Nat
        BY <1>10, <1>11, PartsTyped
      <3>4. given[n] = IF late THEN amount(n) ELSE 0
        BY <2>1
      <3> HIDE DEF i, late, amount, given
      <3> QED
        BY <3>1, <3>2, <3>3, <3>4 DEF i
    <2>3. \A n \in 1 .. k : into[n] \in RowId /\ given[n] \in Int
      BY <1>11, <2>1
    <2> HIDE DEF given
    <2>4. Filling(taken, rows', s, p, k, into, given)
      BY <1>12, <1>13, <2>2, <2>3 DEF Filling
    <2> QED
      BY <2>4 DEF given
  <1>16. ASSUME NEW s \in Instants, NEW u \in Owners
         PROVE  Account(rows', s, u)
                  = Account(taken, s, u) + (IF u = p THEN Sent(takes, s) ELSE 0)
    <2>1. taken \in Table /\ p \in Owners /\ Sent(takes, s) = SumFunctionOnSet(SharesOf(takes, s), 1 .. k)
      BY <1>2, <1>5 DEF Sent, k
    <2>2. Filling(taken, rows', s, p, k, into, SharesOf(takes, s))
      BY <1>15
    <2> HIDE DEF p
    <2> DEFINE given == SharesOf(takes, s)
    <2>3. Sent(takes, s) = SumFunctionOnSet(given, 1 .. k) /\ Filling(taken, rows', s, p, k, into, given)
      BY <2>1, <2>2
    <2> HIDE DEF given
    <2>4. Raises(taken, rows', s, p, SumFunctionOnSet(given, 1 .. k))
      BY <1>10, <1>14, <2>1, <2>3, OwnerFills
    <2>5. Raises(taken, rows', s, p, Sent(takes, s))
      BY <2>3, <2>4
    <2> QED
      BY <2>5 DEF Raises
  <1> HIDE DEF o, p, v, B, C
  <1>17. ASSUME NEW u \in Owners, NEW s \in Instants
         PROVE  C[u][s] = B[u][s] - (IF u = o THEN Sent(takes, s) ELSE 0)
                            + (IF u = p THEN Sent(takes, s) ELSE 0)
    <2>1. B[u][s] = Account(rows, s, u) /\ C[u][s] = Account(rows', s, u)
      BY <1>0, BooksOf DEF B, C
    <2> QED
      BY <1>5, <1>16, <2>1
  <1> QED
    BY <1>2, <1>4, <1>17 DEF o, p, v, B, C, takes

\* Its entries bring the key of the command on record, and no other command's.
LEMMA TransferTakesEffect ==
    ASSUME IInv, NEW t \in Txs, Transfer(t)
    PROVE  TakesEffect(txs[t].key)
  <1> DEFINE x == txs[t]
             c == x.cmd
             takes == Takes(t, c.owner, c.qty)
             k == Len(takes)
             moves == Moves(t, c, takes)
             after(n) == rows[moves[n].row].qty + moves[n].qty
             out == TakeEntries(x.key, "out", takes)
             arrival(n) == Entry(<<x.key, "in", k + n - 1>>, moves[n].row, "in",
                                 moves[n].qty, after(n))
             in == [n \in DOMAIN moves |-> arrival(n)]
             es == out \o in
  <1>0. Types /\ NoClash /\ OnRecord /\ LocksHeld /\ LegalCommands
    BY DEF IInv
  <1>1. /\ x.pc = "locked" /\ MayReceive(t, c.to, c.qty) /\ c.verb = "transfer"
        /\ c.qty <= Total(LiveRows(t, c.owner)) /\ Cardinality(FreshIds) >= k
        /\ ~Recorded(MainKey(x.key)) /\ book' = book \o es
    BY Zenon DEF Transfer, Commit
  <1>2. /\ x.key \in Keys /\ c \in Command /\ c.owner # c.to
        /\ c.qty \in 1 .. MaxQuantity
    <2>1. x \in OpenTx /\ c \in Command /\ x # Idle
      BY <1>0, <1>1, Opened
    <2>2. Valid(c)
      BY <1>0, <2>1 DEF LegalCommands
    <2> HIDE DEF c, x
    <2>3. c.owner # c.to
      BY <1>1, <2>2 DEF Valid
    <2> QED
      BY <2>1, <2>3 DEF OpenTx, Command
  <1>3. txs[t].pc # "idle"
    BY <1>1
  <1>4. Shares(takes, LiveRows(t, c.owner), c.qty) /\ k >= 1
    <2>1. c.qty <= Total(LiveRows(t, c.owner))
      BY <1>1
    <2> HIDE DEF c
    <2> QED
      BY <1>0, <1>2, <1>3, <2>1, TakesFromLive, TakesAddUp
  <1> HIDE DEF takes
  <1>5. /\ k \in Nat /\ DOMAIN takes = 1 .. k
        /\ \A n \in 1 .. k : takes[n].row \in RowId /\ takes[n].qty \in 1 .. MaxQuantity
    <2>1. \A i \in LiveRows(t, c.owner) : i \in RowId
      <3> HIDE DEF c
      <3> QED
        BY <1>0, <1>3, Live
    <2>2. /\ k \in Nat /\ DOMAIN takes = 1 .. k
          /\ \A n \in 1 .. k : takes[n].row \in LiveRows(t, c.owner) /\ takes[n].qty \in 1 .. c.qty
      <3> HIDE DEF c
      <3> QED
        BY <1>4 DEF Shares
    <2>3. \A v \in 1 .. c.qty : v \in 1 .. MaxQuantity
      <3> HIDE DEF c
      <3> QED
        BY <1>2, AssetAssumption
    <2> HIDE DEF c, k
    <2> QED
      BY <2>1, <2>2, <2>3
  <1>6. /\ DOMAIN moves = 1 .. k
        /\ \A n \in 1 .. k : /\ moves[n].row \in RowId /\ moves[n].qty \in 1 .. MaxQuantity
                             /\ after(n) \in 1 .. MaxQuantity
    <2> HIDE DEF c, x
    <2> QED
      BY <1>0, <1>1, <1>2, <1>3, <1>4, MovesApart
  <1>7. out \in Seq(LedgerEntry) /\ DOMAIN out = 1 .. k /\ Len(out) = k
    <2>1. k \in Nat
      BY <1>5
    <2>2. DOMAIN takes = 1 .. k
      BY <1>5
    <2>3. \A n \in 1 .. k : takes[n].row \in RowId /\ takes[n].qty \in 1 .. MaxQuantity
      BY <1>5
    <2>4. x.key \in Keys
      BY <1>2
    <2> HIDE DEF x, k
    <2> QED
      BY <1>0, <2>1, <2>2, <2>3, <2>4, TakeEntriesTyped
  <1>8. ASSUME NEW n \in 1 .. k, NEW key \in Keys
        PROVE  out[n].key = MainKey(key) <=> n = 1 /\ key = x.key
    <2>1. n \in DOMAIN takes
      BY <1>5
    <2> HIDE DEF x, k
    <2> QED
      BY <1>2, <2>1, TakenKeys
  <1> HIDE DEF moves, out, k
  <1>9. ASSUME NEW n \in 1 .. k
        PROVE  /\ arrival(n) \in LedgerEntry
               /\ \A key \in Keys : arrival(n).key # MainKey(key)
    <2> HIDE DEF x
    <2>1. /\ k + n - 1 \in Nat /\ moves[n].qty \in -MaxQuantity .. MaxQuantity
          /\ after(n) \in Int
      BY <1>5, <1>6, AssetAssumption
    <2> HIDE DEF after
    <2>2. arrival(n) \in LedgerEntry
      BY <1>2, <1>6, <2>1, EntryTyped DEF EntryKind
    <2>3. arrival(n).key = <<x.key, "in", k + n - 1>>
      BY DEF Entry
    <2> QED
      BY <2>2, <2>3 DEF MainKey
  <1> HIDE DEF arrival
  <1>10. /\ in \in Seq(LedgerEntry) /\ DOMAIN in = 1 .. k /\ Len(in) = k
         /\ \A n \in 1 .. k : in[n] = arrival(n)
    BY <1>5, <1>6, <1>9
  <1> HIDE DEF in
  <1>11. /\ es \in Seq(LedgerEntry) /\ DOMAIN es = 1 .. k + k
         /\ \A n \in 1 .. k + k : es[n] = IF n <= k THEN out[n] ELSE in[n - k]
    <2>0. out \in Seq(LedgerEntry) /\ in \in Seq(LedgerEntry) /\ Len(out) = k /\ Len(in) = k
      BY <1>7, <1>10, Zenon
    <2>1. /\ es \in Seq(LedgerEntry) /\ DOMAIN es = 1 .. Len(out) + Len(in)
          /\ \A n \in 1 .. Len(out) + Len(in) :
               es[n] = IF n <= Len(out) THEN out[n] ELSE in[n - Len(out)]
      BY <2>0, Joined, Zenon
    <2> HIDE DEF es
    <2> QED
      BY <2>0, <2>1, Zenon
  <1> HIDE DEF es
  <1>12. ASSUME NEW n \in 1 .. k + k, NEW key \in Keys
         PROVE  es[n].key = MainKey(key) <=> n = 1 /\ key = x.key
    <2>1. CASE n <= k
      <3>1. n \in 1 .. k /\ es[n] = out[n]
        BY <1>5, <1>11, <2>1
      <3> HIDE DEF x
      <3> QED
        BY <1>8, <3>1
    <2>2. CASE ~(n <= k)
      <3>1. n - k \in 1 .. k /\ n # 1
        BY <1>4, <1>5, <2>2
      <3>2. es[n] = arrival(n - k)
        BY <1>10, <1>11, <2>2, <3>1
      <3> HIDE DEF x
      <3> QED
        BY <1>9, <3>1, <3>2
    <2> QED
      BY <2>1, <2>2
  <1>13. ASSUME NEW key \in Keys
         PROVE  (\E n \in DOMAIN es : es[n].key = MainKey(key)) <=> key = x.key
    <2>1. 1 \in 1 .. k + k
      BY <1>4, <1>5
    <2>2. DOMAIN es = 1 .. k + k
      BY <1>11
    <2> HIDE DEF x
    <2> QED
      BY <1>12, <2>1, <2>2
  <1> QED
    BY <1>0, <1>1, <1>2, <1>11, <1>13, KeyTakesEffect

\* A transfer keeps the accounts of both owners.
LEMMA TransferKeepsAccounts ==
    ASSUME IInv, IInv', NEW t \in Txs, Transfer(t)
    PROVE  txs[t].key \in Keys /\ Accounts!Command(txs[t].key)
  <1> DEFINE x == txs[t]
             o == x.cmd.owner
             p == x.cmd.to
             v == x.cmd.qty
             B == Books(rows)
             C == Books(rows')
             gone(at) == Sent(Takes(t, o, v), at)
  <1>1. /\ x.key \in Keys /\ o \in Owners /\ p \in Owners /\ o # p /\ v \in 1 .. MaxQuantity
        /\ Judged(t) \in Begun[x.key]
        /\ \A at \in Instants : gone(at) \in 0 .. v
        /\ \A at \in Instants : at <= Judged(t) => gone(at) = v
        /\ \A at, then \in Instants : at <= then => gone(then) <= gone(at)
        /\ \A u \in Owners, at \in Instants :
             C[u][at] = B[u][at] - (IF u = o THEN gone(at) ELSE 0)
                          + (IF u = p THEN gone(at) ELSE 0)
    BY TransferMoves
  <1>2. TakesEffect(x.key)
    BY TransferTakesEffect
  <1>3. /\ [u \in Owners |-> [at \in 0 .. MaxClock |-> Left(u, at)]] = B
        /\ [u \in Owners |-> [at \in 0 .. MaxClock |-> Left(u, at)]]' = C
        /\ B \in [Owners -> [Instants -> Nat]] /\ C \in [Owners -> [Instants -> Nat]]
    BY BooksOf DEF IInv
  <1> HIDE DEF x, o, p, v, B, C, gone
  <1>4. ASSUME NEW at \in Instants
        PROVE  /\ B[o][at] - C[o][at] = gone(at)
               /\ C[p][at] = B[p][at] + gone(at)
               /\ \A u \in Owners \ {o, p} : C[u][at] = B[u][at]
    <2>1. gone(at) \in Int /\ \A u \in Owners : B[u][at] \in Nat
      <3>1. gone(at) \in 0 .. v
        BY <1>1
      <3> QED
        BY <1>3, <3>1
    <2> QED
      BY <1>1, <2>1
  <1>5. ASSUME NEW u \in Owners \ {o, p} PROVE C[u] = B[u]
    <2>1. \A at \in Instants : C[u][at] = B[u][at]
      BY <1>4
    <2> QED
      BY <1>3, <2>1
  <1>6. Accounts!Leaves(o, v, Judged(t))
    BY <1>1, <1>3, <1>4 DEF Accounts!Leaves, Accounts!Gone, Accounts!Instants, Instants
  <1>7. Accounts!Transfer(x.key, o, p, v)
    BY <1>1, <1>3, <1>4, <1>5, <1>6
       DEF Accounts!Transfer, Accounts!Gone, Accounts!Instants, Instants, Begun
  <1>8. Accounts!Command(x.key)
    BY <1>1, <1>2, <1>7 DEF Accounts!Command, Accounts!Quantity, TakesEffect, Done
  <1> QED
    BY <1>1, <1>8 DEF x

\* The periodic scan clears lapsed rows away, by keys that are no command's.
LEMMA ScanKeepsAccounts ==
    ASSUME IInv, IInv', NEW ids \in SUBSET Held, ExpireDue(ids)
    PROVE  Accounts!Sweep
  <1> DEFINE K == Cardinality(ids)
             queue == SoonestFirst(ids)
             entry(i) == Entry(<<i, "expire", rows[i].expiry>>, i, "expire", -rows[i].qty, 0)
             es == [n \in 1 .. K |-> entry(queue[n])]
             B == Books(rows)
             C == Books(rows')
  <1>0. Types /\ Types'
    BY DEF IInv
  <1>1. /\ \A i \in ids : rows[i].expiry <= clock
        /\ book' = book \o es
        /\ rows' = [i \in RowId |-> IF i \in ids THEN NoRow ELSE rows[i]]
    BY DEF ExpireDue, Expired
  <1>2. ids \in SUBSET RowId /\ IsFiniteSet(ids) /\ K \in Nat
    <2>1. ids \in SUBSET RowId
      BY DEF Held
    <2>2. IsFiniteSet(ids)
      BY <2>1, RowsFinite, FS_Subset
    <2> QED
      BY <2>1, <2>2, FS_CardinalityType
  <1>3. queue \in [1 .. K -> ids]
    <2>1. \A i \in ids : rows[i].expiry \in Int
      BY <1>0, Stored
    <2> QED
      BY <1>2, <2>1, SoonestFirstEnumerates
  <1> HIDE DEF queue, K
  <1>4. ASSUME NEW i \in ids
        PROVE  entry(i) \in LedgerEntry /\ \A key \in Keys : entry(i).key # MainKey(key)
    <2>1. i \in RowId /\ rows[i].expiry \in Nat /\ rows[i].qty \in 1 .. MaxQuantity
      BY <1>0, Stored, AssetAssumption DEF Instant, Never
    <2>2. -rows[i].qty \in -MaxQuantity .. MaxQuantity
      BY <2>1, AssetAssumption
    <2>3. entry(i) \in LedgerEntry
      BY <2>1, <2>2, EntryTyped DEF EntryKind
    <2>4. entry(i).key = <<i, "expire", rows[i].expiry>>
      BY DEF Entry
    <2> QED
      BY <2>3, <2>4 DEF MainKey
  <1> HIDE DEF entry
  <1>5. Done' = Done
    <2>1. es \in Seq(LedgerEntry) /\ DOMAIN es = 1 .. K
      <3>1. \A n \in 1 .. K : entry(queue[n]) \in LedgerEntry
        BY <1>3, <1>4
      <3> QED
        BY <1>2, <3>1
    <2>2. \A n \in 1 .. K, key \in Keys : es[n].key # MainKey(key)
      BY <1>3, <1>4
    <2>3. book' = book \o es
      BY <1>1
    <2> HIDE DEF es
    <2>4. ASSUME NEW key \in Keys
          PROVE  Recorded(MainKey(key))' <=> Recorded(MainKey(key))
      <3>1. Recorded(MainKey(key))'
              <=> Recorded(MainKey(key)) \/ \E n \in DOMAIN es : es[n].key = MainKey(key)
        BY <1>0, <2>1, <2>3, RecordedAfter
      <3> QED
        BY <2>1, <2>2, <3>1
    <2> QED
      BY <2>4 DEF Done
  <1>6. rows \in Table /\ rows' \in Table /\ clock \in Int
    BY <1>0 DEF Types, Table
  <1>7. ASSUME NEW o, NEW at \in Instants, NEW i \in RowId
        PROVE  /\ Part(rows', at, o, i) <= Part(rows, at, o, i)
               /\ at >= clock => Part(rows', at, o, i) = Part(rows, at, o, i)
    <2>0. Part(rows, at, o, i) \in Nat /\ at \in Int
      BY <1>6, PartsTyped DEF Instants
    <2>1. CASE i \in ids
      <3>1. rows'[i] = NoRow
        BY <1>1, <2>1
      <3>2. Part(rows', at, o, i) = 0
        BY <3>1 DEF Part, Counts
      <3>3. ASSUME at >= clock PROVE Part(rows, at, o, i) = 0
        <4>1. rows[i].expiry <= clock /\ rows[i].expiry \in Int
          BY <1>0, <1>1, <2>1, Stored
        <4>2. ~(rows[i].expiry > at)
          BY <1>6, <2>0, <3>3, <4>1
        <4> QED
          BY <4>2 DEF Part, Counts
      <3> QED
        BY <2>0, <3>2, <3>3
    <2>2. CASE i \notin ids
      <3>1. rows'[i] = rows[i]
        BY <1>1, <2>2
      <3>2. Part(rows', at, o, i) = Part(rows, at, o, i)
        BY <3>1 DEF Part, Counts
      <3> QED
        BY <2>0, <3>2
    <2> QED
      BY <2>1, <2>2
  <1>8. ASSUME NEW o \in Owners, NEW at \in Instants
        PROVE  /\ Account(rows', at, o) <= Account(rows, at, o)
               /\ at >= clock => Account(rows', at, o) = Account(rows, at, o)
    <2>1. ASSUME at >= clock PROVE Account(rows', at, o) = Account(rows, at, o)
      BY <1>6, <1>7, <2>1, NoRowChanges
    <2>2. Account(rows', at, o) <= Account(rows, at, o)
      <3> DEFINE f == Parts(rows', at, o)
                 g == Parts(rows, at, o)
      <3>1. \A i \in RowId : f[i] \in Nat /\ g[i] \in Nat /\ f[i] <= g[i]
        BY <1>6, <1>7, PartsTyped
      <3> HIDE DEF f, g
      <3>2. SumFunctionOnSet(f, RowId) <= SumFunctionOnSet(g, RowId)
        BY <3>1, RowsFinite, SumAtMost
      <3> QED
        BY <3>2 DEF Account, f, g
    <2> QED
      BY <2>1, <2>2
  <1>9. /\ [u \in Owners |-> [at \in 0 .. MaxClock |-> Left(u, at)]] = B
        /\ [u \in Owners |-> [at \in 0 .. MaxClock |-> Left(u, at)]]' = C
        /\ B \in [Owners -> [Instants -> Nat]] /\ C \in [Owners -> [Instants -> Nat]]
        /\ \A o \in Owners, at \in Instants :
             B[o][at] = Account(rows, at, o) /\ C[o][at] = Account(rows', at, o)
    BY <1>0, BooksOf
  <1> HIDE DEF B, C
  <1>10. \A o \in Owners, at \in Instants :
           IF at >= clock THEN B[o][at] - C[o][at] = 0 ELSE B[o][at] - C[o][at] >= 0
    <2> SUFFICES ASSUME NEW o \in Owners, NEW at \in Instants
                 PROVE  IF at >= clock THEN B[o][at] - C[o][at] = 0 ELSE B[o][at] - C[o][at] >= 0
      OBVIOUS
    <2>1. B[o][at] \in Nat /\ C[o][at] \in Nat
      BY <1>9
    <2> QED
      BY <1>8, <1>9, <2>1
  <1> QED
    BY <1>5, <1>9, <1>10 DEF Accounts!Sweep, Accounts!Gone, Accounts!Instants, Instants, Done

\* When time passes, everybody holds what they held.
LEMMA TickKeepsAccounts ==
    ASSUME IInv, IInv', Tick
    PROVE  Accounts!Pass
  <1>1. clock' = clock + 1 /\ rows' = rows /\ book' = book
    BY DEF Tick
  <1>2. /\ [u \in Owners |-> [at \in 0 .. MaxClock |-> Left(u, at)]] = Books(rows)
        /\ [u \in Owners |-> [at \in 0 .. MaxClock |-> Left(u, at)]]' = Books(rows')
    BY BooksOf DEF IInv
  <1>3. Done' = Done
    BY <1>1, KeysStand
  <1> QED
    BY <1>1, <1>2, <1>3 DEF Accounts!Pass, Done

\* A step that leaves rows and ledger takes nothing away.
LEMMA RestKeepsAccounts ==
    ASSUME IInv, IInv', UNCHANGED <<rows, book>>
    PROVE  Accounts!Sweep
  <1> DEFINE B == Books(rows)
             C == Books(rows')
  <1>1. /\ [u \in Owners |-> [at \in 0 .. MaxClock |-> Left(u, at)]] = B
        /\ [u \in Owners |-> [at \in 0 .. MaxClock |-> Left(u, at)]]' = C
        /\ B \in [Owners -> [Instants -> Nat]]
    BY BooksOf DEF IInv
  <1>2. B = C
    OBVIOUS
  <1>3. Done' = Done
    BY KeysStand
  <1> HIDE DEF B, C
  <1>4. \A o \in Owners, at \in Instants :
          IF at >= clock THEN B[o][at] - C[o][at] = 0 ELSE B[o][at] - C[o][at] >= 0
    <2> SUFFICES ASSUME NEW o \in Owners, NEW at \in Instants
                 PROVE  B[o][at] - C[o][at] >= 0 /\ B[o][at] - C[o][at] = 0
      OBVIOUS
    <2>1. B[o][at] \in Nat
      BY <1>1
    <2> QED
      BY <1>2, <2>1
  <1> QED
    BY <1>1, <1>3, <1>4 DEF Accounts!Sweep, Accounts!Gone, Accounts!Instants, Instants, Done

\* The first state: balances, and no key yet.
LEMMA AccountsInit == Init => Accounts!Init
  <1> SUFFICES ASSUME Init PROVE Accounts!Init
    OBVIOUS
  <1>1. Types
    BY InitInv DEF IInv
  <1>2. rows \in Table
    BY <1>1 DEF Types, Table
  <1>3. ASSUME NEW o \in Owners, NEW at \in 0 .. MaxClock PROVE Left(o, at) \in Nat
    <2>1. {i \in OwnedBy(o) : rows[i].expiry > at} = {i \in RowId : Counts(rows, at, o, i)}
      BY DEF OwnedBy, Held, Counts
    <2> DEFINE q == [i \in RowId |-> rows[i].qty]
    <2>2. Left(o, at) = SumFunctionOnSet(q, {i \in RowId : Counts(rows, at, o, i)})
      BY <2>1, Zenon DEF Left, Total
    <2>3. Left(o, at) = Account(rows, at, o)
      BY <1>2, <2>2, AccountSum, Zenon
    <2> QED
      BY <1>2, <2>3, AccountSum
  <1>4. Done = {}
    <2>1. \A n \in DOMAIN book : book[n].key = <<n, "earlier", 0>>
      BY DEF Init, Entry
    <2>2. \A key \in Keys : ~Recorded(MainKey(key))
      BY <2>1 DEF Recorded, MainKey
    <2> QED
      BY <2>2 DEF Done
  <1>5. \A k \in Keys : Transferring(k) = {}
    BY DEF Init, Transferring, Idle
  <1>6. [k \in Keys |-> {txs[t].now : t \in Transferring(k)}] = [k \in Keys |-> {}]
    BY <1>5
  <1> QED
    BY <1>3, <1>4, <1>6 DEF Accounts!Init, Accounts!Instants, Done, Init

\* A commit ends its transaction, and time stands still.
LEMMA CommitEnds ==
    ASSUME IInv, NEW t \in Txs, NEW es, NEW new, Commit(t, es, new)
    PROVE  clock' = clock /\ \A k \in Keys : Begun'[k] \subseteq Begun[k] \cup {clock}
  <1>1. txs' = [txs EXCEPT ![t] = Idle] /\ clock' = clock
    BY DEF Commit
  <1>2. txs'[t].pc = "idle" /\ \A u \in Txs \ {t} : txs'[u] = txs[u]
    BY <1>1 DEF IInv, Types, Idle
  <1> QED
    BY <1>1, <1>2, TransfersBegin

\* One step per action.
LEMMA AccountsStep ==
    ASSUME IInv, IInv', [Next]_vars
    PROVE  [Accounts!Next]_(Accounts!vars)
  <1> DEFINE begins == \A k \in Keys : Begun'[k] \subseteq Begun[k] \cup {clock}
             rests == clock' = clock /\ Accounts!Sweep
             works == clock' = clock /\ \E k \in Keys : Accounts!Command(k)
  <1>0. txs \in [Txs -> OpenTx \cup {Idle}]
    BY DEF IInv, Types
  <1>1. ASSUME NEW t \in Txs, NEW k \in Keys, NEW c \in Commands, Begin(t, k, c)
        PROVE  begins /\ rests
    <2>1. /\ txs'[t].cmd = c /\ (c.verb = "transfer" => txs'[t].now = clock)
          /\ \A u \in Txs \ {t} : txs'[u] = txs[u]
      BY <1>0, <1>1 DEF Begin
    <2>2. begins
      BY <2>1, TransfersBegin
    <2>3. UNCHANGED <<rows, book, clock>>
      BY <1>1 DEF Begin
    <2> QED
      BY <2>2, <2>3, RestKeepsAccounts
  <1>2. ASSUME NEW t \in Txs, Run(t)
        PROVE  begins /\ (rests \/ works)
    <2>1. CASE Lock(t)
      <3>1. txs[t].pc # "idle" /\ UNCHANGED <<rows, book, clock>>
        BY <2>1 DEF Lock
      <3>2. txs[t] \in OpenTx
        BY <3>1, Opened DEF IInv
      <3>3. /\ txs'[t].key = txs[t].key /\ txs'[t].cmd = txs[t].cmd /\ txs'[t].now = txs[t].now
            /\ \A u \in Txs \ {t} : txs'[u] = txs[u]
        BY <1>0, <2>1, <3>2 DEF Lock, OpenTx
      <3>4. begins
        BY <3>1, <3>3, TransfersBegin
      <3> QED
        BY <3>1, <3>4, RestKeepsAccounts
    <2>2. CASE Rollback(t)
      <3>1. txs'[t].pc = "idle" /\ \A u \in Txs \ {t} : txs'[u] = txs[u]
        BY <1>0, <2>2 DEF Rollback, Idle
      <3>2. begins /\ UNCHANGED <<rows, book, clock>>
        BY <2>2, <3>1, TransfersBegin DEF Rollback
      <3> QED
        BY <3>2, RestKeepsAccounts
    <2>3. CASE Grant(t)
      <3>1. begins /\ clock' = clock
        BY <2>3, CommitEnds DEF Grant
      <3> QED
        BY <2>3, <3>1, GrantKeepsAccounts
    <2>4. CASE Consume(t)
      <3>1. begins /\ clock' = clock
        BY <2>4, CommitEnds DEF Consume
      <3> QED
        BY <2>4, <3>1, ConsumeKeepsAccounts
    <2>5. CASE Transfer(t)
      <3>1. begins /\ clock' = clock
        BY <2>5, CommitEnds DEF Transfer
      <3> QED
        BY <2>5, <3>1, TransferKeepsAccounts
    <2>6. CASE Mutate(t)
      <3>1. begins /\ clock' = clock
        BY <2>6, CommitEnds DEF Mutate
      <3> QED
        BY <2>6, <3>1, MutateKeepsAccounts
    <2>7. CASE Expire(t)
      <3>1. begins /\ clock' = clock
        BY <2>7, CommitEnds DEF Expire
      <3> QED
        BY <2>7, <3>1, ExpireKeepsAccounts
    <2> QED
      BY <1>2, <2>1, <2>2, <2>3, <2>4, <2>5, <2>6, <2>7 DEF Run
  <1>3. ASSUME UNCHANGED txs PROVE begins
    BY <1>3 DEF Begun, Transferring
  <1>4. ASSUME NEW ids \in SUBSET Held, ExpireDue(ids)
        PROVE  begins /\ rests
    BY <1>3, <1>4, ScanKeepsAccounts DEF ExpireDue
  <1>5. ASSUME Tick PROVE begins /\ Accounts!Pass
    BY <1>3, <1>5, TickKeepsAccounts DEF Tick
  <1>6. ASSUME UNCHANGED vars PROVE begins /\ rests
    BY <1>3, <1>6, RestKeepsAccounts DEF vars
  <1>7. begins /\ (rests \/ works \/ Accounts!Pass)
    <2> HIDE DEF begins, rests, works
    <2> QED
      BY <1>1, <1>2, <1>4, <1>5, <1>6 DEF Next
  <1>8. Accounts!Next
    BY <1>7 DEF Accounts!Next, Begun
  <1> QED
    BY <1>8

\* Buckets, derived keys, row locks and overlapping transactions keep the accounts
\* of the owners, for any owners, keys, transactions and bounds.
THEOREM KeepsTheAccounts == Spec => KeepsAccounts
  <1>1. Init => Accounts!Init
    BY AccountsInit
  <1>2. IInv /\ IInv' /\ [Next]_vars => [Accounts!Next]_(Accounts!vars)
    BY AccountsStep
  <1> QED
    BY <1>1, <1>2, Invariance, PTL DEF Spec, KeepsAccounts, Accounts!Spec
=============================================================================
