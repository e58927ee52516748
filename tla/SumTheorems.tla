---------------------------- MODULE SumTheorems -----------------------------
(***************************************************************************)
(* Sums of a function over a finite set, SumFunctionOnSet of Functions:    *)
(* the quantities, amounts and counts that the handlers add up over rows.  *)
(* An induction is an argument about a smallest set that breaks the claim. *)
(***************************************************************************)
EXTENDS Integers, FiniteSets, Functions, FiniteSetTheorems, TLAPS

Pick(T) == CHOOSE x \in T : TRUE

\* g adds up f for every subset of T.
Adds(g, f, T) ==
    g = [U \in SUBSET T |-> IF U = {} THEN 0 ELSE f[Pick(U)] + g[U \ {Pick(U)}]]

\* Every non-empty collection of subsets of a finite set has a smallest member.
LEMMA SmallestSubset ==
    ASSUME NEW S, IsFiniteSet(S), NEW Bad \in SUBSET SUBSET S, Bad # {}
    PROVE  \E T \in Bad : \A U \in Bad : ~ (U \subseteq T /\ U # T)
<1>1. IsWellFoundedOn(StrictSubsetOrdering(S), SUBSET S)
  BY FS_StrictSubsetOrderingWellFounded, FS_FiniteSubsetsOfFinite
<1>2. \E T \in Bad : \A U \in Bad : ~ (<<U, T>> \in StrictSubsetOrdering(S))
  BY <1>1, WFMin
<1> QED BY <1>2 DEF StrictSubsetOrdering

\* Two functions that add up f agree on the sets both have.
LEMMA AddsAgree ==
    ASSUME NEW f, NEW T, NEW V, IsFiniteSet(T), NEW g, NEW h, Adds(g, f, T), Adds(h, f, V)
    PROVE  \A U \in SUBSET T : U \subseteq V => g[U] = h[U]
<1> DEFINE Bad == {U \in SUBSET T : U \subseteq V /\ g[U] # h[U]}
<1> SUFFICES ASSUME Bad # {} PROVE FALSE
  OBVIOUS
<1>0. Bad \in SUBSET SUBSET T
  OBVIOUS
<1>1. PICK U \in Bad : \A W \in Bad : ~ (W \subseteq U /\ W # U)
  <2> HIDE DEF Bad
  <2> QED BY <1>0, SmallestSubset
<1>2. U # {}
  BY <1>1 DEF Adds
<1>3. Pick(U) \in U
  BY <1>2 DEF Pick
<1>4. g[U \ {Pick(U)}] = h[U \ {Pick(U)}]
  BY <1>1, <1>3
<1>5. g[U] = f[Pick(U)] + g[U \ {Pick(U)}] /\ h[U] = f[Pick(U)] + h[U \ {Pick(U)}]
  BY <1>1, <1>2 DEF Adds
<1> QED BY <1>1, <1>4, <1>5

\* For a finite set there is such a function.
LEMMA AddsExists ==
    ASSUME NEW f, NEW S, IsFiniteSet(S)
    PROVE  \E g : Adds(g, f, S)
<1> DEFINE Bad == {T \in SUBSET S : ~ \E g : Adds(g, f, T)}
<1> SUFFICES ASSUME Bad # {} PROVE FALSE
  OBVIOUS
<1>0. Bad \in SUBSET SUBSET S
  OBVIOUS
<1>1. PICK T \in Bad : \A W \in Bad : ~ (W \subseteq T /\ W # T)
  <2> HIDE DEF Bad
  <2> QED BY <1>0, SmallestSubset
<1> DEFINE of(U) == CHOOSE g : Adds(g, f, U)
           value(U) == IF U = {} THEN 0 ELSE f[Pick(U)] + of(U \ {Pick(U)})[U \ {Pick(U)}]
           sum == [U \in SUBSET T |-> value(U)]
<1>2. \A U \in SUBSET T : U # T => Adds(of(U), f, U)
  BY <1>1
<1>3. \A U \in SUBSET T : U # {} => Pick(U) \in U
  BY DEF Pick
<1>4. ASSUME NEW U \in SUBSET T, U # {}
      PROVE  sum[U \ {Pick(U)}] = of(U \ {Pick(U)})[U \ {Pick(U)}]
  <2> DEFINE W == U \ {Pick(U)}
  <2>1. W \in SUBSET T /\ W # T
    BY <1>3, <1>4
  <2>2. Adds(of(W), f, W)
    BY <1>2, <2>1
  <2>3. CASE W = {}
    BY <2>1, <2>2, <2>3 DEF Adds
  <2>4. CASE W # {}
    <3> DEFINE X == W \ {Pick(W)}
    <3>1. X \in SUBSET W /\ X \in SUBSET T /\ X # T
      BY <1>3, <2>1, <2>4
    <3>2. Adds(of(X), f, X)
      BY <1>2, <3>1
    <3>3. IsFiniteSet(X)
      BY <3>1, FS_Subset
    <3> HIDE DEF X, of
    <3>4. of(X)[X] = of(W)[X]
      <4>1. \A U1 \in SUBSET X : U1 \subseteq W => of(X)[U1] = of(W)[U1]
        <5> DEFINE g == of(X)
                   h == of(W)
        <5>1. Adds(g, f, X) /\ Adds(h, f, W)
          BY <2>2, <3>2
        <5> HIDE DEF g, h, W
        <5>2. \A U1 \in SUBSET X : U1 \subseteq W => g[U1] = h[U1]
          BY <3>3, <5>1, AddsAgree
        <5> QED BY <5>2 DEF g, h
      <4> QED BY <3>1, <4>1
    <3>5. of(W)[W] = f[Pick(W)] + of(W)[X]
      BY <2>2, <2>4 DEF Adds, X
    <3>6. sum[W] = f[Pick(W)] + of(X)[X]
      BY <2>1, <2>4 DEF X
    <3> QED BY <3>4, <3>5, <3>6
  <2> QED BY <2>3, <2>4
<1> HIDE DEF of
<1>5. Adds(sum, f, T)
  BY <1>4 DEF Adds
<1> HIDE DEF sum
<1> QED BY <1>1, <1>5

\* A sum is the value of a function that adds up f.
LEMMA SumIs ==
    ASSUME NEW f, NEW S
    PROVE  SumFunctionOnSet(f, S) = (CHOOSE g : Adds(g, f, S))[S]
  BY DEF SumFunctionOnSet, FoldFunctionOnSet, MapThenFoldSet, Adds, Pick

\* Nothing adds up to nothing.
LEMMA SumEmpty ==
    ASSUME NEW f
    PROVE  SumFunctionOnSet(f, {}) = 0
<1> DEFINE g == CHOOSE g : Adds(g, f, {})
<1>1. Adds(g, f, {})
  BY AddsExists, FS_EmptySet
<1>2. SumFunctionOnSet(f, {}) = g[{}]
  BY SumIs
<1> HIDE DEF g
<1> QED BY <1>1, <1>2 DEF Adds

\* The sum of a non-empty set takes out the element that Pick names.
LEMMA SumStep ==
    ASSUME NEW f, NEW S, IsFiniteSet(S), S # {}
    PROVE  /\ Pick(S) \in S
           /\ SumFunctionOnSet(f, S) = f[Pick(S)] + SumFunctionOnSet(f, S \ {Pick(S)})
<1> DEFINE g == CHOOSE g : Adds(g, f, S)
           R == S \ {Pick(S)}
           h == CHOOSE h : Adds(h, f, R)
<1>1. Pick(S) \in S
  BY DEF Pick
<1>2. IsFiniteSet(R)
  BY FS_Subset
<1>3. Adds(g, f, S) /\ Adds(h, f, R)
  <2> HIDE DEF R
  <2> QED BY <1>2, AddsExists
<1>4. SumFunctionOnSet(f, S) = g[S] /\ SumFunctionOnSet(f, R) = h[R]
  <2> HIDE DEF R
  <2> QED BY SumIs
<1> HIDE DEF g, h
<1>5. g[S] = f[Pick(S)] + g[R]
  BY <1>3 DEF Adds
<1>6. \A U \in SUBSET R : U \subseteq S => h[U] = g[U]
  <2> HIDE DEF R
  <2> QED BY <1>2, <1>3, AddsAgree
<1>7. h[R] = g[R]
  BY <1>6
<1> QED BY <1>1, <1>4, <1>5, <1>7

\* A sum of integers is an integer.
LEMMA SumInt ==
    ASSUME NEW f, NEW S, IsFiniteSet(S), \A x \in S : f[x] \in Int
    PROVE  SumFunctionOnSet(f, S) \in Int
<1> DEFINE Bad == {T \in SUBSET S : SumFunctionOnSet(f, T) \notin Int}
<1> SUFFICES ASSUME Bad # {} PROVE FALSE
  OBVIOUS
<1>1. Bad \in SUBSET SUBSET S
  OBVIOUS
<1>2. PICK T \in Bad : \A U \in Bad : ~ (U \subseteq T /\ U # T)
  <2> HIDE DEF Bad
  <2> QED BY <1>1, SmallestSubset
<1>3. T # {} /\ IsFiniteSet(T)
  <2>1. SumFunctionOnSet(f, {}) = 0
    BY SumEmpty
  <2>2. T # {}
    BY <2>1
  <2>3. IsFiniteSet(T)
    BY FS_Subset
  <2> QED BY <2>2, <2>3
<1>4. Pick(T) \in T
  BY <1>3, SumStep
<1>5. SumFunctionOnSet(f, T \ {Pick(T)}) \in Int
  BY <1>2, <1>4
<1> QED BY <1>3, <1>4, <1>5, SumStep

\* Any element may be taken out of a sum.
LEMMA SumTake ==
    ASSUME NEW f, NEW S, IsFiniteSet(S), \A x \in S : f[x] \in Int, NEW a \in S
    PROVE  SumFunctionOnSet(f, S) = f[a] + SumFunctionOnSet(f, S \ {a})
<1> DEFINE Sum(T) == SumFunctionOnSet(f, T)
           Bad == {T \in SUBSET S : \E x \in T : Sum(T) # f[x] + Sum(T \ {x})}
<1> SUFFICES ASSUME Bad # {} PROVE FALSE
  OBVIOUS
<1>1. Bad \in SUBSET SUBSET S
  OBVIOUS
<1>2. PICK T \in Bad : \A U \in Bad : ~ (U \subseteq T /\ U # T)
  <2> HIDE DEF Bad
  <2> QED BY <1>1, SmallestSubset
<1>3. PICK x \in T : Sum(T) # f[x] + Sum(T \ {x})
  OBVIOUS
<1> DEFINE p == Pick(T)
<1>4. p \in T /\ Sum(T) = f[p] + Sum(T \ {p})
  <2>1. IsFiniteSet(T) /\ T # {}
    BY <1>3, FS_Subset
  <2> QED BY <2>1, SumStep
<1>5. \A U \in SUBSET T : U # T => \A y \in U : Sum(U) = f[y] + Sum(U \ {y})
  BY <1>2
<1> HIDE DEF p, Bad
<1>6. x # p
  BY <1>3, <1>4
<1>7. Sum(T \ {p}) = f[x] + Sum((T \ {p}) \ {x})
  BY <1>4, <1>5, <1>6
<1>8. Sum(T \ {x}) = f[p] + Sum((T \ {x}) \ {p})
  BY <1>3, <1>4, <1>5, <1>6
<1>9. Sum((T \ {x}) \ {p}) = Sum((T \ {p}) \ {x})
  <2>1. (T \ {x}) \ {p} = (T \ {p}) \ {x}
    OBVIOUS
  <2> QED BY <2>1
<1>10. Sum((T \ {p}) \ {x}) \in Int
  <2> DEFINE R == (T \ {p}) \ {x}
  <2>1. R \in SUBSET S
    BY <1>2, <1>1
  <2>2. IsFiniteSet(R)
    BY <2>1, FS_Subset
  <2> HIDE DEF R
  <2>3. \A y \in R : f[y] \in Int
    BY <2>1
  <2>4. SumFunctionOnSet(f, R) \in Int
    BY <2>2, <2>3, SumInt
  <2> QED BY <2>4 DEF R
<1>11. f[x] \in Int /\ f[p] \in Int
  BY <1>1, <1>2, <1>4
<1> DEFINE Rest == Sum((T \ {p}) \ {x})
<1>12. Sum(T) = f[p] + (f[x] + Rest) /\ Sum(T \ {x}) = f[p] + Rest
  BY <1>4, <1>7, <1>8, <1>9
<1> HIDE DEF Sum, Rest
<1> QED BY <1>3, <1>10, <1>11, <1>12 DEF Rest

\* A sum grows by what is added to the set.
LEMMA SumAdd ==
    ASSUME NEW f, NEW S, IsFiniteSet(S), NEW a, a \notin S, \A x \in S \cup {a} : f[x] \in Int
    PROVE  SumFunctionOnSet(f, S \cup {a}) = SumFunctionOnSet(f, S) + f[a]
<1> DEFINE T == S \cup {a}
<1>1. IsFiniteSet(T) /\ a \in T /\ \A x \in T : f[x] \in Int
  BY FS_AddElement
<1>2. SumFunctionOnSet(f, T \ {a}) = SumFunctionOnSet(f, S)
  <2>1. T \ {a} = S
    OBVIOUS
  <2> QED BY <2>1
<1>3. SumFunctionOnSet(f, S) \in Int /\ f[a] \in Int
  BY SumInt
<1> HIDE DEF T
<1>4. SumFunctionOnSet(f, T) = f[a] + SumFunctionOnSet(f, T \ {a})
  BY <1>1, SumTake
<1>5. SumFunctionOnSet(f, T) = SumFunctionOnSet(f, S) + f[a]
  BY <1>2, <1>3, <1>4
<1> QED BY <1>5 DEF T

\* A sum shrinks by what is removed from the set.
LEMMA SumRemove ==
    ASSUME NEW f, NEW S, IsFiniteSet(S), \A x \in S : f[x] \in Int, NEW a \in S
    PROVE  SumFunctionOnSet(f, S \ {a}) = SumFunctionOnSet(f, S) - f[a]
<1> DEFINE R == S \ {a}
<1>1. SumFunctionOnSet(f, S) = f[a] + SumFunctionOnSet(f, R)
  BY SumTake
<1>2. IsFiniteSet(R) /\ \A x \in R : f[x] \in Int
  BY FS_RemoveElement
<1> HIDE DEF R
<1>3. SumFunctionOnSet(f, R) \in Int /\ f[a] \in Int
  BY <1>2, SumInt
<1>4. SumFunctionOnSet(f, R) = SumFunctionOnSet(f, S) - f[a]
  BY <1>1, <1>3
<1> QED BY <1>4 DEF R

\* What is nowhere larger adds up to no more.
LEMMA SumLeq ==
    ASSUME NEW f, NEW g, NEW S, IsFiniteSet(S),
           \A x \in S : f[x] \in Int /\ g[x] \in Int /\ f[x] <= g[x]
    PROVE  SumFunctionOnSet(f, S) <= SumFunctionOnSet(g, S)
<1> DEFINE Bad == {T \in SUBSET S : ~ (SumFunctionOnSet(f, T) <= SumFunctionOnSet(g, T))}
<1> SUFFICES ASSUME Bad # {} PROVE FALSE
  OBVIOUS
<1>1. Bad \in SUBSET SUBSET S
  OBVIOUS
<1>2. PICK T \in Bad : \A U \in Bad : ~ (U \subseteq T /\ U # T)
  <2> HIDE DEF Bad
  <2> QED BY <1>1, SmallestSubset
<1>3. T # {}
  <2>1. SumFunctionOnSet(f, {}) = 0 /\ SumFunctionOnSet(g, {}) = 0
    BY SumEmpty
  <2> QED BY <2>1
<1>4. IsFiniteSet(T) /\ \A U \in SUBSET T : IsFiniteSet(U)
  BY FS_Subset
<1> DEFINE p == Pick(T)
           R == T \ {p}
<1>5. /\ p \in T
      /\ SumFunctionOnSet(f, T) = f[p] + SumFunctionOnSet(f, R)
      /\ SumFunctionOnSet(g, T) = g[p] + SumFunctionOnSet(g, R)
  BY <1>3, <1>4, SumStep
<1>6. SumFunctionOnSet(f, R) <= SumFunctionOnSet(g, R)
  BY <1>2, <1>5
<1>7. SumFunctionOnSet(f, R) \in Int /\ SumFunctionOnSet(g, R) \in Int
  <2>1. IsFiniteSet(R) /\ \A x \in R : f[x] \in Int /\ g[x] \in Int
    BY <1>4
  <2> HIDE DEF R
  <2> QED BY <2>1, SumInt
<1>8. f[p] \in Int /\ g[p] \in Int /\ f[p] <= g[p]
  BY <1>5
<1>9. ~ (SumFunctionOnSet(f, T) <= SumFunctionOnSet(g, T))
  OBVIOUS
<1> HIDE DEF R, p, Bad
<1> QED BY <1>5, <1>6, <1>7, <1>8, <1>9

\* Only the values on the set matter.
LEMMA SumSame ==
    ASSUME NEW f, NEW g, NEW S, IsFiniteSet(S), \A x \in S : f[x] \in Int /\ f[x] = g[x]
    PROVE  SumFunctionOnSet(f, S) = SumFunctionOnSet(g, S)
<1>1. SumFunctionOnSet(f, S) <= SumFunctionOnSet(g, S)
  BY SumLeq
<1>2. SumFunctionOnSet(g, S) <= SumFunctionOnSet(f, S)
  BY SumLeq
<1>3. SumFunctionOnSet(f, S) \in Int /\ SumFunctionOnSet(g, S) \in Int
  BY SumInt
<1> QED BY <1>1, <1>2, <1>3

\* A sum of nothing but zeros.
LEMMA SumZero ==
    ASSUME NEW f, NEW S, IsFiniteSet(S), \A x \in S : f[x] = 0
    PROVE  SumFunctionOnSet(f, S) = 0
<1> DEFINE Bad == {T \in SUBSET S : SumFunctionOnSet(f, T) # 0}
<1> SUFFICES ASSUME Bad # {} PROVE FALSE
  OBVIOUS
<1>1. Bad \in SUBSET SUBSET S
  OBVIOUS
<1>2. PICK T \in Bad : \A U \in Bad : ~ (U \subseteq T /\ U # T)
  <2> HIDE DEF Bad
  <2> QED BY <1>1, SmallestSubset
<1>3. T # {}
  BY SumEmpty
<1>4. IsFiniteSet(T)
  BY FS_Subset
<1>5. Pick(T) \in T /\ SumFunctionOnSet(f, T) = f[Pick(T)] + SumFunctionOnSet(f, T \ {Pick(T)})
  BY <1>3, <1>4, SumStep
<1>6. SumFunctionOnSet(f, T \ {Pick(T)}) = 0
  BY <1>2, <1>5
<1> QED BY <1>2, <1>5, <1>6

\* A sum of natural numbers is one.
LEMMA SumNat ==
    ASSUME NEW f, NEW S, IsFiniteSet(S), \A x \in S : f[x] \in Nat
    PROVE  SumFunctionOnSet(f, S) \in Nat
<1> DEFINE zero == [x \in S |-> 0]
<1>1. SumFunctionOnSet(zero, S) = 0
  BY SumZero
<1>2. \A x \in S : zero[x] \in Int /\ f[x] \in Int /\ zero[x] <= f[x]
  OBVIOUS
<1> HIDE DEF zero
<1>3. SumFunctionOnSet(zero, S) <= SumFunctionOnSet(f, S)
  BY <1>2, SumLeq
<1>4. SumFunctionOnSet(f, S) \in Int
  BY SumInt
<1> QED BY <1>1, <1>3, <1>4

\* The sum of sums.
LEMMA SumPlus ==
    ASSUME NEW f, NEW g, NEW h, NEW S, IsFiniteSet(S),
           \A x \in S : f[x] \in Int /\ g[x] \in Int /\ h[x] = f[x] + g[x]
    PROVE  SumFunctionOnSet(h, S) = SumFunctionOnSet(f, S) + SumFunctionOnSet(g, S)
<1> DEFINE Bad == {T \in SUBSET S :
                      SumFunctionOnSet(h, T) # SumFunctionOnSet(f, T) + SumFunctionOnSet(g, T)}
<1> SUFFICES ASSUME Bad # {} PROVE FALSE
  OBVIOUS
<1>1. Bad \in SUBSET SUBSET S
  OBVIOUS
<1>2. PICK T \in Bad : \A U \in Bad : ~ (U \subseteq T /\ U # T)
  <2> HIDE DEF Bad
  <2> QED BY <1>1, SmallestSubset
<1>3. T # {}
  <2>1. /\ SumFunctionOnSet(f, {}) = 0 /\ SumFunctionOnSet(g, {}) = 0
        /\ SumFunctionOnSet(h, {}) = 0
    BY SumEmpty
  <2>2. SumFunctionOnSet(h, {}) = SumFunctionOnSet(f, {}) + SumFunctionOnSet(g, {})
    BY <2>1
  <2> QED BY <2>2
<1>4. IsFiniteSet(T) /\ \A U \in SUBSET T : IsFiniteSet(U)
  BY FS_Subset
<1> DEFINE p == Pick(T)
           R == T \ {p}
<1>5. /\ p \in T
      /\ SumFunctionOnSet(f, T) = f[p] + SumFunctionOnSet(f, R)
      /\ SumFunctionOnSet(g, T) = g[p] + SumFunctionOnSet(g, R)
      /\ SumFunctionOnSet(h, T) = h[p] + SumFunctionOnSet(h, R)
  BY <1>3, <1>4, SumStep
<1>6. SumFunctionOnSet(h, R) = SumFunctionOnSet(f, R) + SumFunctionOnSet(g, R)
  BY <1>2, <1>5
<1>7. SumFunctionOnSet(f, R) \in Int /\ SumFunctionOnSet(g, R) \in Int
  <2>1. IsFiniteSet(R) /\ \A x \in R : f[x] \in Int /\ g[x] \in Int
    BY <1>4
  <2> HIDE DEF R
  <2> QED BY <2>1, SumInt
<1>8. f[p] \in Int /\ g[p] \in Int /\ h[p] = f[p] + g[p]
  BY <1>5
<1>9. SumFunctionOnSet(h, T) # SumFunctionOnSet(f, T) + SumFunctionOnSet(g, T)
  OBVIOUS
<1> HIDE DEF R, p, Bad
<1> QED BY <1>5, <1>6, <1>7, <1>8, <1>9

\* A sum is that of a part of the set and that of the rest.
LEMMA SumSplit ==
    ASSUME NEW f, NEW S, IsFiniteSet(S), \A x \in S : f[x] \in Int, NEW T \in SUBSET S
    PROVE  SumFunctionOnSet(f, S) = SumFunctionOnSet(f, T) + SumFunctionOnSet(f, S \ T)
<1> DEFINE Bad == {U \in SUBSET T :
                      SumFunctionOnSet(f, (S \ T) \cup U)
                        # SumFunctionOnSet(f, S \ T) + SumFunctionOnSet(f, U)}
<1> SUFFICES ASSUME Bad # {} PROVE FALSE
  <2>1. T \notin Bad
    OBVIOUS
  <2>2. (S \ T) \cup T = S
    OBVIOUS
  <2>3. SumFunctionOnSet(f, S) = SumFunctionOnSet(f, S \ T) + SumFunctionOnSet(f, T)
    BY <2>1, <2>2
  <2>4. SumFunctionOnSet(f, S \ T) \in Int /\ SumFunctionOnSet(f, T) \in Int
    <3>1. IsFiniteSet(S \ T) /\ IsFiniteSet(T)
      BY FS_Subset
    <3> DEFINE R == S \ T
    <3>2. IsFiniteSet(R) /\ \A x \in R : f[x] \in Int
      BY <3>1
    <3> HIDE DEF R
    <3>3. SumFunctionOnSet(f, R) \in Int
      BY <3>2, SumInt
    <3>4. \A x \in T : f[x] \in Int
      OBVIOUS
    <3>5. SumFunctionOnSet(f, T) \in Int
      BY <3>1, <3>4, SumInt
    <3> QED BY <3>3, <3>5 DEF R
  <2> QED BY <2>3, <2>4
<1>1. Bad \in SUBSET SUBSET T
  OBVIOUS
<1>2. IsFiniteSet(T) /\ IsFiniteSet(S \ T)
  BY FS_Subset
<1>3. PICK U \in Bad : \A W \in Bad : ~ (W \subseteq U /\ W # U)
  <2> HIDE DEF Bad
  <2> QED BY <1>1, <1>2, SmallestSubset
<1>4. ASSUME NEW V \in SUBSET S
      PROVE  IsFiniteSet(V) /\ SumFunctionOnSet(f, V) \in Int
  <2>1. IsFiniteSet(V)
    BY FS_Subset
  <2> QED BY <2>1, SumInt
<1>5. U # {}
  <2>1. SumFunctionOnSet(f, {}) = 0
    BY SumEmpty
  <2>2. (S \ T) \cup {} = S \ T
    OBVIOUS
  <2>3. SumFunctionOnSet(f, S \ T) \in Int
    BY <1>4
  <2>4. SumFunctionOnSet(f, S \ T) = SumFunctionOnSet(f, S \ T) + 0
    BY <2>3
  <2> QED BY <2>1, <2>2, <2>4
<1>6. PICK p : p \in U
  BY <1>5
<1> DEFINE R == U \ {p}
           W == (S \ T) \cup R
<1>7. SumFunctionOnSet(f, W) = SumFunctionOnSet(f, S \ T) + SumFunctionOnSet(f, R)
  <2>1. R \notin Bad
    BY <1>3, <1>6
  <2>2. R \in SUBSET T
    OBVIOUS
  <2> QED BY <2>1, <2>2
<1>8. /\ W \in SUBSET S /\ p \notin W /\ p \in S /\ W \cup {p} = (S \ T) \cup U
      /\ R \in SUBSET S /\ p \notin R /\ R \cup {p} = U
  BY <1>6
<1>9. SumFunctionOnSet(f, W \cup {p}) = SumFunctionOnSet(f, W) + f[p]
  <2>1. IsFiniteSet(W) /\ p \notin W /\ \A x \in W \cup {p} : f[x] \in Int
    BY <1>4, <1>8
  <2> HIDE DEF W
  <2> QED BY <2>1, SumAdd
<1>10. SumFunctionOnSet(f, R \cup {p}) = SumFunctionOnSet(f, R) + f[p]
  <2>1. IsFiniteSet(R) /\ p \notin R /\ \A x \in R \cup {p} : f[x] \in Int
    BY <1>4, <1>8
  <2> HIDE DEF R
  <2> QED BY <2>1, SumAdd
<1> DEFINE Sum(V) == SumFunctionOnSet(f, V)
<1>11. Sum((S \ T) \cup U) = Sum(W) + f[p] /\ Sum(U) = Sum(R) + f[p]
  BY <1>8, <1>9, <1>10
<1>12. Sum(W) = Sum(S \ T) + Sum(R) /\ Sum((S \ T) \cup U) # Sum(S \ T) + Sum(U)
  BY <1>7
<1>13. Sum(R) \in Int /\ Sum(S \ T) \in Int /\ f[p] \in Int
  BY <1>4, <1>8
<1> HIDE DEF Sum, Bad, R, W
<1> QED BY <1>11, <1>12, <1>13

\* A sum over a set that an element joins, while the values of the others stay.
LEMMA SumEnter ==
    ASSUME NEW f, NEW g, NEW S, IsFiniteSet(S), NEW a, a \notin S,
           \A x \in S : f[x] \in Int /\ g[x] = f[x], g[a] \in Int
    PROVE  SumFunctionOnSet(g, S \cup {a}) = SumFunctionOnSet(f, S) + g[a]
<1>1. SumFunctionOnSet(g, S \cup {a}) = SumFunctionOnSet(g, S) + g[a]
  BY SumAdd
<1>2. SumFunctionOnSet(f, S) = SumFunctionOnSet(g, S)
  BY SumSame
<1> QED BY <1>1, <1>2

\* A sum over a set that an element leaves, while the values of the others stay.
LEMMA SumLeave ==
    ASSUME NEW f, NEW g, NEW S, IsFiniteSet(S), NEW a \in S,
           \A x \in S : f[x] \in Int, \A x \in S \ {a} : g[x] = f[x]
    PROVE  SumFunctionOnSet(g, S \ {a}) = SumFunctionOnSet(f, S) - f[a]
<1> DEFINE R == S \ {a}
<1>1. IsFiniteSet(R) /\ \A x \in R : f[x] \in Int /\ f[x] = g[x]
  BY FS_RemoveElement
<1>2. SumFunctionOnSet(f, S) = f[a] + SumFunctionOnSet(f, R)
  BY SumTake
<1> HIDE DEF R
<1>3. SumFunctionOnSet(f, R) = SumFunctionOnSet(g, R)
  BY <1>1, SumSame
<1>4. SumFunctionOnSet(f, R) \in Int /\ f[a] \in Int
  BY <1>1, SumInt
<1>5. SumFunctionOnSet(g, R) = SumFunctionOnSet(f, S) - f[a]
  BY <1>2, <1>3, <1>4
<1> QED BY <1>5 DEF R

\* A sum in which one value changes.
LEMMA SumChange ==
    ASSUME NEW f, NEW g, NEW S, IsFiniteSet(S), NEW a \in S,
           \A x \in S : f[x] \in Int, g[a] \in Int, \A x \in S \ {a} : g[x] = f[x]
    PROVE  SumFunctionOnSet(g, S) = SumFunctionOnSet(f, S) - f[a] + g[a]
<1> DEFINE R == S \ {a}
<1>1. IsFiniteSet(R) /\ \A x \in R : f[x] \in Int /\ f[x] = g[x]
  BY FS_RemoveElement
<1>2. SumFunctionOnSet(f, S) = f[a] + SumFunctionOnSet(f, R)
  BY SumTake
<1>3. SumFunctionOnSet(g, S) = g[a] + SumFunctionOnSet(g, R)
  <2>1. \A x \in S : g[x] \in Int
    OBVIOUS
  <2> QED BY <2>1, SumTake
<1> HIDE DEF R
<1>4. SumFunctionOnSet(f, R) = SumFunctionOnSet(g, R)
  BY <1>1, SumSame
<1>5. SumFunctionOnSet(f, R) \in Int /\ f[a] \in Int
  BY <1>1, SumInt
<1> QED BY <1>2, <1>3, <1>4, <1>5

\* A part of a sum of natural numbers is no more than the whole.
LEMMA SumPart ==
    ASSUME NEW f, NEW S, IsFiniteSet(S), \A x \in S : f[x] \in Nat, NEW T \in SUBSET S
    PROVE  /\ SumFunctionOnSet(f, T) \in Nat
           /\ SumFunctionOnSet(f, T) <= SumFunctionOnSet(f, S)
<1> DEFINE R == S \ T
<1>1. IsFiniteSet(T) /\ IsFiniteSet(R)
  BY FS_Subset
<1>2. SumFunctionOnSet(f, S) = SumFunctionOnSet(f, T) + SumFunctionOnSet(f, R)
  BY SumSplit
<1>3. SumFunctionOnSet(f, T) \in Nat
  <2>1. \A x \in T : f[x] \in Nat
    OBVIOUS
  <2> QED BY <1>1, <2>1, SumNat
<1>4. SumFunctionOnSet(f, R) \in Nat
  <2>1. \A x \in R : f[x] \in Nat
    OBVIOUS
  <2> HIDE DEF R
  <2> QED BY <1>1, <2>1, SumNat
<1> HIDE DEF R
<1> QED BY <1>2, <1>3, <1>4

\* In particular one value is.
LEMMA SumOne ==
    ASSUME NEW f, NEW S, IsFiniteSet(S), \A x \in S : f[x] \in Nat, NEW a \in S
    PROVE  f[a] <= SumFunctionOnSet(f, S)
<1> DEFINE R == S \ {a}
<1>1. SumFunctionOnSet(f, S) = f[a] + SumFunctionOnSet(f, R)
  BY SumTake
<1>2. SumFunctionOnSet(f, R) \in Nat
  BY SumPart
<1> HIDE DEF R
<1> QED BY <1>1, <1>2

\* A factor may be taken out of a sum.
LEMMA SumScale ==
    ASSUME NEW c \in Int, NEW f, NEW g, NEW S, IsFiniteSet(S),
           \A x \in S : f[x] \in Int /\ g[x] = c * f[x]
    PROVE  SumFunctionOnSet(g, S) = c * SumFunctionOnSet(f, S)
<1> DEFINE Bad == {T \in SUBSET S : SumFunctionOnSet(g, T) # c * SumFunctionOnSet(f, T)}
<1> SUFFICES ASSUME Bad # {} PROVE FALSE
  OBVIOUS
<1>1. Bad \in SUBSET SUBSET S
  OBVIOUS
<1>2. PICK T \in Bad : \A U \in Bad : ~ (U \subseteq T /\ U # T)
  <2> HIDE DEF Bad
  <2> QED BY <1>1, SmallestSubset
<1>3. T # {}
  <2>1. SumFunctionOnSet(f, {}) = 0 /\ SumFunctionOnSet(g, {}) = 0
    BY SumEmpty
  <2>2. SumFunctionOnSet(g, {}) = c * SumFunctionOnSet(f, {})
    BY <2>1
  <2> QED BY <2>2
<1>4. IsFiniteSet(T) /\ \A U \in SUBSET T : IsFiniteSet(U)
  BY FS_Subset
<1> DEFINE p == Pick(T)
           R == T \ {p}
<1>5. /\ p \in T
      /\ SumFunctionOnSet(f, T) = f[p] + SumFunctionOnSet(f, R)
      /\ SumFunctionOnSet(g, T) = g[p] + SumFunctionOnSet(g, R)
  BY <1>3, <1>4, SumStep
<1>6. SumFunctionOnSet(g, R) = c * SumFunctionOnSet(f, R)
  BY <1>2, <1>5
<1>7. SumFunctionOnSet(f, R) \in Int
  <2>1. IsFiniteSet(R) /\ \A x \in R : f[x] \in Int
    BY <1>4
  <2> HIDE DEF R
  <2> QED BY <2>1, SumInt
<1>8. f[p] \in Int /\ g[p] = c * f[p]
  BY <1>5
<1>9. SumFunctionOnSet(g, T) # c * SumFunctionOnSet(f, T)
  OBVIOUS
<1>10. \A x, y \in Int : c * (x + y) = c * x + c * y
  OBVIOUS
<1> HIDE DEF R, p, Bad
<1> QED BY <1>5, <1>6, <1>7, <1>8, <1>9, <1>10

\* Rows added up and columns added up come to the same.
LEMMA SumSwap ==
    ASSUME NEW A, NEW B, IsFiniteSet(A), IsFiniteSet(B),
           NEW F, \A a \in A : \A b \in B : F[a][b] \in Int,
           NEW R, \A a \in A : R[a] = SumFunctionOnSet(F[a], B)
    PROVE  SumFunctionOnSet(R, A)
             = SumFunctionOnSet([b \in B |-> SumFunctionOnSet([a \in A |-> F[a][b]], A)], B)
<1> DEFINE Column(b) == [a \in A |-> F[a][b]]
           Sums(T) == [b \in B |-> SumFunctionOnSet(Column(b), T)]
           Bad == {T \in SUBSET A : SumFunctionOnSet(R, T) # SumFunctionOnSet(Sums(T), B)}
<1> SUFFICES ASSUME Bad # {} PROVE FALSE
  OBVIOUS
<1>1. Bad \in SUBSET SUBSET A
  OBVIOUS
<1>2. PICK T \in Bad : \A U \in Bad : ~ (U \subseteq T /\ U # T)
  <2> HIDE DEF Bad
  <2> QED BY <1>1, SmallestSubset
<1>3. T # {}
  <2>1. SumFunctionOnSet(R, {}) = 0 /\ \A b \in B : SumFunctionOnSet(Column(b), {}) = 0
    BY SumEmpty
  <2>2. \A b \in B : Sums({})[b] = 0
    BY <2>1
  <2> HIDE DEF Sums
  <2>3. SumFunctionOnSet(Sums({}), B) = 0
    BY <2>2, SumZero
  <2> QED BY <2>1, <2>3
<1>4. IsFiniteSet(T) /\ \A U \in SUBSET T : IsFiniteSet(U)
  BY FS_Subset
<1> DEFINE p == Pick(T)
           U == T \ {p}
<1>5. /\ p \in T
      /\ SumFunctionOnSet(R, T) = R[p] + SumFunctionOnSet(R, U)
      /\ \A b \in B :
            SumFunctionOnSet(Column(b), T) = Column(b)[p] + SumFunctionOnSet(Column(b), U)
  BY <1>3, <1>4, SumStep
<1>6. SumFunctionOnSet(R, U) = SumFunctionOnSet(Sums(U), B)
  <2>1. U \in SUBSET A /\ U \subseteq T /\ U # T
    BY <1>5
  <2>2. U \notin Bad
    <3> HIDE DEF Bad, U
    <3> QED BY <1>2, <2>1
  <2> HIDE DEF Sums, U
  <2> QED BY <2>1, <2>2
<1>7. \A b \in B : SumFunctionOnSet(Column(b), U) \in Int
  <2> TAKE b \in B
  <2>1. IsFiniteSet(U) /\ \A x \in U : Column(b)[x] \in Int
    BY <1>4
  <2> HIDE DEF U, Column
  <2> QED BY <2>1, SumInt
<1>8. \A b \in B : F[p][b] \in Int /\ Sums(U)[b] \in Int /\ Sums(T)[b] = F[p][b] + Sums(U)[b]
  BY <1>5, <1>7
<1>9. R[p] = SumFunctionOnSet(F[p], B)
  BY <1>5
<1>10. SumFunctionOnSet(R, T) # SumFunctionOnSet(Sums(T), B)
  OBVIOUS
<1>11. SumFunctionOnSet(Sums(T), B) = SumFunctionOnSet(F[p], B) + SumFunctionOnSet(Sums(U), B)
  <2> HIDE DEF Sums, U, p, Bad
  <2> QED BY <1>8, SumPlus
<1> HIDE DEF Sums, U, p, Bad, Column
<1> QED BY <1>5, <1>6, <1>9, <1>10, <1>11

\* What each of the values of r is taken by adds up to the whole set.
LEMMA SumOfClasses ==
    ASSUME NEW S, IsFiniteSet(S), NEW R, IsFiniteSet(R), NEW r, \A a \in S : r[a] \in R
    PROVE  SumFunctionOnSet([s \in R |-> Cardinality({a \in S : r[a] = s})], R) = Cardinality(S)
<1> DEFINE Of(T) == [s \in R |-> Cardinality({a \in T : r[a] = s})]
           Bad == {T \in SUBSET S : SumFunctionOnSet(Of(T), R) # Cardinality(T)}
<1> SUFFICES ASSUME Bad # {} PROVE FALSE
  BY DEF Bad
<1>1. Bad \in SUBSET SUBSET S
  OBVIOUS
<1>2. PICK T \in Bad : \A U \in Bad : ~ (U \subseteq T /\ U # T)
  <2> HIDE DEF Bad
  <2> QED BY <1>1, SmallestSubset
<1>3. T # {}
  <2>1. \A s \in R : Of({})[s] = 0
    BY FS_EmptySet
  <2>2. SumFunctionOnSet(Of({}), R) = 0
    <3> HIDE DEF Of
    <3> QED BY <2>1, SumZero
  <2> QED BY <2>2, FS_EmptySet
<1>4. IsFiniteSet(T)
  BY FS_Subset
<1>5. PICK p \in T : TRUE
  BY <1>3
<1> DEFINE U == T \ {p}
<1>6. IsFiniteSet(U) /\ Cardinality(U) = Cardinality(T) - 1
  BY <1>4, <1>5, FS_RemoveElement
<1>7. SumFunctionOnSet(Of(U), R) = Cardinality(U)
  BY <1>2, <1>5
<1>8. \A s \in R : Of(U)[s] \in Int
  <2>1. ASSUME NEW s \in R PROVE Of(U)[s] \in Int
    <3>1. IsFiniteSet({a \in U : r[a] = s})
      BY <1>6, FS_Subset
    <3> QED BY <3>1, FS_CardinalityType
  <2> QED BY <2>1
<1>9. ASSUME NEW s \in R PROVE Of(T)[s] = IF s = r[p] THEN Of(U)[s] + 1 ELSE Of(U)[s]
  <2>1. CASE s = r[p]
    <3> DEFINE X == {a \in T : r[a] = s}
               Y == {a \in U : r[a] = s}
    <3>1. Y = X \ {p} /\ p \in X
      BY <1>5, <2>1
    <3>2. IsFiniteSet(X)
      BY <1>4, FS_Subset
    <3>3. Of(T)[s] = Cardinality(X) /\ Of(U)[s] = Cardinality(Y)
      OBVIOUS
    <3> HIDE DEF X, Y
    <3>4. Cardinality(Y) = Cardinality(X) - 1 /\ Cardinality(X) \in Nat
      BY <3>1, <3>2, FS_RemoveElement, FS_CardinalityType
    <3> HIDE DEF Of
    <3> QED BY <2>1, <3>3, <3>4
  <2>2. CASE s # r[p]
    <3>1. {a \in U : r[a] = s} = {a \in T : r[a] = s}
      BY <2>2
    <3> QED BY <2>2, <3>1
  <2> HIDE DEF Of
  <2> QED BY <2>1, <2>2
<1>10. r[p] \in R
  BY <1>5
<1> DEFINE f == Of(U)
           g == Of(T)
<1>11. /\ \A s \in R : f[s] \in Int
       /\ g[r[p]] = f[r[p]] + 1 /\ \A s \in R \ {r[p]} : g[s] = f[s]
  BY <1>8, <1>9, <1>10
<1>12. SumFunctionOnSet(g, R) # Cardinality(T) /\ SumFunctionOnSet(f, R) = Cardinality(U)
  BY <1>7
<1> HIDE DEF f, g, U, Of, Bad
<1>13. SumFunctionOnSet(g, R) = SumFunctionOnSet(f, R) - f[r[p]] + g[r[p]]
  BY <1>10, <1>11, SumChange
<1>14. Cardinality(T) \in Nat /\ f[r[p]] \in Int
  BY <1>4, <1>10, <1>11, FS_CardinalityType
<1> QED BY <1>6, <1>11, <1>12, <1>13, <1>14

\* A sum of values that are c at most.
LEMMA SumAtMost ==
    ASSUME NEW f, NEW S, IsFiniteSet(S), NEW c \in Int, \A x \in S : f[x] \in Int /\ f[x] <= c
    PROVE  SumFunctionOnSet(f, S) <= c * Cardinality(S)
<1> DEFINE one == [x \in S |-> 1]
           all == [x \in S |-> c]
<1>1. \A x \in S : one[x] \in Int /\ all[x] = c * one[x] /\ all[x] \in Int /\ f[x] <= all[x]
  OBVIOUS
<1>2. SumFunctionOnSet(one, S) = Cardinality(S)
  <2> DEFINE Bad == {T \in SUBSET S : SumFunctionOnSet(one, T) # Cardinality(T)}
  <2> SUFFICES ASSUME Bad # {} PROVE FALSE
    BY DEF Bad
  <2>1. Bad \in SUBSET SUBSET S
    OBVIOUS
  <2>2. PICK T \in Bad : \A U \in Bad : ~ (U \subseteq T /\ U # T)
    <3> HIDE DEF Bad
    <3> QED BY <2>1, SmallestSubset
  <2>3. T # {} /\ IsFiniteSet(T)
    BY SumEmpty, FS_EmptySet, FS_Subset
  <2>4. /\ Pick(T) \in T
        /\ SumFunctionOnSet(one, T) = one[Pick(T)] + SumFunctionOnSet(one, T \ {Pick(T)})
    BY <2>3, SumStep
  <2>5. Cardinality(T \ {Pick(T)}) = Cardinality(T) - 1 /\ Cardinality(T) \in Nat
    BY <2>3, <2>4, FS_RemoveElement, FS_CardinalityType
  <2>6. SumFunctionOnSet(one, T \ {Pick(T)}) = Cardinality(T \ {Pick(T)})
    BY <2>2, <2>4
  <2>7. one[Pick(T)] = 1
    BY <2>4
  <2>8. SumFunctionOnSet(one, T) # Cardinality(T)
    OBVIOUS
  <2> HIDE DEF Bad, one
  <2> QED BY <2>4, <2>5, <2>6, <2>7, <2>8
<1> HIDE DEF one, all
<1>3. SumFunctionOnSet(all, S) = c * SumFunctionOnSet(one, S)
  BY <1>1, SumScale
<1>4. SumFunctionOnSet(f, S) <= SumFunctionOnSet(all, S)
  BY <1>1, SumLeq
<1> QED BY <1>2, <1>3, <1>4

\* The elements of S for which k is v.
Class(S, k, v) == {x \in S : k[x] = v}

\* Parts that share no element, one for each value of k, add up to the whole.
LEMMA SumOfParts ==
    ASSUME NEW S, IsFiniteSet(S), NEW R, IsFiniteSet(R), NEW k, \A x \in S : k[x] \in R,
           NEW f, \A x \in S : f[x] \in Int,
           NEW g, \A v \in R : g[v] = SumFunctionOnSet(f, Class(S, k, v))
    PROVE  SumFunctionOnSet(g, R) = SumFunctionOnSet(f, S)
<1> DEFINE Part(T, v) == Class(T, k, v)
           Of(T) == [v \in R |-> SumFunctionOnSet(f, Part(T, v))]
           Bad == {T \in SUBSET S : SumFunctionOnSet(Of(T), R) # SumFunctionOnSet(f, T)}
<1>0. \A T \in SUBSET S : IsFiniteSet(T) /\ \A v \in R : Of(T)[v] \in Int
  <2> SUFFICES ASSUME NEW T \in SUBSET S
               PROVE  IsFiniteSet(T) /\ \A v \in R : SumFunctionOnSet(f, Part(T, v)) \in Int
    OBVIOUS
  <2>1. IsFiniteSet(T) /\ \A v \in R : IsFiniteSet(Part(T, v))
    BY FS_Subset DEF Class
  <2>2. \A v \in R : \A x \in Part(T, v) : f[x] \in Int
    BY DEF Class
  <2> HIDE DEF Part
  <2> QED BY <2>1, <2>2, SumInt
<1>1. SumFunctionOnSet(Of(S), R) = SumFunctionOnSet(g, R)
  <2>1. \A v \in R : Of(S)[v] \in Int /\ Of(S)[v] = g[v]
    BY <1>0
  <2> HIDE DEF Of
  <2> QED BY <2>1, SumSame
<1> SUFFICES ASSUME Bad # {} PROVE FALSE
  <2>1. S \notin Bad
    OBVIOUS
  <2>2. SumFunctionOnSet(Of(S), R) = SumFunctionOnSet(f, S)
    BY <2>1
  <2> HIDE DEF Of
  <2> QED BY <1>1, <2>2
<1>2. PICK T \in Bad : \A U \in Bad : ~ (U \subseteq T /\ U # T)
  <2>1. Bad \in SUBSET SUBSET S
    OBVIOUS
  <2> HIDE DEF Bad
  <2> QED BY <2>1, SmallestSubset
<1>3. T # {}
  <2>1. \A v \in R : Part({}, v) = {}
    BY DEF Class
  <2>2. \A v \in R : Of({})[v] = 0
    <3> HIDE DEF Part
    <3> QED BY <2>1, SumEmpty
  <2>3. SumFunctionOnSet(Of({}), R) = 0
    <3> HIDE DEF Of
    <3> QED BY <2>2, SumZero
  <2>4. SumFunctionOnSet(f, {}) = 0
    BY SumEmpty
  <2> HIDE DEF Of
  <2> QED BY <2>3, <2>4
<1>4. PICK p \in T : p \in S /\ k[p] \in R /\ f[p] \in Int
  BY <1>3
<1> DEFINE U == T \ {p}
           before == Of(U)
           after == Of(T)
<1>5. SumFunctionOnSet(before, R) = SumFunctionOnSet(f, U)
  <2>1. U \in SUBSET S /\ U \subseteq T /\ U # T
    BY <1>4
  <2>2. U \notin Bad
    <3> HIDE DEF Bad, U
    <3> QED BY <1>2, <2>1
  <2> HIDE DEF Of, U
  <2> QED BY <2>1, <2>2
<1>6. (\A v \in R : before[v] \in Int) /\ \A v \in R : after[v] \in Int
  <2>1. U \in SUBSET S /\ T \in SUBSET S
    OBVIOUS
  <2> HIDE DEF Of, U
  <2> QED BY <1>0, <2>1
<1>7. \A v \in R \ {k[p]} : after[v] = before[v]
  <2>1. ASSUME NEW v \in R, v # k[p]
        PROVE  Part(T, v) = Part(U, v)
    BY <2>1 DEF Class
  <2> HIDE DEF Part, U
  <2> QED BY <2>1
<1>8. after[k[p]] = f[p] + before[k[p]]
  <2> DEFINE X == Part(T, k[p])
             Y == Part(U, k[p])
  <2>1. p \in X /\ Y = X \ {p} /\ \A x \in X : f[x] \in Int
    BY <1>4 DEF Class
  <2>2. IsFiniteSet(X)
    BY <1>0, FS_Subset DEF Class
  <2>3. after[k[p]] = SumFunctionOnSet(f, X) /\ before[k[p]] = SumFunctionOnSet(f, Y)
    BY <1>4
  <2> HIDE DEF X, Y, after, before, U, Part
  <2>4. SumFunctionOnSet(f, X) = f[p] + SumFunctionOnSet(f, X \ {p})
    BY <2>1, <2>2, SumTake
  <2> QED BY <2>1, <2>3, <2>4
<1>9. SumFunctionOnSet(f, T) = f[p] + SumFunctionOnSet(f, U)
  <2>1. IsFiniteSet(T) /\ \A x \in T : f[x] \in Int
    BY <1>0
  <2> QED BY <2>1, SumTake
<1>10. SumFunctionOnSet(after, R) # SumFunctionOnSet(f, T)
  BY <1>2
<1> HIDE DEF before, after, Of, Bad
<1>11. SumFunctionOnSet(after, R) = SumFunctionOnSet(before, R) - before[k[p]] + after[k[p]]
  BY <1>4, <1>6, <1>7, SumChange
<1>12. SumFunctionOnSet(before, R) \in Int /\ before[k[p]] \in Int
  BY <1>4, <1>6, SumInt
<1> HIDE DEF U
<1> QED BY <1>4, <1>5, <1>8, <1>9, <1>10, <1>11, <1>12

\* The sum of a function that is f on its domain.
LEMMA SumOfFunction ==
    ASSUME NEW f, NEW S, IsFiniteSet(S), NEW g, DOMAIN g = S,
           \A x \in S : f[x] \in Int /\ g[x] = f[x]
    PROVE  SumFunction(g) = SumFunctionOnSet(f, S)
<1>1. SumFunctionOnSet(f, S) = SumFunctionOnSet(g, S)
  BY SumSame
<1> QED BY <1>1 DEF SumFunction

\* One value is its own sum.
LEMMA SumSingle ==
    ASSUME NEW f, NEW a, f[a] \in Int
    PROVE  SumFunctionOnSet(f, {a}) = f[a]
<1>1. IsFiniteSet({a}) /\ \A x \in {a} : f[x] \in Int
  BY FS_Singleton
<1>2. SumFunctionOnSet(f, {a}) = f[a] + SumFunctionOnSet(f, {a} \ {a})
  BY <1>1, SumTake
<1>3. {a} \ {a} = {}
  OBVIOUS
<1> QED BY <1>2, <1>3, SumEmpty

\* Rows and their images, one for each, add up to the same.
LEMMA SumOfImages ==
    ASSUME NEW S, IsFiniteSet(S), NEW T, IsFiniteSet(T),
           NEW k, \A x \in S : k[x] \in T, \A x, y \in S : k[x] = k[y] => x = y,
           \A t \in T : \E x \in S : k[x] = t,
           NEW f, NEW g, \A x \in S : f[x] \in Int /\ g[k[x]] = f[x]
    PROVE  SumFunctionOnSet(g, T) = SumFunctionOnSet(f, S)
<1>1. \A t \in T : g[t] = SumFunctionOnSet(f, Class(S, k, t))
  <2> SUFFICES ASSUME NEW t \in T
               PROVE  g[t] = SumFunctionOnSet(f, Class(S, k, t))
    OBVIOUS
  <2>1. PICK x \in S : k[x] = t
    OBVIOUS
  <2>2. Class(S, k, t) = {x} /\ f[x] \in Int /\ g[t] = f[x]
    BY <2>1 DEF Class
  <2>3. SumFunctionOnSet(f, {x}) = f[x]
    BY <2>2, SumSingle
  <2> QED BY <2>2, <2>3
<1> QED BY <1>1, SumOfParts

\* Counts by the value of a key add up to the whole.
LEMMA CountsAddUp ==
    ASSUME NEW S, IsFiniteSet(S), NEW R, IsFiniteSet(R), NEW k, \A x \in S : k[x] \in R,
           NEW g, \A v \in R : g[v] = Cardinality(Class(S, k, v))
    PROVE  SumFunctionOnSet(g, R) = Cardinality(S)
<1> DEFINE count == [v \in R |-> Cardinality({x \in S : k[x] = v})]
<1>1. SumFunctionOnSet(count, R) = Cardinality(S)
  BY SumOfClasses
<1>2. ASSUME NEW v \in R PROVE count[v] \in Int /\ count[v] = g[v]
  <2>1. IsFiniteSet(Class(S, k, v))
    BY FS_Subset DEF Class
  <2>2. Cardinality(Class(S, k, v)) \in Nat
    BY <2>1, FS_CardinalityType
  <2>3. count[v] = Cardinality(Class(S, k, v))
    BY DEF Class
  <2> HIDE DEF count
  <2> QED
    BY <2>2, <2>3
<1> HIDE DEF count
<1>3. SumFunctionOnSet(count, R) = SumFunctionOnSet(g, R)
  BY <1>2, SumSame
<1> QED
  BY <1>1, <1>3

\* The values of a function on a finite set are finite.
LEMMA ImagesFinite ==
    ASSUME NEW S, IsFiniteSet(S), NEW f
    PROVE  IsFiniteSet({f[x] : x \in S})
<1> DEFINE T == {f[x] : x \in S}
           g == [x \in S |-> f[x]]
<1>1. g \in [S -> T] /\ \A t \in T : \E x \in S : g[x] = t
  OBVIOUS
<1>2. g \in Surjection(S, T)
  BY <1>1 DEF Surjection
<1> HIDE DEF g, T
<1>3. IsFiniteSet(T)
  BY <1>2, FS_Surjection
<1> QED
  BY <1>3 DEF T

\* Four values are a finite set.
LEMMA FourAreFinite == \A a, b, c, d : IsFiniteSet({a, b, c, d})
<1> TAKE a, b, c, d
<1>1. IsFiniteSet({a} \cup {b}) /\ IsFiniteSet({c} \cup {d})
  BY FS_Singleton, FS_Union
<1>2. IsFiniteSet(({a} \cup {b}) \cup ({c} \cup {d}))
  BY <1>1, FS_Union
<1>3. {a, b, c, d} = ({a} \cup {b}) \cup ({c} \cup {d})
  OBVIOUS
<1> QED
  BY <1>2, <1>3
=============================================================================
