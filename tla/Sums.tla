-------------------------------- MODULE Sums --------------------------------
(***************************************************************************)
(* Sums of functions over finite sets: SumFunctionOnSet of the community   *)
(* module Functions.  Its definition recurs over the subsets of the set;   *)
(* here it is proved that the recursion defines a function, and what the   *)
(* sum does when an element is added or the function changes at a point.   *)
(*                                                                         *)
(* There is no induction rule to cite for a formula of one's own, so every *)
(* induction is an argument about a smallest counterexample.               *)
(***************************************************************************)
EXTENDS Functions, FiniteSetTheorems, TLAPS

LEMMA SmallestSet ==
  ASSUME NEW S, IsFiniteSet(S), NEW B \in SUBSET SUBSET S, B # {}
  PROVE  \E T \in B : \A U \in SUBSET T : U # T => U \notin B
<1>1. IsWellFoundedOn(StrictSubsetOrdering(S), FiniteSubsetsOf(S))
  BY FS_StrictSubsetOrderingWellFounded
<1>2. B \subseteq FiniteSubsetsOf(S)
  BY FS_FiniteSubsetsOfFinite
<1>3. \E T \in B : \A U \in B : ~(<<U, T>> \in StrictSubsetOrdering(S))
  BY <1>1, <1>2, WFMin
<1> QED BY <1>3 DEF StrictSubsetOrdering

-----------------------------------------------------------------------------
(* The recursion defines a function *)

Chosen(s) == CHOOSE x \in s : TRUE

\* h is the function by which the sum of f over U is defined.
IsSum(h, f, U) ==
  h = [s \in SUBSET U |-> IF s = {} THEN 0 ELSE f[Chosen(s)] + h[s \ {Chosen(s)}]]

SumBy(f, U) == CHOOSE h : IsSum(h, f, U)

LEMMA SumIsSumBy ==
  ASSUME NEW f, NEW U
  PROVE  SumFunctionOnSet(f, U) = SumBy(f, U)[U]
BY DEF SumFunctionOnSet, FoldFunctionOnSet, MapThenFoldSet, SumBy, IsSum, Chosen

LEMMA ChosenIn == \A s : s # {} => Chosen(s) \in s
BY DEF Chosen

LEMMA SumUnique ==
  ASSUME NEW S, IsFiniteSet(S), NEW U \in SUBSET S, NEW V \in SUBSET S,
         NEW f, NEW h, NEW g, IsSum(h, f, U), IsSum(g, f, V)
  PROVE  \A s \in SUBSET (U \cap V) : h[s] = g[s]
<1> DEFINE Bad == {s \in SUBSET (U \cap V) : h[s] # g[s]}
<1> SUFFICES ASSUME Bad # {} PROVE FALSE
  OBVIOUS
<1>1. PICK T \in Bad : \A s \in SUBSET T : s # T => s \notin Bad
  <2>1. Bad \in SUBSET SUBSET S
    OBVIOUS
  <2> HIDE DEF Bad
  <2> QED BY <2>1, SmallestSet
<1>2. T \in SUBSET U /\ T \in SUBSET V /\ h[T] # g[T]
  OBVIOUS
<1>3. T # {}
  BY <1>2 DEF IsSum
<1> DEFINE r == T \ {Chosen(T)}
<1>4. r \in SUBSET T /\ r # T
  BY <1>3, ChosenIn
<1>5. h[r] = g[r]
  BY <1>1, <1>4
<1>6. h[T] = f[Chosen(T)] + h[r]
  BY <1>2, <1>3 DEF IsSum
<1>7. g[T] = f[Chosen(T)] + g[r]
  BY <1>2, <1>3 DEF IsSum
<1> QED BY <1>2, <1>5, <1>6, <1>7

LEMMA SumExists ==
  ASSUME NEW S, IsFiniteSet(S), NEW f
  PROVE  \A U \in SUBSET S : IsSum(SumBy(f, U), f, U)
<1> DEFINE Bad == {U \in SUBSET S : ~ \E h : IsSum(h, f, U)}
<1>1. SUFFICES ASSUME Bad # {} PROVE FALSE
  BY DEF SumBy
<1>2. PICK T \in Bad : \A U \in SUBSET T : U # T => U \notin Bad
  <2>1. Bad \in SUBSET SUBSET S
    OBVIOUS
  <2> HIDE DEF Bad
  <2> QED BY <1>1, <2>1, SmallestSet
<1>3. T \in SUBSET S /\ ~ \E h : IsSum(h, f, T)
  OBVIOUS
<1> DEFINE Rest(s) == s \ {Chosen(s)}
           Value(s) == SumBy(f, s)[s]
           g == [s \in SUBSET T |-> IF s = {} THEN 0 ELSE f[Chosen(s)] + Value(Rest(s))]
<1>4. ASSUME NEW U \in SUBSET T, U # T PROVE IsSum(SumBy(f, U), f, U)
  <2>1. U \in SUBSET S /\ U \notin Bad
    BY <1>2, <1>3, <1>4
  <2> QED BY <2>1 DEF SumBy
<1>5. ASSUME NEW s \in SUBSET T, s # {} PROVE g[Rest(s)] = Value(Rest(s))
  <2> DEFINE u == Rest(s)
  <2>1. u \in SUBSET T /\ u # T /\ u \in SUBSET S
    BY <1>3, <1>5, ChosenIn
  <2>2. IsSum(SumBy(f, u), f, u)
    BY <1>4, <2>1
  <2>3. CASE u = {}
    BY <2>1, <2>2, <2>3 DEF IsSum
  <2>4. CASE u # {}
    <3>1. Rest(u) \in SUBSET u /\ Rest(u) \in SUBSET T /\ Rest(u) # T /\ Rest(u) \in SUBSET S
      BY <1>3, <2>1, <2>4, ChosenIn
    <3>2. IsSum(SumBy(f, Rest(u)), f, Rest(u))
      BY <1>4, <3>1
    <3>3. SumBy(f, u)[Rest(u)] = Value(Rest(u))
      <4>1. Rest(u) \in SUBSET (u \cap Rest(u))
        BY <3>1
      <4> HIDE DEF Rest, u
      <4> QED BY <2>1, <2>2, <3>1, <3>2, <4>1, SumUnique
    <3>4. SumBy(f, u)[u] = f[Chosen(u)] + SumBy(f, u)[Rest(u)]
      BY <2>2, <2>4 DEF IsSum
    <3>5. g[u] = f[Chosen(u)] + Value(Rest(u))
      BY <2>1, <2>4
    <3> QED BY <3>3, <3>4, <3>5
  <2> QED BY <2>3, <2>4
<1>6. IsSum(g, f, T)
  <2>1. g = [s \in SUBSET T |-> IF s = {} THEN 0 ELSE f[Chosen(s)] + g[Rest(s)]]
    <3>1. \A s \in SUBSET T : g[s] = IF s = {} THEN 0 ELSE f[Chosen(s)] + g[Rest(s)]
      BY <1>5
    <3> QED BY <3>1
  <2> QED BY <2>1 DEF IsSum
<1> QED BY <1>3, <1>6

LEMMA SumEmpty == \A f : SumFunctionOnSet(f, {}) = 0
<1> TAKE f
<1>1. IsFiniteSet({})
  BY FS_EmptySet
<1>2. IsSum(SumBy(f, {}), f, {})
  BY <1>1, SumExists
<1> QED BY <1>2, SumIsSumBy DEF IsSum

\* The recursion, for the element that happens to be chosen.
LEMMA SumChosen ==
  ASSUME NEW S, IsFiniteSet(S), S # {}, NEW f
  PROVE  SumFunctionOnSet(f, S) = f[Chosen(S)] + SumFunctionOnSet(f, S \ {Chosen(S)})
<1> DEFINE R == S \ {Chosen(S)}
<1>1. IsSum(SumBy(f, S), f, S) /\ IsSum(SumBy(f, R), f, R)
  BY SumExists
<1>2. SumBy(f, S)[S] = f[Chosen(S)] + SumBy(f, S)[R]
  BY <1>1 DEF IsSum
<1>3. SumBy(f, S)[R] = SumBy(f, R)[R]
  <2>1. S \in SUBSET S /\ R \in SUBSET S /\ R \in SUBSET (S \cap R)
    OBVIOUS
  <2> HIDE DEF R
  <2> QED BY <1>1, <2>1, SumUnique
<1> QED BY <1>2, <1>3, SumIsSumBy

-----------------------------------------------------------------------------
(* What a sum does *)

LEMMA SumInt ==
  ASSUME NEW S, IsFiniteSet(S), NEW f, \A s \in S : f[s] \in Int
  PROVE  SumFunctionOnSet(f, S) \in Int
<1> DEFINE Bad == {T \in SUBSET S : SumFunctionOnSet(f, T) \notin Int}
<1>1. SUFFICES ASSUME Bad # {} PROVE FALSE
  OBVIOUS
<1>2. PICK T \in Bad : \A U \in SUBSET T : U # T => U \notin Bad
  <2>1. Bad \in SUBSET SUBSET S
    OBVIOUS
  <2> HIDE DEF Bad
  <2> QED BY <1>1, <2>1, SmallestSet
<1>3. T \in SUBSET S /\ IsFiniteSet(T) /\ T # {}
  <2>1. T \in SUBSET S /\ SumFunctionOnSet(f, T) \notin Int
    OBVIOUS
  <2>2. IsFiniteSet(T)
    BY <2>1, FS_Subset
  <2>3. SumFunctionOnSet(f, {}) \in Int
    BY SumEmpty
  <2> QED BY <2>1, <2>2, <2>3
<1> DEFINE R == T \ {Chosen(T)}
<1>4. Chosen(T) \in T /\ R \in SUBSET T /\ R # T
  BY <1>3, ChosenIn
<1>5. SumFunctionOnSet(f, R) \in Int
  BY <1>2, <1>3, <1>4
<1>6. SumFunctionOnSet(f, T) = f[Chosen(T)] + SumFunctionOnSet(f, R)
  BY <1>3, SumChosen
<1> QED BY <1>3, <1>4, <1>5, <1>6

LEMMA SumNat ==
  ASSUME NEW S, IsFiniteSet(S), NEW f, \A s \in S : f[s] \in Nat
  PROVE  SumFunctionOnSet(f, S) \in Nat
<1> DEFINE Bad == {T \in SUBSET S : SumFunctionOnSet(f, T) \notin Nat}
<1>1. SUFFICES ASSUME Bad # {} PROVE FALSE
  OBVIOUS
<1>2. PICK T \in Bad : \A U \in SUBSET T : U # T => U \notin Bad
  <2>1. Bad \in SUBSET SUBSET S
    OBVIOUS
  <2> HIDE DEF Bad
  <2> QED BY <1>1, <2>1, SmallestSet
<1>3. T \in SUBSET S /\ IsFiniteSet(T) /\ T # {}
  <2>1. T \in SUBSET S /\ SumFunctionOnSet(f, T) \notin Nat
    OBVIOUS
  <2>2. IsFiniteSet(T)
    BY <2>1, FS_Subset
  <2>3. SumFunctionOnSet(f, {}) \in Nat
    BY SumEmpty
  <2> QED BY <2>1, <2>2, <2>3
<1> DEFINE R == T \ {Chosen(T)}
<1>4. Chosen(T) \in T /\ R \in SUBSET T /\ R # T
  BY <1>3, ChosenIn
<1>5. SumFunctionOnSet(f, R) \in Nat
  BY <1>2, <1>3, <1>4
<1>6. SumFunctionOnSet(f, T) = f[Chosen(T)] + SumFunctionOnSet(f, R)
  BY <1>3, SumChosen
<1> QED BY <1>3, <1>4, <1>5, <1>6

\* Functions that agree on the set have the same sum over it.
LEMMA SumSame ==
  ASSUME NEW S, IsFiniteSet(S), NEW f, NEW g, \A s \in S : f[s] = g[s]
  PROVE  SumFunctionOnSet(f, S) = SumFunctionOnSet(g, S)
<1> DEFINE Bad == {T \in SUBSET S : SumFunctionOnSet(f, T) # SumFunctionOnSet(g, T)}
<1>1. SUFFICES ASSUME Bad # {} PROVE FALSE
  OBVIOUS
<1>2. PICK T \in Bad : \A U \in SUBSET T : U # T => U \notin Bad
  <2>1. Bad \in SUBSET SUBSET S
    OBVIOUS
  <2> HIDE DEF Bad
  <2> QED BY <1>1, <2>1, SmallestSet
<1>3. T \in SUBSET S /\ IsFiniteSet(T) /\ T # {}
  BY FS_Subset, SumEmpty
<1> DEFINE R == T \ {Chosen(T)}
<1>4. Chosen(T) \in T /\ R \in SUBSET T /\ R # T
  BY <1>3, ChosenIn
<1>5. SumFunctionOnSet(f, R) = SumFunctionOnSet(g, R)
  BY <1>2, <1>3, <1>4
<1>6. /\ SumFunctionOnSet(f, T) = f[Chosen(T)] + SumFunctionOnSet(f, R)
      /\ SumFunctionOnSet(g, T) = g[Chosen(T)] + SumFunctionOnSet(g, R)
  BY <1>3, SumChosen
<1> QED BY <1>2, <1>3, <1>4, <1>5, <1>6

\* Any element may be taken out first.
LEMMA SumRemove ==
  ASSUME NEW S, IsFiniteSet(S), NEW f, \A s \in S : f[s] \in Int, NEW x \in S
  PROVE  SumFunctionOnSet(f, S) = f[x] + SumFunctionOnSet(f, S \ {x})
<1> DEFINE Splits(T, y) == SumFunctionOnSet(f, T) = f[y] + SumFunctionOnSet(f, T \ {y})
           Bad == {T \in SUBSET S : \E y \in T : ~Splits(T, y)}
<1>1. SUFFICES ASSUME Bad # {} PROVE FALSE
  OBVIOUS
<1>2. PICK T \in Bad : \A U \in SUBSET T : U # T => U \notin Bad
  <2>1. Bad \in SUBSET SUBSET S
    OBVIOUS
  <2> HIDE DEF Bad
  <2> QED BY <1>1, <2>1, SmallestSet
<1>3. T \in SUBSET S /\ IsFiniteSet(T)
  BY FS_Subset
<1>4. PICK y \in T : ~Splits(T, y)
  OBVIOUS
<1> DEFINE c == Chosen(T)
<1>5. c \in T /\ Splits(T, c)
  BY <1>3, <1>4, ChosenIn, SumChosen
<1>6. c # y
  BY <1>4, <1>5
<1>7. T \ {c} \notin Bad /\ T \ {y} \notin Bad
  BY <1>2, <1>4, <1>5
<1>8. T \ {c} \in SUBSET S /\ T \ {y} \in SUBSET S /\ y \in T \ {c} /\ c \in T \ {y}
  BY <1>3, <1>4, <1>5, <1>6
<1>9. Splits(T \ {c}, y) /\ Splits(T \ {y}, c)
  <2> HIDE DEF Splits, c
  <2> QED BY <1>7, <1>8
<1>10. (T \ {c}) \ {y} = (T \ {y}) \ {c}
  OBVIOUS
<1> DEFINE rest == SumFunctionOnSet(f, (T \ {c}) \ {y})
<1>11. rest \in Int /\ f[c] \in Int /\ f[y] \in Int
  <2>1. IsFiniteSet((T \ {c}) \ {y}) /\ \A s \in (T \ {c}) \ {y} : f[s] \in Int
    BY <1>3, FS_RemoveElement
  <2>2. rest \in Int
    BY <2>1, SumInt
  <2> QED BY <2>2, <1>3, <1>4, <1>5
<1>12. /\ SumFunctionOnSet(f, T) = f[c] + SumFunctionOnSet(f, T \ {c})
       /\ SumFunctionOnSet(f, T \ {c}) = f[y] + rest
       /\ SumFunctionOnSet(f, T \ {y}) = f[c] + rest
  BY <1>5, <1>9, <1>10
<1>13. Splits(T, y)
  <2> HIDE DEF rest, c
  <2> QED BY <1>11, <1>12
<1> QED BY <1>4, <1>13

\* An element more.
LEMMA SumAdd ==
  ASSUME NEW S, IsFiniteSet(S), NEW x, x \notin S, NEW f, \A s \in S \cup {x} : f[s] \in Int
  PROVE  SumFunctionOnSet(f, S \cup {x}) = SumFunctionOnSet(f, S) + f[x]
<1>1. IsFiniteSet(S \cup {x}) /\ (S \cup {x}) \ {x} = S
  BY FS_AddElement
<1>2. SumFunctionOnSet(f, S \cup {x}) = f[x] + SumFunctionOnSet(f, S)
  BY <1>1, SumRemove
<1> QED BY <1>2, SumInt

\* The function changes at one point.
LEMMA SumChange ==
  ASSUME NEW S, IsFiniteSet(S), NEW x \in S, NEW f, NEW g,
         \A s \in S : f[s] \in Int, \A s \in S : s # x => g[s] = f[s], g[x] \in Int
  PROVE  SumFunctionOnSet(g, S) = SumFunctionOnSet(f, S) + (g[x] - f[x])
<1> DEFINE R == S \ {x}
<1>1. IsFiniteSet(R) /\ \A s \in R : f[s] \in Int /\ g[s] = f[s]
  BY FS_RemoveElement
<1>2. SumFunctionOnSet(g, R) = SumFunctionOnSet(f, R) /\ SumFunctionOnSet(f, R) \in Int
  BY <1>1, SumSame, SumInt
<1>3. SumFunctionOnSet(f, S) = f[x] + SumFunctionOnSet(f, R)
  BY SumRemove
<1>4. \A s \in S : g[s] \in Int
  OBVIOUS
<1>5. SumFunctionOnSet(g, S) = g[x] + SumFunctionOnSet(g, R)
  BY <1>4, SumRemove
<1>6. f[x] \in Int /\ g[x] \in Int
  OBVIOUS
<1> HIDE DEF R
<1> QED BY <1>2, <1>3, <1>5, <1>6

LEMMA SumZero ==
  ASSUME NEW S, IsFiniteSet(S), NEW f, \A s \in S : f[s] = 0
  PROVE  SumFunctionOnSet(f, S) = 0
<1> DEFINE Bad == {T \in SUBSET S : SumFunctionOnSet(f, T) # 0}
<1>1. SUFFICES ASSUME Bad # {} PROVE FALSE
  OBVIOUS
<1>2. PICK T \in Bad : \A U \in SUBSET T : U # T => U \notin Bad
  <2>1. Bad \in SUBSET SUBSET S
    OBVIOUS
  <2> HIDE DEF Bad
  <2> QED BY <1>1, <2>1, SmallestSet
<1>3. T \in SUBSET S /\ SumFunctionOnSet(f, T) # 0
  OBVIOUS
<1>4. IsFiniteSet(T) /\ T # {}
  BY <1>3, FS_Subset, SumEmpty
<1>5. Chosen(T) \in T /\ SumFunctionOnSet(f, T \ {Chosen(T)}) = 0
  BY <1>2, <1>3, <1>4, ChosenIn
<1> QED BY <1>3, <1>4, <1>5, SumChosen

\* Two functions added point by point.
LEMMA SumPlus ==
  ASSUME NEW S, IsFiniteSet(S), NEW f, NEW g, NEW h,
         \A s \in S : f[s] \in Int /\ g[s] \in Int, \A s \in S : h[s] = f[s] + g[s]
  PROVE  SumFunctionOnSet(h, S) = SumFunctionOnSet(f, S) + SumFunctionOnSet(g, S)
<1> DEFINE Bad == {T \in SUBSET S :
             SumFunctionOnSet(h, T) # SumFunctionOnSet(f, T) + SumFunctionOnSet(g, T)}
<1>1. SUFFICES ASSUME Bad # {} PROVE FALSE
  OBVIOUS
<1>2. PICK T \in Bad : \A U \in SUBSET T : U # T => U \notin Bad
  <2>1. Bad \in SUBSET SUBSET S
    OBVIOUS
  <2> HIDE DEF Bad
  <2> QED BY <1>1, <2>1, SmallestSet
<1>3. /\ T \in SUBSET S
      /\ SumFunctionOnSet(h, T) # SumFunctionOnSet(f, T) + SumFunctionOnSet(g, T)
  OBVIOUS
<1>4. IsFiniteSet(T) /\ T # {}
  <2>1. SumFunctionOnSet(h, {}) = 0 /\ SumFunctionOnSet(f, {}) = 0 /\ SumFunctionOnSet(g, {}) = 0
    BY SumEmpty
  <2>2. T # {}
    <3>1. PICK m, n, k : /\ m = SumFunctionOnSet(h, T)
                         /\ n = SumFunctionOnSet(f, T) /\ k = SumFunctionOnSet(g, T)
      OBVIOUS
    <3>2. m # n + k
      BY <1>3, <3>1
    <3>3. T = {} => m = 0 /\ n = 0 /\ k = 0
      BY <2>1, <3>1
    <3> HIDE DEF Bad
    <3> QED BY <3>2, <3>3
  <2>3. IsFiniteSet(T)
    BY <1>3, FS_Subset
  <2> QED BY <2>2, <2>3
<1>5. PICK x : x = Chosen(T)
  OBVIOUS
<1>6. /\ x \in T
      /\ SumFunctionOnSet(h, T \ {x}) =
           SumFunctionOnSet(f, T \ {x}) + SumFunctionOnSet(g, T \ {x})
  BY <1>2, <1>3, <1>4, <1>5, ChosenIn
<1>7. /\ SumFunctionOnSet(f, T) = f[x] + SumFunctionOnSet(f, T \ {x})
      /\ SumFunctionOnSet(g, T) = g[x] + SumFunctionOnSet(g, T \ {x})
      /\ SumFunctionOnSet(h, T) = h[x] + SumFunctionOnSet(h, T \ {x})
  BY <1>4, <1>5, SumChosen
<1>8. IsFiniteSet(T \ {x})
  BY <1>4, FS_RemoveElement
<1>9. SumFunctionOnSet(f, T \ {x}) \in Int /\ SumFunctionOnSet(g, T \ {x}) \in Int
  <2>1. \A s \in T \ {x} : f[s] \in Int /\ g[s] \in Int
    BY <1>3
  <2> QED BY <1>8, <2>1, SumInt
<1>10. f[x] \in Int /\ g[x] \in Int /\ h[x] = f[x] + g[x]
  BY <1>3, <1>6
<1> HIDE DEF Bad
<1> QED BY <1>3, <1>6, <1>7, <1>9, <1>10
=============================================================================
