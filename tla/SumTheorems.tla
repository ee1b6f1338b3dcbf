----------------------------- MODULE SumTheorems -----------------------------
(***************************************************************************)
(* Sums over finite sets, as the community modules define them: what the   *)
(* balances of contracts, users and wallets are compared with.  The sum is *)
(* a fold that takes elements in an order of its own; the theorems say     *)
(* that the order does not matter, so that a row more or less changes a    *)
(* sum by that row's amount.  And orders on finite sets: that a greatest   *)
(* element and a sorted listing exist.                                     *)
(*                                                                         *)
(* Amounts are a function and not an operator here, so that the theorems   *)
(* can be cited.  Induction is the choice of a least counterexample.       *)
(***************************************************************************)
EXTENDS Integers, FiniteSets, Functions, FiniteSetTheorems, WellFoundedInduction, TLAPS

Pick(s) == CHOOSE x \in s : TRUE

\* g is the iteration on the subsets of S that a sum over S unfolds to.
Iterates(g, f, S) ==
  g = [s \in SUBSET S |-> IF s = {} THEN 0 ELSE f[Pick(s)] + g[s \ {Pick(s)}]]

-----------------------------------------------------------------------------
\* A set of finite sets that is not empty has a least member for inclusion.
LEMMA LeastSet ==
  ASSUME NEW B, B # {}, \A U \in B : IsFiniteSet(U)
  PROVE  \E U \in B : \A V \in B : V \subseteq U => V = U
<1> DEFINE S == UNION B
<1>1. B \subseteq FiniteSubsetsOf(S)
  BY DEF FiniteSubsetsOf
<1>2. PICK U \in B : \A V \in B : <<V, U>> \notin StrictSubsetOrdering(S)
  BY <1>1, FS_StrictSubsetOrderingWellFounded, WFMin
<1>3. \A V \in B : V \subseteq U => V = U
  BY <1>2 DEF StrictSubsetOrdering
<1>4. QED
  BY <1>3

\* Two iterations agree on the finite sets they share.
LEMMA IterationIsUnique ==
  ASSUME NEW f, NEW S, NEW T, NEW g, NEW h, Iterates(g, f, S), Iterates(h, f, T),
         NEW U, IsFiniteSet(U), U \subseteq S, U \subseteq T
  PROVE  g[U] = h[U]
<1> DEFINE B == {V \in SUBSET U : g[V] # h[V]}
<1>1. SUFFICES ASSUME B # {} PROVE FALSE
  OBVIOUS
<1>2. \A V \in B : IsFiniteSet(V)
  BY FS_Subset
<1>3. PICK V \in B : \A W \in B : W \subseteq V => W = V
  <2> HIDE DEF B
  <2>1. QED
    BY <1>1, <1>2, LeastSet
<1>4. CASE V = {}
  BY <1>3, <1>4 DEF Iterates
<1>5. CASE V # {}
  <2>1. Pick(V) \in V
    BY <1>5 DEF Pick
  <2>2. g[V \ {Pick(V)}] = h[V \ {Pick(V)}]
    BY <1>3, <2>1
  <2>3. V \in SUBSET S /\ V \in SUBSET T
    OBVIOUS
  <2>4. g[V] = f[Pick(V)] + g[V \ {Pick(V)}]
    BY <1>5, <2>3 DEF Iterates
  <2>5. h[V] = f[Pick(V)] + h[V \ {Pick(V)}]
    BY <1>5, <2>3 DEF Iterates
  <2>6. QED
    BY <1>3, <2>2, <2>4, <2>5
<1>6. QED
  BY <1>4, <1>5

\* The image of a finite set is finite.
LEMMA ImageIsFinite ==
  ASSUME NEW f, NEW S, IsFiniteSet(S)
  PROVE  IsFiniteSet({f[x] : x \in S})
<1> DEFINE T == {f[x] : x \in S}
           m == [x \in S |-> f[x]]
<1>1. m \in Surjection(S, T)
  BY DEF Surjection
<1> HIDE DEF T, m
<1>2. IsFiniteSet(T)
  BY <1>1, FS_Surjection
<1>3. QED
  BY <1>2 DEF T

\* There is an iteration for every finite set.
LEMMA IterationExists ==
  ASSUME NEW f, NEW S, IsFiniteSet(S)
  PROVE  \E g : Iterates(g, f, S)
<1> DEFINE B == {V \in SUBSET S : ~\E g : Iterates(g, f, V)}
<1>1. SUFFICES ASSUME B # {} PROVE FALSE
  OBVIOUS
<1>2. \A V \in B : IsFiniteSet(V)
  BY FS_Subset
<1>3. PICK V \in B : \A W \in B : W \subseteq V => W = V
  <2> HIDE DEF B
  <2>1. QED
    BY <1>1, <1>2, LeastSet
<1> DEFINE I(W) == CHOOSE g : Iterates(g, f, W)
           g == [s \in SUBSET V |-> IF s = {} THEN 0
                                    ELSE f[Pick(s)] + I(s \ {Pick(s)})[s \ {Pick(s)}]]
<1>4. ASSUME NEW W \in SUBSET V, W # V
      PROVE  Iterates(I(W), f, W)
  BY <1>3, <1>4
<1>5. ASSUME NEW s \in SUBSET V, s # {}
      PROVE  g[s \ {Pick(s)}] = I(s \ {Pick(s)})[s \ {Pick(s)}]
  <2> DEFINE t == s \ {Pick(s)}
  <2>1. t \in SUBSET V /\ t # V /\ IsFiniteSet(t)
    <3>1. Pick(s) \in s
      BY <1>5 DEF Pick
    <3>2. QED
      BY <1>5, <3>1, <1>2, FS_Subset
  <2>2. Iterates(I(t), f, t)
    BY <1>4, <2>1
  <2>3. CASE t = {}
    <3>1. g[t] = 0
      BY <2>1, <2>3
    <3>2. I(t)[t] = 0
      BY <2>2, <2>3 DEF Iterates
    <3>3. QED
      BY <3>1, <3>2
  <2>4. CASE t # {}
    <3> DEFINE u == t \ {Pick(t)}
    <3>1. Pick(t) \in t
      BY <2>4 DEF Pick
    <3>2. u \in SUBSET V /\ u # V /\ u \subseteq t /\ IsFiniteSet(u)
      BY <2>1, <3>1, FS_Subset
    <3>3. Iterates(I(u), f, u)
      BY <1>4, <3>2
    <3>4. I(u)[u] = I(t)[u]
      <4> HIDE DEF I, u, t
      <4>1. QED
        BY <3>2, <3>3, <2>2, IterationIsUnique
    <3> HIDE DEF I
    <3>5. g[t] = f[Pick(t)] + I(u)[u]
      BY <2>1, <2>4
    <3>6. I(t)[t] = f[Pick(t)] + I(t)[u]
      BY <2>2, <2>4 DEF Iterates
    <3>7. QED
      BY <3>4, <3>5, <3>6
  <2>5. QED
    BY <2>3, <2>4
<1>6. Iterates(g, f, V)
  <2> HIDE DEF I
  <2>1. \A s \in SUBSET V :
          g[s] = IF s = {} THEN 0 ELSE f[Pick(s)] + g[s \ {Pick(s)}]
    BY <1>5
  <2> DEFINE k == g
  <2>2. k = [s \in SUBSET V |-> k[s]]
    OBVIOUS
  <2>3. \A s \in SUBSET V :
          k[s] = IF s = {} THEN 0 ELSE f[Pick(s)] + k[s \ {Pick(s)}]
    BY <2>1
  <2> HIDE DEF k
  <2>4. Iterates(k, f, V)
    BY <2>2, <2>3 DEF Iterates
  <2>5. QED
    BY <2>4 DEF k
<1>7. QED
  BY <1>3, <1>6

-----------------------------------------------------------------------------
\* A sum is an iteration on the subsets of its set, at the set itself.
LEMMA SumIterates ==
  ASSUME NEW f, NEW S, IsFiniteSet(S)
  PROVE  \E g : Iterates(g, f, S) /\ SumFunctionOnSet(f, S) = g[S]
<1> DEFINE g == CHOOSE g : Iterates(g, f, S)
<1>1. Iterates(g, f, S)
  BY IterationExists
<1>2. SumFunctionOnSet(f, S) = g[S]
  BY DEF SumFunctionOnSet, FoldFunctionOnSet, MapThenFoldSet, Iterates, Pick
<1>3. QED
  BY <1>1, <1>2

\* The sum over no rows.
LEMMA SumEmpty ==
  ASSUME NEW f
  PROVE  SumFunctionOnSet(f, {}) = 0
<1>1. PICK g : Iterates(g, f, {}) /\ SumFunctionOnSet(f, {}) = g[{}]
  BY SumIterates, FS_EmptySet
<1>2. QED
  BY <1>1 DEF Iterates

\* The fold takes out the element it picks.
LEMMA SumUnfolds ==
  ASSUME NEW f, NEW S, IsFiniteSet(S), S # {}
  PROVE  /\ Pick(S) \in S
         /\ SumFunctionOnSet(f, S) = f[Pick(S)] + SumFunctionOnSet(f, S \ {Pick(S)})
<1> DEFINE T == S \ {Pick(S)}
<1>1. Pick(S) \in S
  BY DEF Pick
<1>2. IsFiniteSet(T)
  BY FS_Subset
<1>3. PICK g : Iterates(g, f, S) /\ SumFunctionOnSet(f, S) = g[S]
  BY SumIterates
<1>4. PICK h : Iterates(h, f, T) /\ SumFunctionOnSet(f, T) = h[T]
  BY <1>2, SumIterates
<1>5. g[T] = h[T]
  BY <1>2, <1>3, <1>4, IterationIsUnique
<1>6. g[S] = f[Pick(S)] + g[T]
  BY <1>3 DEF Iterates
<1>7. QED
  BY <1>1, <1>3, <1>4, <1>5, <1>6

\* The sum of integers is one.
LEMMA SumIsInt ==
  ASSUME NEW f, NEW S, IsFiniteSet(S), \A x \in S : f[x] \in Int
  PROVE  SumFunctionOnSet(f, S) \in Int
<1> DEFINE B == {V \in SUBSET S : SumFunctionOnSet(f, V) \notin Int}
<1>1. SUFFICES ASSUME B # {} PROVE FALSE
  OBVIOUS
<1>2. \A V \in B : IsFiniteSet(V)
  BY FS_Subset
<1>3. PICK V \in B : \A W \in B : W \subseteq V => W = V
  <2> HIDE DEF B
  <2>1. QED
    BY <1>1, <1>2, LeastSet
<1>4. V # {}
  <2>1. SumFunctionOnSet(f, V) # 0
    BY <1>3
  <2>2. QED
    BY <2>1, SumEmpty
<1>5. /\ Pick(V) \in V
      /\ SumFunctionOnSet(f, V) = f[Pick(V)] + SumFunctionOnSet(f, V \ {Pick(V)})
  BY <1>2, <1>4, SumUnfolds
<1>6. SumFunctionOnSet(f, V \ {Pick(V)}) \in Int
  BY <1>3, <1>5
<1>7. f[Pick(V)] \in Int
  BY <1>5
<1>8. QED
  BY <1>5, <1>6, <1>7

\* The sum of natural numbers is one.
LEMMA SumIsNat ==
  ASSUME NEW f, NEW S, IsFiniteSet(S), \A x \in S : f[x] \in Nat
  PROVE  SumFunctionOnSet(f, S) \in Nat
<1> DEFINE B == {V \in SUBSET S : SumFunctionOnSet(f, V) \notin Nat}
<1>1. SUFFICES ASSUME B # {} PROVE FALSE
  OBVIOUS
<1>2. \A V \in B : IsFiniteSet(V)
  BY FS_Subset
<1>3. PICK V \in B : \A W \in B : W \subseteq V => W = V
  <2> HIDE DEF B
  <2>1. QED
    BY <1>1, <1>2, LeastSet
<1>4. V # {}
  <2>1. SumFunctionOnSet(f, V) # 0
    BY <1>3
  <2>2. QED
    BY <2>1, SumEmpty
<1>5. /\ Pick(V) \in V
      /\ SumFunctionOnSet(f, V) = f[Pick(V)] + SumFunctionOnSet(f, V \ {Pick(V)})
  BY <1>2, <1>4, SumUnfolds
<1>6. SumFunctionOnSet(f, V \ {Pick(V)}) \in Nat
  BY <1>3, <1>5
<1>7. f[Pick(V)] \in Nat
  BY <1>5
<1>8. QED
  BY <1>5, <1>6, <1>7

-----------------------------------------------------------------------------
\* Any element may be taken out first: the order of the fold does not matter.
THEOREM SumWithout ==
  ASSUME NEW f, NEW S, IsFiniteSet(S), \A y \in S : f[y] \in Int, NEW x \in S
  PROVE  SumFunctionOnSet(f, S) = f[x] + SumFunctionOnSet(f, S \ {x})
<1> DEFINE Splits(V, y) == SumFunctionOnSet(f, V) = f[y] + SumFunctionOnSet(f, V \ {y})
           B == {V \in SUBSET S : \E y \in V : ~Splits(V, y)}
<1>1. SUFFICES ASSUME B # {} PROVE FALSE
  OBVIOUS
<1>2. \A V \in B : IsFiniteSet(V)
  BY FS_Subset
<1>3. PICK V \in B : \A W \in B : W \subseteq V => W = V
  <2> HIDE DEF B
  <2>1. QED
    BY <1>1, <1>2, LeastSet
<1>4. PICK z \in V : ~Splits(V, z)
  OBVIOUS
<1> DEFINE c == Pick(V)
           rest == (V \ {c}) \ {z}
<1>5. c \in V /\ Splits(V, c)
  BY <1>2, <1>4, SumUnfolds
<1> HIDE DEF c
<1>6. z # c
  BY <1>4, <1>5
<1>7. ASSUME NEW W \in SUBSET S, W \subseteq V, W # V, NEW y \in W
      PROVE  Splits(W, y)
  BY <1>3, <1>7
<1>8. Splits(V \ {c}, z)
  BY <1>5, <1>6, <1>7
<1>9. Splits(V \ {z}, c) /\ rest = (V \ {z}) \ {c}
  BY <1>5, <1>6, <1>7
<1>10. f[z] \in Int /\ f[c] \in Int /\ SumFunctionOnSet(f, rest) \in Int
  <2>1. rest \in SUBSET S /\ IsFiniteSet(rest)
    BY FS_Subset
  <2>2. QED
    BY <1>5, <2>1, SumIsInt
<1>11. Splits(V, z)
  <2>1. SumFunctionOnSet(f, V) = f[c] + (f[z] + SumFunctionOnSet(f, rest))
    BY <1>5, <1>8
  <2>2. SumFunctionOnSet(f, V \ {z}) = f[c] + SumFunctionOnSet(f, rest)
    BY <1>9
  <2> HIDE DEF rest
  <2>3. QED
    BY <2>1, <2>2, <1>10
<1>12. QED
  BY <1>4, <1>11

\* A new row adds its amount to the sum.
THEOREM SumWith ==
  ASSUME NEW f, NEW S, IsFiniteSet(S), \A y \in S : f[y] \in Int,
         NEW x, x \notin S, f[x] \in Int
  PROVE  SumFunctionOnSet(f, S \cup {x}) = SumFunctionOnSet(f, S) + f[x]
<1> DEFINE T == S \cup {x}
<1>1. IsFiniteSet(T) /\ x \in T /\ (\A y \in T : f[y] \in Int) /\ T \ {x} = S
  BY FS_AddElement
<1> HIDE DEF T
<1>2. SumFunctionOnSet(f, T) = f[x] + SumFunctionOnSet(f, T \ {x})
  BY <1>1, SumWithout
<1>3. SumFunctionOnSet(f, S) \in Int
  BY SumIsInt
<1>4. SumFunctionOnSet(f, T) = SumFunctionOnSet(f, S) + f[x]
  <2>1. T \ {x} = S
    BY <1>1
  <2>2. SumFunctionOnSet(f, T) = f[x] + SumFunctionOnSet(f, S)
    BY ONLY <1>2, <2>1
  <2>3. QED
    BY <2>2, <1>3
<1>5. QED
  BY <1>4 DEF T

\* The sum depends on the amounts of its rows alone.
THEOREM SumOfEqual ==
  ASSUME NEW f, NEW g, NEW S, IsFiniteSet(S), \A x \in S : f[x] = g[x]
  PROVE  SumFunctionOnSet(f, S) = SumFunctionOnSet(g, S)
<1> DEFINE B == {V \in SUBSET S : SumFunctionOnSet(f, V) # SumFunctionOnSet(g, V)}
<1>1. SUFFICES ASSUME B # {} PROVE FALSE
  OBVIOUS
<1>2. \A V \in B : IsFiniteSet(V)
  BY FS_Subset
<1>3. PICK V \in B : \A W \in B : W \subseteq V => W = V
  <2> HIDE DEF B
  <2>1. QED
    BY <1>1, <1>2, LeastSet
<1>4. V # {}
  <2>1. SumFunctionOnSet(f, V) # SumFunctionOnSet(g, V)
    BY <1>3
  <2>2. QED
    BY <2>1, SumEmpty
<1>5. /\ Pick(V) \in V
      /\ SumFunctionOnSet(f, V) = f[Pick(V)] + SumFunctionOnSet(f, V \ {Pick(V)})
      /\ SumFunctionOnSet(g, V) = g[Pick(V)] + SumFunctionOnSet(g, V \ {Pick(V)})
  BY <1>2, <1>4, SumUnfolds
<1>6. SumFunctionOnSet(f, V \ {Pick(V)}) = SumFunctionOnSet(g, V \ {Pick(V)})
  BY <1>3, <1>5
<1>7. QED
  BY <1>3, <1>5, <1>6

\* Amounts of two parts add up part by part.
THEOREM SumOfParts ==
  ASSUME NEW f, NEW g, NEW h, NEW S, IsFiniteSet(S),
         \A x \in S : f[x] \in Int /\ g[x] \in Int /\ h[x] = f[x] + g[x]
  PROVE  SumFunctionOnSet(h, S) = SumFunctionOnSet(f, S) + SumFunctionOnSet(g, S)
<1> DEFINE B == {V \in SUBSET S :
                  SumFunctionOnSet(h, V) # SumFunctionOnSet(f, V) + SumFunctionOnSet(g, V)}
<1>1. SUFFICES ASSUME B # {} PROVE FALSE
  OBVIOUS
<1>2. \A V \in B : IsFiniteSet(V)
  BY FS_Subset
<1>3. PICK V \in B : \A W \in B : W \subseteq V => W = V
  <2> HIDE DEF B
  <2>1. QED
    BY <1>1, <1>2, LeastSet
<1>4. V # {}
  <2>1. SUFFICES ASSUME V = {} PROVE FALSE
    OBVIOUS
  <2>2. /\ SumFunctionOnSet(f, {}) = 0 /\ SumFunctionOnSet(g, {}) = 0
        /\ SumFunctionOnSet(h, {}) = 0
    BY SumEmpty
  <2>3. SumFunctionOnSet(h, {}) # SumFunctionOnSet(f, {}) + SumFunctionOnSet(g, {})
    BY <1>3, <2>1
  <2>4. QED
    BY <2>2, <2>3
<1> DEFINE x == Pick(V)
           rest == V \ {x}
<1>5. /\ x \in V
      /\ SumFunctionOnSet(f, V) = f[x] + SumFunctionOnSet(f, rest)
      /\ SumFunctionOnSet(g, V) = g[x] + SumFunctionOnSet(g, rest)
      /\ SumFunctionOnSet(h, V) = h[x] + SumFunctionOnSet(h, rest)
  BY <1>2, <1>4, SumUnfolds
<1>6. SumFunctionOnSet(h, rest) = SumFunctionOnSet(f, rest) + SumFunctionOnSet(g, rest)
  BY <1>3, <1>5
<1>7. /\ SumFunctionOnSet(f, rest) \in Int /\ SumFunctionOnSet(g, rest) \in Int
      /\ f[x] \in Int /\ g[x] \in Int /\ h[x] = f[x] + g[x]
  <2>1. rest \in SUBSET S /\ IsFiniteSet(rest)
    BY FS_Subset
  <2>2. QED
    BY <1>5, <2>1, SumIsInt
<1> HIDE DEF x, rest
<1>8. SumFunctionOnSet(h, V) = SumFunctionOnSet(f, V) + SumFunctionOnSet(g, V)
  BY ONLY <1>5, <1>6, <1>7
<1>9. QED
  BY <1>3, <1>8

\* No row's amount exceeds a sum of amounts that are not negative.
THEOREM SumAtLeast ==
  ASSUME NEW f, NEW S, IsFiniteSet(S), \A y \in S : f[y] \in Nat, NEW x \in S
  PROVE  f[x] <= SumFunctionOnSet(f, S)
<1>1. SumFunctionOnSet(f, S) = f[x] + SumFunctionOnSet(f, S \ {x})
  BY SumWithout
<1>2. SumFunctionOnSet(f, S \ {x}) \in Nat
  BY FS_Subset, SumIsNat
<1>3. QED
  BY <1>1, <1>2

\* A sum is the same over the rows as they are renamed.
THEOREM SumRenamed ==
  ASSUME NEW f, NEW g, NEW S, IsFiniteSet(S), NEW m,
         \A x \in S : f[x] \in Int /\ f[x] = g[m[x]],
         \A x, y \in S : m[x] = m[y] => x = y
  PROVE  SumFunctionOnSet(f, S) = SumFunctionOnSet(g, {m[x] : x \in S})
<1> DEFINE Im(V) == {m[x] : x \in V}
           B == {V \in SUBSET S : SumFunctionOnSet(f, V) # SumFunctionOnSet(g, Im(V))}
<1>1. SUFFICES ASSUME B # {} PROVE FALSE
  OBVIOUS
<1>2. \A V \in B : IsFiniteSet(V)
  BY FS_Subset
<1>3. PICK V \in B : \A W \in B : W \subseteq V => W = V
  <2> HIDE DEF B
  <2>1. QED
    BY <1>1, <1>2, LeastSet
<1>4. V # {}
  <2>1. SUFFICES ASSUME V = {} PROVE FALSE
    OBVIOUS
  <2>2. SumFunctionOnSet(f, {}) = 0 /\ SumFunctionOnSet(g, {}) = 0
    BY SumEmpty
  <2>3. Im({}) = {}
    OBVIOUS
  <2>4. SumFunctionOnSet(f, {}) # SumFunctionOnSet(g, Im({}))
    BY <2>1, <1>3
  <2>5. QED
    BY <2>2, <2>3, <2>4
<1> DEFINE x == Pick(V)
           rest == V \ {x}
<1>5. /\ x \in V
      /\ SumFunctionOnSet(f, V) = f[x] + SumFunctionOnSet(f, rest)
  BY <1>2, <1>4, SumUnfolds
<1>6. SumFunctionOnSet(f, rest) = SumFunctionOnSet(g, Im(rest))
  BY <1>3, <1>5
<1> HIDE DEF x, rest
<1>7. m[x] \in Im(V) /\ Im(V) \ {m[x]} = Im(rest)
  BY <1>5 DEF rest
<1>8. IsFiniteSet(Im(V)) /\ \A y \in Im(V) : g[y] \in Int
  BY <1>2, ImageIsFinite
<1>9. SumFunctionOnSet(g, Im(V)) = g[m[x]] + SumFunctionOnSet(g, Im(V) \ {m[x]})
  <2> HIDE DEF Im
  <2>1. QED
    BY <1>7, <1>8, SumWithout
<1>10. SumFunctionOnSet(g, Im(V)) = SumFunctionOnSet(f, V)
  <2>1. g[m[x]] = f[x]
    BY <1>5
  <2> HIDE DEF Im
  <2>2. QED
    BY <1>5, <1>6, <1>7, <1>9, <2>1
<1>11. QED
  BY <1>3, <1>10

-----------------------------------------------------------------------------
(* Orders on finite sets *)

\* A relation by which any two elements compare has a greatest element.
THEOREM GreatestExists ==
  ASSUME NEW S, IsFiniteSet(S), S # {}, NEW R,
         \A x, y \in S : <<x, y>> \in R \/ <<y, x>> \in R,
         \A x, y, z \in S : <<x, y>> \in R /\ <<y, z>> \in R => <<x, z>> \in R
  PROVE  \E x \in S : \A y \in S : <<x, y>> \in R
<1> DEFINE B == {V \in SUBSET S : V # {} /\ ~\E x \in V : \A y \in V : <<x, y>> \in R}
<1>1. SUFFICES ASSUME B # {} PROVE FALSE
  OBVIOUS
<1>2. \A V \in B : IsFiniteSet(V)
  BY FS_Subset
<1>3. PICK V \in B : \A W \in B : W \subseteq V => W = V
  <2> HIDE DEF B
  <2>1. QED
    BY <1>1, <1>2, LeastSet
<1>4. PICK x \in V : TRUE
  OBVIOUS
<1> DEFINE rest == V \ {x}
<1>5. CASE rest = {}
  <2>1. \A y \in V : y = x
    BY <1>5
  <2>2. QED
    BY <1>3, <1>4, <2>1
<1>6. CASE rest # {}
  <2>1. rest \notin B
    <3>1. rest \subseteq V /\ rest # V
      BY <1>4
    <3> HIDE DEF B, rest
    <3>2. QED
      BY <1>3, <3>1
  <2>2. PICK z \in rest : \A y \in rest : <<z, y>> \in R
    BY <1>6, <2>1
  <2>3. CASE <<z, x>> \in R
    BY <1>3, <2>2, <2>3
  <2>4. CASE <<x, z>> \in R
    <3>1. \A y \in V : <<x, y>> \in R
      BY <1>3, <1>4, <2>2, <2>4
    <3>2. QED
      BY <1>3, <1>4, <3>1
  <2>5. QED
    BY <1>3, <1>4, <2>2, <2>3, <2>4
<1>7. QED
  BY <1>5, <1>6

\* The greatest of finitely many integers, and the least.
THEOREM MaxExists ==
  ASSUME NEW S, IsFiniteSet(S), S # {}, S \subseteq Int
  PROVE  /\ \E x \in S : \A y \in S : x >= y
         /\ \E x \in S : \A y \in S : x =< y
<1>1. \E x \in S : \A y \in S : x >= y
  <2> DEFINE R == {p \in S \X S : p[1] >= p[2]}
  <2>1. \A x, y \in S : <<x, y>> \in R <=> x >= y
    OBVIOUS
  <2> HIDE DEF R
  <2>2. \A x, y \in S : <<x, y>> \in R \/ <<y, x>> \in R
    <3>1. \A x, y \in S : x >= y \/ y >= x
      OBVIOUS
    <3>2. QED
      BY <2>1, <3>1
  <2>3. \A x, y, z \in S : <<x, y>> \in R /\ <<y, z>> \in R => <<x, z>> \in R
    <3>1. \A x, y, z \in S : x >= y /\ y >= z => x >= z
      OBVIOUS
    <3>2. QED
      BY <2>1, <3>1
  <2>4. \E x \in S : \A y \in S : <<x, y>> \in R
    BY <2>2, <2>3, GreatestExists
  <2>5. QED
    BY <2>1, <2>4
<1>2. \E x \in S : \A y \in S : x =< y
  <2> DEFINE R == {p \in S \X S : p[1] =< p[2]}
  <2>1. \A x, y \in S : <<x, y>> \in R <=> x =< y
    OBVIOUS
  <2> HIDE DEF R
  <2>2. \A x, y \in S : <<x, y>> \in R \/ <<y, x>> \in R
    <3>1. \A x, y \in S : x =< y \/ y =< x
      OBVIOUS
    <3>2. QED
      BY <2>1, <3>1
  <2>3. \A x, y, z \in S : <<x, y>> \in R /\ <<y, z>> \in R => <<x, z>> \in R
    <3>1. \A x, y, z \in S : x =< y /\ y =< z => x =< z
      OBVIOUS
    <3>2. QED
      BY <2>1, <3>1
  <2>4. \E x \in S : \A y \in S : <<x, y>> \in R
    BY <2>2, <2>3, GreatestExists
  <2>5. QED
    BY <2>1, <2>4
<1>3. QED
  BY <1>1, <1>2

\* A set of natural numbers that is not empty has a least element.
THEOREM LeastExists ==
  ASSUME NEW S, S \subseteq Nat, S # {}
  PROVE  \E x \in S : \A y \in S : x =< y
<1>1. PICK n \in S : TRUE
  OBVIOUS
<1> DEFINE T == {x \in S : x =< n}
<1>2. T \subseteq 0 .. n /\ T # {} /\ T \subseteq Int
  <2>1. n \in T /\ n \in Nat /\ \A x \in T : x \in Nat /\ x =< n
    BY <1>1
  <2> HIDE DEF T
  <2>2. QED
    BY <2>1
<1>3. IsFiniteSet(T)
  <2>1. IsFiniteSet(0 .. n)
    BY <1>1, FS_Interval
  <2>2. QED
    BY <1>2, <2>1, FS_Subset
<1>4. PICK x \in T : \A y \in T : x =< y
  <2> HIDE DEF T
  <2>1. QED
    BY <1>2, <1>3, MaxExists
<1>5. ASSUME NEW y \in S
      PROVE  x =< y
  <2>1. x \in Nat /\ n \in Nat /\ y \in Nat /\ x =< n
    BY <1>4
  <2>2. y \in T \/ n < y
    BY <2>1
  <2>3. QED
    BY <1>4, <2>1, <2>2
<1>6. QED
  BY <1>4, <1>5

\* A finite set can be listed in a strict order that compares any two of its elements.
THEOREM SortExists ==
  ASSUME NEW S, IsFiniteSet(S), NEW R,
         \A x, y \in S : x # y => <<x, y>> \in R \/ <<y, x>> \in R,
         \A x, y, z \in S : <<x, y>> \in R /\ <<y, z>> \in R => <<x, z>> \in R
  PROVE  \E w \in [1 .. Cardinality(S) -> S] :
           \A i, j \in 1 .. Cardinality(S) : i < j => <<w[i], w[j]>> \in R
<1> DEFINE Sorts(w, V) == /\ w \in [1 .. Cardinality(V) -> V]
                          /\ \A i, j \in 1 .. Cardinality(V) : i < j => <<w[i], w[j]>> \in R
           B == {V \in SUBSET S : ~\E w : Sorts(w, V)}
<1>1. SUFFICES ASSUME B # {} PROVE FALSE
  OBVIOUS
<1>2. \A V \in B : IsFiniteSet(V)
  BY FS_Subset
<1>3. PICK V \in B : \A W \in B : W \subseteq V => W = V
  <2> HIDE DEF B
  <2>1. QED
    BY <1>1, <1>2, LeastSet
<1>4. V # {}
  <2>1. SUFFICES ASSUME V = {} PROVE FALSE
    OBVIOUS
  <2>2. Cardinality(V) = 0
    BY <2>1, FS_EmptySet
  <2>3. Sorts([i \in 1 .. 0 |-> i], V)
    BY <2>1, <2>2
  <2>4. QED
    BY <1>3, <2>3
<1>5. PICK x \in V : \A y \in V : x = y \/ <<y, x>> \in R
  <2> DEFINE Q == {p \in V \X V : p[1] = p[2] \/ <<p[2], p[1]>> \in R}
  <2>1. \A y, z \in V : <<y, z>> \in Q <=> (y = z \/ <<z, y>> \in R)
    OBVIOUS
  <2>2. V \in SUBSET S /\ IsFiniteSet(V)
    BY <1>2, <1>3
  <2> HIDE DEF Q, B
  <2>3. \A y, z \in V : <<y, z>> \in Q \/ <<z, y>> \in Q
    BY <2>1, <2>2
  <2>4. \A u, y, z \in V : <<u, y>> \in Q /\ <<y, z>> \in Q => <<u, z>> \in Q
    BY <2>1, <2>2
  <2>5. \E y \in V : \A z \in V : <<y, z>> \in Q
    BY <1>4, <2>2, <2>3, <2>4, GreatestExists
  <2>6. QED
    BY <2>1, <2>5
<1> DEFINE rest == V \ {x}
           n == Cardinality(rest)
<1>6. IsFiniteSet(V) /\ Cardinality(V) = n + 1 /\ n \in Nat
  <2>1. IsFiniteSet(V)
    BY <1>2
  <2>2. Cardinality(V) \in Nat /\ IsFiniteSet(rest) /\ Cardinality(rest) = Cardinality(V) - 1
    BY <2>1, FS_CardinalityType, FS_RemoveElement
  <2>3. Cardinality(rest) \in Nat
    BY <2>2, FS_CardinalityType
  <2>4. QED
    BY <2>1, <2>2, <2>3
<1>7. PICK w : Sorts(w, rest)
  <2>1. rest \subseteq V /\ rest # V /\ rest \in SUBSET S
    BY <1>5
  <2>2. rest \notin B
    <3> HIDE DEF B, rest
    <3>1. QED
      BY <1>3, <2>1
  <2> HIDE DEF Sorts
  <2>3. QED
    BY <2>1, <2>2
<1> DEFINE v == [i \in 1 .. n + 1 |-> IF i = n + 1 THEN x ELSE w[i]]
<1>8. w \in [1 .. n -> rest] /\ \A i, j \in 1 .. n : i < j => <<w[i], w[j]>> \in R
  BY <1>7
<1>9. Sorts(v, V)
  <2> HIDE DEF n
  <2>1. v \in [1 .. n + 1 -> V]
    BY <1>6, <1>8
  <2>2. ASSUME NEW i \in 1 .. n + 1, NEW j \in 1 .. n + 1, i < j
        PROVE  <<v[i], v[j]>> \in R
    <3>1. i \in 1 .. n /\ v[i] = w[i] /\ w[i] \in V /\ w[i] # x
      BY <1>6, <1>8, <2>2
    <3>2. CASE j = n + 1
      <4>1. v[j] = x
        BY <1>6, <3>2
      <4>2. QED
        BY <1>5, <3>1, <4>1
    <3>3. CASE j # n + 1
      <4>1. j \in 1 .. n /\ v[j] = w[j]
        BY <1>6, <3>3
      <4>2. QED
        BY <1>8, <2>2, <3>1, <4>1
    <3>4. QED
      BY <3>2, <3>3
  <2> HIDE DEF v
  <2>3. QED
    BY <1>6, <2>1, <2>2
<1>10. QED
  BY <1>3, <1>9
=============================================================================
