------------------------------ MODULE FiniteSums ------------------------------
(***************************************************************************)
(* Sums of the values of a function over a finite set of indices, which    *)
(* accounts of stock and of shortages are made of: SumFunctionOnSet of the *)
(* community modules, and how a sum changes with one index.                *)
(*                                                                         *)
(* A sum is a fold, a recursive function on the subsets of the set.  The   *)
(* inductions over subsets are least counterexamples: strict inclusion is  *)
(* well founded on the subsets of a finite set.                            *)
(*                                                                         *)
(* The last lemma is about sorting: in a total order the members of a      *)
(* finite set have the places from first to last.                          *)
(***************************************************************************)
EXTENDS Functions, FiniteSets, FiniteSetTheorems, WellFoundedInduction, TLAPS

(* Of sets of subsets of a finite set, each has a least member.            *)
LEMMA LeastSubset ==
  ASSUME NEW S, IsFiniteSet(S), NEW P \in SUBSET (SUBSET S), P # {}
  PROVE  \E T \in P : \A U \in P : ~(U \subseteq T /\ U # T)
<1>1. IsWellFoundedOn(StrictSubsetOrdering(S), SUBSET S)
  BY FS_StrictSubsetOrderingWellFounded, FS_FiniteSubsetsOfFinite
<1>2. \E T \in P : \A U \in P : <<U, T>> \notin StrictSubsetOrdering(S)
  BY <1>1, WFMin
<1> QED
  BY <1>2 DEF StrictSubsetOrdering

-----------------------------------------------------------------------------
(* The fold is well defined.                                               *)
Picked(s) == CHOOSE x \in s : TRUE

(* g is what the fold builds on all subsets of S.                          *)
IsSumOn(g, f, S) ==
  g = [s \in SUBSET S |-> IF s = {} THEN 0 ELSE f[Picked(s)] + g[s \ {Picked(s)}]]

LEMMA PickedIsIn == ASSUME NEW s, s # {} PROVE Picked(s) \in s
  BY DEF Picked

LEMMA SumIsFold ==
  ASSUME NEW f, NEW S
  PROVE  SumFunctionOnSet(f, S) = (CHOOSE g : IsSumOn(g, f, S))[S]
  BY DEF SumFunctionOnSet, FoldFunctionOnSet, MapThenFoldSet, IsSumOn, Picked

LEMMA SumIsUnique ==
  ASSUME NEW f, NEW S, IsFiniteSet(S), NEW T \in SUBSET S,
         NEW g, NEW h, IsSumOn(g, f, S), IsSumOn(h, f, T)
  PROVE  \A s \in SUBSET T : g[s] = h[s]
<1> DEFINE Differ == {s \in SUBSET T : g[s] # h[s]}
<1> SUFFICES ASSUME Differ # {} PROVE FALSE
  OBVIOUS
<1>1. PICK s \in Differ : \A u \in Differ : ~(u \subseteq s /\ u # s)
  <2>1. Differ \in SUBSET (SUBSET S)
    OBVIOUS
  <2> HIDE DEF Differ
  <2> QED
    BY <2>1, LeastSubset
<1>2. /\ g[s] = IF s = {} THEN 0 ELSE f[Picked(s)] + g[s \ {Picked(s)}]
      /\ h[s] = IF s = {} THEN 0 ELSE f[Picked(s)] + h[s \ {Picked(s)}]
  BY DEF IsSumOn
<1>3. s # {}
  BY <1>2
<1>4. s \ {Picked(s)} \notin Differ
  BY <1>1, <1>3, PickedIsIn
<1> QED
  BY <1>2, <1>4

LEMMA SumExists ==
  ASSUME NEW f, NEW S, IsFiniteSet(S)
  PROVE  \E g : IsSumOn(g, f, S)
<1> DEFINE Without == {T \in SUBSET S : ~\E g : IsSumOn(g, f, T)}
<1> SUFFICES ASSUME Without # {} PROVE FALSE
  OBVIOUS
<1>1. PICK T \in Without : \A U \in Without : ~(U \subseteq T /\ U # T)
  <2>1. Without \in SUBSET (SUBSET S)
    OBVIOUS
  <2> HIDE DEF Without
  <2> QED
    BY <2>1, LeastSubset
<1> DEFINE G(U) == CHOOSE g : IsSumOn(g, f, U)
           V(U) == G(U)[U]
           g == [s \in SUBSET T |->
                   IF s = T THEN IF T = {} THEN 0 ELSE f[Picked(T)] + V(T \ {Picked(T)})
                   ELSE V(s)]
<1>2. ASSUME NEW U \in SUBSET T, U # T PROVE IsSumOn(G(U), f, U)
  <2>1. \E u : IsSumOn(u, f, U)
    BY <1>1, <1>2
  <2> QED
    BY <2>1
<1>3. ASSUME NEW s \in SUBSET T
      PROVE g[s] = IF s = {} THEN 0 ELSE f[Picked(s)] + g[s \ {Picked(s)}]
  <2>1. CASE s = T
    <3>1. T # {} => T \ {Picked(T)} # T
      BY PickedIsIn
    <3> HIDE DEF V
    <3> QED
      BY <2>1, <3>1
  <2>2. CASE s # T /\ s = {}
    <3>1. IsSumOn(G(s), f, s)
      BY <1>2, <2>2
    <3>2. G(s)[s] = 0
      BY <2>2, <3>1 DEF IsSumOn
    <3> HIDE DEF G
    <3> QED
      BY <2>2, <3>2
  <2>3. CASE s # T /\ s # {}
    <3> DEFINE u == s \ {Picked(s)}
    <3>1. u \in SUBSET s /\ u # s /\ u # T /\ u \in SUBSET T
      BY <2>3, PickedIsIn
    <3>2. IsSumOn(G(s), f, s) /\ IsSumOn(G(u), f, u)
      BY <1>2, <2>3, <3>1
    <3>3. IsFiniteSet(s)
      BY FS_Subset
    <3> HIDE DEF G
    <3>4. G(s)[s] = f[Picked(s)] + G(s)[u]
      BY <2>3, <3>2 DEF IsSumOn
    <3>5. G(s)[u] = G(u)[u]
      <4> HIDE DEF u, g, V, Without
      <4>1. \A w \in SUBSET u : G(s)[w] = G(u)[w]
        BY <3>1, <3>2, <3>3, SumIsUnique
      <4> QED
        BY <4>1
    <3>6. g[s] = V(s) /\ g[u] = V(u)
      BY <2>3, <3>1
    <3> QED
      BY <2>3, <3>4, <3>5, <3>6
  <2> QED
    BY <2>1, <2>2, <2>3
<1>4. IsSumOn(g, f, T)
  <2> DEFINE k == [s \in SUBSET T |-> IF s = {} THEN 0 ELSE f[Picked(s)] + g[s \ {Picked(s)}]]
  <2>1. g = k
    <3>1. DOMAIN g = SUBSET T /\ DOMAIN k = SUBSET T /\ g = [s \in SUBSET T |-> g[s]]
      OBVIOUS
    <3>2. \A s \in SUBSET T : g[s] = k[s]
      BY <1>3
    <3> HIDE DEF g
    <3> QED
      BY <3>1, <3>2
  <2> QED
    BY <2>1 DEF IsSumOn
<1> QED
  BY <1>1, <1>4

LEMMA SumUnfolds ==
  ASSUME NEW f, NEW S, IsFiniteSet(S)
  PROVE  SumFunctionOnSet(f, S) =
           IF S = {} THEN 0
           ELSE f[Picked(S)] + SumFunctionOnSet(f, S \ {Picked(S)})
<1> DEFINE G(U) == CHOOSE g : IsSumOn(g, f, U)
           rest == S \ {Picked(S)}
<1>1. IsFiniteSet(rest) /\ rest \in SUBSET S
  BY FS_RemoveElement
<1>2. IsSumOn(G(S), f, S)
  <2>1. \E g : IsSumOn(g, f, S)
    BY SumExists
  <2> QED
    BY <2>1
<1>3. IsSumOn(G(rest), f, rest)
  <2>1. \E g : IsSumOn(g, f, rest)
    BY <1>1, SumExists
  <2> QED
    BY <2>1
<1>4. SumFunctionOnSet(f, S) = G(S)[S] /\ SumFunctionOnSet(f, rest) = G(rest)[rest]
  BY SumIsFold
<1> HIDE DEF G
<1>5. G(S)[S] = IF S = {} THEN 0 ELSE f[Picked(S)] + G(S)[rest]
  BY <1>2 DEF IsSumOn
<1>6. G(S)[rest] = G(rest)[rest]
  BY <1>1, <1>2, <1>3, SumIsUnique
<1> QED
  BY <1>4, <1>5, <1>6
-----------------------------------------------------------------------------
(* What sums of integers come to, whatever the fold picks first.           *)
LEMMA SumOfNone == ASSUME NEW f PROVE SumFunctionOnSet(f, {}) = 0
  BY SumUnfolds, FS_EmptySet

LEMMA SumIsInt ==
  ASSUME NEW f, NEW S, IsFiniteSet(S), \A x \in S : f[x] \in Int
  PROVE  SumFunctionOnSet(f, S) \in Int
<1> DEFINE Other == {T \in SUBSET S : SumFunctionOnSet(f, T) \notin Int}
<1> SUFFICES ASSUME Other # {} PROVE FALSE
  BY Zenon
<1>1. PICK T \in Other : \A U \in Other : ~(U \subseteq T /\ U # T)
  <2>1. Other \in SUBSET (SUBSET S)
    OBVIOUS
  <2> HIDE DEF Other
  <2> QED
    BY <2>1, LeastSubset
<1>2. T # {}
  BY SumOfNone
<1>3. T \ {Picked(T)} \notin Other
  BY <1>1, <1>2, PickedIsIn
<1>4. SumFunctionOnSet(f, T) = f[Picked(T)] + SumFunctionOnSet(f, T \ {Picked(T)})
  BY <1>2, SumUnfolds, FS_Subset
<1>5. f[Picked(T)] \in Int
  BY <1>2, PickedIsIn
<1> QED
  BY <1>3, <1>4, <1>5

LEMMA SumTakesOut ==
  ASSUME NEW f, NEW S, IsFiniteSet(S), \A x \in S : f[x] \in Int, NEW y \in S
  PROVE  SumFunctionOnSet(f, S) = f[y] + SumFunctionOnSet(f, S \ {y})
<1> DEFINE Sum(T) == SumFunctionOnSet(f, T)
           Off == {T \in SUBSET S : \E z \in T : Sum(T) # f[z] + Sum(T \ {z})}
<1> SUFFICES ASSUME Off # {} PROVE FALSE
  OBVIOUS
<1>1. PICK T \in Off : \A U \in Off : ~(U \subseteq T /\ U # T)
  <2>1. Off \in SUBSET (SUBSET S)
    OBVIOUS
  <2> HIDE DEF Off
  <2> QED
    BY <2>1, LeastSubset
<1>2. PICK z \in T : Sum(T) # f[z] + Sum(T \ {z})
  OBVIOUS
<1> DEFINE x == Picked(T)
<1>3. x \in T /\ T # {}
  BY PickedIsIn
<1>4. IsFiniteSet(T) /\ \A U \in SUBSET T : Sum(U) \in Int
  BY FS_Subset, SumIsInt
<1>5. Sum(T) = f[x] + Sum(T \ {x})
  BY <1>3, <1>4, SumUnfolds
<1>6. x # z
  BY <1>2, <1>5
<1>7. Sum(T \ {x}) = f[z] + Sum((T \ {x}) \ {z})
  <2>1. T \ {x} \notin Off
    BY <1>1, <1>3
  <2> HIDE DEF x
  <2> QED
    BY <1>6, <2>1
<1>8. Sum(T \ {z}) = f[x] + Sum((T \ {z}) \ {x})
  <2>1. T \ {z} \notin Off
    BY <1>1
  <2> HIDE DEF x
  <2> QED
    BY <1>3, <1>6, <2>1
<1>9. (T \ {z}) \ {x} = (T \ {x}) \ {z}
  OBVIOUS
<1>10. f[x] \in Int /\ f[z] \in Int /\ Sum((T \ {x}) \ {z}) \in Int
  BY <1>3, <1>4
<1> DEFINE left == Sum((T \ {x}) \ {z})
           a == f[x]
           b == f[z]
<1>11. Sum(T) = a + (b + left)
  BY <1>5, <1>7
<1>12. b + Sum(T \ {z}) = b + (a + left)
  BY <1>8, <1>9
<1>13. a + (b + left) = b + (a + left)
  <2> HIDE DEF left, a, b
  <2> SUFFICES ASSUME a \in Int, b \in Int, left \in Int PROVE a + (b + left) = b + (a + left)
    BY <1>10 DEF left, a, b
  <2> QED
    OBVIOUS
<1> HIDE DEF Sum, x, left, a
<1> QED
  BY <1>2, <1>11, <1>12, <1>13

LEMMA SumAdds ==
  ASSUME NEW f, NEW S, IsFiniteSet(S), NEW y, y \notin S,
         \A x \in S \union {y} : f[x] \in Int
  PROVE  SumFunctionOnSet(f, S \union {y}) = SumFunctionOnSet(f, S) + f[y]
<1>1. IsFiniteSet(S \union {y})
  BY FS_AddElement
<1>2. SumFunctionOnSet(f, S \union {y}) = f[y] + SumFunctionOnSet(f, (S \union {y}) \ {y})
  BY <1>1, SumTakesOut
<1>3. (S \union {y}) \ {y} = S
  OBVIOUS
<1> DEFINE a == SumFunctionOnSet(f, S)
           b == f[y]
<1>4. a \in Int /\ b \in Int
  BY SumIsInt
<1>5. SumFunctionOnSet(f, S \union {y}) = b + a
  BY <1>2, <1>3
<1>6. b + a = a + b
  <2> HIDE DEF a, b
  <2> QED
    BY <1>4
<1> QED
  BY <1>5, <1>6

(* A sum depends on the values only.                                       *)
LEMMA SumsAgree ==
  ASSUME NEW f, NEW g, NEW S, IsFiniteSet(S), \A x \in S : f[x] = g[x]
  PROVE  SumFunctionOnSet(f, S) = SumFunctionOnSet(g, S)
<1> DEFINE Differ == {T \in SUBSET S : SumFunctionOnSet(f, T) # SumFunctionOnSet(g, T)}
<1> SUFFICES ASSUME Differ # {} PROVE FALSE
  BY Zenon
<1>1. PICK T \in Differ : \A U \in Differ : ~(U \subseteq T /\ U # T)
  <2>1. Differ \in SUBSET (SUBSET S)
    OBVIOUS
  <2> HIDE DEF Differ
  <2> QED
    BY <2>1, LeastSubset
<1>2. IsFiniteSet(T) /\ T # {}
  BY FS_Subset, SumOfNone
<1>3. T \ {Picked(T)} \notin Differ
  BY <1>1, <1>2, PickedIsIn
<1>4. SumFunctionOnSet(f, T \ {Picked(T)}) = SumFunctionOnSet(g, T \ {Picked(T)})
  BY <1>3
<1>5. f[Picked(T)] = g[Picked(T)]
  BY <1>2, PickedIsIn
<1> QED
  BY <1>2, <1>4, <1>5, SumUnfolds

(* One more index, with whatever function gives the old ones their values. *)
LEMMA SumGrows ==
  ASSUME NEW f, NEW g, NEW S, IsFiniteSet(S), NEW y, y \notin S,
         \A x \in S : f[x] \in Int /\ g[x] = f[x], g[y] \in Int
  PROVE  SumFunctionOnSet(g, S \union {y}) = SumFunctionOnSet(f, S) + g[y]
<1>1. SumFunctionOnSet(g, S \union {y}) = SumFunctionOnSet(g, S) + g[y]
  BY SumAdds
<1>2. SumFunctionOnSet(g, S) = SumFunctionOnSet(f, S)
  BY SumsAgree
<1> QED
  BY <1>1, <1>2

(* What one index loses another one gains.                                 *)
LEMMA SumMoves ==
  ASSUME NEW f, NEW g, NEW S, IsFiniteSet(S), \A x \in S : f[x] \in Int,
         NEW y \in S, NEW z \in S, y # z, NEW q \in Int,
         g[y] = f[y] - q, g[z] = f[z] + q, \A x \in S \ {y, z} : g[x] = f[x]
  PROVE  SumFunctionOnSet(g, S) = SumFunctionOnSet(f, S)
<1> DEFINE R == (S \ {y}) \ {z}
<1>1. IsFiniteSet(S \ {y}) /\ IsFiniteSet(R) /\ z \in S \ {y}
  BY FS_RemoveElement
<1>2. \A x \in S : g[x] \in Int
  <2>1. \A x \in S : x = y \/ x = z \/ x \in S \ {y, z}
    OBVIOUS
  <2> QED
    BY <2>1
<1>3. /\ SumFunctionOnSet(f, S) = f[y] + SumFunctionOnSet(f, S \ {y})
      /\ SumFunctionOnSet(g, S) = g[y] + SumFunctionOnSet(g, S \ {y})
  BY <1>2, SumTakesOut
<1>4. /\ SumFunctionOnSet(f, S \ {y}) = f[z] + SumFunctionOnSet(f, R)
      /\ SumFunctionOnSet(g, S \ {y}) = g[z] + SumFunctionOnSet(g, R)
  BY <1>1, <1>2, SumTakesOut
<1>5. SumFunctionOnSet(f, R) \in Int
  BY <1>1, SumIsInt
<1>6. SumFunctionOnSet(g, R) = SumFunctionOnSet(f, R)
  BY <1>1, SumsAgree
<1> DEFINE s == SumFunctionOnSet(f, R)
           a == f[y]
           b == f[z]
<1>7. SumFunctionOnSet(f, S) = a + (b + s) /\ SumFunctionOnSet(g, S) = (a - q) + ((b + q) + s)
  BY <1>3, <1>4, <1>6
<1>8. a \in Int /\ b \in Int /\ s \in Int
  BY <1>5
<1>9. (a - q) + ((b + q) + s) = a + (b + s)
  <2> HIDE DEF a, b, s
  <2> QED
    BY <1>8
<1> QED
  BY <1>7, <1>9

-----------------------------------------------------------------------------
(* Sums that grow with their values, with their sets, or change the name of*)
(* their indices only.                                                     *)
LEMMA SumsCompare ==
  ASSUME NEW f, NEW g, NEW S, IsFiniteSet(S),
         \A x \in S : f[x] \in Int /\ g[x] \in Int /\ f[x] <= g[x]
  PROVE  SumFunctionOnSet(f, S) <= SumFunctionOnSet(g, S)
<1> DEFINE Sum(h, T) == SumFunctionOnSet(h, T)
           Off == {T \in SUBSET S : ~(Sum(f, T) <= Sum(g, T))}
<1> SUFFICES ASSUME Off # {} PROVE FALSE
  BY Zenon
<1>1. PICK T \in Off : \A U \in Off : ~(U \subseteq T /\ U # T)
  <2>1. Off \in SUBSET (SUBSET S)
    OBVIOUS
  <2> HIDE DEF Off
  <2> QED
    BY <2>1, LeastSubset
<1>2. IsFiniteSet(T) /\ T # {}
  <2>1. Sum(f, {}) = 0 /\ Sum(g, {}) = 0
    BY SumOfNone
  <2>2. {} \notin Off
    BY <2>1
  <2> HIDE DEF Sum
  <2> QED
    BY <2>2, FS_Subset
<1> DEFINE x == Picked(T)
           R == T \ {x}
<1>3. x \in T /\ R \in SUBSET S
  BY <1>2, PickedIsIn
<1>4. Sum(f, R) <= Sum(g, R)
  BY <1>1, <1>3
<1>5. Sum(f, R) \in Int /\ Sum(g, R) \in Int
  BY <1>3, FS_Subset, SumIsInt
<1>6. Sum(f, T) = f[x] + Sum(f, R) /\ Sum(g, T) = g[x] + Sum(g, R)
  BY <1>2, SumUnfolds
<1>7. f[x] \in Int /\ g[x] \in Int /\ f[x] <= g[x]
  BY <1>3
<1>8. Sum(f, T) <= Sum(g, T)
  <2> HIDE DEF Sum, x, R
  <2> QED
    BY <1>4, <1>5, <1>6, <1>7
<1> QED
  BY <1>8

LEMMA SumIsNat ==
  ASSUME NEW f, NEW S, IsFiniteSet(S), \A x \in S : f[x] \in Nat
  PROVE  SumFunctionOnSet(f, S) \in Nat
<1> DEFINE zero == [x \in S |-> 0]
           Other == {T \in SUBSET S : SumFunctionOnSet(f, T) \notin Nat}
<1> SUFFICES ASSUME Other # {} PROVE FALSE
  BY Zenon
<1>1. PICK T \in Other : \A U \in Other : ~(U \subseteq T /\ U # T)
  <2>1. Other \in SUBSET (SUBSET S)
    OBVIOUS
  <2> HIDE DEF Other
  <2> QED
    BY <2>1, LeastSubset
<1>2. T # {}
  BY SumOfNone
<1>3. T \ {Picked(T)} \notin Other
  BY <1>1, <1>2, PickedIsIn
<1>4. SumFunctionOnSet(f, T) = f[Picked(T)] + SumFunctionOnSet(f, T \ {Picked(T)})
  BY <1>2, SumUnfolds, FS_Subset
<1>5. f[Picked(T)] \in Nat
  BY <1>2, PickedIsIn
<1> QED
  BY <1>3, <1>4, <1>5

LEMMA SumOfMore ==
  ASSUME NEW f, NEW g, NEW S, NEW T, IsFiniteSet(T), S \subseteq T,
         \A x \in T : g[x] \in Nat, \A x \in S : f[x] = g[x]
  PROVE  SumFunctionOnSet(f, S) <= SumFunctionOnSet(g, T)
<1> DEFINE h == [x \in T |-> IF x \in S THEN f[x] ELSE 0]
           Off == {U \in SUBSET T : SumFunctionOnSet(h, U) # SumFunctionOnSet(f, U \intersect S)}
<1>1. Off = {}
  <2> SUFFICES ASSUME Off # {} PROVE FALSE
    BY Zenon
  <2>1. PICK U \in Off : \A V \in Off : ~(V \subseteq U /\ V # U)
    <3>1. Off \in SUBSET (SUBSET T)
      OBVIOUS
    <3> HIDE DEF Off
    <3> QED
      BY <3>1, LeastSubset
  <2> DEFINE x == Picked(U)
             R == U \ {x}
  <2>2. IsFiniteSet(U) /\ IsFiniteSet(U \intersect S) /\ IsFiniteSet(R \intersect S)
    BY FS_Subset
  <2>3. U # {}
    <3>1. {} \intersect S = {}
      OBVIOUS
    <3> QED
      BY <3>1, SumOfNone
  <2>4. x \in U
    BY <2>3, PickedIsIn
  <2>5. SumFunctionOnSet(h, R) = SumFunctionOnSet(f, R \intersect S)
    BY <2>1, <2>4
  <2>6. SumFunctionOnSet(h, U) = h[x] + SumFunctionOnSet(h, R)
    BY <2>2, <2>3, SumUnfolds
  <2>7. SumFunctionOnSet(f, R \intersect S) \in Int
    BY <2>2, SumIsInt
  <2>8. CASE x \in S
    <3>1. (U \intersect S) \ {x} = R \intersect S /\ x \in U \intersect S
      BY <2>4, <2>8
    <3>2. SumFunctionOnSet(f, U \intersect S) = f[x] + SumFunctionOnSet(f, R \intersect S)
      BY <2>2, <3>1, SumTakesOut
    <3>3. h[x] = f[x]
      BY <2>4, <2>8
    <3>4. SumFunctionOnSet(h, U) # SumFunctionOnSet(f, U \intersect S)
      BY <2>1
    <3> HIDE DEF h, Off, x, R
    <3> QED
      BY <2>5, <2>6, <3>2, <3>3, <3>4
  <2>9. CASE x \notin S
    <3>1. U \intersect S = R \intersect S /\ h[x] = 0
      BY <2>4, <2>9
    <3>2. SumFunctionOnSet(h, R) \in Int
      BY <2>5, <2>7
    <3>3. SumFunctionOnSet(h, U) # SumFunctionOnSet(f, U \intersect S)
      BY <2>1
    <3> HIDE DEF h, Off, x, R
    <3>4. SumFunctionOnSet(h, U) = SumFunctionOnSet(h, R)
      BY <2>6, <3>1, <3>2
    <3> QED
      BY <2>5, <3>1, <3>3, <3>4
  <2> QED
    BY <2>8, <2>9
<1>2. SumFunctionOnSet(h, T) = SumFunctionOnSet(f, S)
  <2>1. T \intersect S = S /\ T \in SUBSET T /\ T \notin Off
    BY <1>1
  <2> QED
    BY <2>1
<1>3. SumFunctionOnSet(h, T) <= SumFunctionOnSet(g, T)
  BY SumsCompare
<1> QED
  BY <1>2, <1>3

LEMMA SumReindexes ==
  ASSUME NEW f, NEW g, NEW S, NEW b, IsFiniteSet(S),
         \A x, y \in S : b[x] = b[y] => x = y,
         \A x \in S : g[x] \in Int /\ f[b[x]] = g[x]
  PROVE  SumFunctionOnSet(f, {b[x] : x \in S}) = SumFunctionOnSet(g, S)
<1> DEFINE Image(T) == {b[x] : x \in T}
           Off == {T \in SUBSET S : SumFunctionOnSet(f, Image(T)) # SumFunctionOnSet(g, T)}
<1> SUFFICES ASSUME Off # {} PROVE FALSE
  BY Zenon
<1>1. PICK T \in Off : \A U \in Off : ~(U \subseteq T /\ U # T)
  <2>1. Off \in SUBSET (SUBSET S)
    OBVIOUS
  <2> HIDE DEF Off
  <2> QED
    BY <2>1, LeastSubset
<1> DEFINE x == Picked(T)
           R == T \ {x}
<1>2. T # {}
  <2>1. Image({}) = {}
    OBVIOUS
  <2> QED
    BY <2>1, SumOfNone
<1>3. x \in T /\ R \in SUBSET S
  BY <1>2, PickedIsIn
<1>4. IsFiniteSet(T) /\ IsFiniteSet(R)
  BY <1>3, FS_Subset
<1>5. SumFunctionOnSet(f, Image(R)) = SumFunctionOnSet(g, R)
  BY <1>1, <1>3
<1>6. SumFunctionOnSet(g, T) = g[x] + SumFunctionOnSet(g, R)
  BY <1>2, <1>4, SumUnfolds
<1>7. IsFiniteSet(Image(R))
  <2> DEFINE c == [y \in R |-> b[y]]
  <2>1. c \in Surjection(R, Image(R))
    BY DEF Surjection
  <2> QED
    BY <1>4, <2>1, FS_Surjection
<1>8. b[x] \notin Image(R) /\ Image(T) = Image(R) \union {b[x]}
  BY <1>3
<1>9. \A y \in Image(R) \union {b[x]} : f[y] \in Int
  BY <1>3
<1>10. SumFunctionOnSet(f, Image(R) \union {b[x]}) = SumFunctionOnSet(f, Image(R)) + f[b[x]]
  <2> DEFINE I == Image(R)
             y == b[x]
  <2>1. IsFiniteSet(I) /\ y \notin I /\ \A z \in I \union {y} : f[z] \in Int
    BY <1>7, <1>8, <1>9
  <2> HIDE DEF I, y
  <2>2. SumFunctionOnSet(f, I \union {y}) = SumFunctionOnSet(f, I) + f[y]
    BY <2>1, SumAdds
  <2> QED
    BY <2>2 DEF I, y
<1>11. f[b[x]] = g[x] /\ g[x] \in Int
  BY <1>3
<1> DEFINE rest == SumFunctionOnSet(g, R)
           v == g[x]
<1>12. rest \in Int
  BY <1>3, <1>4, SumIsInt
<1>13. SumFunctionOnSet(f, Image(T)) = rest + v /\ SumFunctionOnSet(g, T) = v + rest
  BY <1>5, <1>6, <1>8, <1>10, <1>11
<1>14. rest + v = v + rest
  <2> HIDE DEF rest, v
  <2> QED
    BY <1>11, <1>12 DEF v
<1> QED
  BY <1>13, <1>14

LEMMA FiniteImage ==
  ASSUME NEW S, IsFiniteSet(S), NEW f
  PROVE  IsFiniteSet({f[x] : x \in S})
<1> DEFINE g == [x \in S |-> f[x]]
<1>1. g \in Surjection(S, {f[x] : x \in S})
  BY DEF Surjection
<1> QED
  BY <1>1, FS_Surjection

(* A set of numbers that is not empty has a least one.                     *)
LEMMA LeastNumber ==
  ASSUME NEW S, S \subseteq Nat, S # {}
  PROVE  \E m \in S : \A n \in S : m <= n
<1>1. IsWellFoundedOn(OpToRel(<, Nat), Nat)
  BY NatLessThanWellFounded
<1>2. PICK m \in S : \A n \in S : ~(<<n, m>> \in OpToRel(<, Nat))
  BY <1>1, WFMin
<1>3. ASSUME NEW n \in S PROVE m <= n
  <2>1. ~(n < m)
    <3>1. <<n, m>> \in Nat \X Nat
      OBVIOUS
    <3>2. n < m => <<n, m>> \in OpToRel(<, Nat)
      BY <3>1, Zenon DEF OpToRel
    <3> QED
      BY <3>2, <1>2
  <2> QED
    BY <2>1
<1> QED
  BY <1>3

(* Different members with different images: there are as many of each.     *)
LEMMA ImageCounts ==
  ASSUME NEW S, IsFiniteSet(S), NEW f, \A x, y \in S : f[x] = f[y] => x = y
  PROVE  Cardinality({f[x] : x \in S}) = Cardinality(S)
<1> DEFINE g == [x \in S |-> f[x]]
<1>1. g \in Bijection(S, {f[x] : x \in S})
  BY DEF Bijection, Injection, IsInjective, Surjection
<1> QED
  BY <1>1, FS_Bijection DEF ExistsBijection

(* A member's place is after those ahead of it: every place is taken, once. *)
LEMMA PlacesFill ==
  ASSUME NEW S, IsFiniteSet(S), NEW R,
         \A x \in S : <<x, x>> \notin R,
         \A x, y, z \in S : <<x, y>> \in R /\ <<y, z>> \in R => <<x, z>> \in R,
         \A x, y \in S : x = y \/ <<x, y>> \in R \/ <<y, x>> \in R
  PROVE  [x \in S |-> Cardinality({y \in S : <<y, x>> \in R}) + 1]
           \in Bijection(S, 1..Cardinality(S))
<1> DEFINE Before(x) == {y \in S : <<y, x>> \in R}
           place == [x \in S |-> Cardinality(Before(x)) + 1]
           places == 1..Cardinality(S)
<1>1. ASSUME NEW x \in S
      PROVE  /\ IsFiniteSet(Before(x)) /\ Cardinality(Before(x)) \in Nat
             /\ Cardinality(Before(x)) < Cardinality(S)
  <2>1. Before(x) \in SUBSET S /\ x \notin Before(x)
    OBVIOUS
  <2>2. Before(x) # S
    BY <2>1
  <2> HIDE DEF Before
  <2> QED
    BY <2>1, <2>2, FS_Subset, FS_CardinalityType
<1>2. ASSUME NEW x \in S, NEW y \in S, <<x, y>> \in R
      PROVE  Cardinality(Before(x)) < Cardinality(Before(y))
  <2>1. Before(x) \in SUBSET Before(y) /\ x \in Before(y) /\ x \notin Before(x)
    BY <1>2
  <2>2. Before(x) # Before(y)
    BY <2>1
  <2>3. IsFiniteSet(Before(y)) /\ Cardinality(Before(x)) \in Nat /\ Cardinality(Before(y)) \in Nat
    BY <1>1
  <2> HIDE DEF Before
  <2> QED
    BY <2>1, <2>2, <2>3, FS_Subset
<1>3. Cardinality(S) \in Nat
  BY FS_CardinalityType
<1>4. place \in [S -> places]
  <2>1. ASSUME NEW x \in S PROVE Cardinality(Before(x)) + 1 \in places
    <3>1. Cardinality(Before(x)) \in Nat /\ Cardinality(Before(x)) < Cardinality(S)
      BY <1>1
    <3> HIDE DEF Before
    <3> QED
      BY <1>3, <3>1
  <2> HIDE DEF Before, places
  <2> QED
    BY <2>1
<1>5. ASSUME NEW x \in S, NEW y \in S, x # y PROVE place[x] # place[y]
  <2>1. <<x, y>> \in R \/ <<y, x>> \in R
    BY <1>5
  <2> HIDE DEF Before
  <2> QED
    BY <1>1, <1>2, <2>1
<1>6. IsFiniteSet(places) /\ Cardinality(places) = Cardinality(S)
  BY <1>3, FS_Interval
<1>7. place \in Injection(S, places)
  <2> HIDE DEF place, places
  <2> QED
    BY <1>4, <1>5 DEF Injection, IsInjective
<1>8. place \in Surjection(S, places)
  <2> HIDE DEF place, places
  <2> QED
    BY <1>6, <1>7, FS_Injection
<1> QED
  BY <1>7, <1>8 DEF Bijection
===============================================================================
