---------------------------- MODULE SumTheorems -----------------------------
(***************************************************************************)
(* Sums over finite sets.  Balances, documents and reports are sums, taken *)
(* with SumFunction and SumFunctionOnSet, folds of module Folds, which     *)
(* pick one element after another.  Here is what the proofs about them     *)
(* need: that the recursion by which a fold is defined has one solution,   *)
(* that a sum does not depend on the order, what one element more or less, *)
(* another summand or a partition does to it, and that sums of sums may be *)
(* taken in either order.                                                  *)
(*                                                                         *)
(* No prover here instantiates a theorem of induction.  What would need    *)
(* one is said of a set of subsets (SetInduction), or of the least of the  *)
(* numbers for which it fails (LeastNat).                                  *)
(***************************************************************************)
EXTENDS Integers, FiniteSets, Functions, FiniteSetTheorems, WellFoundedInduction, TLAPS

\* A set of numbers has a least one.
Less == {ss \in Nat \X Nat : ss[1] < ss[2]}

LEMMA LeastNat ==
  ASSUME NEW T \in SUBSET Nat, T # {}
  PROVE  \E n \in T : \A m \in T : n <= m
<1>1. IsWellFoundedOn(Less, Nat) BY NatLessThanWellFounded DEF OpToRel, Less
<1>2. PICK n \in T : \A m \in T : ~ (<<m, n>> \in Less) BY <1>1, WFMin
<1>3. ASSUME NEW m \in T PROVE n <= m
  <2>1. n \in Nat /\ m \in Nat /\ ~ (<<m, n>> \in Less) BY <1>2
  <2> QED BY <2>1 DEF Less
<1> QED BY <1>3

\* What holds of the empty set and is kept by one element more holds of a finite set.
LEMMA SetInduction ==
  ASSUME NEW S, IsFiniteSet(S), NEW good \in SUBSET SUBSET S,
         {} \in good, \A T \in good : \A x \in S \ T : T \cup {x} \in good
  PROVE  S \in good
<1> SUFFICES ASSUME S \notin good PROVE FALSE OBVIOUS
<1> DEFINE bad == {Cardinality(T) : T \in (SUBSET S) \ good}
<1>1. \A T \in SUBSET S : IsFiniteSet(T) /\ Cardinality(T) \in Nat
  BY FS_Subset, FS_CardinalityType
<1>2. bad \in SUBSET Nat /\ bad # {} BY <1>1
<1>3. PICK n \in bad : \A m \in bad : n <= m BY <1>2, LeastNat
<1>4. PICK T \in (SUBSET S) \ good : Cardinality(T) = n BY <1>3
<1>5. T # {} OBVIOUS
<1>6. PICK x \in T : TRUE BY <1>5
<1>7. Cardinality(T \ {x}) = Cardinality(T) - 1 BY <1>1, <1>6, FS_RemoveElement
<1>8. T \ {x} \in good
  <2> SUFFICES ASSUME T \ {x} \notin good PROVE FALSE OBVIOUS
  <2>1. Cardinality(T \ {x}) \in bad OBVIOUS
  <2> HIDE DEF bad
  <2>2. n \in Nat /\ n - 1 \in bad /\ n <= n - 1 BY <1>2, <1>3, <1>4, <1>7, <2>1
  <2> QED BY <2>2
<1>9. (T \ {x}) \cup {x} = T /\ x \in S \ (T \ {x}) BY <1>6
<1> QED BY <1>8, <1>9

-----------------------------------------------------------------------------
(* The recursion of a sum *)

Picked(S) == CHOOSE x \in S : TRUE

\* g gives each of the subsets in D its sum, by the recursion of MapThenFoldSet.
Recurs(g, f, D) ==
  g = [s \in D |-> IF s = {} THEN 0 ELSE f[Picked(s)] + g[s \ {Picked(s)}]]

LEMMA PickedIn == \A S : S # {} => Picked(S) \in S
BY DEF Picked

\* A function that recurs so exists.
LEMMA RecursionExists ==
  ASSUME NEW S, IsFiniteSet(S), NEW f
  PROVE  \E g : Recurs(g, f, SUBSET S)
<1> DEFINE D(n) == {s \in SUBSET S : Cardinality(s) <= n}
           bad == {n \in Nat : ~ \E g : Recurs(g, f, D(n))}
<1>1. \A T \in SUBSET S : IsFiniteSet(T) /\ Cardinality(T) \in Nat
  BY FS_Subset, FS_CardinalityType
<1>2. \A T \in SUBSET S : T # {} => T \ {Picked(T)} \in SUBSET S
                                     /\ Cardinality(T \ {Picked(T)}) = Cardinality(T) - 1
  BY <1>1, PickedIn, FS_RemoveElement
<1>3. bad = {}
  <2> SUFFICES ASSUME bad # {} PROVE FALSE OBVIOUS
  <2>1. PICK n \in bad : \A m \in bad : n <= m
    <3>1. bad \in SUBSET Nat OBVIOUS
    <3> HIDE DEF bad
    <3> QED BY <3>1, LeastNat
  <2>2. CASE n = 0
    <3>1. \A s \in D(0) : s = {} BY <1>1, FS_EmptySet
    <3> DEFINE g == [s \in D(0) |-> 0]
    <3>2. Recurs(g, f, D(0)) BY <3>1 DEF Recurs
    <3> QED BY <2>1, <2>2, <3>2
  <2>3. CASE n # 0
    <3>1. n - 1 \in Nat /\ ~(n <= n - 1) BY <2>1, <2>3
    <3>2. PICK g : Recurs(g, f, D(n - 1)) BY <2>1, <3>1
    <3> DEFINE h == [s \in D(n) |-> IF s = {} THEN 0 ELSE f[Picked(s)] + g[s \ {Picked(s)}]]
    <3>3. ASSUME NEW s \in D(n), s # {} PROVE g[s \ {Picked(s)}] = h[s \ {Picked(s)}]
      <4> DEFINE t == s \ {Picked(s)}
      <4>1. t \in D(n - 1) /\ t \in D(n) BY <1>1, <1>2, <3>1, <3>3
      <4>2. g[t] = IF t = {} THEN 0 ELSE f[Picked(t)] + g[t \ {Picked(t)}]
        BY <3>2, <4>1 DEF Recurs
      <4>3. h[t] = IF t = {} THEN 0 ELSE f[Picked(t)] + g[t \ {Picked(t)}]
        BY <4>1
      <4> QED BY <4>2, <4>3
    <3>4. h = [s \in D(n) |-> IF s = {} THEN 0 ELSE f[Picked(s)] + h[s \ {Picked(s)}]]
      BY <3>3
    <3>5. Recurs(h, f, D(n)) BY <3>4 DEF Recurs
    <3> QED BY <2>1, <3>5
  <2> QED BY <2>2, <2>3
<1>4. PICK g : Recurs(g, f, D(Cardinality(S))) BY <1>1, <1>3
<1>5. D(Cardinality(S)) = SUBSET S BY <1>1, FS_Subset
<1> QED BY <1>4, <1>5

\* It gives a set one sum.
LEMMA RecursionUnique ==
  ASSUME NEW S, IsFiniteSet(S), NEW T \in SUBSET S, NEW f, NEW g, NEW h,
         Recurs(g, f, SUBSET S), Recurs(h, f, SUBSET T)
  PROVE  g[T] = h[T]
<1> DEFINE bad == {Cardinality(s) : s \in {s \in SUBSET T : g[s] # h[s]}}
<1> SUFFICES ASSUME g[T] # h[T] PROVE FALSE OBVIOUS
<1>1. \A s \in SUBSET T : IsFiniteSet(s) /\ Cardinality(s) \in Nat
  BY FS_Subset, FS_CardinalityType
<1>2. bad \in SUBSET Nat /\ bad # {} BY <1>1
<1>3. PICK n \in bad : \A m \in bad : n <= m
  <2> HIDE DEF bad
  <2> QED BY <1>2, LeastNat
<1>4. PICK s \in SUBSET T : g[s] # h[s] /\ Cardinality(s) = n BY <1>3
<1>5. /\ g[s] = IF s = {} THEN 0 ELSE f[Picked(s)] + g[s \ {Picked(s)}]
      /\ h[s] = IF s = {} THEN 0 ELSE f[Picked(s)] + h[s \ {Picked(s)}]
  BY DEF Recurs
<1>6. s # {} /\ g[s \ {Picked(s)}] # h[s \ {Picked(s)}] BY <1>4, <1>5
<1>7. Cardinality(s \ {Picked(s)}) = Cardinality(s) - 1 BY <1>1, <1>6, PickedIn, FS_RemoveElement
<1>8. Cardinality(s \ {Picked(s)}) \in bad BY <1>6
<1>9. n \in Nat /\ n - 1 \in bad /\ n <= n - 1
  <2> HIDE DEF bad
  <2> QED BY <1>2, <1>3, <1>4, <1>7, <1>8
<1> QED BY <1>9

\* The function that MapThenFoldSet chooses.
Sums(f, S) == CHOOSE g : Recurs(g, f, SUBSET S)

LEMMA SumsOfSubsets ==
  ASSUME NEW S, IsFiniteSet(S), NEW f
  PROVE  /\ Recurs(Sums(f, S), f, SUBSET S)
         /\ \A T \in SUBSET S : SumFunctionOnSet(f, T) = Sums(f, S)[T]
<1>1. \A T : SumFunctionOnSet(f, T) = Sums(f, T)[T]
  BY DEF SumFunctionOnSet, FoldFunctionOnSet, MapThenFoldSet, Recurs, Picked, Sums
<1>2. ASSUME NEW T, IsFiniteSet(T) PROVE Recurs(Sums(f, T), f, SUBSET T)
  BY <1>2, RecursionExists DEF Sums
<1>3. ASSUME NEW T \in SUBSET S PROVE Sums(f, S)[T] = Sums(f, T)[T]
  <2>1. IsFiniteSet(T) BY FS_Subset
  <2>2. Recurs(Sums(f, S), f, SUBSET S) /\ Recurs(Sums(f, T), f, SUBSET T)
    BY <1>2, <2>1
  <2> QED BY <2>2, RecursionUnique
<1> QED BY <1>1, <1>2, <1>3

\* A sum is one element's and that of the rest.
LEMMA SumUnfolds ==
  ASSUME NEW S, IsFiniteSet(S), NEW f
  PROVE  SumFunctionOnSet(f, S) =
           IF S = {} THEN 0 ELSE f[Picked(S)] + SumFunctionOnSet(f, S \ {Picked(S)})
<1> DEFINE g == Sums(f, S)
<1>1. Recurs(g, f, SUBSET S) /\ \A T \in SUBSET S : SumFunctionOnSet(f, T) = g[T]
  BY SumsOfSubsets
<1> HIDE DEF g
<1>2. g[S] = IF S = {} THEN 0 ELSE f[Picked(S)] + g[S \ {Picked(S)}] BY <1>1 DEF Recurs
<1>3. SumFunctionOnSet(f, S) = g[S] /\ SumFunctionOnSet(f, S \ {Picked(S)}) = g[S \ {Picked(S)}]
  BY <1>1
<1> QED BY <1>2, <1>3

-----------------------------------------------------------------------------
(* The algebra of sums *)

LEMMA SumEmpty == \A f : SumFunctionOnSet(f, {}) = 0
BY SumUnfolds, FS_EmptySet

LEMMA SumPicked ==
  ASSUME NEW S, IsFiniteSet(S), S # {}, NEW f
  PROVE  /\ Picked(S) \in S /\ IsFiniteSet(S \ {Picked(S)})
         /\ Cardinality(S \ {Picked(S)}) = Cardinality(S) - 1 /\ Cardinality(S) \in Nat
         /\ SumFunctionOnSet(f, S) = f[Picked(S)] + SumFunctionOnSet(f, S \ {Picked(S)})
<1>1. Picked(S) \in S BY PickedIn
<1>2. IsFiniteSet(S \ {Picked(S)}) BY FS_Subset, S \ {Picked(S)} \subseteq S
<1>3. Cardinality(S \ {Picked(S)}) = Cardinality(S) - 1 BY <1>1, FS_RemoveElement
<1> QED BY <1>1, <1>2, <1>3, SumUnfolds, FS_CardinalityType

\* A sum of integers is an integer.
LEMMA SumType ==
  ASSUME NEW S, IsFiniteSet(S), NEW f, \A x \in S : f[x] \in Int
  PROVE  SumFunctionOnSet(f, S) \in Int
<1> DEFINE bad == {n \in Nat : \E T \in SUBSET S : Cardinality(T) = n /\ SumFunctionOnSet(f, T) \notin Int}
<1> SUFFICES ASSUME SumFunctionOnSet(f, S) \notin Int PROVE FALSE OBVIOUS
<1>1. bad \in SUBSET Nat /\ bad # {} BY FS_CardinalityType
<1>2. PICK n \in bad : \A m \in bad : n <= m
  <2> HIDE DEF bad
  <2> QED BY <1>1, LeastNat
<1>3. PICK T \in SUBSET S : Cardinality(T) = n /\ SumFunctionOnSet(f, T) \notin Int BY <1>2
<1>4. T # {} BY <1>3, SumEmpty
<1>5. IsFiniteSet(T) BY FS_Subset
<1> DEFINE x == Picked(T)
<1>6. /\ x \in T /\ Cardinality(T \ {x}) = n - 1 /\ n \in Nat
      /\ SumFunctionOnSet(f, T) = f[x] + SumFunctionOnSet(f, T \ {x})
  BY <1>3, <1>4, <1>5, SumPicked
<1> HIDE DEF x
<1>7. n - 1 \in Nat BY <1>5, <1>6, FS_CardinalityType, FS_Subset, T \ {x} \subseteq T
<1>8. SumFunctionOnSet(f, T \ {x}) \notin Int BY <1>3, <1>6
<1>9. n - 1 \in bad BY <1>6, <1>7, <1>8
<1>10. n <= n - 1
  <2> HIDE DEF bad
  <2> QED BY <1>2, <1>9
<1> QED BY <1>6, <1>10

\* A sum can be taken in any order: any one element first.
LEMMA SumRemove ==
  ASSUME NEW S, IsFiniteSet(S), NEW f, \A x \in S : f[x] \in Int, NEW y \in S
  PROVE  SumFunctionOnSet(f, S) = f[y] + SumFunctionOnSet(f, S \ {y})
<1> DEFINE Wrong(T) == \E z \in T : SumFunctionOnSet(f, T) # f[z] + SumFunctionOnSet(f, T \ {z})
           bad == {n \in Nat : \E T \in SUBSET S : Cardinality(T) = n /\ Wrong(T)}
<1> SUFFICES ASSUME Wrong(S) PROVE FALSE OBVIOUS
<1>1. bad \in SUBSET Nat /\ bad # {} BY FS_CardinalityType
<1>2. PICK n \in bad : \A m \in bad : n <= m
  <2> HIDE DEF bad
  <2> QED BY <1>1, LeastNat
<1>3. PICK T \in SUBSET S : Cardinality(T) = n /\ Wrong(T) BY <1>2
<1>4. PICK z \in T : SumFunctionOnSet(f, T) # f[z] + SumFunctionOnSet(f, T \ {z}) BY <1>3
<1>5. IsFiniteSet(T) BY FS_Subset
<1> DEFINE x == Picked(T)
<1>6. /\ x \in T /\ Cardinality(T \ {x}) = n - 1 /\ n \in Nat
      /\ SumFunctionOnSet(f, T) = f[x] + SumFunctionOnSet(f, T \ {x})
  BY <1>3, <1>5, SumPicked
<1> HIDE DEF x
<1>7. x # z BY <1>4, <1>6
<1>8. ASSUME NEW t \in T
      PROVE  Cardinality(T \ {t}) = n - 1 /\ n - 1 \in Nat /\ T \ {t} \in SUBSET S
  <2>1. Cardinality(T \ {t}) = Cardinality(T) - 1 BY <1>5, FS_RemoveElement
  <2>2. Cardinality(T \ {t}) \in Nat BY <1>5, FS_CardinalityType, FS_Subset, T \ {t} \subseteq T
  <2> QED BY <1>3, <2>1, <2>2
<1>9. ASSUME NEW t \in T PROVE ~Wrong(T \ {t})
  <2>1. n - 1 \notin bad
    <3> HIDE DEF bad
    <3> QED BY <1>2, <1>6
  <2> HIDE DEF Wrong
  <2> QED BY <1>8, <2>1
<1>10. /\ SumFunctionOnSet(f, T \ {x}) = f[z] + SumFunctionOnSet(f, (T \ {x}) \ {z})
       /\ SumFunctionOnSet(f, T \ {z}) = f[x] + SumFunctionOnSet(f, (T \ {z}) \ {x})
  BY <1>6, <1>7, <1>9
<1>11. (T \ {x}) \ {z} = (T \ {z}) \ {x} OBVIOUS
<1>12. SumFunctionOnSet(f, (T \ {x}) \ {z}) \in Int
  BY <1>5, SumType, FS_Subset, (T \ {x}) \ {z} \subseteq T
<1>13. f[x] \in Int /\ f[z] \in Int BY <1>6
<1>14. SumFunctionOnSet(f, T) = f[x] + (f[z] + SumFunctionOnSet(f, (T \ {z}) \ {x}))
  BY <1>6, <1>10, <1>11
<1>15. f[z] + SumFunctionOnSet(f, T \ {z}) = f[z] + (f[x] + SumFunctionOnSet(f, (T \ {z}) \ {x}))
  BY <1>10
<1>16. SumFunctionOnSet(f, T) = f[z] + SumFunctionOnSet(f, T \ {z})
  <2> HIDE DEF Wrong, bad
  <2>1. PICK u \in Int : u = SumFunctionOnSet(f, (T \ {z}) \ {x}) BY <1>11, <1>12
  <2>2. PICK v \in Int : v = f[x] BY <1>13
  <2>3. PICK w \in Int : w = f[z] BY <1>13
  <2>4. SumFunctionOnSet(f, T) = v + (w + u) BY <1>14, <2>1, <2>2, <2>3
  <2>5. f[z] + SumFunctionOnSet(f, T \ {z}) = w + (v + u) BY <1>15, <2>1, <2>2, <2>3
  <2>6. v + (w + u) = w + (v + u) OBVIOUS
  <2> QED BY <2>4, <2>5, <2>6
<1> QED BY <1>4, <1>16

LEMMA SumAdd ==
  ASSUME NEW S, IsFiniteSet(S), NEW f, NEW y, y \notin S, \A x \in S \cup {y} : f[x] \in Int
  PROVE  /\ SumFunctionOnSet(f, S \cup {y}) = f[y] + SumFunctionOnSet(f, S)
         /\ IsFiniteSet(S \cup {y})
<1>1. IsFiniteSet(S \cup {y}) BY FS_AddElement
<1>2. (S \cup {y}) \ {y} = S OBVIOUS
<1> QED BY <1>1, <1>2, SumRemove

\* Functions that agree on a set have one sum.
LEMMA SumSame ==
  ASSUME NEW S, IsFiniteSet(S), NEW f, NEW g, \A x \in S : f[x] = g[x]
  PROVE  SumFunctionOnSet(f, S) = SumFunctionOnSet(g, S)
<1> DEFINE good == {T \in SUBSET S : SumFunctionOnSet(f, T) = SumFunctionOnSet(g, T)}
           bad == {n \in Nat : \E T \in (SUBSET S) \ good : Cardinality(T) = n}
<1> SUFFICES ASSUME S \notin good PROVE FALSE OBVIOUS
<1>1. bad \in SUBSET Nat /\ bad # {} BY FS_CardinalityType
<1>2. PICK n \in bad : \A m \in bad : n <= m
  <2> HIDE DEF bad
  <2> QED BY <1>1, LeastNat
<1>3. PICK T \in (SUBSET S) \ good : Cardinality(T) = n BY <1>2
<1>4. T # {} BY SumEmpty
<1>5. IsFiniteSet(T) BY FS_Subset
<1> DEFINE x == Picked(T)
<1>6. /\ x \in T /\ IsFiniteSet(T \ {x}) /\ Cardinality(T \ {x}) = n - 1 /\ n \in Nat
      /\ SumFunctionOnSet(f, T) = f[x] + SumFunctionOnSet(f, T \ {x})
      /\ SumFunctionOnSet(g, T) = g[x] + SumFunctionOnSet(g, T \ {x})
  BY <1>3, <1>4, <1>5, SumPicked
<1> HIDE DEF x
<1>7. T \ {x} \notin good BY <1>6
<1>8. n - 1 \in bad BY <1>6, <1>7, FS_CardinalityType
<1>9. n <= n - 1
  <2> HIDE DEF bad
  <2> QED BY <1>2, <1>8
<1> QED BY <1>6, <1>9

\* Two sums over disjoint sets are one over their union.
LEMMA SumUnion ==
  ASSUME NEW S, IsFiniteSet(S), NEW T, IsFiniteSet(T), S \cap T = {},
         NEW f, \A x \in S \cup T : f[x] \in Int
  PROVE  SumFunctionOnSet(f, S \cup T) = SumFunctionOnSet(f, S) + SumFunctionOnSet(f, T)
<1> DEFINE good == {U \in SUBSET T : SumFunctionOnSet(f, S \cup U)
                                       = SumFunctionOnSet(f, S) + SumFunctionOnSet(f, U)}
<1>1. {} \in good BY SumEmpty, SumType, S \cup {} = S
<1>2. ASSUME NEW U \in good, NEW x \in T \ U PROVE U \cup {x} \in good
  <2>1. IsFiniteSet(U) /\ IsFiniteSet(S \cup U) BY FS_Subset, FS_Union
  <2>2. SumFunctionOnSet(f, U \cup {x}) = f[x] + SumFunctionOnSet(f, U) BY <2>1, SumAdd
  <2>3. SumFunctionOnSet(f, (S \cup U) \cup {x}) = f[x] + SumFunctionOnSet(f, S \cup U)
    BY <2>1, SumAdd
  <2>4. S \cup (U \cup {x}) = (S \cup U) \cup {x} OBVIOUS
  <2>5. SumFunctionOnSet(f, S) \in Int /\ SumFunctionOnSet(f, U) \in Int /\ f[x] \in Int
    BY <2>1, SumType
  <2>6. SumFunctionOnSet(f, S \cup U) = SumFunctionOnSet(f, S) + SumFunctionOnSet(f, U) OBVIOUS
  <2> HIDE DEF good
  <2>7. SumFunctionOnSet(f, S \cup (U \cup {x})) = SumFunctionOnSet(f, S) + SumFunctionOnSet(f, U \cup {x})
    <3>1. PICK s \in Int : s = SumFunctionOnSet(f, S) BY <2>5
    <3>2. PICK u \in Int : u = SumFunctionOnSet(f, U) BY <2>5
    <3>3. PICK v \in Int : v = f[x] BY <2>5
    <3>4. SumFunctionOnSet(f, S \cup (U \cup {x})) = v + (s + u)
      BY <2>3, <2>4, <2>6, <3>1, <3>2, <3>3
    <3>5. SumFunctionOnSet(f, U \cup {x}) = v + u BY <2>2, <3>2, <3>3
    <3>6. v + (s + u) = s + (v + u) OBVIOUS
    <3> QED BY <3>1, <3>4, <3>5, <3>6
  <2>8. U \cup {x} \in SUBSET T BY DEF good
  <2> QED BY <2>7, <2>8 DEF good
<1>3. T \in good
  <2>1. good \in SUBSET SUBSET T OBVIOUS
  <2> HIDE DEF good
  <2> QED BY <1>1, <1>2, <2>1, SetInduction
<1> QED BY <1>3

LEMMA SumSplit ==
  ASSUME NEW S, IsFiniteSet(S), NEW f, \A x \in S : f[x] \in Int, NEW P
  PROVE  SumFunctionOnSet(f, S) = SumFunctionOnSet(f, S \cap P) + SumFunctionOnSet(f, S \ P)
<1>1. IsFiniteSet(S \cap P) BY FS_Subset, S \cap P \subseteq S
<1>2. IsFiniteSet(S \ P) BY FS_Subset, S \ P \subseteq S
<1>3. (S \cap P) \cup (S \ P) = S /\ (S \cap P) \cap (S \ P) = {} OBVIOUS
<1> QED BY <1>1, <1>2, <1>3, SumUnion

\* The sum of a sum.
LEMMA SumPlus ==
  ASSUME NEW S, IsFiniteSet(S), NEW f, NEW g, NEW h,
         \A x \in S : f[x] \in Int /\ g[x] \in Int /\ h[x] = f[x] + g[x]
  PROVE  SumFunctionOnSet(h, S) = SumFunctionOnSet(f, S) + SumFunctionOnSet(g, S)
<1> DEFINE good == {U \in SUBSET S : SumFunctionOnSet(h, U)
                                       = SumFunctionOnSet(f, U) + SumFunctionOnSet(g, U)}
<1>1. {} \in good BY SumEmpty
<1>2. ASSUME NEW U \in good, NEW x \in S \ U PROVE U \cup {x} \in good
  <2>1. IsFiniteSet(U) BY FS_Subset
  <2>2. \A y \in S : h[y] \in Int OBVIOUS
  <2>3. /\ SumFunctionOnSet(f, U \cup {x}) = f[x] + SumFunctionOnSet(f, U)
        /\ SumFunctionOnSet(g, U \cup {x}) = g[x] + SumFunctionOnSet(g, U)
        /\ SumFunctionOnSet(h, U \cup {x}) = h[x] + SumFunctionOnSet(h, U)
    BY <2>1, <2>2, SumAdd
  <2>4. SumFunctionOnSet(f, U) \in Int /\ SumFunctionOnSet(g, U) \in Int BY <2>1, SumType
  <2>5. f[x] \in Int /\ g[x] \in Int /\ h[x] = f[x] + g[x] OBVIOUS
  <2>6. SumFunctionOnSet(h, U) = SumFunctionOnSet(f, U) + SumFunctionOnSet(g, U) OBVIOUS
  <2> HIDE DEF good
  <2>7. SumFunctionOnSet(h, U \cup {x}) = SumFunctionOnSet(f, U \cup {x}) + SumFunctionOnSet(g, U \cup {x})
    BY <2>3, <2>4, <2>5, <2>6
  <2> QED BY <2>7 DEF good
<1>3. S \in good
  <2>1. good \in SUBSET SUBSET S OBVIOUS
  <2> HIDE DEF good
  <2> QED BY <1>1, <1>2, <2>1, SetInduction
<1> QED BY <1>3

LEMMA SumZero ==
  ASSUME NEW S, IsFiniteSet(S), NEW f, \A x \in S : f[x] = 0
  PROVE  SumFunctionOnSet(f, S) = 0
<1>1. SumFunctionOnSet(f, S) = SumFunctionOnSet(f, S) + SumFunctionOnSet(f, S) BY SumPlus
<1>2. SumFunctionOnSet(f, S) \in Int BY SumType
<1>3. ASSUME NEW n \in Int, n = n + n PROVE n = 0 BY <1>3
<1> QED BY <1>1, <1>2, <1>3

\* A sum changes by what one element changes.
LEMMA SumChange ==
  ASSUME NEW S, IsFiniteSet(S), NEW f, NEW g, NEW y \in S,
         \A x \in S : f[x] \in Int /\ g[x] \in Int, \A x \in S : x # y => g[x] = f[x]
  PROVE  SumFunctionOnSet(g, S) = SumFunctionOnSet(f, S) - f[y] + g[y]
<1>1. IsFiniteSet(S \ {y}) BY FS_Subset, S \ {y} \subseteq S
<1>2. SumFunctionOnSet(g, S \ {y}) = SumFunctionOnSet(f, S \ {y}) BY <1>1, SumSame
<1>3. SumFunctionOnSet(f, S \ {y}) \in Int BY <1>1, SumType
<1>4. /\ SumFunctionOnSet(f, S) = f[y] + SumFunctionOnSet(f, S \ {y})
      /\ SumFunctionOnSet(g, S) = g[y] + SumFunctionOnSet(g, S \ {y})
  BY SumRemove
<1> QED BY <1>2, <1>3, <1>4

\* The sum of differences.
LEMMA SumMinus ==
  ASSUME NEW S, IsFiniteSet(S), NEW f, NEW g, NEW h,
         \A x \in S : f[x] \in Int /\ g[x] \in Int /\ h[x] = f[x] - g[x]
  PROVE  SumFunctionOnSet(h, S) = SumFunctionOnSet(f, S) - SumFunctionOnSet(g, S)
<1>1. \A x \in S : h[x] \in Int /\ f[x] = h[x] + g[x] OBVIOUS
<1>2. SumFunctionOnSet(f, S) = SumFunctionOnSet(h, S) + SumFunctionOnSet(g, S) BY <1>1, SumPlus
<1>3. /\ SumFunctionOnSet(f, S) \in Int /\ SumFunctionOnSet(g, S) \in Int
      /\ SumFunctionOnSet(h, S) \in Int
  BY <1>1, SumType
<1> QED BY <1>2, <1>3

LEMMA SumNegated ==
  ASSUME NEW S, IsFiniteSet(S), NEW f, NEW h, \A x \in S : f[x] \in Int /\ h[x] = 0 - f[x]
  PROVE  SumFunctionOnSet(h, S) = 0 - SumFunctionOnSet(f, S)
<1> DEFINE zero == [x \in S |-> 0]
<1>1. SumFunctionOnSet(zero, S) = 0 /\ \A x \in S : zero[x] = 0 BY SumZero
<1> HIDE DEF zero
<1>2. SumFunctionOnSet(h, S) = SumFunctionOnSet(zero, S) - SumFunctionOnSet(f, S)
  BY <1>1, SumMinus
<1> QED BY <1>1, <1>2

\* A table has one sum, by rows and by columns.
LEMMA SumSwap ==
  ASSUME NEW S, IsFiniteSet(S), NEW T, IsFiniteSet(T), NEW F,
         \A x \in S : \A y \in T : F[x][y] \in Int
  PROVE  SumFunctionOnSet([x \in S |-> SumFunctionOnSet(F[x], T)], S)
           = SumFunctionOnSet([y \in T |-> SumFunctionOnSet([x \in S |-> F[x][y]], S)], T)
<1> DEFINE row == [x \in S |-> SumFunctionOnSet(F[x], T)]
           col(y) == [x \in S |-> F[x][y]]
           cols(U) == [y \in T |-> SumFunctionOnSet(col(y), U)]
           good == {U \in SUBSET S : SumFunctionOnSet(row, U) = SumFunctionOnSet(cols(U), T)}
<1>1. ASSUME NEW U \in SUBSET S
      PROVE  IsFiniteSet(U) /\ \A y \in T : cols(U)[y] \in Int
  <2>1. IsFiniteSet(U) BY FS_Subset
  <2>2. ASSUME NEW y \in T PROVE SumFunctionOnSet(col(y), U) \in Int
    <3>1. \A x \in U : col(y)[x] \in Int OBVIOUS
    <3> HIDE DEF col
    <3> QED BY <2>1, <3>1, SumType
  <2> QED BY <2>1, <2>2
<1>2. \A x \in S : row[x] \in Int BY SumType
<1>3. {} \in good
  <2>1. SumFunctionOnSet(row, {}) = 0 BY SumEmpty
  <2>2. \A y \in T : cols({})[y] = 0 BY SumEmpty
  <2>3. SumFunctionOnSet(cols({}), T) = 0
    <3> HIDE DEF cols
    <3> QED BY <2>2, SumZero
  <2> QED BY <2>1, <2>3
<1>4. ASSUME NEW U \in good, NEW x \in S \ U PROVE U \cup {x} \in good
  <2>1. IsFiniteSet(U) /\ U \cup {x} \in SUBSET S BY <1>1
  <2>2. SumFunctionOnSet(row, U \cup {x}) = row[x] + SumFunctionOnSet(row, U)
    <3> HIDE DEF row
    <3> QED BY <1>2, <2>1, SumAdd
  <2>3. ASSUME NEW y \in T PROVE cols(U \cup {x})[y] = F[x][y] + cols(U)[y]
    <3>1. PICK g : g = col(y) OBVIOUS
    <3>2. /\ IsFiniteSet(U) /\ x \notin U /\ g[x] = F[x][y]
          /\ \A z \in U \cup {x} : g[z] \in Int
      BY <2>1, <3>1
    <3> HIDE DEF col
    <3>3. SumFunctionOnSet(g, U \cup {x}) = g[x] + SumFunctionOnSet(g, U)
      BY <3>2, SumAdd
    <3> QED BY <3>1, <3>2, <3>3
  <2>4. SumFunctionOnSet(cols(U \cup {x}), T) = SumFunctionOnSet(F[x], T) + SumFunctionOnSet(cols(U), T)
    <3>1. \A y \in T : F[x][y] \in Int /\ cols(U)[y] \in Int BY <1>1
    <3>2. PICK f, g, h : f = F[x] /\ g = cols(U) /\ h = cols(U \cup {x}) OBVIOUS
    <3> HIDE DEF cols
    <3>3. \A y \in T : f[y] \in Int /\ g[y] \in Int /\ h[y] = f[y] + g[y] BY <2>3, <3>1, <3>2
    <3>4. SumFunctionOnSet(h, T) = SumFunctionOnSet(f, T) + SumFunctionOnSet(g, T)
      BY ONLY <3>3, IsFiniteSet(T), SumPlus
    <3> QED BY <3>2, <3>4
  <2>5. row[x] = SumFunctionOnSet(F[x], T) OBVIOUS
  <2>6. SumFunctionOnSet(row, U) = SumFunctionOnSet(cols(U), T) OBVIOUS
  <2> HIDE DEF row, cols
  <2>7. SumFunctionOnSet(row, U \cup {x}) = SumFunctionOnSet(cols(U \cup {x}), T)
    BY <2>2, <2>4, <2>5, <2>6
  <2> QED BY <2>1, <2>7
<1>5. S \in good
  <2>1. good \in SUBSET SUBSET S OBVIOUS
  <2> HIDE DEF good
  <2> QED BY <1>3, <1>4, <2>1, SetInduction
<1> QED BY <1>5

LEMMA SumNotNegative ==
  ASSUME NEW S, IsFiniteSet(S), NEW f, \A x \in S : f[x] \in Int /\ f[x] >= 0
  PROVE  SumFunctionOnSet(f, S) >= 0
<1> DEFINE good == {U \in SUBSET S : SumFunctionOnSet(f, U) \in Int /\ SumFunctionOnSet(f, U) >= 0}
<1>1. {} \in good BY SumEmpty
<1>2. ASSUME NEW U \in good, NEW x \in S \ U PROVE U \cup {x} \in good
  <2>1. IsFiniteSet(U) BY FS_Subset
  <2>2. SumFunctionOnSet(f, U \cup {x}) = f[x] + SumFunctionOnSet(f, U) BY <2>1, SumAdd
  <2>3. f[x] \in Int /\ f[x] >= 0 OBVIOUS
  <2>4. U \cup {x} \in SUBSET S OBVIOUS
  <2> QED BY <2>2, <2>3, <2>4
<1>3. S \in good
  <2>1. good \in SUBSET SUBSET S OBVIOUS
  <2> HIDE DEF good
  <2> QED BY <1>1, <1>2, <2>1, SetInduction
<1> QED BY <1>3

\* The sum over a part is that over the whole of what is nothing elsewhere.
LEMMA SumOfPart ==
  ASSUME NEW S, IsFiniteSet(S), NEW T \in SUBSET S, NEW f, NEW g,
         \A x \in T : f[x] \in Int, \A x \in S : g[x] = IF x \in T THEN f[x] ELSE 0
  PROVE  SumFunctionOnSet(f, T) = SumFunctionOnSet(g, S)
<1>1. IsFiniteSet(T) /\ IsFiniteSet(S \ T) BY FS_Subset, S \ T \subseteq S
<1>2. \A x \in S : g[x] \in Int OBVIOUS
<1>3. SumFunctionOnSet(g, S) = SumFunctionOnSet(g, S \cap T) + SumFunctionOnSet(g, S \ T)
  BY <1>2, SumSplit
<1>4. SumFunctionOnSet(g, S \ T) = 0
  <2>1. \A x \in S \ T : g[x] = 0 OBVIOUS
  <2> QED BY <1>1, <2>1, SumZero
<1>5. SumFunctionOnSet(g, S \cap T) = SumFunctionOnSet(g, T)
  <2>1. S \cap T = T OBVIOUS
  <2> QED BY <2>1
<1>6. SumFunctionOnSet(g, T) = SumFunctionOnSet(f, T) BY <1>1, SumSame
<1>7. SumFunctionOnSet(f, T) \in Int BY <1>1, SumType
<1> QED BY <1>3, <1>4, <1>5, <1>6, <1>7

\* A sequence that grew by one.
LEMMA SumAppended ==
  ASSUME NEW n \in Nat, NEW f, NEW g, \A k \in 1..n : f[k] \in Int /\ g[k] = f[k],
         g[n + 1] \in Int
  PROVE  SumFunctionOnSet(g, 1..n + 1) = SumFunctionOnSet(f, 1..n) + g[n + 1]
<1>1. 1..n + 1 = (1..n) \cup {n + 1} /\ n + 1 \notin 1..n OBVIOUS
<1>2. IsFiniteSet(1..n) BY FS_Interval
<1>3. SumFunctionOnSet(g, (1..n) \cup {n + 1}) = g[n + 1] + SumFunctionOnSet(g, 1..n)
  BY <1>1, <1>2, SumAdd
<1>4. SumFunctionOnSet(g, 1..n) = SumFunctionOnSet(f, 1..n) BY <1>2, SumSame
<1>5. SumFunctionOnSet(f, 1..n) \in Int BY <1>2, SumType
<1>6. SumFunctionOnSet(g, 1..n + 1) = SumFunctionOnSet(g, (1..n) \cup {n + 1}) BY <1>1
<1> QED BY <1>3, <1>4, <1>5, <1>6


-----------------------------------------------------------------------------
(* Sums by groups *)

LEMMA SumOfOne ==
  ASSUME NEW f, NEW y, f[y] \in Int
  PROVE  SumFunctionOnSet(f, {y}) = f[y] /\ IsFiniteSet({y})
<1>1. IsFiniteSet({}) /\ SumFunctionOnSet(f, {}) = 0 BY FS_EmptySet, SumEmpty
<1>2. y \notin {} /\ \A x \in {} \cup {y} : f[x] \in Int OBVIOUS
<1>3. /\ SumFunctionOnSet(f, {} \cup {y}) = f[y] + SumFunctionOnSet(f, {})
      /\ IsFiniteSet({} \cup {y})
  BY ONLY <1>1, <1>2, SumAdd
<1>4. {} \cup {y} = {y} OBVIOUS
<1> QED BY <1>1, <1>3, <1>4

\* A sum is that of the sums of its groups.
LEMMA SumOfGroups ==
  ASSUME NEW S, IsFiniteSet(S), NEW D, IsFiniteSet(D), NEW f, NEW key,
         \A x \in S : f[x] \in Int /\ key[x] \in D
  PROVE  SumFunctionOnSet(f, S)
           = SumFunctionOnSet([d \in D |-> SumFunctionOnSet(f, {x \in S : key[x] = d})], D)
<1> DEFINE F == [x \in S |-> [d \in D |-> IF key[x] = d THEN f[x] ELSE 0]]
           rows == [x \in S |-> SumFunctionOnSet(F[x], D)]
           col(d) == [x \in S |-> F[x][d]]
           cols == [d \in D |-> SumFunctionOnSet(col(d), S)]
           groups == [d \in D |-> SumFunctionOnSet(f, {x \in S : key[x] = d})]
<1>1. \A x \in S : \A d \in D : F[x][d] \in Int OBVIOUS
<1>2. SumFunctionOnSet(rows, S) = SumFunctionOnSet(cols, D)
  <2> HIDE DEF F
  <2> QED BY <1>1, SumSwap
<1>3. ASSUME NEW x \in S PROVE f[x] = rows[x]
  <2>1. PICK g, d : g = F[x] /\ d = key[x] OBVIOUS
  <2>2. /\ d \in D /\ f[x] \in Int /\ g[d] = f[x]
        /\ \A y \in D : g[y] = IF y \in {d} THEN g[y] ELSE 0
    BY <2>1
  <2>3. {d} \in SUBSET D /\ \A y \in {d} : g[y] \in Int BY <2>2
  <2>4. SumFunctionOnSet(g, {d}) = SumFunctionOnSet(g, D)
    BY ONLY <2>2, <2>3, IsFiniteSet(D), SumOfPart
  <2>5. SumFunctionOnSet(g, {d}) = g[d] BY <2>2, SumOfOne
  <2>6. rows[x] = SumFunctionOnSet(g, D) BY <2>1
  <2> QED BY <2>2, <2>4, <2>5, <2>6
<1>4. ASSUME NEW d \in D PROVE groups[d] = cols[d]
  <2>1. PICK g, T : g = col(d) /\ T = {x \in S : key[x] = d} OBVIOUS
  <2>2. /\ T \in SUBSET S /\ \A x \in T : f[x] \in Int
        /\ \A x \in S : g[x] = IF x \in T THEN f[x] ELSE 0
    BY <2>1
  <2>3. SumFunctionOnSet(f, T) = SumFunctionOnSet(g, S)
    BY ONLY <2>2, IsFiniteSet(S), SumOfPart
  <2> QED BY <2>1, <2>3
<1> HIDE DEF F, rows, col, cols
<1>5. SumFunctionOnSet(f, S) = SumFunctionOnSet(rows, S) BY <1>3, SumSame
<1>6. \A d \in D : groups[d] = cols[d] BY <1>4
<1> HIDE DEF groups
<1>7. SumFunctionOnSet(groups, D) = SumFunctionOnSet(cols, D) BY <1>6, SumSame
<1>8. SumFunctionOnSet(f, S) = SumFunctionOnSet(groups, D) BY <1>2, <1>5, <1>7
<1> QED BY <1>8 DEF groups

\* What a sum ranges over may be renamed.
LEMMA SumRenamed ==
  ASSUME NEW S, IsFiniteSet(S), NEW D, IsFiniteSet(D), NEW f, NEW g, NEW key,
         \A x \in S : f[x] \in Int /\ key[x] \in D /\ g[key[x]] = f[x],
         \A d \in D : \E x \in S : key[x] = d,
         \A x, y \in S : key[x] = key[y] => x = y
  PROVE  SumFunctionOnSet(f, S) = SumFunctionOnSet(g, D)
<1> DEFINE groups == [d \in D |-> SumFunctionOnSet(f, {x \in S : key[x] = d})]
<1>1. SumFunctionOnSet(f, S) = SumFunctionOnSet(groups, D) BY SumOfGroups
<1>2. ASSUME NEW d \in D PROVE groups[d] = g[d]
  <2>1. PICK x \in S : key[x] = d OBVIOUS
  <2>2. {y \in S : key[y] = d} = {x} BY <2>1
  <2>3. SumFunctionOnSet(f, {x}) = f[x] BY SumOfOne
  <2> QED BY <2>1, <2>2, <2>3
<1> HIDE DEF groups
<1>3. SumFunctionOnSet(groups, D) = SumFunctionOnSet(g, D) BY <1>2, SumSame
<1> QED BY <1>1, <1>3

\* The values of a function on a finite set are finitely many.
LEMMA ValuesFinite ==
  ASSUME NEW S, IsFiniteSet(S), NEW f
  PROVE  IsFiniteSet({f[x] : x \in S})
<1> DEFINE T == {f[x] : x \in S}
           h == [x \in S |-> f[x]]
<1>1. h \in Surjection(S, T) BY DEF Surjection
<1> HIDE DEF h, T
<1>2. IsFiniteSet(T) BY <1>1, FS_Surjection
<1> QED BY <1>2 DEF T

\* A table of rows of different lengths, as one set of rows.
RowsOf(S, R) == {row \in S \X UNION {R[x] : x \in S} : row[2] \in R[row[1]]}

LEMMA SumOfRows ==
  ASSUME NEW S, IsFiniteSet(S), NEW R, \A x \in S : IsFiniteSet(R[x]),
         NEW w, \A x \in S : \A r \in R[x] : w[x][r] \in Int,
         NEW rows, \A x \in S : rows[x] = SumFunctionOnSet(w[x], R[x]),
         NEW T, T = RowsOf(S, R),
         NEW f, \A row \in T : f[row] = w[row[1]][row[2]]
  PROVE  IsFiniteSet(T) /\ SumFunctionOnSet(f, T) = SumFunctionOnSet(rows, S)
<1> USE DEF RowsOf
<1> DEFINE key == [row \in T |-> row[1]]
           groups == [x \in S |-> SumFunctionOnSet(f, {row \in T : key[row] = x})]
<1>1. IsFiniteSet(T)
  <2>1. PICK A : A = {R[x] : x \in S} OBVIOUS
  <2>2. IsFiniteSet(A) BY <2>1, ValuesFinite
  <2>3. \A s \in A : IsFiniteSet(s) BY <2>1
  <2>4. IsFiniteSet(UNION A) BY <2>2, <2>3, FS_UNION
  <2>5. IsFiniteSet(S \X UNION A) BY <2>4, FS_Product
  <2>6. T \in SUBSET (S \X UNION A) BY <2>1
  <2> QED BY <2>5, <2>6, FS_Subset
<1>2. \A row \in T : /\ row = <<row[1], row[2]>> /\ row[1] \in S /\ row[2] \in R[row[1]]
                     /\ f[row] \in Int /\ key[row] = row[1]
  OBVIOUS
<1>3. \A x \in S : \A r \in R[x] : <<x, r>> \in T OBVIOUS
<1>4. SumFunctionOnSet(f, T) = SumFunctionOnSet(groups, S)
  <2>1. \A row \in T : f[row] \in Int /\ key[row] \in S BY <1>2
  <2> HIDE DEF key
  <2> QED BY ONLY <1>1, <2>1, IsFiniteSet(S), SumOfGroups
<1>5. ASSUME NEW x \in S PROVE groups[x] = rows[x]
  <2>1. PICK G : G = {row \in T : key[row] = x} OBVIOUS
  <2>2. PICK second : second = [row \in G |-> row[2]] OBVIOUS
  <2>3. PICK g, D : g = w[x] /\ D = R[x] OBVIOUS
  <2>4. IsFiniteSet(G) /\ IsFiniteSet(D) BY <1>1, <2>1, <2>3, FS_Subset
  <2>5. \A row \in G : /\ row \in T /\ row = <<x, row[2]>> /\ second[row] = row[2]
    BY <1>2, <2>1, <2>2
  <2>6. \A row \in G : f[row] \in Int /\ second[row] \in D /\ g[second[row]] = f[row]
    BY <1>2, <2>3, <2>5
  <2>7. \A d \in D : \E row \in G : second[row] = d
    <3> SUFFICES ASSUME NEW d \in D PROVE \E row \in G : second[row] = d OBVIOUS
    <3>1. <<x, d>> \in T BY <1>3, <2>3
    <3>2. <<x, d>> \in G BY <1>2, <2>1, <3>1
    <3> QED BY <2>2, <3>2
  <2>8. \A a, b \in G : second[a] = second[b] => a = b BY <2>5
  <2>9. SumFunctionOnSet(f, G) = SumFunctionOnSet(g, D)
    BY ONLY <2>4, <2>6, <2>7, <2>8, SumRenamed
  <2> QED BY <2>1, <2>3, <2>9
<1> HIDE DEF groups
<1>6. SumFunctionOnSet(groups, S) = SumFunctionOnSet(rows, S) BY <1>5, SumSame
<1>7. SumFunctionOnSet(f, T) = SumFunctionOnSet(rows, S) BY <1>4, <1>6
<1> QED BY <1>1, <1>7

\* The same, with the rows gathered under keys that tell the rows of one x apart.
KeysOf(S, R, key)    == UNION {{key[x][r] : r \in R[x]} : x \in S}
UnderKey(S, R, key, k) == {x \in S : \E r \in R[x] : key[x][r] = k}

Keyed(S, R, w, key, K, U, g, f, rows) ==
  /\ IsFiniteSet(S) /\ \A x \in S : IsFiniteSet(R[x])
  /\ \A x \in S : \A r \in R[x] : w[x][r] \in Int
  /\ \A x \in S : \A r, q \in R[x] : key[x][r] = key[x][q] => r = q
  /\ K = KeysOf(S, R, key)
  /\ \A k \in K : U[k] = UnderKey(S, R, key, k) /\ f[k] = SumFunctionOnSet(g[k], U[k])
  /\ \A x \in S : \A r \in R[x] : g[key[x][r]][x] = w[x][r]
  /\ \A x \in S : rows[x] = SumFunctionOnSet(w[x], R[x])

LEMMA SumOfKeys ==
  ASSUME NEW S, NEW R, NEW w, NEW key, NEW K, NEW U, NEW g, NEW f, NEW rows,
         Keyed(S, R, w, key, K, U, g, f, rows)
  PROVE  IsFiniteSet(K) /\ SumFunctionOnSet(f, K) = SumFunctionOnSet(rows, S)
<1> USE DEF Keyed, KeysOf, UnderKey
<1>1. PICK T : T = RowsOf(S, R) OBVIOUS
<1>2. PICK h : h = [row \in T |-> w[row[1]][row[2]]] OBVIOUS
<1>3. \A row \in T : h[row] = w[row[1]][row[2]] BY <1>2
<1>4. IsFiniteSet(T) /\ SumFunctionOnSet(h, T) = SumFunctionOnSet(rows, S)
  <2>1. /\ IsFiniteSet(S) /\ \A x \in S : IsFiniteSet(R[x])
        /\ \A x \in S : \A r \in R[x] : w[x][r] \in Int
        /\ \A x \in S : rows[x] = SumFunctionOnSet(w[x], R[x])
    OBVIOUS
  <2> QED BY ONLY <1>1, <1>3, <2>1, SumOfRows
<1>5. PICK of : of = [row \in T |-> key[row[1]][row[2]]] OBVIOUS
<1>6. \A row \in T : /\ row = <<row[1], row[2]>> /\ row[1] \in S /\ row[2] \in R[row[1]]
                     /\ h[row] \in Int /\ of[row] = key[row[1]][row[2]]
  BY <1>1, <1>3, <1>5 DEF RowsOf
<1>7. \A row \in T : of[row] \in K BY <1>6
<1>8. \A x \in S : \A r \in R[x] : <<x, r>> \in T BY <1>1 DEF RowsOf
<1>9. IsFiniteSet(K)
  <2>1. ASSUME NEW k \in K PROVE \E row \in T : of[row] = k
    <3>1. PICK x \in S : \E r \in R[x] : key[x][r] = k OBVIOUS
    <3>2. PICK r \in R[x] : key[x][r] = k BY <3>1
    <3>3. PICK row : row = <<x, r>> OBVIOUS
    <3>4. row \in T /\ row[1] = x /\ row[2] = r BY <1>8, <3>3
    <3> QED BY <1>6, <3>2, <3>4
  <2>2. K = {of[row] : row \in T} BY <1>7, <2>1
  <2>3. IsFiniteSet({of[row] : row \in T}) BY ONLY <1>4, ValuesFinite
  <2> QED BY <2>2, <2>3
<1> DEFINE groups == [k \in K |-> SumFunctionOnSet(h, {row \in T : of[row] = k})]
<1>10. SumFunctionOnSet(h, T) = SumFunctionOnSet(groups, K)
  <2>1. \A row \in T : h[row] \in Int /\ of[row] \in K BY <1>6, <1>7
  <2> QED BY ONLY <1>4, <1>9, <2>1, SumOfGroups
<1>11. ASSUME NEW k \in K PROVE f[k] = groups[k]
  <2>1. PICK G, D, v : /\ G = {row \in T : of[row] = k}
                       /\ D = {x \in S : \E r \in R[x] : key[x][r] = k} /\ v = g[k]
    OBVIOUS
  <2>2. PICK first : first = [row \in G |-> row[1]] OBVIOUS
  <2>3. IsFiniteSet(G) /\ IsFiniteSet(D) BY <1>4, <2>1, FS_Subset
  <2>4. \A row \in G : /\ row \in T /\ of[row] = k /\ first[row] = row[1] /\ row[1] \in D
    BY <1>6, <2>1, <2>2
  <2>5. \A row \in G : h[row] \in Int /\ first[row] \in D /\ v[first[row]] = h[row]
    BY <1>3, <1>6, <2>1, <2>4
  <2>6. \A d \in D : \E row \in G : first[row] = d
    <3> SUFFICES ASSUME NEW d \in D PROVE \E row \in G : first[row] = d OBVIOUS
    <3>1. PICK r \in R[d] : key[d][r] = k BY <2>1
    <3>2. <<d, r>> \in T BY <1>8, <2>1, <3>1
    <3>3. <<d, r>> \in G BY <1>5, <2>1, <3>1, <3>2
    <3> QED BY <2>2, <3>3
  <2>7. \A a, b \in G : first[a] = first[b] => a = b BY <1>6, <2>4
  <2>8. SumFunctionOnSet(h, G) = SumFunctionOnSet(v, D)
    BY ONLY <2>3, <2>5, <2>6, <2>7, SumRenamed
  <2>9. f[k] = SumFunctionOnSet(v, D) BY <2>1
  <2> QED BY <2>1, <2>8, <2>9
<1> HIDE DEF groups
<1>12. SumFunctionOnSet(f, K) = SumFunctionOnSet(groups, K) BY ONLY <1>9, <1>11, SumSame
<1>13. SumFunctionOnSet(f, K) = SumFunctionOnSet(rows, S) BY <1>4, <1>10, <1>12
<1> QED BY <1>9, <1>13

=============================================================================
