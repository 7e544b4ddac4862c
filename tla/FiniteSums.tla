---------------------------- MODULE FiniteSums ----------------------------
(***************************************************************************)
(* What MapThenSumSet adds up: the lemmas about sums over a finite set     *)
(* that the theorems about money rest on.                                  *)
(*                                                                         *)
(* The operator folds a set by taking one CHOSEN element after the other.  *)
(* Its recursive function exists, because a finite set has a smallest      *)
(* subset of any property (first-order induction: no theorem here takes    *)
(* an operator); and the order of the elements does not matter.            *)
(***************************************************************************)
EXTENDS FiniteSetsExt, FiniteSetTheorems, TLAPS

(* The element the fold takes first.                                       *)
One(s) == CHOOSE x \in s : TRUE

(* g is the recursive function the fold of f over S defines.               *)
Sums(g, f, S) ==
  g = [s \in SUBSET S |->
         IF s = {} THEN 0 ELSE f[One(s)] + g[s \ {One(s)}]]

SumOver(f, S) == (CHOOSE g : Sums(g, f, S))[S]

(* A function as the fold's argument.                                      *)
LEMMA SumOfFunction ==
  ASSUME NEW f, NEW S
  PROVE  MapThenSumSet(LAMBDA x : f[x], S) = SumOver(f, S)
BY DEF MapThenSumSet, MapThenFoldSet, SumOver, Sums, One

---------------------------------------------------------------------------
(* Induction                                                               *)

LEMMA OneIsElement == \A s : s # {} => One(s) \in s
BY DEF One

(* Of the subsets of a finite set with some property one is minimal.       *)
LEMMA MinimalSubset ==
  ASSUME NEW S, IsFiniteSet(S), NEW C, C \subseteq SUBSET S, C # {}
  PROVE  \E T \in C : \A U \in C : U \subseteq T => U = T
<1>1. IsWellFoundedOn(StrictSubsetOrdering(S), SUBSET S)
  BY FS_StrictSubsetOrderingWellFounded, FS_FiniteSubsetsOfFinite
<1>2. PICK T \in C : \A U \in C : <<U, T>> \notin StrictSubsetOrdering(S)
  BY <1>1, WFMin
<1>3. ASSUME NEW U \in C, U \subseteq T
      PROVE  U = T
  <2>1. <<U, T>> \in (SUBSET S) \X (SUBSET S)
    OBVIOUS
  <2> QED BY <1>2, <1>3, <2>1 DEF StrictSubsetOrdering
<1> QED BY <1>3

---------------------------------------------------------------------------
(* The recursive function                                                  *)

LEMMA SumsUnfold ==
  ASSUME NEW g, NEW f, NEW S, Sums(g, f, S), NEW s \in SUBSET S
  PROVE  g[s] = IF s = {} THEN 0 ELSE f[One(s)] + g[s \ {One(s)}]
BY DEF Sums

(* Two such functions agree where both are defined and the summands agree. *)
LEMMA SumsAgree ==
  ASSUME NEW f, NEW S, NEW g, Sums(g, f, S),
         NEW e, NEW T, NEW h, Sums(h, e, T),
         NEW U, IsFiniteSet(U), U \subseteq S, U \subseteq T,
         \A x \in U : f[x] = e[x]
  PROVE  g[U] = h[U]
<1> DEFINE C == {V \in SUBSET U : g[V] # h[V]}
<1> SUFFICES ASSUME C # {} PROVE FALSE
  OBVIOUS
<1>0. C \subseteq SUBSET U /\ \A V \in SUBSET U : g[V] # h[V] <=> V \in C
  OBVIOUS
<1> HIDE DEF C
<1>1. PICK V \in C : \A W \in C : W \subseteq V => W = V
  BY <1>0, MinimalSubset
<1>2. V \subseteq U /\ V \in SUBSET S /\ V \in SUBSET T /\ g[V] # h[V]
  BY <1>0
<1>3. /\ g[V] = IF V = {} THEN 0 ELSE f[One(V)] + g[V \ {One(V)}]
      /\ h[V] = IF V = {} THEN 0 ELSE e[One(V)] + h[V \ {One(V)}]
  <2>1. /\ \A W \in SUBSET S :
             g[W] = IF W = {} THEN 0 ELSE f[One(W)] + g[W \ {One(W)}]
        /\ \A W \in SUBSET T :
             h[W] = IF W = {} THEN 0 ELSE e[One(W)] + h[W \ {One(W)}]
    BY SumsUnfold
  <2> QED BY <1>2, <2>1
<1>4. V # {}
  BY <1>2, <1>3
<1>5. One(V) \in V
  BY <1>4, OneIsElement
<1>6. f[One(V)] = e[One(V)]
  BY <1>2, <1>5
<1>7. V \ {One(V)} \notin C
  BY <1>1, <1>5
<1>8. g[V \ {One(V)}] = h[V \ {One(V)}]
  BY <1>0, <1>2, <1>7
<1> QED BY <1>2, <1>3, <1>4, <1>6, <1>8

(* There is one for every finite set.                                      *)
LEMMA SumsExist ==
  ASSUME NEW f, NEW S, IsFiniteSet(S)
  PROVE  \E g : Sums(g, f, S)
<1> DEFINE C == {T \in SUBSET S : ~ \E g : Sums(g, f, T)}
<1> SUFFICES ASSUME C # {} PROVE FALSE
  OBVIOUS
<1>0. /\ C \subseteq SUBSET S
      /\ \A T \in SUBSET S : (~ \E g : Sums(g, f, T)) <=> T \in C
  OBVIOUS
<1> HIDE DEF C
<1>1. PICK T \in C : \A U \in C : U \subseteq T => U = T
  BY <1>0, MinimalSubset
<1>2. T \in SUBSET S /\ ~ \E g : Sums(g, f, T)
  BY <1>0
<1> DEFINE G(U) == CHOOSE g : Sums(g, f, U)
           h == [s \in SUBSET T |->
                   IF s = {} THEN 0
                   ELSE f[One(s)] + G(s \ {One(s)})[s \ {One(s)}]]
<1>3. ASSUME NEW U \in SUBSET T, U # T
      PROVE  Sums(G(U), f, U)
  <2>1. U \notin C
    BY <1>1, <1>3
  <2>2. \E g : Sums(g, f, U)
    BY <1>0, <1>2, <1>3, <2>1
  <2> QED BY <2>2
<1>4. ASSUME NEW U \in SUBSET T, U # T
      PROVE  h[U] = G(U)[U]
  <2>1. Sums(G(U), f, U)
    BY <1>3, <1>4
  <2>2. G(U)[U] = IF U = {} THEN 0 ELSE f[One(U)] + G(U)[U \ {One(U)}]
    BY <2>1, SumsUnfold
  <2>3. CASE U = {}
    BY <2>2, <2>3
  <2>4. CASE U # {}
    <3> DEFINE W == U \ {One(U)}
    <3>1. W \in SUBSET T /\ W \subseteq U /\ W # T
      BY <1>4, <2>4, OneIsElement
    <3>2. Sums(G(W), f, W)
      BY <1>3, <3>1
    <3>3. IsFiniteSet(W)
      BY <1>2, <3>1, FS_Subset
    <3>4. G(U)[W] = G(W)[W]
      BY <2>1, <3>1, <3>2, <3>3, SumsAgree
    <3>5. h[U] = f[One(U)] + G(W)[W]
      BY <2>4
    <3> QED BY <2>2, <2>4, <3>4, <3>5
  <2> QED BY <2>3, <2>4
<1>5. ASSUME NEW s \in SUBSET T
      PROVE  h[s] = IF s = {} THEN 0 ELSE f[One(s)] + h[s \ {One(s)}]
  <2>1. CASE s = {}
    BY <2>1
  <2>2. CASE s # {}
    <3>1. s \ {One(s)} \in SUBSET T /\ s \ {One(s)} # T
      BY <2>2, OneIsElement
    <3>2. h[s \ {One(s)}] = G(s \ {One(s)})[s \ {One(s)}]
      BY <1>4, <3>1
    <3>3. h[s] = f[One(s)] + G(s \ {One(s)})[s \ {One(s)}]
      BY <2>2
    <3> QED BY <2>2, <3>2, <3>3
  <2> QED BY <2>1, <2>2
<1>6. h = [s \in SUBSET T |-> h[s]]
  OBVIOUS
<1> HIDE DEF h
<1>7. Sums(h, f, T)
  BY <1>5, <1>6 DEF Sums
<1> QED BY <1>2, <1>7

(* So the fold is what its recursive function says.                        *)
LEMMA SumIsSums ==
  ASSUME NEW f, NEW S, IsFiniteSet(S)
  PROVE  \E g : Sums(g, f, S) /\ SumOver(f, S) = g[S]
<1>1. \E g : Sums(g, f, S)
  BY SumsExist
<1>2. Sums(CHOOSE g : Sums(g, f, S), f, S)
  BY <1>1
<1> QED BY <1>2 DEF SumOver

(* The sum depends on the summands of its elements only.                   *)
LEMMA SumAgrees ==
  ASSUME NEW S, IsFiniteSet(S), NEW f, NEW e, \A x \in S : f[x] = e[x]
  PROVE  SumOver(f, S) = SumOver(e, S)
<1>1. PICK g : Sums(g, f, S) /\ SumOver(f, S) = g[S]
  BY SumIsSums
<1>2. PICK h : Sums(h, e, S) /\ SumOver(e, S) = h[S]
  BY SumIsSums
<1>3. g[S] = h[S]
  BY <1>1, <1>2, SumsAgree
<1> QED BY <1>1, <1>2, <1>3

LEMMA SumOfSubset ==
  ASSUME NEW S, IsFiniteSet(S), NEW f, NEW g, Sums(g, f, S), NEW U \in SUBSET S
  PROVE  g[U] = SumOver(f, U)
<1>1. IsFiniteSet(U)
  BY FS_Subset
<1>2. PICK h : Sums(h, f, U) /\ SumOver(f, U) = h[U]
  BY <1>1, SumIsSums
<1>3. g[U] = h[U]
  BY <1>1, <1>2, SumsAgree
<1> QED BY <1>2, <1>3

(* The empty sum, and the one element the fold takes first.                *)
LEMMA SumUnfolds ==
  ASSUME NEW S, IsFiniteSet(S), NEW f
  PROVE  /\ S = {} => SumOver(f, S) = 0
         /\ S # {} => /\ One(S) \in S
                      /\ IsFiniteSet(S \ {One(S)})
                      /\ SumOver(f, S) = f[One(S)] + SumOver(f, S \ {One(S)})
<1>1. PICK g : Sums(g, f, S) /\ SumOver(f, S) = g[S]
  BY SumIsSums
<1>2. g[S] = IF S = {} THEN 0 ELSE f[One(S)] + g[S \ {One(S)}]
  BY <1>1, SumsUnfold
<1>3. S \ {One(S)} \in SUBSET S
  OBVIOUS
<1>4. g[S \ {One(S)}] = SumOver(f, S \ {One(S)})
  BY <1>1, <1>3, SumOfSubset
<1>5. IsFiniteSet(S \ {One(S)})
  BY <1>3, FS_Subset
<1> QED BY <1>1, <1>2, <1>4, <1>5, OneIsElement

---------------------------------------------------------------------------
(* Sums of natural numbers                                                 *)

LEMMA SumType ==
  ASSUME NEW S, IsFiniteSet(S), NEW f, \A x \in S : f[x] \in Nat
  PROVE  SumOver(f, S) \in Nat
<1> DEFINE C == {T \in SUBSET S : SumOver(f, T) \notin Nat}
<1> SUFFICES ASSUME C # {} PROVE FALSE
  OBVIOUS
<1>1. C \subseteq SUBSET S /\ \A T \in SUBSET S : T \in C <=> SumOver(f, T) \notin Nat
  OBVIOUS
<1> HIDE DEF C
<1>2. PICK T \in C : \A U \in C : U \subseteq T => U = T
  BY <1>1, MinimalSubset
<1>3. T \in SUBSET S /\ IsFiniteSet(T) /\ SumOver(f, T) \notin Nat
  BY <1>1, FS_Subset
<1>4. /\ T # {}
      /\ One(T) \in T
      /\ SumOver(f, T) = f[One(T)] + SumOver(f, T \ {One(T)})
  BY <1>3, SumUnfolds
<1>5. T \ {One(T)} \in SUBSET S /\ T \ {One(T)} \notin C
  BY <1>2, <1>3, <1>4
<1>6. SumOver(f, T \ {One(T)}) \in Nat /\ f[One(T)] \in Nat
  BY <1>1, <1>3, <1>4, <1>5
<1> QED BY <1>3, <1>4, <1>6

(* Any element may be taken first.                                         *)
LEMMA SumRemove ==
  ASSUME NEW S, IsFiniteSet(S), NEW f, \A x \in S : f[x] \in Nat,
         NEW c \in S
  PROVE  /\ SumOver(f, S) = f[c] + SumOver(f, S \ {c})
         /\ SumOver(f, S \ {c}) \in Nat
<1> DEFINE Takes(T) == \A d \in T : SumOver(f, T) = f[d] + SumOver(f, T \ {d})
           C == {T \in SUBSET S : ~Takes(T)}
<1>1. C = {}
  <2> SUFFICES ASSUME C # {} PROVE FALSE
    OBVIOUS
  <2>1. C \subseteq SUBSET S /\ \A T \in SUBSET S : T \in C <=> ~Takes(T)
    OBVIOUS
  <2> HIDE DEF C
  <2>2. PICK T \in C : \A U \in C : U \subseteq T => U = T
    BY <2>1, MinimalSubset
  <2>3. T \in SUBSET S /\ IsFiniteSet(T) /\ ~Takes(T)
    BY <2>1, FS_Subset
  <2>4. PICK d \in T : SumOver(f, T) # f[d] + SumOver(f, T \ {d})
    BY <2>3
  <2>5. PICK o : o = One(T)
    OBVIOUS
  <2>6. o \in T /\ SumOver(f, T) = f[o] + SumOver(f, T \ {o})
    BY <2>3, <2>4, <2>5, SumUnfolds
  <2>7. o # d
    BY <2>4, <2>6
  <2>8. ASSUME NEW a \in T
        PROVE  /\ T \ {a} \in SUBSET S
               /\ \A b \in T \ {a} :
                    SumOver(f, T \ {a}) = f[b] + SumOver(f, (T \ {a}) \ {b})
    <3>1. T \ {a} \in SUBSET S /\ T \ {a} \notin C
      BY <2>2, <2>3
    <3> QED BY <2>1, <3>1
  <2>9. SumOver(f, T \ {o}) = f[d] + SumOver(f, (T \ {o}) \ {d})
    BY <2>6, <2>7, <2>8
  <2>10. SumOver(f, T \ {d}) = f[o] + SumOver(f, (T \ {d}) \ {o})
    BY <2>6, <2>7, <2>8
  <2>11. (T \ {o}) \ {d} = (T \ {d}) \ {o}
    OBVIOUS
  <2>12. PICK rest : rest = SumOver(f, (T \ {o}) \ {d})
    OBVIOUS
  <2>13. rest \in Nat
    <3>1. (T \ {o}) \ {d} \in SUBSET S
      BY <2>3
    <3>2. IsFiniteSet((T \ {o}) \ {d})
      BY <3>1, FS_Subset
    <3>3. \A x \in (T \ {o}) \ {d} : f[x] \in Nat
      BY <3>1
    <3> QED BY <2>12, <3>2, <3>3, SumType
  <2>14. f[o] \in Nat /\ f[d] \in Nat
    BY <2>3, <2>6
  <2>15. /\ SumOver(f, T) = f[o] + (f[d] + rest)
         /\ SumOver(f, T \ {d}) = f[o] + rest
    BY <2>6, <2>9, <2>10, <2>11, <2>12
  <2> QED BY <2>4, <2>13, <2>14, <2>15
<1>2. Takes(S)
  BY <1>1
<1>3. IsFiniteSet(S \ {c}) /\ \A x \in S \ {c} : f[x] \in Nat
  BY FS_RemoveElement
<1>4. SumOver(f, S \ {c}) \in Nat
  BY <1>3, SumType
<1> QED BY <1>2, <1>4

(* One more element.                                                       *)
LEMMA SumAdd ==
  ASSUME NEW S, IsFiniteSet(S), NEW f, NEW c, c \notin S,
         \A x \in S \cup {c} : f[x] \in Nat
  PROVE  /\ IsFiniteSet(S \cup {c})
         /\ SumOver(f, S \cup {c}) = f[c] + SumOver(f, S)
         /\ SumOver(f, S) \in Nat
<1>1. IsFiniteSet(S \cup {c})
  BY FS_AddElement
<1>2. (S \cup {c}) \ {c} = S /\ c \in S \cup {c}
  OBVIOUS
<1> QED BY <1>1, <1>2, SumRemove

(* Another summand for one element.                                        *)
LEMMA SumUpdate ==
  ASSUME NEW S, IsFiniteSet(S), NEW f, NEW e, NEW c \in S,
         \A x \in S : f[x] \in Nat /\ e[x] \in Nat,
         \A x \in S \ {c} : e[x] = f[x]
  PROVE  /\ SumOver(f, S) = f[c] + SumOver(f, S \ {c})
         /\ SumOver(e, S) = e[c] + SumOver(f, S \ {c})
         /\ SumOver(f, S \ {c}) \in Nat
<1>1. /\ SumOver(f, S) = f[c] + SumOver(f, S \ {c})
      /\ SumOver(f, S \ {c}) \in Nat
  BY SumRemove
<1>2. SumOver(e, S) = e[c] + SumOver(e, S \ {c})
  BY SumRemove
<1>3. IsFiniteSet(S \ {c})
  BY FS_RemoveElement
<1>4. SumOver(e, S \ {c}) = SumOver(f, S \ {c})
  BY <1>3, SumAgrees
<1> QED BY <1>1, <1>2, <1>4

(* No summand exceeds the sum.                                             *)
LEMMA SumBounds ==
  ASSUME NEW S, IsFiniteSet(S), NEW f, \A x \in S : f[x] \in Nat, NEW c \in S
  PROVE  f[c] <= SumOver(f, S)
<1>1. /\ SumOver(f, S) = f[c] + SumOver(f, S \ {c})
      /\ SumOver(f, S \ {c}) \in Nat
      /\ f[c] \in Nat
  BY SumRemove
<1> QED BY <1>1

(* Larger summands make a larger sum.                                      *)
LEMMA SumAtMost ==
  ASSUME NEW S, IsFiniteSet(S), NEW f, NEW e,
         \A x \in S : f[x] \in Nat /\ e[x] \in Nat /\ f[x] <= e[x]
  PROVE  SumOver(f, S) <= SumOver(e, S)
<1> DEFINE C == {T \in SUBSET S : ~(SumOver(f, T) <= SumOver(e, T))}
<1> SUFFICES ASSUME C # {} PROVE FALSE
  OBVIOUS
<1>1. /\ C \subseteq SUBSET S
      /\ \A T \in SUBSET S : T \in C <=> ~(SumOver(f, T) <= SumOver(e, T))
  OBVIOUS
<1> HIDE DEF C
<1>2. PICK T \in C : \A U \in C : U \subseteq T => U = T
  BY <1>1, MinimalSubset
<1>3. T \in SUBSET S /\ IsFiniteSet(T) /\ ~(SumOver(f, T) <= SumOver(e, T))
  BY <1>1, FS_Subset
<1>4. T # {}
  <2>1. T = {} => SumOver(f, T) = 0 /\ SumOver(e, T) = 0
    BY <1>3, SumUnfolds
  <2> QED BY <1>3, <2>1
<1>5. PICK c \in T : TRUE
  BY <1>4
<1>6. \A x \in T : f[x] \in Nat /\ e[x] \in Nat
  BY <1>3
<1>7. /\ SumOver(f, T) = f[c] + SumOver(f, T \ {c})
      /\ SumOver(f, T \ {c}) \in Nat
      /\ SumOver(e, T) = e[c] + SumOver(e, T \ {c})
      /\ SumOver(e, T \ {c}) \in Nat
  BY <1>3, <1>6, SumRemove
<1>8. T \ {c} \in SUBSET S /\ T \ {c} \notin C
  BY <1>2, <1>3, <1>5
<1>9. SumOver(f, T \ {c}) <= SumOver(e, T \ {c})
  BY <1>1, <1>8
<1>10. f[c] \in Nat /\ e[c] \in Nat /\ f[c] <= e[c]
  BY <1>3, <1>5
<1> QED BY <1>3, <1>7, <1>9, <1>10

(* More elements make a larger sum.                                        *)
LEMMA SumMonotone ==
  ASSUME NEW T, IsFiniteSet(T), NEW S \in SUBSET T, NEW f,
         \A x \in T : f[x] \in Nat
  PROVE  SumOver(f, S) <= SumOver(f, T)
<1> DEFINE C == {U \in SUBSET T : S \subseteq U /\ ~(SumOver(f, S) <= SumOver(f, U))}
<1>1. C = {}
  <2> SUFFICES ASSUME C # {} PROVE FALSE
    OBVIOUS
  <2>1. /\ C \subseteq SUBSET T
        /\ \A U \in SUBSET T :
             U \in C <=> S \subseteq U /\ ~(SumOver(f, S) <= SumOver(f, U))
    OBVIOUS
  <2> HIDE DEF C
  <2>2. PICK U \in C : \A V \in C : V \subseteq U => V = U
    BY <2>1, MinimalSubset
  <2>3. /\ U \in SUBSET T /\ IsFiniteSet(U) /\ S \subseteq U
        /\ ~(SumOver(f, S) <= SumOver(f, U))
    BY <2>1, FS_Subset
  <2>4. IsFiniteSet(S) /\ SumOver(f, S) \in Nat
    BY FS_Subset, SumType
  <2>5. U # S
    BY <2>3, <2>4
  <2>6. PICK c \in U : c \notin S
    BY <2>3, <2>5
  <2>7. /\ SumOver(f, U) = f[c] + SumOver(f, U \ {c})
        /\ SumOver(f, U \ {c}) \in Nat
        /\ f[c] \in Nat
    BY <2>3, SumRemove
  <2>8. U \ {c} \in SUBSET T /\ S \subseteq U \ {c} /\ U \ {c} \notin C
    BY <2>2, <2>3, <2>6
  <2>9. SumOver(f, S) <= SumOver(f, U \ {c})
    BY <2>1, <2>8
  <2> QED BY <2>3, <2>4, <2>7, <2>9
<1> QED BY <1>1

(* Nothing adds up to nothing.                                             *)
LEMMA SumOfZeros ==
  ASSUME NEW S, IsFiniteSet(S), NEW f, \A x \in S : f[x] = 0
  PROVE  SumOver(f, S) = 0
<1> DEFINE C == {U \in SUBSET S : SumOver(f, U) # 0}
<1> SUFFICES ASSUME C # {} PROVE FALSE
  OBVIOUS
<1>1. C \subseteq SUBSET S /\ \A U \in SUBSET S : U \in C <=> SumOver(f, U) # 0
  OBVIOUS
<1> HIDE DEF C
<1>2. PICK U \in C : \A V \in C : V \subseteq U => V = U
  BY <1>1, MinimalSubset
<1>3. U \in SUBSET S /\ IsFiniteSet(U) /\ SumOver(f, U) # 0
  BY <1>1, FS_Subset
<1>4. /\ U # {}
      /\ One(U) \in U
      /\ SumOver(f, U) = f[One(U)] + SumOver(f, U \ {One(U)})
  BY <1>3, SumUnfolds
<1>5. U \ {One(U)} \in SUBSET S /\ U \ {One(U)} \notin C
  BY <1>2, <1>3, <1>4
<1>6. SumOver(f, U \ {One(U)}) = 0 /\ f[One(U)] = 0
  BY <1>1, <1>3, <1>4, <1>5
<1> QED BY <1>3, <1>4, <1>6

(* Summands that are counted under other names, one name for each.         *)
LEMMA SumOfImage ==
  ASSUME NEW S, IsFiniteSet(S), NEW I, NEW h,
         \A x \in S : h[x] \in I,
         \A y \in I : \E x \in S : y = h[x],
         \A x, y \in S : h[x] = h[y] => x = y,
         NEW f, NEW e, \A x \in S : e[x] \in Nat /\ f[h[x]] = e[x]
  PROVE  IsFiniteSet(I) /\ SumOver(f, I) = SumOver(e, S)
<1> DEFINE Image(J, U) == \A y \in I : y \in J <=> \E x \in U : y = h[x]
           Same(J, U) == IsFiniteSet(J) /\ SumOver(f, J) = SumOver(e, U)
           C == {U \in SUBSET S : \E J \in SUBSET I : Image(J, U) /\ ~Same(J, U)}
<1>1. /\ C \subseteq SUBSET S
      /\ \A U \in SUBSET S :
           U \in C <=> \E J \in SUBSET I : Image(J, U) /\ ~Same(J, U)
  OBVIOUS
<1> HIDE DEF C
<1>2. ASSUME C # {} PROVE FALSE
  <2>1. PICK U \in C : \A V \in C : V \subseteq U => V = U
    BY <1>1, <1>2, MinimalSubset
  <2>2. U \in SUBSET S /\ IsFiniteSet(U)
    BY <1>1, FS_Subset
  <2>3. PICK J \in SUBSET I : Image(J, U) /\ ~Same(J, U)
    BY <1>1, <2>2
  <2>4. ASSUME U = {} PROVE FALSE
    <3>1. J = {}
      BY <2>3, <2>4
    <3>2. IsFiniteSet(J) /\ SumOver(f, J) = 0 /\ SumOver(e, U) = 0
      BY <2>2, <2>4, <3>1, FS_EmptySet, SumUnfolds
    <3> QED BY <2>3, <3>2
  <2>5. PICK c \in U : TRUE
    BY <2>4
  <2>6. PICK K : K = J \ {h[c]}
    OBVIOUS
  <2>7. U \ {c} \in SUBSET S /\ U \ {c} \notin C
    BY <2>1, <2>2, <2>5
  <2>8. K \in SUBSET I /\ Image(K, U \ {c})
    BY <2>2, <2>3, <2>5, <2>6
  <2>9. Same(K, U \ {c})
    BY <1>1, <2>7, <2>8
  <2>10. h[c] \in J /\ h[c] \notin K /\ J = K \cup {h[c]}
    BY <2>2, <2>3, <2>5, <2>6
  <2>11. IsFiniteSet(J)
    BY <2>9, <2>10, FS_AddElement
  <2>12. \A y \in J : f[y] \in Nat
    BY <2>2, <2>3
  <2>13. SumOver(f, J) = f[h[c]] + SumOver(f, J \ {h[c]})
    <3>1. PICK y \in J : y = h[c]
      BY <2>10
    <3>2. SumOver(f, J) = f[y] + SumOver(f, J \ {y})
      BY <2>11, <2>12, SumRemove
    <3> QED BY <3>1, <3>2, Zenon
  <2>14. SumOver(f, J \ {h[c]}) = SumOver(f, K)
    BY <2>6, Zenon
  <2>15. \A x \in U : e[x] \in Nat
    BY <2>2
  <2>16. SumOver(e, U) = e[c] + SumOver(e, U \ {c})
    BY <2>2, <2>5, <2>15, SumRemove
  <2>17. f[h[c]] = e[c]
    BY <2>2, <2>5
  <2> QED BY <2>3, <2>9, <2>11, <2>13, <2>14, <2>16, <2>17
<1>3. S \in SUBSET S /\ S \notin C /\ I \in SUBSET I /\ Image(I, S)
  BY <1>2
<1> QED BY <1>1, <1>3
===========================================================================
