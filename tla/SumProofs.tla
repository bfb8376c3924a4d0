------------------------------ MODULE SumProofs ------------------------------
(***************************************************************************)
(* Sums over finite sets, for balances and for the copies of rows.         *)
(*                                                                         *)
(* SumFunctionOnSet(F, S) of the community modules picks the elements of S *)
(* one after another by a recursive function on the subsets of S.  Here    *)
(* it is shown that the function exists, that the order of picking does    *)
(* not matter, and how the sum changes with F and with S.  An induction    *)
(* over finite sets is an argument by a smallest counterexample: strict    *)
(* inclusion is well-founded on the finite sets.                           *)
(***************************************************************************)
EXTENDS Integers, FiniteSets, Functions, FiniteSetTheorems, TLAPS

Pick(S) == CHOOSE x \in S : TRUE

\* g is the recursive function of the sum of F, on the subsets of S
Sums(g, F, S) == \A T \in SUBSET S : g[T] = IF T = {} THEN 0 ELSE F[Pick(T)] + g[T \ {Pick(T)}]

-----------------------------------------------------------------------------
(* The recursive function *)

\* Among sets of subsets of a finite set there is a smallest member.
LEMMA SmallestSubset ==
    ASSUME NEW S, IsFiniteSet(S), NEW B \in SUBSET SUBSET S, B # {}
    PROVE  \E T \in B : \A U \in SUBSET T : U # T => U \notin B
<1> DEFINE R == StrictSubsetOrdering(S)
           D == FiniteSubsetsOf(S)
<1>1. IsWellFoundedOn(R, D)
  BY FS_StrictSubsetOrderingWellFounded
<1>2. D = SUBSET S
  BY FS_FiniteSubsetsOfFinite
<1> HIDE DEF R, D
<1>3. PICK T \in B : \A U \in B : ~(<<U, T>> \in R)
  BY <1>1, <1>2, WFMin
<1>4. \A U \in SUBSET T : U # T => <<U, T>> \in R
  BY <1>3 DEF R, StrictSubsetOrdering
<1>5. \A U \in SUBSET T : U # T => U \notin B
  BY ONLY <1>3, <1>4
<1> QED
  BY <1>5

\* What is picked from a set is one of its elements.
LEMMA PickIsElement ==
    ASSUME NEW S, S # {}
    PROVE  Pick(S) \in S /\ S \ {Pick(S)} \in SUBSET S /\ S \ {Pick(S)} # S
BY DEF Pick

\* Two recursive functions agree wherever both are defined.
LEMMA SumsAgree ==
    ASSUME NEW F, NEW S, IsFiniteSet(S), NEW g, NEW h, Sums(g, F, S), Sums(h, F, S)
    PROVE  g[S] = h[S]
<1> DEFINE B == {T \in SUBSET S : g[T] # h[T]}
<1>1. SUFFICES ASSUME B # {} PROVE FALSE
  OBVIOUS
<1>2. PICK T \in B : \A U \in SUBSET T : U # T => U \notin B
  <2>1. B \in SUBSET SUBSET S
    OBVIOUS
  <2> HIDE DEF B
  <2> QED
    BY <1>1, <2>1, SmallestSubset
<1>3. T # {}
  BY <1>2 DEF Sums
<1>4. g[T \ {Pick(T)}] = h[T \ {Pick(T)}]
  BY <1>2, <1>3, PickIsElement
<1> QED
  BY <1>2, <1>3, <1>4 DEF Sums

\* Every finite set has its recursive function.
LEMMA SumsExist ==
    ASSUME NEW F, NEW S, IsFiniteSet(S)
    PROVE  \E g : Sums(g, F, S)
<1> DEFINE B == {T \in SUBSET S : ~\E g : Sums(g, F, T)}
<1>1. SUFFICES ASSUME B # {} PROVE FALSE
  OBVIOUS
<1>2. PICK T \in B : \A U \in SUBSET T : U # T => U \notin B
  <2>1. B \in SUBSET SUBSET S
    OBVIOUS
  <2> HIDE DEF B
  <2> QED
    BY <1>1, <2>1, SmallestSubset
<1> DEFINE Less(U) == U \ {Pick(U)}
           G(U) == CHOOSE g : Sums(g, F, U)
           H == [U \in SUBSET T |-> IF U = {} THEN 0 ELSE F[Pick(U)] + G(Less(U))[Less(U)]]
<1>3. ASSUME NEW U \in SUBSET T, U # T
      PROVE  Sums(G(U), F, U) /\ IsFiniteSet(U)
  <2>1. U \in SUBSET S /\ U \notin B
    BY <1>2, <1>3
  <2>2. \E g : Sums(g, F, U)
    BY <2>1
  <2> QED
    BY <2>1, <2>2, FS_Subset
<1>4. ASSUME NEW U \in SUBSET T, U # {}
      PROVE  G(Less(U))[Less(U)] = H[Less(U)]
  <2> DEFINE V == Less(U)
             W == Less(V)
  <2>1. V \in SUBSET T /\ V # T
    BY <1>4, PickIsElement
  <2>2. Sums(G(V), F, V) /\ IsFiniteSet(V)
    BY <1>3, <2>1
  <2>3. CASE V = {}
    <3> HIDE DEF G
    <3>1. G(V)[V] = 0
      BY <2>2, <2>3 DEF Sums
    <3> QED
      BY <2>1, <2>3, <3>1
  <2>4. CASE V # {}
    <3>1. W \in SUBSET V /\ W # V
      BY <2>4, PickIsElement
    <3>2. W \in SUBSET T /\ W # T
      BY <2>1, <3>1
    <3>3. Sums(G(W), F, W) /\ IsFiniteSet(W)
      BY <1>3, <3>2
    <3> HIDE DEF G
    <3>4. Sums(G(V), F, W)
      BY <2>2, <3>1 DEF Sums
    <3>5. G(V)[W] = G(W)[W]
      BY <3>3, <3>4, SumsAgree
    <3>6. G(V)[V] = F[Pick(V)] + G(V)[W]
      BY <2>2, <2>4 DEF Sums
    <3>7. H[V] = F[Pick(V)] + G(W)[W]
      BY <2>1, <2>4
    <3> QED
      BY <3>5, <3>6, <3>7
  <2> QED
    BY <2>3, <2>4
<1>5. Sums(H, F, T)
  <2>1. SUFFICES ASSUME NEW U \in SUBSET T
                 PROVE  H[U] = IF U = {} THEN 0 ELSE F[Pick(U)] + H[U \ {Pick(U)}]
    BY DEF Sums
  <2>2. CASE U # {}
    <3>1. G(Less(U))[Less(U)] = H[Less(U)]
      BY <1>4, <2>2
    <3> HIDE DEF G
    <3>2. H[U] = F[Pick(U)] + G(Less(U))[Less(U)]
      BY <2>2
    <3> HIDE DEF H
    <3> QED
      BY <2>2, <3>1, <3>2
  <2> QED
    BY <2>2
<1> QED
  BY <1>2, <1>5

\* The sum follows its recursive function.
LEMMA SumIsRecursive ==
    ASSUME NEW F, NEW S, IsFiniteSet(S)
    PROVE  \E g : Sums(g, F, S) /\ g[S] = SumFunctionOnSet(F, S)
<1> DEFINE Is(g) == g = [T \in SUBSET S |-> IF T = {} THEN 0 ELSE F[Pick(T)] + g[T \ {Pick(T)}]]
           g0 == CHOOSE g : Is(g)
<1>1. SumFunctionOnSet(F, S) = g0[S]
  BY DEF SumFunctionOnSet, FoldFunctionOnSet, MapThenFoldSet, Pick
<1>2. PICK h : Sums(h, F, S)
  BY SumsExist
<1> DEFINE h0 == [T \in SUBSET S |-> h[T]]
<1>3. h0 = [T \in SUBSET S |-> IF T = {} THEN 0 ELSE F[Pick(T)] + h0[T \ {Pick(T)}]]
  <2>1. ASSUME NEW T \in SUBSET S
        PROVE  h0[T] = IF T = {} THEN 0 ELSE F[Pick(T)] + h0[T \ {Pick(T)}]
    BY <1>2 DEF Sums
  <2> QED
    BY <2>1
<1>4. Is(h0)
  BY <1>3
<1>5. Is(g0)
  <2> HIDE DEF h0, Is
  <2> QED
    BY <1>4
<1>6. Sums(g0, F, S)
  <2> HIDE DEF g0
  <2>1. ASSUME NEW T \in SUBSET S
        PROVE  g0[T] = IF T = {} THEN 0 ELSE F[Pick(T)] + g0[T \ {Pick(T)}]
    BY <1>5
  <2> QED
    BY <2>1 DEF Sums
<1> QED
  BY <1>1, <1>6

-----------------------------------------------------------------------------
(* What a sum is *)

\* Nothing adds up to 0.
LEMMA SumOfNothing ==
    ASSUME NEW F
    PROVE  SumFunctionOnSet(F, {}) = 0
<1>1. PICK g : Sums(g, F, {}) /\ g[{}] = SumFunctionOnSet(F, {})
  BY SumIsRecursive, FS_EmptySet
<1> QED
  BY <1>1 DEF Sums

\* The element picked, and the rest.
LEMMA SumPicks ==
    ASSUME NEW F, NEW S, IsFiniteSet(S), S # {}
    PROVE  SumFunctionOnSet(F, S) = F[Pick(S)] + SumFunctionOnSet(F, S \ {Pick(S)})
<1> DEFINE T == S \ {Pick(S)}
<1>1. T \in SUBSET S /\ IsFiniteSet(T)
  BY FS_Subset
<1>2. PICK g : Sums(g, F, S) /\ g[S] = SumFunctionOnSet(F, S)
  BY SumIsRecursive
<1>3. PICK h : Sums(h, F, T) /\ h[T] = SumFunctionOnSet(F, T)
  BY <1>1, SumIsRecursive
<1>4. Sums(g, F, T)
  BY <1>1, <1>2 DEF Sums
<1>5. g[T] = h[T]
  BY <1>1, <1>3, <1>4, SumsAgree
<1>6. g[S] = F[Pick(S)] + g[T]
  BY <1>2 DEF Sums
<1> QED
  BY <1>2, <1>3, <1>5, <1>6

\* A sum of integers is one.
LEMMA SumIsInteger ==
    ASSUME NEW F, NEW S, IsFiniteSet(S), \A i \in S : F[i] \in Int
    PROVE  SumFunctionOnSet(F, S) \in Int
<1> DEFINE B == {T \in SUBSET S : SumFunctionOnSet(F, T) \notin Int}
<1>1. SUFFICES ASSUME B # {} PROVE FALSE
  OBVIOUS
<1>2. PICK T \in B : \A U \in SUBSET T : U # T => U \notin B
  <2>1. B \in SUBSET SUBSET S
    OBVIOUS
  <2> HIDE DEF B
  <2> QED
    BY <1>1, <2>1, SmallestSubset
<1>3. T \in SUBSET S /\ IsFiniteSet(T) /\ T # {} /\ SumFunctionOnSet(F, T) \notin Int
  <2>1. T \in SUBSET S /\ SumFunctionOnSet(F, T) \notin Int
    BY <1>2
  <2>2. T # {}
    BY <2>1, SumOfNothing
  <2> QED
    BY <2>1, <2>2, FS_Subset
<1>4. T \ {Pick(T)} \in SUBSET T /\ T \ {Pick(T)} # T /\ Pick(T) \in S
  BY <1>3, PickIsElement
<1>5. SumFunctionOnSet(F, T \ {Pick(T)}) \in Int
  BY <1>2, <1>3, <1>4
<1> QED
  BY <1>3, <1>4, <1>5, SumPicks

\* A sum of natural numbers is one.
LEMMA SumIsNatural ==
    ASSUME NEW F, NEW S, IsFiniteSet(S), \A i \in S : F[i] \in Nat
    PROVE  SumFunctionOnSet(F, S) \in Nat
<1> DEFINE B == {T \in SUBSET S : SumFunctionOnSet(F, T) \notin Nat}
<1>1. SUFFICES ASSUME B # {} PROVE FALSE
  OBVIOUS
<1>2. PICK T \in B : \A U \in SUBSET T : U # T => U \notin B
  <2>1. B \in SUBSET SUBSET S
    OBVIOUS
  <2> HIDE DEF B
  <2> QED
    BY <1>1, <2>1, SmallestSubset
<1>3. T \in SUBSET S /\ SumFunctionOnSet(F, T) \notin Nat
  BY <1>2
<1>4. T # {} /\ IsFiniteSet(T)
  <2>1. T # {}
    BY <1>3, SumOfNothing
  <2> QED
    BY <1>3, <2>1, FS_Subset
<1>5. T \ {Pick(T)} \in SUBSET T /\ T \ {Pick(T)} # T /\ Pick(T) \in S
  BY <1>3, <1>4, PickIsElement
<1>6. SumFunctionOnSet(F, T \ {Pick(T)}) \in Nat
  BY <1>2, <1>3, <1>5
<1>7. SumFunctionOnSet(F, T) = F[Pick(T)] + SumFunctionOnSet(F, T \ {Pick(T)})
  BY <1>4, SumPicks
<1>8. F[Pick(T)] \in Nat
  BY <1>5
<1> QED
  BY <1>3, <1>6, <1>7, <1>8

\* Any element may be taken first.
LEMMA SumWithout ==
    ASSUME NEW F, NEW S, IsFiniteSet(S), \A i \in S : F[i] \in Int, NEW x \in S
    PROVE  SumFunctionOnSet(F, S) = F[x] + SumFunctionOnSet(F, S \ {x})
<1> DEFINE Sm(T) == SumFunctionOnSet(F, T)
           B == {T \in SUBSET S : \E y \in T : Sm(T) # F[y] + Sm(T \ {y})}
<1>1. SUFFICES ASSUME B # {} PROVE FALSE
  OBVIOUS
<1>2. PICK T \in B : \A U \in SUBSET T : U # T => U \notin B
  <2>1. B \in SUBSET SUBSET S
    OBVIOUS
  <2> HIDE DEF B
  <2> QED
    BY <1>1, <2>1, SmallestSubset
<1>3. PICK y \in T : Sm(T) # F[y] + Sm(T \ {y})
  BY <1>2
<1> DEFINE p == Pick(T)
<1>4. p \in T /\ T \in SUBSET S /\ IsFiniteSet(T)
  BY <1>2, <1>3, FS_Subset, PickIsElement
<1>5. Sm(T) = F[p] + Sm(T \ {p})
  BY <1>3, <1>4, SumPicks
<1>6. p # y
  BY <1>3, <1>5
<1> HIDE DEF p
<1>7. Sm(T \ {p}) = F[y] + Sm((T \ {p}) \ {y})
  <2>1. T \ {p} \in SUBSET T /\ T \ {p} # T /\ y \in T \ {p} /\ T \ {p} \in SUBSET S
    BY <1>3, <1>4, <1>6
  <2> QED
    BY <1>2, <2>1
<1>8. Sm(T \ {y}) = F[p] + Sm((T \ {y}) \ {p})
  <2>1. T \ {y} \in SUBSET T /\ T \ {y} # T /\ p \in T \ {y} /\ T \ {y} \in SUBSET S
    BY <1>3, <1>4, <1>6
  <2> QED
    BY <1>2, <2>1
<1>9. (T \ {p}) \ {y} = (T \ {y}) \ {p} /\ IsFiniteSet((T \ {p}) \ {y}) /\ (T \ {p}) \ {y} \in SUBSET S
  <2>1. (T \ {p}) \ {y} \in SUBSET T
    OBVIOUS
  <2> QED
    BY <1>4, <2>1, FS_Subset
<1>10. Sm((T \ {p}) \ {y}) \in Int /\ F[p] \in Int /\ F[y] \in Int
  BY <1>3, <1>4, <1>9, SumIsInteger
<1> HIDE DEF Sm
<1> QED
  BY <1>3, <1>5, <1>7, <1>8, <1>9, <1>10

-----------------------------------------------------------------------------
(* How a sum changes *)

\* One element more.
LEMMA SumWith ==
    ASSUME NEW F, NEW S, IsFiniteSet(S), NEW x, x \notin S, \A i \in S \cup {x} : F[i] \in Int
    PROVE  SumFunctionOnSet(F, S \cup {x}) = F[x] + SumFunctionOnSet(F, S)
<1>1. IsFiniteSet(S \cup {x}) /\ (S \cup {x}) \ {x} = S
  BY FS_AddElement
<1> QED
  BY <1>1, SumWithout

\* Elements that add nothing may be left out.
LEMMA SumOfSubset ==
    ASSUME NEW F, NEW S, IsFiniteSet(S), \A i \in S : F[i] \in Int,
           NEW T \in SUBSET S, \A i \in S \ T : F[i] = 0
    PROVE  SumFunctionOnSet(F, T) = SumFunctionOnSet(F, S)
<1> DEFINE Sm(U) == SumFunctionOnSet(F, U)
           B == {U \in SUBSET S : Sm(U \cap T) # Sm(U)}
<1>1. ASSUME B # {} PROVE FALSE
  <2>1. PICK U \in B : \A V \in SUBSET U : V # U => V \notin B
    <3>1. B \in SUBSET SUBSET S
      OBVIOUS
    <3> HIDE DEF B
    <3> QED
      BY <1>1, <3>1, SmallestSubset
  <2>2. U \in SUBSET S /\ Sm(U \cap T) # Sm(U)
    BY <2>1
  <2>3. U # {}
    <3>1. {} \cap T = {}
      OBVIOUS
    <3> QED
      BY <2>2, <3>1
  <2>4. PICK x \in U : TRUE
    BY <2>3
  <2>5. Sm((U \ {x}) \cap T) = Sm(U \ {x})
    BY <2>1, <2>2, <2>4
  <2>6. IsFiniteSet(U) /\ IsFiniteSet(U \cap T) /\ U \cap T \in SUBSET S
    <3>1. U \cap T \in SUBSET S
      BY <2>2
    <3> QED
      BY <2>2, <3>1, FS_Subset
  <2>7. Sm(U) = F[x] + Sm(U \ {x})
    BY <2>2, <2>4, <2>6, SumWithout
  <2>8. CASE x \in T
    <3>1. x \in U \cap T /\ (U \cap T) \ {x} = (U \ {x}) \cap T
      BY <2>4, <2>8
    <3>2. Sm(U \cap T) = F[x] + Sm((U \cap T) \ {x})
      BY <2>6, <3>1, SumWithout
    <3> HIDE DEF Sm
    <3> QED
      BY <2>2, <2>5, <2>7, <3>1, <3>2
  <2>9. CASE x \notin T
    <3>1. U \cap T = (U \ {x}) \cap T /\ F[x] = 0
      BY <2>2, <2>4, <2>9
    <3>2. Sm(U \ {x}) \in Int
      <4>1. U \ {x} \in SUBSET S
        BY <2>2
      <4>2. IsFiniteSet(U \ {x})
        BY <4>1, FS_Subset
      <4> QED
        BY <4>1, <4>2, SumIsInteger
    <3>3. Sm(U \cap T) = Sm((U \ {x}) \cap T)
      BY <3>1
    <3> HIDE DEF Sm
    <3>4. Sm(U) = Sm(U \ {x})
      BY <2>7, <3>1, <3>2
    <3> QED
      BY ONLY <2>2, <2>5, <3>3, <3>4
  <2> QED
    BY <2>8, <2>9
<1>2. Sm(S \cap T) = Sm(S)
  <2>1. S \notin B /\ S \in SUBSET S
    BY <1>1
  <2> QED
    BY <2>1
<1>3. S \cap T = T
  OBVIOUS
<1> HIDE DEF Sm
<1>4. Sm(T) = Sm(S)
  BY <1>2, <1>3
<1> QED
  BY <1>4 DEF Sm

\* A sum of sums.
LEMMA SumOfSums ==
    ASSUME NEW S, IsFiniteSet(S), NEW F, NEW G, NEW H,
           \A i \in S : F[i] \in Int /\ G[i] \in Int /\ H[i] = F[i] + G[i]
    PROVE  SumFunctionOnSet(H, S) = SumFunctionOnSet(F, S) + SumFunctionOnSet(G, S)
<1> DEFINE Sm(f, U) == SumFunctionOnSet(f, U)
           B == {U \in SUBSET S : Sm(H, U) # Sm(F, U) + Sm(G, U)}
<1>1. ASSUME B # {} PROVE FALSE
  <2>1. PICK U \in B : \A V \in SUBSET U : V # U => V \notin B
    <3>1. B \in SUBSET SUBSET S
      OBVIOUS
    <3> HIDE DEF B
    <3> QED
      BY <1>1, <3>1, SmallestSubset
  <2>2. U \in SUBSET S /\ Sm(H, U) # Sm(F, U) + Sm(G, U)
    BY <2>1
  <2>3. U # {}
    BY <2>2, SumOfNothing
  <2>4. PICK x \in U : TRUE
    BY <2>3
  <2> DEFINE V == U \ {x}
  <2>5. V \in SUBSET S /\ V # U /\ V \in SUBSET U /\ x \in S
    BY <2>2, <2>4
  <2>6. Sm(H, V) = Sm(F, V) + Sm(G, V)
    BY <2>1, <2>5
  <2>7. IsFiniteSet(U) /\ IsFiniteSet(V)
    BY <2>2, <2>5, FS_Subset
  <2>8. F[x] \in Int /\ G[x] \in Int /\ H[x] = F[x] + G[x] /\ \A i \in S : H[i] \in Int
    BY <2>5
  <2>9. /\ Sm(F, U) = F[x] + Sm(F, V)
        /\ Sm(G, U) = G[x] + Sm(G, V)
        /\ Sm(H, U) = H[x] + Sm(H, V)
    BY <2>2, <2>4, <2>7, <2>8, SumWithout
  <2>10. Sm(F, V) \in Int /\ Sm(G, V) \in Int
    BY <2>5, <2>7, SumIsInteger
  <2> HIDE DEF V, Sm
  <2> QED
    BY <2>2, <2>6, <2>8, <2>9, <2>10
<1>2. S \notin B /\ S \in SUBSET S
  BY <1>1
<1> QED
  BY <1>2

\* Zeros add up to 0.
LEMMA SumOfZeros ==
    ASSUME NEW F, NEW S, IsFiniteSet(S), \A i \in S : F[i] = 0
    PROVE  SumFunctionOnSet(F, S) = 0
<1>1. {} \in SUBSET S
  OBVIOUS
<1> QED
  BY <1>1, SumOfSubset, SumOfNothing

\* A sum is what its function is on the set.
LEMMA SumOfEqual ==
    ASSUME NEW S, IsFiniteSet(S), NEW F, NEW G, \A i \in S : F[i] \in Int /\ G[i] = F[i]
    PROVE  SumFunctionOnSet(G, S) = SumFunctionOnSet(F, S)
<1> DEFINE Z == [i \in S |-> 0]
<1>1. SumFunctionOnSet(Z, S) = 0
  BY SumOfZeros
<1>2. SumFunctionOnSet(F, S) \in Int
  BY SumIsInteger
<1>3. \A i \in S : F[i] \in Int /\ Z[i] \in Int /\ G[i] = F[i] + Z[i]
  OBVIOUS
<1> HIDE DEF Z
<1>4. SumFunctionOnSet(G, S) = SumFunctionOnSet(F, S) + SumFunctionOnSet(Z, S)
  BY <1>3, SumOfSums
<1> QED
  BY <1>1, <1>2, <1>4

\* Elements left out make no sum of natural numbers greater.
LEMMA SumOfFewer ==
    ASSUME NEW F, NEW S, IsFiniteSet(S), \A i \in S : F[i] \in Nat, NEW T \in SUBSET S
    PROVE  SumFunctionOnSet(F, T) <= SumFunctionOnSet(F, S)
<1> DEFINE G == [i \in S |-> IF i \in T THEN F[i] ELSE 0]
           H == [i \in S |-> IF i \in T THEN 0 ELSE F[i]]
<1>1. \A i \in S : G[i] \in Nat /\ H[i] \in Nat /\ F[i] = G[i] + H[i]
  OBVIOUS
<1>2. (\A i \in T : F[i] \in Int /\ G[i] = F[i]) /\ (\A i \in S \ T : G[i] = 0) /\ IsFiniteSet(T)
  BY FS_Subset
<1> HIDE DEF G, H
<1>3. \A i \in S : G[i] \in Int /\ H[i] \in Int /\ F[i] = G[i] + H[i]
  BY <1>1
<1>4. SumFunctionOnSet(F, S) = SumFunctionOnSet(G, S) + SumFunctionOnSet(H, S)
  BY <1>3, SumOfSums
<1>5. SumFunctionOnSet(G, S) = SumFunctionOnSet(F, T)
  BY <1>2, <1>3, SumOfSubset, SumOfEqual
<1>6. SumFunctionOnSet(H, S) \in Nat /\ SumFunctionOnSet(G, S) \in Nat
  BY <1>1, SumIsNatural
<1> QED
  BY <1>4, <1>5, <1>6

\* A function changed at one element.
LEMMA SumOfChange ==
    ASSUME NEW S, IsFiniteSet(S), NEW F, NEW G, NEW x \in S,
           \A i \in S : F[i] \in Int /\ G[i] \in Int, \A i \in S \ {x} : G[i] = F[i]
    PROVE  SumFunctionOnSet(G, S) = SumFunctionOnSet(F, S) - F[x] + G[x]
<1> DEFINE T == S \ {x}
<1>1. T \in SUBSET S /\ IsFiniteSet(T)
  BY FS_Subset
<1>2. SumFunctionOnSet(G, T) = SumFunctionOnSet(F, T)
  BY <1>1, SumOfEqual
<1>3. SumFunctionOnSet(F, T) \in Int
  BY <1>1, SumIsInteger
<1>4. /\ SumFunctionOnSet(F, S) = F[x] + SumFunctionOnSet(F, T)
      /\ SumFunctionOnSet(G, S) = G[x] + SumFunctionOnSet(G, T)
  BY SumWithout
<1> HIDE DEF T
<1> QED
  BY <1>2, <1>3, <1>4

\* A function changed at two elements.
LEMMA SumOfTwoChanges ==
    ASSUME NEW S, IsFiniteSet(S), NEW F, NEW G, NEW x \in S, NEW y \in S, x # y,
           \A i \in S : F[i] \in Int /\ G[i] \in Int, \A i \in S \ {x, y} : G[i] = F[i]
    PROVE  SumFunctionOnSet(G, S) = SumFunctionOnSet(F, S) - F[x] + G[x] - F[y] + G[y]
<1> DEFINE T == S \ {x}
<1>1. T \in SUBSET S /\ IsFiniteSet(T) /\ y \in T
  BY FS_Subset
<1>2. SumFunctionOnSet(G, T) = SumFunctionOnSet(F, T) - F[y] + G[y]
  BY <1>1, SumOfChange
<1>3. SumFunctionOnSet(F, T) \in Int
  BY <1>1, SumIsInteger
<1>4. /\ SumFunctionOnSet(F, S) = F[x] + SumFunctionOnSet(F, T)
      /\ SumFunctionOnSet(G, S) = G[x] + SumFunctionOnSet(G, T)
  BY SumWithout
<1> HIDE DEF T
<1> QED
  BY <1>2, <1>3, <1>4

\* Elements that cancel out in pairs: m takes each to the one that takes it back.
LEMMA SumOfPairs ==
    ASSUME NEW S, IsFiniteSet(S), NEW F, NEW m, \A i \in S : F[i] \in Int,
           \A i \in S : m[i] \in S /\ m[i] # i /\ m[m[i]] = i /\ F[m[i]] = -F[i]
    PROVE  SumFunctionOnSet(F, S) = 0
<1> DEFINE Sm(U) == SumFunctionOnSet(F, U)
           B == {U \in SUBSET S : (\A i \in U : m[i] \in U) /\ Sm(U) # 0}
<1>1. ASSUME B # {} PROVE FALSE
  <2>1. PICK U \in B : \A V \in SUBSET U : V # U => V \notin B
    <3>1. B \in SUBSET SUBSET S
      OBVIOUS
    <3> HIDE DEF B
    <3> QED
      BY <1>1, <3>1, SmallestSubset
  <2>2. U \in SUBSET S /\ (\A i \in U : m[i] \in U) /\ Sm(U) # 0
    BY <2>1
  <2>3. U # {}
    BY <2>2, SumOfNothing
  <2>4. PICK x \in U : TRUE
    BY <2>3
  <2> DEFINE y == m[x]
             V == U \ {x}
             W == V \ {y}
  <2>5. y \in V /\ F[y] = -F[x] /\ m[y] = x /\ F[x] \in Int
    BY <2>2, <2>4
  <2>6. V \in SUBSET S /\ W \in SUBSET S /\ W \in SUBSET U /\ W # U
    BY <2>2, <2>4
  <2>7. \A i \in W : m[i] \in W
    <3>1. SUFFICES ASSUME NEW i \in W PROVE m[i] \in W
      OBVIOUS
    <3>2. m[i] \in U /\ m[m[i]] = i /\ i # x /\ i # y
      BY <2>2
    <3>3. m[i] # x
      BY <3>2
    <3>4. m[i] # y
      BY <2>5, <3>2
    <3> QED
      BY <3>2, <3>3, <3>4
  <2>8. Sm(W) = 0
    BY <2>1, <2>6, <2>7
  <2>9. IsFiniteSet(U) /\ IsFiniteSet(V)
    BY <2>2, <2>6, FS_Subset
  <2>10. Sm(U) = F[x] + Sm(V)
    BY <2>2, <2>4, <2>9, SumWithout
  <2>11. Sm(V) = F[y] + Sm(W)
    BY <2>5, <2>6, <2>9, SumWithout
  <2> HIDE DEF y, V, W, Sm
  <2> QED
    BY <2>2, <2>5, <2>8, <2>10, <2>11
<1>2. S \notin B /\ S \in SUBSET S
  BY <1>1
<1> QED
  BY <1>2
=============================================================================
