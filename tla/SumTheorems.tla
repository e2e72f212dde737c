----------------------------- MODULE SumTheorems -----------------------------
(***************************************************************************)
(* Sums over finite sets.  SumFunctionOnSet(w, S) of the community modules *)
(* adds up w[x] for the x in S by a recursive function on the subsets of   *)
(* S; here are the facts about it that the proofs about quantities use.    *)
(* Each is proved from a smallest counterexample, since the induction rule *)
(* for finite sets takes an operator.                                      *)
(***************************************************************************)
EXTENDS Functions, FiniteSetTheorems, TLAPS

\* A set of subsets of a finite set has a smallest member.
LEMMA SmallestSet ==
  ASSUME NEW S, IsFiniteSet(S), NEW B, B \subseteq SUBSET S, B # {}
  PROVE  \E T \in B : \A U \in B : U \subseteq T => U = T
<1>1. IsWellFoundedOn(StrictSubsetOrdering(S), SUBSET S)
  BY FS_StrictSubsetOrderingWellFounded, FS_FiniteSubsetsOfFinite, Zenon
<1>3. PICK T \in B : \A U \in B : ~(<<U, T>> \in StrictSubsetOrdering(S))
  BY <1>1, WFMin, Zenon
<1>4. ASSUME NEW U \in B, U \subseteq T
      PROVE  U = T
  <2>1. ~(<<U, T>> \in StrictSubsetOrdering(S))
    BY <1>3
  <2>2. U \in SUBSET S /\ T \in SUBSET S
    BY <1>4
  <2> QED
    BY <1>4, <2>1, <2>2 DEF StrictSubsetOrdering
<1> QED
  BY <1>4

----------------------------------------------------------------------------
(* The recursive function exists. *)

First(s) == CHOOSE x \in s : TRUE

\* g holds the sum of every subset of T.
IsPartialSums(g, w, T) ==
  g = [s \in SUBSET T |-> IF s = {} THEN 0 ELSE w[First(s)] + g[s \ {First(s)}]]

PartialSums(w, T) == CHOOSE g : IsPartialSums(g, w, T)

\* The sum of the community modules is the one of the whole set.
LEMMA SumIsPartialSum ==
  ASSUME NEW w, NEW T
  PROVE  SumFunctionOnSet(w, T) = PartialSums(w, T)[T]
BY DEF SumFunctionOnSet, FoldFunctionOnSet, MapThenFoldSet, PartialSums, IsPartialSums, First

\* The element that is taken first is one of the set.
LEMMA FirstIsElement ==
  ASSUME NEW s, s # {}
  PROVE  First(s) \in s
BY DEF First

\* Two such functions agree where both are defined.
LEMMA PartialSumsAgree ==
  ASSUME NEW S, IsFiniteSet(S), NEW T \in SUBSET S, NEW U \in SUBSET S, NEW w, NEW g, NEW h,
         IsPartialSums(g, w, T), IsPartialSums(h, w, U), NEW s \in SUBSET (T \cap U)
  PROVE  g[s] = h[s]
<1> DEFINE B == {r \in SUBSET (T \cap U) : g[r] # h[r]}
<1> SUFFICES ASSUME B # {}
             PROVE  FALSE
  BY Zenon
<1>1. B \subseteq SUBSET S
  OBVIOUS
<1> HIDE DEF B
<1>2. PICK r \in B : \A q \in B : q \subseteq r => q = r
  BY <1>1, SmallestSet
<1>3. r \in SUBSET (T \cap U) /\ g[r] # h[r]
  BY <1>2 DEF B
<1>4. CASE r = {}
  BY <1>3, <1>4 DEF IsPartialSums
<1>5. CASE r # {}
  <2> DEFINE x == First(r)
  <2>1. x \in r
    BY <1>5, FirstIsElement
  <2>2. g[r] = w[x] + g[r \ {x}] /\ h[r] = w[x] + h[r \ {x}]
    BY <1>3, <1>5 DEF IsPartialSums
  <2> HIDE DEF x
  <2>3. r \ {x} \notin B
    BY <1>2, <2>1
  <2>4. g[r \ {x}] = h[r \ {x}]
    BY <1>3, <2>3 DEF B
  <2> QED
    BY <1>3, <2>2, <2>4
<1> QED
  BY <1>4, <1>5

\* On every finite set there is one.
LEMMA PartialSumsExist ==
  ASSUME NEW S, IsFiniteSet(S), NEW w
  PROVE  IsPartialSums(PartialSums(w, S), w, S)
<1> DEFINE B == {T \in SUBSET S : ~IsPartialSums(PartialSums(w, T), w, T)}
<1> SUFFICES ASSUME B # {}
             PROVE  FALSE
  BY Zenon
<1>1. B \subseteq SUBSET S
  OBVIOUS
<1> HIDE DEF B
<1>2. PICK T \in B : \A U \in B : U \subseteq T => U = T
  BY <1>1, SmallestSet
<1>3. T \in SUBSET S /\ ~IsPartialSums(PartialSums(w, T), w, T)
  BY <1>2 DEF B
<1>4. \A U \in SUBSET T : U # T => IsPartialSums(PartialSums(w, U), w, U)
  BY <1>2, <1>3 DEF B
<1> DEFINE v(U) == PartialSums(w, U)[U]
           G == [s \in SUBSET T |-> IF s = {} THEN 0 ELSE w[First(s)] + v(s \ {First(s)})]
<1>5. ASSUME NEW s \in SUBSET T, s # {}
      PROVE  G[s \ {First(s)}] = v(s \ {First(s)})
  <2> DEFINE U == s \ {First(s)}
             P == PartialSums(w, U)
  <2>1. U \in SUBSET T /\ U # T
    BY <1>5, FirstIsElement
  <2>2. IsPartialSums(P, w, U)
    BY <1>4, <2>1
  <2>3. CASE U = {}
    <3>1. P[U] = 0
      BY <2>2, <2>3 DEF IsPartialSums
    <3> QED
      BY <2>1, <2>3, <3>1
  <2>4. CASE U # {}
    <3> DEFINE y == First(U)
               V == U \ {y}
    <3>1. y \in U /\ V \in SUBSET U /\ V \in SUBSET T /\ V # T
      BY <2>1, <2>4, FirstIsElement
    <3>2. P[U] = w[y] + P[V]
      BY <2>2, <2>4 DEF IsPartialSums
    <3>3. G[U] = w[y] + v(V)
      BY <2>1, <2>4
    <3>4. IsPartialSums(PartialSums(w, V), w, V)
      BY <1>4, <3>1
    <3> HIDE DEF U, V, P
    <3>5. P[V] = PartialSums(w, V)[V]
      BY <1>3, <2>1, <2>2, <3>1, <3>4, PartialSumsAgree
    <3> QED
      BY <3>2, <3>3, <3>5 DEF P, U
  <2> QED
    BY <2>3, <2>4
<1> HIDE DEF v
<1>6. G = [s \in SUBSET T |-> IF s = {} THEN 0 ELSE w[First(s)] + G[s \ {First(s)}]]
  BY <1>5
<1> HIDE DEF G
<1>7. IsPartialSums(G, w, T)
  BY <1>6 DEF IsPartialSums
<1>8. IsPartialSums(PartialSums(w, T), w, T)
  BY <1>7, Zenon DEF PartialSums
<1> QED
  BY <1>3, <1>8

----------------------------------------------------------------------------
(* What the sum is. *)

\* Nothing sums to zero.
LEMMA SumOfNothing ==
  ASSUME NEW w
  PROVE  SumFunctionOnSet(w, {}) = 0
<1>1. IsPartialSums(PartialSums(w, {}), w, {})
  BY PartialSumsExist, FS_EmptySet
<1> QED
  BY <1>1, SumIsPartialSum DEF IsPartialSums

\* The first element is added to the sum of the rest.
LEMMA SumWithFirst ==
  ASSUME NEW S, IsFiniteSet(S), S # {}, NEW w
  PROVE  SumFunctionOnSet(w, S) = w[First(S)] + SumFunctionOnSet(w, S \ {First(S)})
<1> DEFINE x == First(S)
           R == S \ {x}
<1>1. x \in S /\ R \in SUBSET S
  BY FirstIsElement
<1>2. IsFiniteSet(R)
  BY <1>1, FS_Subset
<1>3. IsPartialSums(PartialSums(w, S), w, S) /\ IsPartialSums(PartialSums(w, R), w, R)
  BY <1>2, PartialSumsExist
<1>4. PartialSums(w, S)[S] = w[x] + PartialSums(w, S)[R]
  BY <1>3 DEF IsPartialSums
<1> HIDE DEF R, x
<1>5. PartialSums(w, S)[R] = PartialSums(w, R)[R]
  BY <1>1, <1>3, PartialSumsAgree
<1> QED
  BY <1>4, <1>5, SumIsPartialSum DEF R, x

\* A sum of integers is one.
LEMMA SumIsInteger ==
  ASSUME NEW S, IsFiniteSet(S), NEW w, \A x \in S : w[x] \in Int
  PROVE  SumFunctionOnSet(w, S) \in Int
<1> DEFINE B == {T \in SUBSET S : SumFunctionOnSet(w, T) \notin Int}
<1> SUFFICES ASSUME B # {}
             PROVE  FALSE
  BY Zenon
<1>1. B \subseteq SUBSET S
  OBVIOUS
<1> HIDE DEF B
<1>2. PICK T \in B : \A U \in B : U \subseteq T => U = T
  BY <1>1, SmallestSet
<1>3. T \in SUBSET S /\ SumFunctionOnSet(w, T) \notin Int /\ IsFiniteSet(T)
  BY <1>2, FS_Subset DEF B
<1>4. T # {}
  BY <1>3, SumOfNothing
<1> DEFINE x == First(T)
           R == T \ {x}
<1>5. x \in T /\ x \in S /\ R \in SUBSET S /\ R \subseteq T /\ R # T
  BY <1>3, <1>4, FirstIsElement
<1>6. SumFunctionOnSet(w, T) = w[x] + SumFunctionOnSet(w, R)
  BY <1>3, <1>4, SumWithFirst, Zenon
<1> HIDE DEF x, R
<1>7. SumFunctionOnSet(w, R) \in Int
  BY <1>2, <1>5 DEF B
<1> QED
  BY <1>3, <1>5, <1>6, <1>7

\* The order does not matter: any element may be taken out.
LEMMA SumWithElement ==
  ASSUME NEW S, IsFiniteSet(S), NEW w, \A x \in S : w[x] \in Int, NEW e \in S
  PROVE  SumFunctionOnSet(w, S) = w[e] + SumFunctionOnSet(w, S \ {e})
<1> DEFINE Sum(T) == SumFunctionOnSet(w, T)
           B == {T \in SUBSET S : \E x \in T : Sum(T) # w[x] + Sum(T \ {x})}
<1>0. \A T \in SUBSET S : IsFiniteSet(T) /\ Sum(T) \in Int
  <2> TAKE T \in SUBSET S
  <2>1. IsFiniteSet(T) /\ \A x \in T : w[x] \in Int
    BY FS_Subset
  <2> QED
    BY <2>1, SumIsInteger
<1> SUFFICES ASSUME B # {}
             PROVE  FALSE
  <2>1. B = {} => S \notin B
    OBVIOUS
  <2> QED
    BY <2>1
<1>1. B \subseteq SUBSET S
  OBVIOUS
<1> HIDE DEF B
<1>2. PICK T \in B : \A U \in B : U \subseteq T => U = T
  BY <1>1, SmallestSet
<1>3. T \in SUBSET S /\ \E x \in T : Sum(T) # w[x] + Sum(T \ {x})
  BY <1>2 DEF B
<1>4. PICK x \in T : Sum(T) # w[x] + Sum(T \ {x})
  BY <1>3
<1> DEFINE f == First(T)
<1>5. f \in T
  BY <1>4, FirstIsElement
<1>6. Sum(T) = w[f] + Sum(T \ {f})
  BY <1>0, <1>3, <1>4, SumWithFirst
<1> HIDE DEF f
<1>7. x # f
  BY <1>4, <1>6
<1>8. T \ {f} \notin B /\ T \ {x} \notin B
  BY <1>2, <1>4, <1>5
<1> DEFINE D == T \ {x, f}
<1>9. (T \ {f}) \ {x} = D /\ (T \ {x}) \ {f} = D
  OBVIOUS
<1> HIDE DEF D
<1>10. Sum(T \ {f}) = w[x] + Sum(D)
  BY <1>3, <1>4, <1>7, <1>8, <1>9 DEF B
<1>11. Sum(T \ {x}) = w[f] + Sum(D)
  BY <1>3, <1>5, <1>7, <1>8, <1>9 DEF B
<1>12. w[x] \in Int /\ w[f] \in Int /\ Sum(D) \in Int
  BY <1>0, <1>3, <1>4, <1>5 DEF D
<1> QED
  BY <1>4, <1>6, <1>10, <1>11, <1>12

\* And any element put in.
LEMMA SumWithNew ==
  ASSUME NEW S, IsFiniteSet(S), NEW w, NEW e, e \notin S, \A x \in S \cup {e} : w[x] \in Int
  PROVE  SumFunctionOnSet(w, S \cup {e}) = w[e] + SumFunctionOnSet(w, S)
<1>1. IsFiniteSet(S \cup {e}) /\ (S \cup {e}) \ {e} = S
  BY FS_AddElement
<1>2. e \in S \cup {e}
  OBVIOUS
<1> DEFINE T == S \cup {e}
<1> HIDE DEF T
<1>3. SumFunctionOnSet(w, T) = w[e] + SumFunctionOnSet(w, T \ {e})
  BY <1>1, <1>2, SumWithElement DEF T
<1> QED
  BY <1>1, <1>3 DEF T

\* A sum depends on what is summed only.
LEMMA SumsOfEqualsAgree ==
  ASSUME NEW S, IsFiniteSet(S), NEW w, NEW v, \A x \in S : w[x] = v[x]
  PROVE  SumFunctionOnSet(w, S) = SumFunctionOnSet(v, S)
<1> DEFINE B == {T \in SUBSET S : SumFunctionOnSet(w, T) # SumFunctionOnSet(v, T)}
<1> SUFFICES ASSUME B # {}
             PROVE  FALSE
  BY Zenon
<1>1. B \subseteq SUBSET S
  OBVIOUS
<1> HIDE DEF B
<1>2. PICK T \in B : \A U \in B : U \subseteq T => U = T
  BY <1>1, SmallestSet
<1>3. T \in SUBSET S /\ SumFunctionOnSet(w, T) # SumFunctionOnSet(v, T) /\ IsFiniteSet(T)
  BY <1>2, FS_Subset DEF B
<1>4. T # {}
  BY <1>3, SumOfNothing
<1> DEFINE x == First(T)
           R == T \ {x}
<1>5. x \in T /\ x \in S /\ R \in SUBSET S /\ R \subseteq T /\ R # T
  BY <1>3, <1>4, FirstIsElement
<1>6. /\ SumFunctionOnSet(w, T) = w[x] + SumFunctionOnSet(w, R)
      /\ SumFunctionOnSet(v, T) = v[x] + SumFunctionOnSet(v, R)
  BY <1>3, <1>4, SumWithFirst, Zenon
<1> HIDE DEF x, R
<1>7. SumFunctionOnSet(w, R) = SumFunctionOnSet(v, R)
  BY <1>2, <1>5 DEF B
<1> QED
  BY <1>3, <1>5, <1>6, <1>7

\* A smaller set of quantities that are not negative has a smaller sum.
LEMMA SumGrows ==
  ASSUME NEW S, IsFiniteSet(S), NEW w, \A x \in S : w[x] \in Nat, NEW T \in SUBSET S
  PROVE  SumFunctionOnSet(w, T) <= SumFunctionOnSet(w, S)
<1> DEFINE Sum(U) == SumFunctionOnSet(w, U)
           B == {U \in SUBSET S : ~(Sum(S \ U) <= Sum(S))}
<1>0. \A U \in SUBSET S : IsFiniteSet(U) /\ Sum(U) \in Int
  <2> TAKE U \in SUBSET S
  <2>1. IsFiniteSet(U) /\ \A x \in U : w[x] \in Int
    BY FS_Subset
  <2> QED
    BY <2>1, SumIsInteger
<1> SUFFICES ASSUME B # {}
             PROVE  FALSE
  <2>1. B = {} => S \ T \notin B
    OBVIOUS
  <2>2. S \ (S \ T) = T
    OBVIOUS
  <2> QED
    BY <2>1, <2>2
<1>1. B \subseteq SUBSET S
  OBVIOUS
<1> HIDE DEF B
<1>2. PICK U \in B : \A V \in B : V \subseteq U => V = U
  BY <1>1, SmallestSet
<1>3. U \in SUBSET S /\ ~(Sum(S \ U) <= Sum(S))
  BY <1>2 DEF B
<1>4. U # {}
  <2>1. S \ {} = S /\ Sum(S) \in Int
    BY <1>0
  <2> QED
    BY <1>3, <2>1
<1>5. PICK x \in U : x \in S
  BY <1>3, <1>4
<1> DEFINE V == U \ {x}
<1>6. V \in SUBSET S /\ V \notin B
  BY <1>2, <1>3, <1>5
<1>7. Sum(S \ V) <= Sum(S)
  BY <1>6 DEF B
<1>8. (S \ V) \ {x} = S \ U /\ x \in S \ V
  BY <1>5
<1>9. Sum(S \ V) = w[x] + Sum(S \ U)
  <2>1. IsFiniteSet(S \ V) /\ \A y \in S \ V : w[y] \in Int
    BY <1>0
  <2> HIDE DEF V
  <2> QED
    BY <1>8, <2>1, SumWithElement
<1>10. w[x] \in Nat /\ Sum(S \ V) \in Int /\ Sum(S \ U) \in Int /\ Sum(S) \in Int
  BY <1>0, <1>3, <1>5
<1> HIDE DEF V
<1> QED
  BY <1>3, <1>7, <1>9, <1>10

\* In particular it is not negative.
LEMMA SumIsNatural ==
  ASSUME NEW S, IsFiniteSet(S), NEW w, \A x \in S : w[x] \in Nat
  PROVE  SumFunctionOnSet(w, S) \in Nat
<1>1. SumFunctionOnSet(w, S) \in Int
  BY SumIsInteger
<1>2. SumFunctionOnSet(w, {}) <= SumFunctionOnSet(w, S)
  BY SumGrows
<1> QED
  BY <1>1, <1>2, SumOfNothing
=============================================================================
