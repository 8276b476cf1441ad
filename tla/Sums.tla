-------------------------------- MODULE Sums --------------------------------
(***************************************************************************)
(* What SumFunctionOnSet of the community modules computes on a finite set *)
(* of indices: that the fold exists, that any index may be taken out       *)
(* first, that only the summands of the set matter, and that a part of     *)
(* natural numbers sums to no more than the whole.  The induction is on a  *)
(* least subset with a given property (LeastSubset).                       *)
(***************************************************************************)
EXTENDS FiniteSetsExt, Functions, FiniteSetTheorems, WellFoundedInduction, TLAPS

\* The element the fold takes out of s, and the equation it solves.
Pick(s) == CHOOSE x \in s : TRUE
IsSum(f, w, S) ==
  f = [s \in SUBSET S |-> IF s = {} THEN 0 ELSE w[Pick(s)] + f[s \ {Pick(s)}]]
Fold(w, S) == CHOOSE f : IsSum(f, w, S)

\* A nonempty family of subsets of a finite set has a least member.
LEMMA LeastSubset ==
  ASSUME NEW S, IsFiniteSet(S), NEW T, T \subseteq SUBSET S, T # {}
  PROVE  \E s \in T : \A r \in T : r \subseteq s => r = s
<1>1. IsWellFoundedOn(StrictSubsetOrdering(S), SUBSET S)
  BY FS_StrictSubsetOrderingWellFounded, FS_FiniteSubsetsOfFinite
<1>2. PICK s \in T : \A r \in T : <<r, s>> \notin StrictSubsetOrdering(S)
  BY <1>1, WFMin
<1> QED BY <1>2 DEF StrictSubsetOrdering

\* The library's sum is the fold's value at the whole set.
LEMMA SumIsFolded ==
  ASSUME NEW w, NEW S
  PROVE  SumFunctionOnSet(w, S) = Fold(w, S)[S]
BY DEF SumFunctionOnSet, FoldFunctionOnSet, MapThenFoldSet, IsSum, Pick, Fold

\* The element taken out was there.
LEMMA PickIn == ASSUME NEW s, s # {} PROVE Pick(s) \in s
BY DEF Pick

\* Two solutions of the equation agree wherever both are defined.
LEMMA SumsAgree ==
  ASSUME NEW w, NEW A, NEW B, NEW f, NEW g, IsFiniteSet(A),
         IsSum(f, w, A), IsSum(g, w, B),
         NEW s, s \subseteq A, s \subseteq B
  PROVE  f[s] = g[s]
<1> DEFINE T == {r \in SUBSET A : r \subseteq B /\ f[r] # g[r]}
<1> SUFFICES ASSUME T # {} PROVE FALSE
  OBVIOUS
<1>1. PICK r \in T : \A q \in T : q \subseteq r => q = r
  <2>1. T \subseteq SUBSET A
    OBVIOUS
  <2> HIDE DEF T
  <2> QED BY <2>1, LeastSubset
<1>2. CASE r = {}
  BY <1>1, <1>2 DEF IsSum
<1>3. CASE r # {}
  <2> DEFINE p == Pick(r)
             q == r \ {p}
  <2>1. p \in r
    BY <1>3, PickIn
  <2>2. f[q] = g[q]
    BY <1>1, <2>1
  <2>3. f[r] = w[p] + f[q]
    BY <1>1, <1>3 DEF IsSum
  <2>4. g[r] = w[p] + g[q]
    BY <1>1, <1>3 DEF IsSum
  <2> QED BY <2>2, <2>3, <2>4, <1>1
<1> QED BY <1>2, <1>3

\* The equation has a solution on every finite set.
LEMMA SumExists ==
  ASSUME NEW w, NEW S, IsFiniteSet(S)
  PROVE  IsSum(Fold(w, S), w, S)
<1> DEFINE T == {r \in SUBSET S : ~\E f : IsSum(f, w, r)}
<1> SUFFICES ASSUME T # {} PROVE FALSE
  BY DEF Fold
<1>1. PICK s \in T : \A q \in T : q \subseteq s => q = s
  <2>1. T \subseteq SUBSET S
    OBVIOUS
  <2> HIDE DEF T
  <2> QED BY <2>1, LeastSubset
<1>2. \A r \in SUBSET s : r # s => IsSum(Fold(w, r), w, r)
  BY <1>1 DEF Fold
<1>3. \A r \in SUBSET s : IsFiniteSet(r)
  BY <1>1, FS_Subset
<1>4. \A r \in SUBSET s : \A q \in SUBSET r : r # s => Fold(w, r)[q] = Fold(w, q)[q]
  <2> SUFFICES ASSUME NEW r \in SUBSET s, NEW q \in SUBSET r, r # s
               PROVE  Fold(w, r)[q] = Fold(w, q)[q]
    OBVIOUS
  <2>1. q # s
    OBVIOUS
  <2>2. IsSum(Fold(w, r), w, r) /\ IsSum(Fold(w, q), w, q)
    BY <1>2, <2>1
  <2> QED BY <2>2, <1>3, SumsAgree
<1> DEFINE V(r) == IF r = {} THEN 0 ELSE w[Pick(r)] + Fold(w, r \ {Pick(r)})[r \ {Pick(r)}]
           g == [r \in SUBSET s |-> V(r)]
<1>5. \A r \in SUBSET s : r # s => Fold(w, r)[r] = V(r)
  <2> SUFFICES ASSUME NEW r \in SUBSET s, r # s PROVE Fold(w, r)[r] = V(r)
    OBVIOUS
  <2>1. Fold(w, r)[r] = IF r = {} THEN 0 ELSE w[Pick(r)] + Fold(w, r)[r \ {Pick(r)}]
    BY <1>2 DEF IsSum
  <2>2. Fold(w, r)[r \ {Pick(r)}] = Fold(w, r \ {Pick(r)})[r \ {Pick(r)}]
    BY <1>4
  <2> QED BY <2>1, <2>2
<1>6. \A r \in SUBSET s : r # {} => g[r] = w[Pick(r)] + g[r \ {Pick(r)}]
  <2> SUFFICES ASSUME NEW r \in SUBSET s, r # {} PROVE g[r] = w[Pick(r)] + g[r \ {Pick(r)}]
    OBVIOUS
  <2> DEFINE q == r \ {Pick(r)}
  <2>1. Pick(r) \in r
    BY PickIn
  <2>2. q \in SUBSET s /\ q # s
    BY <2>1
  <2>3. Fold(w, q)[q] = g[q]
    BY <2>2, <1>5
  <2>4. g[r] = w[Pick(r)] + Fold(w, q)[q]
    OBVIOUS
  <2> QED BY <2>3, <2>4
<1>7. IsSum(g, w, s)
  <2>1. g[{}] = 0
    OBVIOUS
  <2>2. g = [r \in SUBSET s |-> g[r]]
    OBVIOUS
  <2> HIDE DEF g
  <2> QED BY <2>1, <2>2, <1>6 DEF IsSum
<1> QED BY <1>1, <1>7

\* The sum takes out one element at a time.
LEMMA SumPick ==
  ASSUME NEW w, NEW S, IsFiniteSet(S)
  PROVE  /\ S = {} => SumFunctionOnSet(w, S) = 0
         /\ S # {} => SumFunctionOnSet(w, S) = w[Pick(S)] + SumFunctionOnSet(w, S \ {Pick(S)})
<1> DEFINE q == S \ {Pick(S)}
<1>1. IsSum(Fold(w, S), w, S)
  BY SumExists
<1>2. IsFiniteSet(q)
  BY FS_Subset
<1>3. IsSum(Fold(w, q), w, q)
  BY <1>2, SumExists
<1>4. Fold(w, S)[q] = Fold(w, q)[q]
  BY <1>1, <1>2, <1>3, SumsAgree
<1>5. SumFunctionOnSet(w, S) = Fold(w, S)[S] /\ SumFunctionOnSet(w, q) = Fold(w, q)[q]
  BY SumIsFolded
<1>6. /\ S = {} => Fold(w, S)[S] = 0
      /\ S # {} => Fold(w, S)[S] = w[Pick(S)] + Fold(w, S)[q]
  BY <1>1 DEF IsSum
<1> QED BY <1>4, <1>5, <1>6

\* A sum of integers is an integer.
LEMMA SumInt ==
  ASSUME NEW w, NEW S, IsFiniteSet(S), \A i \in S : w[i] \in Int
  PROVE  SumFunctionOnSet(w, S) \in Int
<1> DEFINE T == {r \in SUBSET S : SumFunctionOnSet(w, r) \notin Int}
<1> SUFFICES ASSUME T # {} PROVE FALSE
  OBVIOUS
<1>1. PICK r \in T : \A q \in T : q \subseteq r => q = r
  <2>1. T \subseteq SUBSET S
    OBVIOUS
  <2> HIDE DEF T
  <2> QED BY <2>1, LeastSubset
<1>2. IsFiniteSet(r)
  BY <1>1, FS_Subset
<1>3. r # {}
  <2>1. SumFunctionOnSet(w, r) \notin Int
    BY <1>1
  <2>2. r = {} => SumFunctionOnSet(w, r) = 0
    BY <1>2, SumPick
  <2> QED BY <2>1, <2>2
<1>4. Pick(r) \in r
  BY <1>3, PickIn
<1>5. SumFunctionOnSet(w, r \ {Pick(r)}) \in Int
  BY <1>1, <1>4
<1> QED BY <1>1, <1>2, <1>3, <1>4, <1>5, SumPick

\* Any element may be taken out first.
LEMMA SumTake ==
  ASSUME NEW w, NEW S, IsFiniteSet(S), \A i \in S : w[i] \in Int, NEW e \in S
  PROVE  SumFunctionOnSet(w, S) = w[e] + SumFunctionOnSet(w, S \ {e})
<1> DEFINE T == {r \in SUBSET S : \E x \in r : SumFunctionOnSet(w, r) # w[x] + SumFunctionOnSet(w, r \ {x})}
<1> SUFFICES ASSUME T # {} PROVE FALSE
  OBVIOUS
<1>1. PICK r \in T : \A q \in T : q \subseteq r => q = r
  <2>1. T \subseteq SUBSET S
    OBVIOUS
  <2> HIDE DEF T
  <2> QED BY <2>1, LeastSubset
<1>2. IsFiniteSet(r)
  BY <1>1, FS_Subset
<1>3. PICK x \in r : SumFunctionOnSet(w, r) # w[x] + SumFunctionOnSet(w, r \ {x})
  BY <1>1
<1> DEFINE p == Pick(r)
           q == r \ {p, x}
<1>4. p \in r /\ SumFunctionOnSet(w, r) = w[p] + SumFunctionOnSet(w, r \ {p})
  BY <1>2, <1>3, PickIn, SumPick
<1>5. p # x
  BY <1>3, <1>4
<1>6. SumFunctionOnSet(w, r \ {p}) = w[x] + SumFunctionOnSet(w, q)
  <2>1. (r \ {p}) \ {x} = q /\ x \in r \ {p} /\ r \ {p} \subseteq r /\ r \ {p} # r
    BY <1>3, <1>4, <1>5
  <2> QED BY <2>1, <1>1
<1>7. SumFunctionOnSet(w, r \ {x}) = w[p] + SumFunctionOnSet(w, q)
  <2>1. (r \ {x}) \ {p} = q /\ p \in r \ {x} /\ r \ {x} \subseteq r /\ r \ {x} # r
    BY <1>3, <1>4, <1>5
  <2> QED BY <2>1, <1>1
<1>8. SumFunctionOnSet(w, q) \in Int
  <2>1. IsFiniteSet(q)
    BY <1>2, FS_Subset
  <2> QED BY <2>1, <1>1, SumInt
<1>9. w[p] \in Int /\ w[x] \in Int
  BY <1>1, <1>3, <1>4
<1> QED BY <1>3, <1>4, <1>6, <1>7, <1>8, <1>9

\* Only the summands of the set matter.
LEMMA SumSame ==
  ASSUME NEW w, NEW v, NEW S, IsFiniteSet(S), \A i \in S : w[i] = v[i]
  PROVE  SumFunctionOnSet(w, S) = SumFunctionOnSet(v, S)
<1> DEFINE T == {r \in SUBSET S : SumFunctionOnSet(w, r) # SumFunctionOnSet(v, r)}
<1> SUFFICES ASSUME T # {} PROVE FALSE
  OBVIOUS
<1>1. PICK r \in T : \A q \in T : q \subseteq r => q = r
  <2>1. T \subseteq SUBSET S
    OBVIOUS
  <2> HIDE DEF T
  <2> QED BY <2>1, LeastSubset
<1>2. IsFiniteSet(r)
  BY <1>1, FS_Subset
<1>3. r # {}
  BY <1>1, <1>2, SumPick
<1>4. Pick(r) \in r
  BY <1>3, PickIn
<1>5. SumFunctionOnSet(w, r \ {Pick(r)}) = SumFunctionOnSet(v, r \ {Pick(r)})
  BY <1>1, <1>4
<1>6. w[Pick(r)] = v[Pick(r)]
  BY <1>1, <1>4
<1> QED BY <1>1, <1>2, <1>3, <1>5, <1>6, SumPick

\* A sum of natural numbers is one.
LEMMA SumNat ==
  ASSUME NEW w, NEW S, IsFiniteSet(S), \A i \in S : w[i] \in Nat
  PROVE  SumFunctionOnSet(w, S) \in Nat
<1> DEFINE T == {r \in SUBSET S : SumFunctionOnSet(w, r) \notin Nat}
<1> SUFFICES ASSUME T # {} PROVE FALSE
  OBVIOUS
<1>1. PICK r \in T : \A q \in T : q \subseteq r => q = r
  <2>1. T \subseteq SUBSET S
    OBVIOUS
  <2> HIDE DEF T
  <2> QED BY <2>1, LeastSubset
<1>2. IsFiniteSet(r)
  BY <1>1, FS_Subset
<1>3. r # {}
  <2>1. SumFunctionOnSet(w, r) \notin Nat
    BY <1>1
  <2>2. r = {} => SumFunctionOnSet(w, r) = 0
    BY <1>2, SumPick
  <2> QED BY <2>1, <2>2
<1>4. Pick(r) \in r
  BY <1>3, PickIn
<1>5. SumFunctionOnSet(w, r \ {Pick(r)}) \in Nat
  BY <1>1, <1>4
<1> QED BY <1>1, <1>2, <1>3, <1>4, <1>5, SumPick

\* A part of natural numbers sums to no more than the whole.
LEMMA SumPart ==
  ASSUME NEW w, NEW S, IsFiniteSet(S), \A i \in S : w[i] \in Nat, NEW R, R \subseteq S
  PROVE  SumFunctionOnSet(w, R) <= SumFunctionOnSet(w, S)
<1> DEFINE T == {r \in SUBSET S : R \subseteq r /\ ~(SumFunctionOnSet(w, R) <= SumFunctionOnSet(w, r))}
<1> SUFFICES ASSUME T # {} PROVE FALSE
  OBVIOUS
<1>1. PICK r \in T : \A q \in T : q \subseteq r => q = r
  <2>1. T \subseteq SUBSET S
    OBVIOUS
  <2> HIDE DEF T
  <2> QED BY <2>1, LeastSubset
<1>2. IsFiniteSet(r) /\ IsFiniteSet(R)
  BY <1>1, FS_Subset
<1>3. SumFunctionOnSet(w, R) \in Nat
  BY <1>2, SumNat
<1>4. R # r
  BY <1>1, <1>3
<1>5. PICK e \in r : e \notin R
  BY <1>1, <1>4
<1>6. SumFunctionOnSet(w, r) = w[e] + SumFunctionOnSet(w, r \ {e})
  BY <1>1, <1>2, <1>5, SumTake
<1>7. SumFunctionOnSet(w, R) <= SumFunctionOnSet(w, r \ {e})
  BY <1>1, <1>5
<1>8. SumFunctionOnSet(w, r \ {e}) \in Nat
  <2>1. IsFiniteSet(r \ {e})
    BY <1>2, FS_Subset
  <2> QED BY <2>1, <1>1, SumNat
<1> QED BY <1>1, <1>3, <1>5, <1>6, <1>7, <1>8
=============================================================================
