----------------------------- MODULE RulesProofs -----------------------------
(***************************************************************************)
(* Proofs about AuctionRules, for every list of contributions: the winner  *)
(* the loops over the list arrive at is one the reference allows, and two  *)
(* lists of the same gifts allow the same winners.                         *)
(*                                                                         *)
(* The loops are folds, which the community modules define by functions on *)
(* the subsets of a finite set.  An argument about them, which one would   *)
(* make by induction, is made here from a least counterexample: of the     *)
(* subsets (or numbers) for which the claim fails, one has no other below, *)
(* because strict inclusion (and <) is well founded.                       *)
(***************************************************************************)
EXTENDS AuctionRules, FiniteSetTheorems, FunctionTheorems, SequenceTheorems, WellFoundedInduction, TLAPS

(* Folds and sums. *)

\* A set of naturals that is not empty has a least element.
LEMMA LeastNat ==
  ASSUME NEW S \in SUBSET Nat, S # {}
  PROVE  \E k \in S : \A j \in S : k <= j
  <1> DEFINE R == {ss \in Nat \X Nat : ss[1] < ss[2]}
  <1>1. IsWellFoundedOn(R, Nat)
    BY NatLessThanWellFounded DEF OpToRel
  <1>2. PICK k \in S : \A j \in S : <<j, k>> \notin R
    <2> HIDE DEF R
    <2> QED BY <1>1, WFMin
  <1>3. ASSUME NEW j \in S PROVE k <= j
    <2>1. k \in Nat /\ j \in Nat /\ ~(j < k)
      BY <1>2
    <2> QED BY <2>1
  <1> QED BY <1>3

\* Of finite sets, some of which are bad, one has no bad proper subset.
LEMMA LeastSubset ==
  ASSUME NEW S, IsFiniteSet(S), NEW bad, bad \subseteq SUBSET S, bad # {}
  PROVE  \E s \in bad : \A t \in bad : t \subseteq s => t = s
  <1>1. IsWellFoundedOn(StrictSubsetOrdering(S), SUBSET S)
    <2>1. FiniteSubsetsOf(S) = SUBSET S
      BY FS_FiniteSubsetsOfFinite
    <2>2. IsWellFoundedOn(StrictSubsetOrdering(S), FiniteSubsetsOf(S))
      BY FS_StrictSubsetOrderingWellFounded
    <2> QED BY <2>1, <2>2, Zenon
  <1>2. PICK s \in bad : \A t \in bad : <<t, s>> \notin StrictSubsetOrdering(S)
    BY <1>1, WFMin
  <1>3. ASSUME NEW t \in bad, t \subseteq s PROVE t = s
    BY <1>2, <1>3 DEF StrictSubsetOrdering
  <1> QED BY <1>3

\* A fold over the finite set S into A, which takes the elements out one by
\* one as pick says, and the function behind it.
CanFold(S, A, base, step, pick) ==
    /\ IsFiniteSet(S) /\ base \in A /\ step \in [S -> [A -> A]]
    /\ \A s \in SUBSET S : s # {} => pick[s] \in s

Folds(S, A, base, step, pick, g) ==
    /\ g \in [SUBSET S -> A]
    /\ g[{}] = base
    /\ \A s \in SUBSET S : s # {} => g[s] = step[pick[s]][g[s \ {pick[s]}]]

\* That function exists.
LEMMA FoldExists ==
  ASSUME NEW S, NEW A, NEW base, NEW step, NEW pick, CanFold(S, A, base, step, pick)
  PROVE  \E g : Folds(S, A, base, step, pick, g)
  <1> USE DEF CanFold
  <1> DEFINE Turn(g, s) == IF s = {} THEN base ELSE step[pick[s]][g[s \ {pick[s]}]]
             Upto(k) == \E g \in [SUBSET S -> A] : \A s \in SUBSET S : Cardinality(s) <= k => g[s] = Turn(g, s)
             bad == {k \in Nat : ~Upto(k)}
  <1>0. \A s \in SUBSET S : IsFiniteSet(s) /\ Cardinality(s) \in Nat /\ Cardinality(s) <= Cardinality(S)
    BY FS_Subset, FS_CardinalityType
  <1>1. \A s \in SUBSET S : s # {} => /\ s \ {pick[s]} \in SUBSET S
                                      /\ Cardinality(s \ {pick[s]}) = Cardinality(s) - 1
                                      /\ Cardinality(s) # 0
    BY <1>0, FS_RemoveElement, FS_EmptySet
  <1>2. \A g \in [SUBSET S -> A], s \in SUBSET S : Turn(g, s) \in A
    BY <1>1
  <1>3. Upto(0)
    <2>1. [s \in SUBSET S |-> base] \in [SUBSET S -> A]
      OBVIOUS
    <2>2. ASSUME NEW s \in SUBSET S, Cardinality(s) <= 0 PROVE s = {}
      <3>1. Cardinality(s) = 0
        BY <1>0, <2>2
      <3> QED BY <1>1, <3>1
    <2> QED BY <2>1, <2>2
  <1>4. ASSUME NEW k \in Nat, Upto(k) PROVE Upto(k + 1)
    <2>1. PICK g \in [SUBSET S -> A] : \A s \in SUBSET S : Cardinality(s) <= k => g[s] = Turn(g, s)
      BY <1>4
    <2> DEFINE h == [s \in SUBSET S |-> IF Cardinality(s) <= k THEN g[s] ELSE Turn(g, s)]
    <2>2. h \in [SUBSET S -> A]
      <3>1. \A s \in SUBSET S : g[s] \in A /\ Turn(g, s) \in A
        BY <1>2, <2>1
      <3> HIDE DEF Turn
      <3> QED BY <3>1
    <2>3. \A s \in SUBSET S : Cardinality(s) <= k => h[s] = g[s]
      <3> HIDE DEF Turn
      <3> QED OBVIOUS
    <2>4. ASSUME NEW s \in SUBSET S, Cardinality(s) <= k + 1 PROVE h[s] = Turn(h, s)
      <3>1. Turn(h, s) = Turn(g, s)
        <4>1. CASE s = {}
          <5> HIDE DEF h
          <5> QED BY <4>1
        <4>2. CASE s # {}
          <5>1. s \ {pick[s]} \in SUBSET S /\ Cardinality(s \ {pick[s]}) <= k
            BY <1>0, <1>1, <2>4, <4>2
          <5>2. h[s \ {pick[s]}] = g[s \ {pick[s]}]
            <6> HIDE DEF h, Turn
            <6> QED BY <2>3, <5>1
          <5> HIDE DEF h
          <5> QED BY <4>2, <5>2
        <4> HIDE DEF h, Turn
        <4> QED BY <4>1, <4>2
      <3>2. h[s] = Turn(g, s)
        <4> HIDE DEF Turn
        <4> QED BY <2>1
      <3> HIDE DEF h, Turn
      <3> QED BY <3>1, <3>2, Zenon
    <2> HIDE DEF h, Turn
    <2> QED BY <2>2, <2>4
  <1> HIDE DEF Turn
  <1>5. bad = {}
    <2> SUFFICES ASSUME bad # {} PROVE FALSE
      OBVIOUS
    <2> HIDE DEF Upto
    <2>1. PICK k \in bad : \A j \in bad : k <= j
      BY LeastNat
    <2>2. k \in Nat /\ k # 0 /\ ~Upto(k)
      BY <1>3, <2>1
    <2>3. k - 1 \in Nat /\ ~(k <= k - 1) /\ (k - 1) + 1 = k
      BY <2>2
    <2>4. Upto(k - 1)
      BY <2>1, <2>3
    <2> QED BY <1>4, <2>2, <2>3, <2>4
  <1>6. Upto(Cardinality(S))
    <2> HIDE DEF Upto
    <2> QED BY <1>0, <1>5
  <1> QED
    <2>1. PICK g \in [SUBSET S -> A] : \A s \in SUBSET S : Cardinality(s) <= Cardinality(S) => g[s] = Turn(g, s)
      BY <1>6
    <2>2. \A s \in SUBSET S : g[s] = Turn(g, s)
      BY <1>0, <2>1
    <2>3. g[{}] = base
      BY <2>2 DEF Turn
    <2>4. \A s \in SUBSET S : s # {} => g[s] = step[pick[s]][g[s \ {pick[s]}]]
      BY <2>2 DEF Turn
    <2> HIDE DEF Turn
    <2> QED BY <2>1, <2>3, <2>4 DEF Folds

\* What the function behind the sum of f over parts of S satisfies.
IsSum(f, S, g) ==
    g = [s \in SUBSET S |-> IF s = {} THEN 0
                            ELSE f[CHOOSE x \in s : TRUE] + g[s \ {CHOOSE x \in s : TRUE}]]

\* There is only one such function.
LEMMA SumUnique ==
  ASSUME NEW S, IsFiniteSet(S), NEW f, NEW g, NEW h, NEW T, IsSum(f, T, g), IsSum(f, S, h), S \subseteq T
  PROVE  \A s \in SUBSET S : g[s] = h[s]
  <1> DEFINE bad == {s \in SUBSET S : g[s] # h[s]}
  <1> SUFFICES ASSUME bad # {} PROVE FALSE
    OBVIOUS
  <1>1. bad \subseteq SUBSET S
    OBVIOUS
  <1>2. PICK s \in bad : \A t \in bad : t \subseteq s => t = s
    <2> HIDE DEF bad
    <2> QED BY <1>1, LeastSubset
  <1>3. s # {} /\ s \in SUBSET S /\ s \in SUBSET T
    BY <1>2 DEF IsSum
  <1> DEFINE c == CHOOSE x \in s : TRUE
  <1>4. c \in s
    BY <1>3
  <1>5. s \ {c} \in SUBSET S /\ s \ {c} # s
    BY <1>3, <1>4
  <1>6. g[s \ {c}] = h[s \ {c}]
    BY <1>2, <1>5
  <1>7. g[s] = f[c] + g[s \ {c}] /\ h[s] = f[c] + h[s \ {c}]
    BY <1>3 DEF IsSum
  <1> QED BY <1>2, <1>6, <1>7

\* The sum of f over a finite set is found by that function, in the naturals.
LEMMA SumExists ==
  ASSUME NEW S, IsFiniteSet(S), NEW f, \A x \in S : f[x] \in Nat
  PROVE  \E g \in [SUBSET S -> Nat] : IsSum(f, S, g) /\ SumFunctionOnSet(f, S) = g[S]
  <1> DEFINE pick == [s \in SUBSET S |-> CHOOSE x \in s : TRUE]
             plus == [x \in S |-> [n \in Nat |-> f[x] + n]]
             iter == CHOOSE g : IsSum(f, S, g)
  <1>1. CanFold(S, Nat, 0, plus, pick)
    BY DEF CanFold
  <1>2. \A s \in SUBSET S : s # {} => pick[s] \in s
    OBVIOUS
  <1>3. PICK g \in [SUBSET S -> Nat] :
            /\ g[{}] = 0
            /\ \A s \in SUBSET S : s # {} => g[s] = plus[pick[s]][g[s \ {pick[s]}]]
    <2> HIDE DEF plus, pick, iter
    <2>1. PICK g : Folds(S, Nat, 0, plus, pick, g)
      BY <1>1, FoldExists
    <2> QED BY <2>1 DEF Folds
  <1>4. IsSum(f, S, g)
    <2>1. ASSUME NEW s \in SUBSET S, s # {}
          PROVE  g[s] = f[CHOOSE x \in s : TRUE] + g[s \ {CHOOSE x \in s : TRUE}]
      <3>1. pick[s] = (CHOOSE x \in s : TRUE) /\ pick[s] \in S /\ g[s \ {pick[s]}] \in Nat
        BY <1>2, <2>1
      <3>2. g[s] = plus[pick[s]][g[s \ {pick[s]}]]
        BY <1>3, <2>1
      <3> HIDE DEF pick
      <3> QED BY <3>1, <3>2
    <2>2. g[{}] = 0
      BY <1>3
    <2> HIDE DEF plus, pick
    <2> QED BY <1>3, <2>1, <2>2 DEF IsSum
  <1>5. IsSum(f, S, iter)
    BY <1>4
  <1>6. SumFunctionOnSet(f, S) = iter[S]
    BY DEF SumFunctionOnSet, FoldFunctionOnSet, MapThenFoldSet, IsSum
  <1> HIDE DEF iter
  <1>7. \A s \in SUBSET S : iter[s] = g[s]
    BY <1>4, <1>5, SumUnique
  <1>8. iter = [s \in SUBSET S |-> iter[s]] /\ g = [s \in SUBSET S |-> g[s]]
    BY <1>5 DEF IsSum
  <1>9. iter = g
    BY <1>7, <1>8
  <1> QED BY <1>4, <1>6, <1>9

\* So a sum is a natural number, that of nothing is 0, and one element of the
\* others is taken out first.
LEMMA SumFirst ==
  ASSUME NEW S, IsFiniteSet(S), NEW f, \A x \in S : f[x] \in Nat
  PROVE  /\ SumFunctionOnSet(f, S) \in Nat
         /\ S = {} => SumFunctionOnSet(f, S) = 0
         /\ S # {} => \E x \in S : SumFunctionOnSet(f, S) = f[x] + SumFunctionOnSet(f, S \ {x})
  <1>1. PICK g \in [SUBSET S -> Nat] : IsSum(f, S, g) /\ SumFunctionOnSet(f, S) = g[S]
    BY SumExists
  <1>2. SumFunctionOnSet(f, S) \in Nat /\ (S = {} => SumFunctionOnSet(f, S) = 0)
    BY <1>1 DEF IsSum
  <1>3. ASSUME S # {} PROVE \E x \in S : SumFunctionOnSet(f, S) = f[x] + SumFunctionOnSet(f, S \ {x})
    <2>1. PICK x \in S : x = CHOOSE y \in S : TRUE
      BY <1>3
    <2>2. IsFiniteSet(S \ {x}) /\ \A y \in S \ {x} : f[y] \in Nat
      BY FS_Subset
    <2>3. PICK h \in [SUBSET (S \ {x}) -> Nat] :
              IsSum(f, S \ {x}, h) /\ SumFunctionOnSet(f, S \ {x}) = h[S \ {x}]
      BY <2>2, SumExists
    <2>4. g[S \ {x}] = h[S \ {x}]
      BY <1>1, <2>2, <2>3, SumUnique
    <2>5. g[S] = f[x] + g[S \ {x}]
      BY <1>1, <1>3, <2>1 DEF IsSum
    <2> QED BY <1>1, <2>3, <2>4, <2>5
  <1> QED BY <1>2, <1>3

\* Any element can be taken out first.
LEMMA SumTake ==
  ASSUME NEW S, IsFiniteSet(S), NEW f, \A x \in S : f[x] \in Nat, NEW e \in S
  PROVE  SumFunctionOnSet(f, S) = f[e] + SumFunctionOnSet(f, S \ {e})
  <1> DEFINE bad == {s \in SUBSET S : \E x \in s : SumFunctionOnSet(f, s) # f[x] + SumFunctionOnSet(f, s \ {x})}
  <1> SUFFICES ASSUME bad # {} PROVE FALSE
    OBVIOUS
  <1>1. bad \subseteq SUBSET S
    OBVIOUS
  <1>2. PICK s \in bad : \A t \in bad : t \subseteq s => t = s
    <2> HIDE DEF bad
    <2> QED BY <1>1, LeastSubset
  <1>3. PICK x \in s : SumFunctionOnSet(f, s) # f[x] + SumFunctionOnSet(f, s \ {x})
    BY <1>2
  <1>4. s \in SUBSET S /\ \A t \in SUBSET s : IsFiniteSet(t) /\ \A z \in t : f[z] \in Nat
    BY <1>2, FS_Subset
  <1>5. PICK y \in s : SumFunctionOnSet(f, s) = f[y] + SumFunctionOnSet(f, s \ {y})
    BY <1>3, <1>4, SumFirst
  <1>6. x # y
    BY <1>3, <1>5
  <1>7. \A z \in s : s \ {z} \notin bad /\ s \ {z} \in SUBSET S
    BY <1>2, <1>4
  <1>8. SumFunctionOnSet(f, s \ {y}) = f[x] + SumFunctionOnSet(f, (s \ {y}) \ {x})
    BY <1>6, <1>7
  <1>9. SumFunctionOnSet(f, s \ {x}) = f[y] + SumFunctionOnSet(f, (s \ {x}) \ {y})
    BY <1>6, <1>7
  <1>10. (s \ {x}) \ {y} = (s \ {y}) \ {x}
    OBVIOUS
  <1>11. SumFunctionOnSet(f, (s \ {x}) \ {y}) \in Nat /\ f[x] \in Nat /\ f[y] \in Nat
    <2>1. (s \ {x}) \ {y} \in SUBSET s
      OBVIOUS
    <2> QED BY <1>4, <2>1, SumFirst
  <1>12. SumFunctionOnSet(f, (s \ {x}) \ {y}) = SumFunctionOnSet(f, (s \ {y}) \ {x})
    BY <1>10
  <1> HIDE DEF bad
  <1> QED BY <1>3, <1>5, <1>8, <1>9, <1>11, <1>12

\* ... or added.
LEMMA SumAdd ==
  ASSUME NEW S, IsFiniteSet(S), NEW f, \A x \in S : f[x] \in Nat, NEW e, e \notin S, f[e] \in Nat
  PROVE  SumFunctionOnSet(f, S \cup {e}) = f[e] + SumFunctionOnSet(f, S)
  <1>1. IsFiniteSet(S \cup {e}) /\ (S \cup {e}) \ {e} = S
    BY FS_AddElement
  <1> QED BY <1>1, SumTake

\* The image of a finite set is finite.
LEMMA FiniteImage ==
  ASSUME NEW S, IsFiniteSet(S), NEW h
  PROVE  IsFiniteSet({h[x] : x \in S})
  <1> DEFINE img == {h[x] : x \in S}
             onto == [x \in S |-> h[x]]
  <1>1. onto \in Surjection(S, img)
    BY DEF Surjection
  <1> HIDE DEF img, onto
  <1>2. IsFiniteSet(img)
    BY <1>1, FS_Surjection
  <1> QED BY <1>2 DEF img

\* The sum depends on the values at its indices, which may be renamed.
LEMMA SumImage ==
  ASSUME NEW S, IsFiniteSet(S), NEW f, \A x \in S : f[x] \in Nat,
         NEW g, NEW h, \A x \in S : g[h[x]] = f[x], \A x, y \in S : h[x] = h[y] => x = y
  PROVE  SumFunctionOnSet(f, S) = SumFunctionOnSet(g, {h[x] : x \in S})
  <1> DEFINE bad == {s \in SUBSET S : SumFunctionOnSet(f, s) # SumFunctionOnSet(g, {h[x] : x \in s})}
  <1> SUFFICES ASSUME bad # {} PROVE FALSE
    OBVIOUS
  <1>1. bad \subseteq SUBSET S
    OBVIOUS
  <1>2. PICK s \in bad : \A t \in bad : t \subseteq s => t = s
    <2> HIDE DEF bad
    <2> QED BY <1>1, LeastSubset
  <1>3. s \in SUBSET S /\ IsFiniteSet(s) /\ \A x \in s : f[x] \in Nat
    BY <1>2, FS_Subset
  <1>4. IsFiniteSet({h[x] : x \in s})
    BY <1>3, FiniteImage
  <1>5. \A x \in {h[z] : z \in s} : g[x] \in Nat
    BY <1>3
  <1>6. CASE s = {}
    <2>1. SumFunctionOnSet(f, s) = 0 /\ SumFunctionOnSet(g, {h[x] : x \in s}) = 0
      BY <1>3, <1>4, <1>5, <1>6, SumFirst
    <2> QED BY <1>2, <2>1
  <1>7. CASE s # {}
    <2>1. PICK x \in s : TRUE
      BY <1>7
    <2>2. SumFunctionOnSet(f, s) = f[x] + SumFunctionOnSet(f, s \ {x})
      BY <1>3, SumTake
    <2>3. SumFunctionOnSet(g, {h[z] : z \in s})
            = g[h[x]] + SumFunctionOnSet(g, {h[z] : z \in s} \ {h[x]})
      BY <1>4, <1>5, SumTake
    <2>4. {h[z] : z \in s} \ {h[x]} = {h[z] : z \in s \ {x}}
      BY <1>3
    <2>5. SumFunctionOnSet(f, s \ {x}) = SumFunctionOnSet(g, {h[z] : z \in s \ {x}})
      BY <1>2, <1>3
    <2>6. g[h[x]] = f[x]
      BY <1>3
    <2> QED BY <1>2, <2>2, <2>3, <2>4, <2>5, <2>6
  <1> QED BY <1>6, <1>7

\* It is the sum over the part of another function that has the same values.
LEMMA SumSame ==
  ASSUME NEW S, IsFiniteSet(S), NEW f, \A x \in S : f[x] \in Nat, NEW g, \A x \in S : g[x] = f[x]
  PROVE  SumFunctionOnSet(f, S) = SumFunctionOnSet(g, S)
  <1> DEFINE h == [x \in S |-> x]
  <1>1. S = {h[x] : x \in S} /\ (\A x \in S : g[h[x]] = f[x]) /\ (\A x, y \in S : h[x] = h[y] => x = y)
    OBVIOUS
  <1> HIDE DEF h
  <1> QED BY <1>1, SumImage

\* It grows with the set.
LEMMA SumGrows ==
  ASSUME NEW T, IsFiniteSet(T), NEW f, \A x \in T : f[x] \in Nat, NEW S \in SUBSET T
  PROVE  SumFunctionOnSet(f, S) <= SumFunctionOnSet(f, T)
  <1> DEFINE bad == {s \in SUBSET T : S \subseteq s /\ ~(SumFunctionOnSet(f, S) <= SumFunctionOnSet(f, s))}
  <1> SUFFICES ASSUME bad # {} PROVE FALSE
    OBVIOUS
  <1>1. bad \subseteq SUBSET T
    OBVIOUS
  <1>2. PICK s \in bad : \A t \in bad : t \subseteq s => t = s
    <2> HIDE DEF bad
    <2> QED BY <1>1, LeastSubset
  <1>3. \A t \in SUBSET T : IsFiniteSet(t) /\ \A x \in t : f[x] \in Nat
    BY FS_Subset
  <1>4. \A t \in SUBSET T : SumFunctionOnSet(f, t) \in Nat
    BY <1>3, SumFirst
  <1>5. s # S
    BY <1>2, <1>4
  <1>6. PICK x \in s : x \notin S
    BY <1>2, <1>5
  <1>7. SumFunctionOnSet(f, s) = f[x] + SumFunctionOnSet(f, s \ {x})
    BY <1>2, <1>3, SumTake
  <1>8. SumFunctionOnSet(f, S) <= SumFunctionOnSet(f, s \ {x})
    BY <1>2, <1>6
  <1>9. f[x] \in Nat /\ s \ {x} \in SUBSET T
    BY <1>2
  <1> QED BY <1>2, <1>4, <1>7, <1>8, <1>9

\* A finite set of naturals has a greatest element.
LEMMA MaxIsGreatest ==
  ASSUME NEW S, S \in SUBSET Nat, IsFiniteSet(S), S # {}
  PROVE  Max(S) \in S /\ Max(S) \in Nat /\ \A x \in S : x <= Max(S)
  <1> DEFINE bad == {s \in SUBSET S : s # {} /\ ~\E m \in s : \A x \in s : m >= x}
  <1>1. \A s \in bad : s \in SUBSET S
    OBVIOUS
  <1>2. bad = {}
    <2> SUFFICES ASSUME bad # {} PROVE FALSE
      OBVIOUS
    <2>1. PICK s \in bad : \A t \in bad : t \subseteq s => t = s
      <3> HIDE DEF bad
      <3> QED BY <1>1, LeastSubset
    <2>2. PICK e \in s : TRUE
      BY <2>1
    <2>3. s \ {e} \notin bad /\ s \ {e} \in SUBSET S
      BY <2>1
    <2>4. CASE s \ {e} = {}
      BY <2>1, <2>4
    <2>5. CASE s \ {e} # {}
      <3>1. PICK m \in s \ {e} : \A x \in s \ {e} : m >= x
        BY <2>3, <2>5
      <3>2. m \in Nat /\ e \in Nat /\ \A x \in s : x \in Nat
        BY <2>1
      <3>3. (\A x \in s : m >= x) \/ (\A x \in s : e >= x)
        BY <3>1, <3>2
      <3> QED BY <2>1, <3>3
    <2> QED BY <2>4, <2>5
  <1>3. \E m \in S : \A x \in S : m >= x
    BY <1>2
  <1>4. Max(S) \in S /\ \A x \in S : Max(S) >= x
    BY <1>3 DEF Max
  <1> QED BY <1>4

\* Any set of them has a least one.
LEMMA MinIsLeast ==
  ASSUME NEW S, S \in SUBSET Nat, S # {}
  PROVE  Min(S) \in S /\ Min(S) \in Nat /\ \A x \in S : Min(S) <= x
  <1>1. \E m \in S : \A x \in S : m <= x
    BY LeastNat
  <1> QED BY <1>1 DEF Min

(* The loop that adds up by user. *)

\* One turn of the loop in Totals, and what the function behind its fold
\* satisfies.
AddOne(sums, c) == [sums EXCEPT ![c.user] = @ + c.coins]

IsTotal(list, g) ==
    g = [s \in SUBSET DOMAIN list |->
            IF s = {} THEN [u \in UsersOf(list) |-> 0]
            ELSE AddOne(g[s \ {Max(s)}], list[Max(s)])]

\* There is only one such function.
LEMMA TotalUnique ==
  ASSUME NEW C, NEW list \in Seq(C), NEW g, NEW h, IsTotal(list, g), IsTotal(list, h)
  PROVE  \A s \in SUBSET DOMAIN list : g[s] = h[s]
  <1> DEFINE bad == {s \in SUBSET DOMAIN list : g[s] # h[s]}
  <1> SUFFICES ASSUME bad # {} PROVE FALSE
    OBVIOUS
  <1>1. bad \subseteq SUBSET DOMAIN list /\ IsFiniteSet(DOMAIN list)
    BY FS_Interval
  <1>2. PICK s \in bad : \A t \in bad : t \subseteq s => t = s
    <2> HIDE DEF bad
    <2> QED BY <1>1, LeastSubset
  <1>3. s # {} /\ s \in SUBSET DOMAIN list
    BY <1>2 DEF IsTotal
  <1>4. Max(s) \in s
    <2>1. s \in SUBSET Nat /\ IsFiniteSet(s)
      BY <1>1, <1>3, FS_Subset
    <2> QED BY <1>3, <2>1, MaxIsGreatest
  <1>5. g[s \ {Max(s)}] = h[s \ {Max(s)}]
    BY <1>2, <1>3, <1>4
  <1>6. g[s] = AddOne(g[s \ {Max(s)}], list[Max(s)])
    BY <1>3 DEF IsTotal
  <1>7. h[s] = AddOne(h[s \ {Max(s)}], list[Max(s)])
    BY <1>3 DEF IsTotal
  <1>8. g[s] # h[s]
    BY <1>2
  <1> QED BY <1>5, <1>6, <1>7, <1>8

CoinsIn(list) == [i \in DOMAIN list |-> list[i].coins]

\* The loop gives each user the sum of his contributions.
LEMMA TotalsAreSums ==
  ASSUME NEW C, \A c \in C : c.coins \in Nat, NEW list \in Seq(C)
  PROVE  Totals(list) = [u \in UsersOf(list) |->
                            SumFunctionOnSet(CoinsIn(list), {i \in DOMAIN list : list[i].user = u})]
  <1> DEFINE By(s, u) == {i \in s : list[i].user = u}
             D == DOMAIN list
             U == UsersOf(list)
             f == CoinsIn(list)
             g == [s \in SUBSET D |-> [u \in U |-> SumFunctionOnSet(f, By(s, u))]]
             iter == CHOOSE h : IsTotal(list, h)
  <1>1. D = 1 .. Len(list) /\ IsFiniteSet(D) /\ D \in SUBSET Nat /\ \A i \in D : f[i] \in Nat
    <2>1. D = 1 .. Len(list) /\ Len(list) \in Nat
      OBVIOUS
    <2>2. IsFiniteSet(1 .. Len(list))
      BY <2>1, FS_Interval
    <2>3. \A i \in D : f[i] \in Nat
      BY DEF CoinsIn
    <2> QED BY <2>1, <2>2, <2>3
  <1>2. \A s \in SUBSET D : IsFiniteSet(s)
    BY <1>1, FS_Subset
  <1> HIDE DEF f
  <1>3. ASSUME NEW s \in SUBSET D, s = {}
        PROVE  g[s] = [u \in U |-> 0]
    <2>1. \A u : SumFunctionOnSet(f, By(s, u)) = 0
      BY <1>1, <1>2, <1>3, SumFirst
    <2> QED BY <2>1
  <1>4. ASSUME NEW s \in SUBSET D, s # {}
        PROVE  g[s] = AddOne(g[s \ {Max(s)}], list[Max(s)])
    <2> DEFINE m == Max(s)
               r == s \ {m}
    <2>1. m \in s /\ m \in D
      BY <1>1, <1>2, <1>4, MaxIsGreatest
    <2>2. f[m] = list[m].coins /\ list[m].user \in U
      BY <2>1 DEF CoinsIn, f, UsersOf
    <2>3. ASSUME NEW u \in U
          PROVE  SumFunctionOnSet(f, By(s, u))
                   = IF u = list[m].user THEN SumFunctionOnSet(f, By(r, u)) + f[m] ELSE SumFunctionOnSet(f, By(r, u))
      <3>1. CASE u = list[m].user
        <4>1. By(s, u) \in SUBSET D /\ m \in By(s, u) /\ By(s, u) \ {m} = By(r, u)
          BY <2>1, <3>1
        <4>0. IsFiniteSet(By(s, u)) /\ \A x \in By(s, u) : f[x] \in Nat
          BY <4>1, <1>1, <1>2
        <4>2. SumFunctionOnSet(f, By(s, u)) = f[m] + SumFunctionOnSet(f, By(r, u))
          <5> HIDE DEF By, r, m
          <5>1. SumFunctionOnSet(f, By(s, u)) = f[m] + SumFunctionOnSet(f, By(s, u) \ {m})
            BY <4>1, <4>0, SumTake
          <5> QED BY <4>1, <5>1
        <4>3. SumFunctionOnSet(f, By(r, u)) \in Nat /\ f[m] \in Nat
          BY <1>1, <1>2, <2>1, SumFirst
        <4> QED BY <3>1, <4>2, <4>3
      <3>2. CASE u # list[m].user
        <4>1. By(s, u) = By(r, u)
          BY <2>1, <3>2
        <4> QED BY <3>2, <4>1
      <3> QED BY <3>1, <3>2
    <2>4. g[s] = [u \in U |-> SumFunctionOnSet(f, By(s, u))] /\ g[r] = [u \in U |-> SumFunctionOnSet(f, By(r, u))]
      OBVIOUS
    <2> HIDE DEF By, g, m, r
    <2>5. g[s] = [g[r] EXCEPT ![list[m].user] = @ + f[m]]
      BY <2>2, <2>3, <2>4
    <2> QED BY <2>2, <2>5 DEF m, r, AddOne
  <1>5. IsTotal(list, g)
    <2>1. DOMAIN g = SUBSET D
      OBVIOUS
    <2>2. g = [s \in SUBSET D |-> g[s]]
      OBVIOUS
    <2> HIDE DEF g
    <2> QED BY <1>3, <1>4, <2>2 DEF IsTotal
  <1>6. IsTotal(list, iter)
    <2> HIDE DEF g
    <2> QED BY <1>5
  <1>7. Totals(list) = iter[D]
    BY DEF Totals, FoldLeft, MapThenFoldSet, IsTotal, AddOne
  <1>8. iter[D] = g[D]
    <2> HIDE DEF g, iter
    <2> QED BY <1>5, <1>6, TotalUnique
  <1> QED BY <1>7, <1>8 DEF f

(* The loop over the contributions. *)

\* What the function behind the fold of Scan satisfies.
IsScan(list, seen, g) ==
    g = [s \in SUBSET DOMAIN list |->
            IF s = {} THEN [seen |-> seen, valid |-> << >>, duplicates |-> TRUE]
            ELSE ScanOne(g[s \ {Max(s)}], list[Max(s)])]

\* There is only one such function.
LEMMA ScanUnique ==
  ASSUME NEW C, NEW list \in Seq(C), NEW seen, NEW g, NEW h, IsScan(list, seen, g), IsScan(list, seen, h)
  PROVE  \A s \in SUBSET DOMAIN list : g[s] = h[s]
  <1> DEFINE bad == {s \in SUBSET DOMAIN list : g[s] # h[s]}
  <1> SUFFICES ASSUME bad # {} PROVE FALSE
    OBVIOUS
  <1>1. bad \subseteq SUBSET DOMAIN list /\ IsFiniteSet(DOMAIN list)
    BY FS_Interval
  <1>2. PICK s \in bad : \A t \in bad : t \subseteq s => t = s
    <2> HIDE DEF bad
    <2> QED BY <1>1, LeastSubset
  <1>3. s # {} /\ s \in SUBSET DOMAIN list
    BY <1>2 DEF IsScan
  <1>4. Max(s) \in s
    <2>1. s \in SUBSET Nat /\ IsFiniteSet(s)
      BY <1>1, <1>3, FS_Subset
    <2> QED BY <1>3, <2>1, MaxIsGreatest
  <1>5. g[s \ {Max(s)}] = h[s \ {Max(s)}]
    BY <1>2, <1>3, <1>4
  <1>6. g[s] = ScanOne(g[s \ {Max(s)}], list[Max(s)])
    BY <1>3 DEF IsScan
  <1>7. h[s] = ScanOne(h[s \ {Max(s)}], list[Max(s)])
    BY <1>3 DEF IsScan
  <1>8. g[s] # h[s]
    BY <1>2
  <1> QED BY <1>5, <1>6, <1>7, <1>8

\* What the loop keeps, of contributions from C with events from E.
Acc(C, E) == [seen : SUBSET E, valid : Seq(C), duplicates : BOOLEAN]

\* One turn keeps the type of that.
LEMMA ScanOneType ==
  ASSUME NEW C, NEW E, NEW acc \in Acc(C, E), NEW c \in C, c.event \in E
  PROVE  ScanOne(acc, c) \in Acc(C, E)
  BY DEF Acc, ScanOne

\* g is the function behind Scan, over accumulators from A.
Runs(list, seen, A, g) ==
    g \in [SUBSET DOMAIN list -> A] /\ IsScan(list, seen, g) /\ Scan(list, seen) = g[DOMAIN list]

\* The function behind Scan exists.
LEMMA ScanExists ==
  ASSUME NEW C, NEW E, \A c \in C : c.event \in E, NEW list \in Seq(C), NEW seen \in SUBSET E
  PROVE  \E g : Runs(list, seen, Acc(C, E), g)
  <1> DEFINE D == DOMAIN list
             A == Acc(C, E)
             base == [seen |-> seen, valid |-> << >>, duplicates |-> TRUE]
             pick == [s \in SUBSET D |-> Max(s)]
             step == [i \in D |-> [acc \in A |-> ScanOne(acc, list[i])]]
             iter == CHOOSE h : IsScan(list, seen, h)
  <1>1. IsFiniteSet(D) /\ \A s \in SUBSET D : s # {} => Max(s) \in s
    <2>1. IsFiniteSet(D)
      BY FS_Interval
    <2>2. ASSUME NEW s \in SUBSET D, s # {} PROVE Max(s) \in s
      <3>1. s \in SUBSET Nat /\ IsFiniteSet(s)
        BY <2>1, FS_Subset
      <3> QED BY <2>2, <3>1, MaxIsGreatest
    <2> QED BY <2>1, <2>2
  <1>2. base \in A
    BY DEF Acc
  <1>3. step \in [D -> [A -> A]]
    <2>1. \A i \in D, acc \in A : ScanOne(acc, list[i]) \in A
      BY ScanOneType
    <2> HIDE DEF A
    <2> QED BY <2>1
  <1>4. CanFold(D, A, base, step, pick)
    <2>1. \A s \in SUBSET D : s # {} => pick[s] \in s
      BY <1>1
    <2> HIDE DEF D, A, base, step, pick
    <2> QED BY <1>1, <1>2, <1>3, <2>1 DEF CanFold
  <1>5. PICK g : Folds(D, A, base, step, pick, g)
    <2> HIDE DEF D, A, base, step, pick, iter
    <2> QED BY <1>4, FoldExists
  <1>6. g \in [SUBSET D -> A] /\ g[{}] = base
    BY <1>5 DEF Folds
  <1>7. ASSUME NEW s \in SUBSET D, s # {} PROVE g[s] = ScanOne(g[s \ {Max(s)}], list[Max(s)])
    <2>1. g[s] = step[pick[s]][g[s \ {pick[s]}]]
      BY <1>5, <1>7 DEF Folds
    <2>2. pick[s] = Max(s) /\ Max(s) \in D
      BY <1>1, <1>7
    <2>3. g[s \ {Max(s)}] \in A
      <3> HIDE DEF A
      <3> QED BY <1>6
    <2>4. step[Max(s)][g[s \ {Max(s)}]] = ScanOne(g[s \ {Max(s)}], list[Max(s)])
      <3> HIDE DEF A
      <3> QED BY <2>2, <2>3
    <2> HIDE DEF pick, step
    <2> QED BY <2>1, <2>2, <2>4
  <1>8. IsScan(list, seen, g)
    <2>1. g = [s \in SUBSET D |-> g[s]]
      BY <1>6
    <2> HIDE DEF A, pick, step
    <2> QED BY <1>6, <1>7, <2>1 DEF IsScan
  <1>9. IsScan(list, seen, iter)
    BY <1>8
  <1>10. Scan(list, seen) = iter[D]
    BY DEF Scan, FoldLeft, MapThenFoldSet, IsScan
  <1>11. iter[D] = g[D]
    <2> HIDE DEF iter
    <2> QED BY <1>8, <1>9, ScanUnique
  <1> QED
    <2> HIDE DEF iter, step, pick, base
    <2> QED BY <1>6, <1>8, <1>10, <1>11 DEF Runs

\* The list `valid' consists of the contributions that count among the first
\* n of list: its k-th is number at[k] there.
Keeps(list, seen, n, valid, at) ==
    LET counted == Counted(list, seen) \cap (1 .. n) IN
    /\ at \in [DOMAIN valid -> counted]
    /\ \A k \in DOMAIN valid : valid[k] = list[at[k]]
    /\ \A k, l \in DOMAIN valid : at[k] = at[l] => k = l
    /\ \A i \in counted : \E k \in DOMAIN valid : at[k] = i

\* One more turn of the loop keeps that so.
LEMMA KeepsMore ==
  ASSUME NEW C, NEW E, \A c \in C : c.event \in E, NEW list \in Seq(C), NEW seen \in SUBSET E,
         NEW n \in 1 .. Len(list), NEW acc \in Acc(C, E), NEW at,
         acc.seen = seen \cup {list[j].event : j \in 1 .. n - 1},
         Keeps(list, seen, n - 1, acc.valid, at)
  PROVE  LET next == ScanOne(acc, list[n]) IN
         /\ next.seen = seen \cup {list[j].event : j \in 1 .. n}
         /\ \E h : Keeps(list, seen, n, next.valid, h)
  <1> DEFINE next == ScanOne(acc, list[n])
             valid == acc.valid
             c == list[n]
  <1>1. valid \in Seq(C) /\ c \in C /\ n \in DOMAIN list /\ n \in Nat
    BY DEF Acc
  <1>2. {list[j].event : j \in 1 .. n} = {list[j].event : j \in 1 .. n - 1} \cup {c.event}
    OBVIOUS
  <1>3. n \in Counted(list, seen) <=> c.event \notin acc.seen /\ c.outcome = "ok" /\ c.coins > 0
    BY <1>1 DEF Counted
  <1>4. Counted(list, seen) \cap (1 .. n)
          = (Counted(list, seen) \cap (1 .. n - 1)) \cup (IF n \in Counted(list, seen) THEN {n} ELSE {})
    BY <1>1
  <1>5. n \notin 1 .. n - 1
    BY <1>1
  <1>6. next.seen = seen \cup {list[j].event : j \in 1 .. n}
    BY <1>2 DEF ScanOne
  <1>7. CASE n \in Counted(list, seen)
    <2>1. next.valid = Append(valid, c)
      BY <1>3, <1>7 DEF ScanOne
    <2> DEFINE m == Len(valid) + 1
               h == [k \in 1 .. m |-> IF k = m THEN n ELSE at[k]]
               new == next.valid
    <2>2. DOMAIN valid = 1 .. Len(valid) /\ DOMAIN new = 1 .. m /\ m \in Nat /\ m \notin DOMAIN valid
      BY <1>1, <2>1
    <2>3. new[m] = c /\ \A k \in DOMAIN valid : k \in DOMAIN new /\ new[k] = valid[k]
      BY <1>1, <2>1
    <2>4. h[m] = n /\ \A k \in DOMAIN valid : h[k] = at[k]
      BY <2>2
    <2>5. \A k \in DOMAIN new : k \in DOMAIN valid \/ k = m
      BY <2>2
    <2>6. Counted(list, seen) \cap (1 .. n) = (Counted(list, seen) \cap (1 .. n - 1)) \cup {n}
      BY <1>4, <1>7
    <2>7. DOMAIN h = DOMAIN new /\ h = [k \in DOMAIN h |-> h[k]]
      BY <2>2
    <2> DEFINE before == Counted(list, seen) \cap (1 .. n - 1)
    <2>8. at \in [DOMAIN valid -> before] /\ n \notin before
      BY <1>5 DEF Keeps
    <2>9. h \in [DOMAIN new -> before \cup {n}]
      <3>1. \A k \in DOMAIN new : h[k] \in before \cup {n}
        <4> HIDE DEF h, m, new, before
        <4> QED BY <2>4, <2>5, <2>8
      <3> HIDE DEF h, new, before, m
      <3> QED BY <2>7, <3>1
    <2>10. \A k \in DOMAIN new : new[k] = list[h[k]]
      <3>1. \A k \in DOMAIN valid : valid[k] = list[at[k]]
        BY DEF Keeps
      <3> HIDE DEF h, m, new, valid
      <3> QED BY <2>3, <2>4, <2>5, <3>1 DEF c
    <2>11. \A k, l \in DOMAIN new : h[k] = h[l] => k = l
      <3>1. \A k, l \in DOMAIN valid : at[k] = at[l] => k = l
        BY DEF Keeps
      <3>2. \A k \in DOMAIN valid : at[k] # n
        <4> HIDE DEF before, valid
        <4> QED BY <2>8
      <3> HIDE DEF h, m, new, valid
      <3> QED BY <2>4, <2>5, <3>1, <3>2
    <2>12. \A i \in before \cup {n} : \E k \in DOMAIN new : h[k] = i
      <3>1. \A i \in before : \E k \in DOMAIN valid : at[k] = i
        BY DEF Keeps
      <3>2. m \in DOMAIN new
        BY <2>2
      <3> HIDE DEF h, m, new, valid, before
      <3> QED BY <2>3, <2>4, <3>1, <3>2
    <2>13. Keeps(list, seen, n, new, h)
      <3> HIDE DEF h, m, new, valid
      <3> QED BY <2>6, <2>9, <2>10, <2>11, <2>12 DEF Keeps
    <2> QED BY <1>6, <2>13
  <1>8. CASE n \notin Counted(list, seen)
    <2>1. next.valid = valid
      BY <1>3, <1>8 DEF ScanOne
    <2>2. Counted(list, seen) \cap (1 .. n) = Counted(list, seen) \cap (1 .. n - 1)
      BY <1>4, <1>8
    <2>3. Keeps(list, seen, n, next.valid, at)
      <3> HIDE DEF next
      <3> QED BY <2>1, <2>2 DEF Keeps
    <2> QED BY <1>6, <2>3
  <1> QED BY <1>7, <1>8

\* The loop keeps the contributions that count, each once.
LEMMA ScanKeeps ==
  ASSUME NEW C, NEW E, \A c \in C : c.event \in E, NEW list \in Seq(C), NEW seen \in SUBSET E
  PROVE  /\ Scan(list, seen).valid \in Seq(C)
         /\ \E at : Keeps(list, seen, Len(list), Scan(list, seen).valid, at)
  <1>0. PICK g : Runs(list, seen, Acc(C, E), g)
    BY ScanExists
  <1>1. /\ g \in [SUBSET DOMAIN list -> Acc(C, E)]
        /\ IsScan(list, seen, g) /\ Scan(list, seen) = g[DOMAIN list]
    BY <1>0 DEF Runs
  <1> DEFINE N == Len(list)
             Good(n) == /\ g[1 .. n].seen = seen \cup {list[j].event : j \in 1 .. n}
                        /\ \E at : Keeps(list, seen, n, g[1 .. n].valid, at)
             bad == {n \in 0 .. N : ~Good(n)}
  <1>2. DOMAIN list = 1 .. N /\ N \in Nat /\ \A n \in 0 .. N : 1 .. n \in SUBSET DOMAIN list
    OBVIOUS
  <1>3. Good(0)
    <2>1. 1 .. 0 = {}
      OBVIOUS
    <2>2. g[{}] = [seen |-> seen, valid |-> << >>, duplicates |-> TRUE]
      BY <1>1 DEF IsScan
    <2>3. Keeps(list, seen, 0, << >>, << >>)
      BY <2>1 DEF Keeps
    <2>4. {list[j].event : j \in 1 .. 0} = {}
      BY <2>1
    <2> QED BY <2>1, <2>2, <2>3, <2>4
  <1>4. ASSUME NEW n \in 1 .. N, Good(n - 1) PROVE Good(n)
    <2>1. Max(1 .. n) = n
      <3>1. 1 .. n \in SUBSET Nat /\ IsFiniteSet(1 .. n) /\ n \in 1 .. n
        BY FS_Interval
      <3>2. Max(1 .. n) \in 1 .. n /\ n <= Max(1 .. n)
        BY <3>1, MaxIsGreatest
      <3> QED BY <3>1, <3>2
    <2>0. n \in Nat /\ n - 1 \in Nat /\ n <= N /\ N \in Nat
      OBVIOUS
    <2>2. (1 .. n) \ {n} = 1 .. n - 1 /\ n \in 1 .. n /\ n - 1 \in 0 .. N
      <3> HIDE DEF N, bad, Good
      <3> QED BY <2>0
    <2>3. g[1 .. n] = ScanOne(g[1 .. n - 1], list[n])
      <3>1. 1 .. n \in SUBSET DOMAIN list
        BY <1>2
      <3>2. g[1 .. n] = ScanOne(g[(1 .. n) \ {Max(1 .. n)}], list[Max(1 .. n)])
        BY <1>1, <2>2, <3>1 DEF IsScan
      <3> QED BY <2>1, <2>2, <3>2
    <2>4. g[1 .. n - 1] \in Acc(C, E)
      BY <1>1, <1>2, <2>2
    <2>5. PICK at : Keeps(list, seen, n - 1, g[1 .. n - 1].valid, at)
      BY <1>4
    <2>6. g[1 .. n - 1].seen = seen \cup {list[j].event : j \in 1 .. n - 1}
      BY <1>4
    <2>7. /\ ScanOne(g[1 .. n - 1], list[n]).seen = seen \cup {list[j].event : j \in 1 .. n}
          /\ \E h : Keeps(list, seen, n, ScanOne(g[1 .. n - 1], list[n]).valid, h)
      <3> DEFINE acc == g[1 .. n - 1]
      <3>1. acc \in Acc(C, E) /\ acc.seen = seen \cup {list[j].event : j \in 1 .. n - 1}
            /\ Keeps(list, seen, n - 1, acc.valid, at)
        BY <2>4, <2>5, <2>6
      <3> HIDE DEF acc, Good, bad
      <3>2. /\ ScanOne(acc, list[n]).seen = seen \cup {list[j].event : j \in 1 .. n}
            /\ \E h : Keeps(list, seen, n, ScanOne(acc, list[n]).valid, h)
        BY <3>1, KeepsMore
      <3> QED BY <3>2 DEF acc
    <2> QED BY <2>3, <2>7
  <1>5. bad = {}
    <2> SUFFICES ASSUME bad # {} PROVE FALSE
      OBVIOUS
    <2>1. PICK n \in bad : \A j \in bad : n <= j
      <3>1. bad \in SUBSET Nat
        OBVIOUS
      <3> HIDE DEF bad
      <3> QED BY <3>1, LeastNat
    <2>2. n # 0 /\ n \in 0 .. N
      <3> HIDE DEF Good
      <3> QED BY <1>3, <2>1
    <2>3. n \in 1 .. N /\ n - 1 \in 0 .. N /\ ~(n <= n - 1)
      BY <1>2, <2>2
    <2> HIDE DEF Good
    <2>4. Good(n - 1)
      BY <2>1, <2>3
    <2> QED BY <1>4, <2>1, <2>3, <2>4
  <1>6. Good(N)
    <2> HIDE DEF Good
    <2> QED BY <1>2, <1>5
  <1>7. g[DOMAIN list].valid \in Seq(C)
    BY <1>1 DEF Acc
  <1> QED BY <1>1, <1>2, <1>6, <1>7

(* The decision. *)

\* What the rules need of a contribution.
Contribution(C) ==
    \A c \in C : c.coins \in Nat /\ c.at \in Nat /\ c.user # NoUser

\* The loop keeps the users, their sums and their first contributions.
LEMMA KeptUsers ==
  ASSUME NEW C, Contribution(C), NEW list \in Seq(C), NEW seen, NEW valid \in Seq(C), NEW at,
         Keeps(list, seen, Len(list), valid, at)
  PROVE  LET counted == Counted(list, seen) IN
         /\ UsersOf(valid) = Givers(list, counted)
         /\ \A u \in UsersOf(valid) : /\ Totals(valid)[u] = Worth(list, counted, u)
                                      /\ Earliest(valid)[u] = Start(list, counted, u)
  <1> DEFINE K == Counted(list, seen)
  <1>1. Counted(list, seen) \cap (1 .. Len(list)) = K
    BY DEF Counted
  <1>2. /\ at \in [DOMAIN valid -> K]
        /\ \A k \in DOMAIN valid : valid[k] = list[at[k]]
        /\ \A k, l \in DOMAIN valid : at[k] = at[l] => k = l
        /\ \A i \in K : \E k \in DOMAIN valid : at[k] = i
    BY <1>1 DEF Keeps
  <1>3. K \subseteq DOMAIN list
    BY DEF Counted
  <1>4. \A k \in DOMAIN valid : at[k] \in DOMAIN list /\ at[k] \in K
    BY <1>2, <1>3
  <1> HIDE DEF K
  <1>5. UsersOf(valid) = Givers(list, K)
    BY <1>2, <1>4 DEF UsersOf, Givers
  <1>6. ASSUME NEW u \in UsersOf(valid)
        PROVE  Totals(valid)[u] = Worth(list, K, u)
    <2> DEFINE mine == {k \in DOMAIN valid : valid[k].user = u}
               f == CoinsIn(valid)
               g == CoinsIn(list)
    <2>1. Totals(valid) = [v \in UsersOf(valid) |->
              SumFunctionOnSet(CoinsIn(valid), {i \in DOMAIN valid : valid[i].user = v})]
      <3>1. \A c \in C : c.coins \in Nat
        BY DEF Contribution
      <3> QED BY <3>1, TotalsAreSums
    <2>2. Totals(valid)[u] = SumFunctionOnSet(f, mine)
      BY <2>1
    <2>3. IsFiniteSet(mine)
      <3>1. IsFiniteSet(DOMAIN valid) /\ mine \in SUBSET DOMAIN valid
        BY FS_Interval
      <3> QED BY <3>1, FS_Subset
    <2>4. \A k \in mine : f[k] \in Nat /\ g[at[k]] = f[k]
      BY <1>2, <1>4 DEF CoinsIn, Contribution
    <2>5. {at[k] : k \in mine} = {i \in K : list[i].user = u}
      BY <1>2, <1>4
    <2>6. SumFunctionOnSet(f, mine) = SumFunctionOnSet(g, {at[k] : k \in mine})
      <3>1. \A k, l \in mine : at[k] = at[l] => k = l
        BY <1>2
      <3> HIDE DEF mine, f, g
      <3> QED BY <2>3, <2>4, <3>1, SumImage
    <2> QED BY <2>2, <2>5, <2>6 DEF Worth, CoinsIn
  <1>7. ASSUME NEW u \in UsersOf(valid)
        PROVE  Earliest(valid)[u] = Start(list, K, u)
    <2>1. {valid[i].at : i \in {j \in DOMAIN valid : valid[j].user = u}}
            = {list[i].at : i \in {j \in K : list[j].user = u}}
      BY <1>2, <1>4
    <2>2. Earliest(valid)[u] = Min({valid[i].at : i \in {j \in DOMAIN valid : valid[j].user = u}})
      BY DEF Earliest
    <2> QED BY <2>1, <2>2 DEF Start
  <1> QED BY <1>5, <1>6, <1>7 DEF K

\* The leaders are those of U whose sum is the highest.
Lead(U, sums, leaders) == leaders = {u \in U : sums[u] = Max({sums[v] : v \in U})}

\* Among the givers there is one whom nobody outbids, and nobody outbids
\* exactly those with the highest sum.
LEMMA LeadersAreBest ==
  ASSUME NEW U, IsFiniteSet(U), U # {}, NEW sums, \A u \in U : sums[u] \in Nat,
         NEW leaders, Lead(U, sums, leaders)
  PROVE  /\ leaders # {} /\ IsFiniteSet(leaders)
         /\ \A u \in U : u \in leaders <=> \A v \in U : sums[v] <= sums[u]
  <1> DEFINE values == {sums[u] : u \in U}
             top == Max(values)
  <1>1. values \in SUBSET Nat /\ values # {}
    OBVIOUS
  <1>2. IsFiniteSet(values)
    BY FiniteImage
  <1>3. top \in values /\ \A x \in values : x <= top
    <2> HIDE DEF values
    <2> QED BY <1>1, <1>2, MaxIsGreatest
  <1>0. leaders = {u \in U : sums[u] = top}
    BY DEF Lead
  <1> HIDE DEF top
  <1>4. leaders # {}
    BY <1>3, <1>0
  <1>5. ASSUME NEW u \in U PROVE u \in leaders <=> \A v \in U : sums[v] <= sums[u]
    <2>1. ASSUME sums[u] = top PROVE \A v \in U : sums[v] <= sums[u]
      BY <1>3, <2>1
    <2>2. ASSUME \A v \in U : sums[v] <= sums[u] PROVE sums[u] = top
      <3>1. PICK w \in U : sums[w] = top
        BY <1>4, <1>0
      <3>2. sums[u] <= top /\ top <= sums[u] /\ sums[u] \in Nat /\ top \in Nat
        BY <1>3, <2>2, <3>1
      <3> QED BY <3>2
    <2> QED BY <2>1, <2>2, <1>0
  <1>6. IsFiniteSet(leaders)
    BY <1>0, FS_Subset
  <1> QED BY <1>4, <1>5, <1>6

\* The user min(leaders, key=earliest) finds is a leader, and none started
\* earlier.
LEMMA FirstIsEarliest ==
  ASSUME NEW C, Contribution(C), NEW valid \in Seq(C), NEW leaders \in SUBSET UsersOf(valid), leaders # {}
  PROVE  /\ FirstOfLeaders(valid, leaders) \in leaders
         /\ \A u \in leaders : Earliest(valid)[FirstOfLeaders(valid, leaders)] <= Earliest(valid)[u]
  <1> DEFINE early == Earliest(valid)
             starts == {early[u] : u \in leaders}
             first == Min(starts)
             theirs == {j \in DOMAIN valid : valid[j].user \in leaders /\ early[valid[j].user] = first}
  <1>1. \A u \in leaders : early[u] \in Nat
    <2>1. ASSUME NEW u \in leaders PROVE early[u] \in Nat
      <3> DEFINE ats == {valid[i].at : i \in {j \in DOMAIN valid : valid[j].user = u}}
      <3>1. ats # {} /\ ats \in SUBSET Nat
        BY DEF UsersOf, Contribution
      <3>2. early[u] = Min(ats)
        BY DEF Earliest
      <3> HIDE DEF ats
      <3> QED BY <3>1, <3>2, MinIsLeast
    <2> QED BY <2>1
  <1> HIDE DEF early
  <1>2. starts \in SUBSET Nat /\ starts # {}
    BY <1>1
  <1>3. first \in starts /\ \A x \in starts : first <= x
    <2> HIDE DEF starts
    <2> QED BY <1>2, MinIsLeast
  <1> HIDE DEF first
  <1>4. theirs # {}
    BY <1>3 DEF UsersOf
  <1>5. theirs \in SUBSET Nat
    OBVIOUS
  <1>6. Min(theirs) \in theirs
    <2> HIDE DEF theirs
    <2> QED BY <1>4, <1>5, MinIsLeast
  <1>7. FirstOfLeaders(valid, leaders) = valid[Min(theirs)].user
    BY DEF FirstOfLeaders, early, first
  <1> DEFINE w == valid[Min(theirs)].user
  <1>8. w \in leaders /\ early[w] = first
    BY <1>6
  <1> HIDE DEF w, theirs
  <1>9. \A u \in leaders : early[w] <= early[u]
    BY <1>3, <1>8
  <1> QED BY <1>7, <1>8, <1>9 DEF w, early

\* What the reference says of the decision.
DecidesRight(list, seen, tieBreak) ==
    LET result == Resolve(list, seen, tieBreak) IN
    /\ MayWin(list, seen, tieBreak, result.winner)
    /\ result.winner # NoUser => result.coins = Worth(list, Counted(list, seen), result.winner)

\* Whatever was contributed and seen, under both policies, the winner of the
\* rules is one the reference allows, and his coins are what his counted
\* contributions are worth.
THEOREM RulesDecideRight ==
  ASSUME NEW C, NEW E, Contribution(C), \A c \in C : c.event \in E,
         NEW list \in Seq(C), NEW seen \in SUBSET E, NEW tieBreak
  PROVE  DecidesRight(list, seen, tieBreak)
  <1> DEFINE valid == Scan(list, seen).valid
             K == Counted(list, seen)
             result == Resolve(list, seen, tieBreak)
             sums == Totals(valid)
             U == UsersOf(valid)
             top == Max({sums[u] : u \in DOMAIN sums})
             leaders == {u \in DOMAIN sums : sums[u] = top}
  <1> SUFFICES /\ MayWin(list, seen, tieBreak, result.winner)
               /\ result.winner # NoUser => result.coins = Worth(list, K, result.winner)
    BY DEF DecidesRight
  <1>1. valid \in Seq(C) /\ \E at : Keeps(list, seen, Len(list), valid, at)
    BY ScanKeeps
  <1>2. PICK at : Keeps(list, seen, Len(list), valid, at)
    BY <1>1
  <1>3. /\ U = Givers(list, K)
        /\ \A u \in U : sums[u] = Worth(list, K, u) /\ Earliest(valid)[u] = Start(list, K, u)
    <2> HIDE DEF valid
    <2> QED BY <1>1, <1>2, KeptUsers
  <1>4. DOMAIN sums = U /\ \A u \in U : sums[u] \in Nat
    <2>1. \A c \in C : c.coins \in Nat
      BY DEF Contribution
    <2>2. sums = [u \in U |-> SumFunctionOnSet(CoinsIn(valid), {i \in DOMAIN valid : valid[i].user = u})]
      <3> HIDE DEF valid
      <3> QED BY <1>1, <2>1, TotalsAreSums
    <2>3. ASSUME NEW u \in U
          PROVE  SumFunctionOnSet(CoinsIn(valid), {i \in DOMAIN valid : valid[i].user = u}) \in Nat
      <3> DEFINE mine == {i \in DOMAIN valid : valid[i].user = u}
      <3>1. IsFiniteSet(DOMAIN valid) /\ mine \in SUBSET DOMAIN valid
        <4> HIDE DEF valid
        <4> QED BY <1>1, FS_Interval
      <3>2. IsFiniteSet(mine)
        <4> HIDE DEF mine, valid
        <4> QED BY <3>1, FS_Subset
      <3>3. \A i \in mine : CoinsIn(valid)[i] \in Nat
        <4> HIDE DEF valid
        <4> QED BY <1>1, <2>1 DEF CoinsIn
      <3> HIDE DEF mine, valid
      <3> QED BY <3>2, <3>3, SumFirst DEF mine
    <2> HIDE DEF valid, sums, U
    <2> QED BY <2>2, <2>3
  <1> HIDE DEF valid, sums, U, K
  <1>5. CASE valid = << >>
    <2>1. U = {}
      BY <1>5 DEF U, UsersOf
    <2>2. result.winner = NoUser
      BY <1>5 DEF Resolve, Result, valid
    <2>3. Best(list, K) = {}
      BY <1>3, <2>1 DEF Best
    <2> QED BY <2>2, <2>3 DEF MayWin, K
  <1>6. CASE valid # << >>
    <2>1. U # {} /\ IsFiniteSet(U)
      <3>1. 1 \in DOMAIN valid
        BY <1>1, <1>6
      <3>2. IsFiniteSet(DOMAIN valid)
        BY <1>1, FS_Interval
      <3> DEFINE who == [i \in DOMAIN valid |-> valid[i].user]
      <3>3. U = {who[i] : i \in DOMAIN valid}
        BY DEF U, UsersOf
      <3> HIDE DEF who
      <3>4. IsFiniteSet(U)
        BY <3>2, <3>3, FiniteImage
      <3> QED BY <3>1, <3>3, <3>4
    <2>2. /\ leaders = {u \in U : \A v \in U : sums[v] <= sums[u]}
          /\ leaders # {} /\ IsFiniteSet(leaders)
      <3>1. Lead(U, sums, leaders)
        BY <1>4 DEF Lead
      <3>3. leaders # {} /\ IsFiniteSet(leaders)
            /\ \A u \in U : u \in leaders <=> \A v \in U : sums[v] <= sums[u]
        <4> HIDE DEF leaders, top
        <4> QED BY <1>4, <2>1, <3>1, LeadersAreBest
      <3>4. leaders \subseteq U
        BY <1>4
      <3> HIDE DEF leaders
      <3> QED BY <3>3, <3>4
    <2>3. leaders = Best(list, K)
      BY <1>3, <2>2 DEF Best
    <2>4. list # << >>
      <3>1. ASSUME list = << >> PROVE FALSE
        <4>1. K = {}
          BY <3>1 DEF K, Counted
        <4> QED BY <1>3, <2>1, <4>1 DEF Givers
      <3> QED BY <3>1
    <2>5. result = IF Cardinality(leaders) = 1 THEN Result("eligible", CHOOSE u \in leaders : TRUE, top)
                   ELSE IF tieBreak = "explicit" THEN Result("tie_break_explicit", NoUser, top)
                   ELSE Result("tie_break_earliest", FirstOfLeaders(valid, leaders), top)
      BY <1>6, <2>4 DEF Resolve, valid, sums
    <2>6. \A u \in leaders : top = Worth(list, K, u) /\ u \in U
      BY <1>3, <1>4
    <2> HIDE DEF leaders, top, result
    <2>7. CASE Cardinality(leaders) = 1
      <3>1. result.winner \in leaders /\ result.coins = top
        BY <2>2, <2>5, <2>7 DEF Result
      <3> QED BY <2>2, <2>3, <2>6, <2>7, <3>1 DEF MayWin, K, result
    <2>8. CASE Cardinality(leaders) # 1 /\ tieBreak = "explicit"
      <3>1. Cardinality(leaders) > 1
        BY <2>2, <2>8, FS_EmptySet, FS_CardinalityType
      <3>2. result.winner = NoUser
        BY <2>5, <2>8 DEF Result
      <3> QED BY <2>3, <2>8, <3>1, <3>2 DEF MayWin, K, result
    <2>9. CASE Cardinality(leaders) # 1 /\ tieBreak # "explicit"
      <3>1. result.winner = FirstOfLeaders(valid, leaders) /\ result.coins = top
        BY <2>5, <2>9 DEF Result
      <3>2. leaders \in SUBSET UsersOf(valid)
        BY <2>6 DEF U
      <3>3. /\ result.winner \in leaders
            /\ \A u \in leaders : Earliest(valid)[result.winner] <= Earliest(valid)[u]
        BY <1>1, <2>2, <3>1, <3>2, FirstIsEarliest
      <3>4. \A u \in leaders : Start(list, K, result.winner) <= Start(list, K, u)
        BY <1>3, <2>6, <3>3
      <3> QED BY <2>2, <2>3, <2>6, <2>9, <3>1, <3>3, <3>4 DEF MayWin, K, result
    <2> QED BY <2>7, <2>8, <2>9
  <1> QED BY <1>5, <1>6

(* The order. *)

\* The contributions that are worth something, in no order.
Worthy(list) == {c \in {list[i] : i \in DOMAIN list} : c.outcome = "ok" /\ c.coins > 0}

\* When copies agree each of them counts once.
LEMMA CountedOnce ==
  ASSUME NEW C, NEW list \in Seq(C), CopiesAgree(list)
  PROVE  /\ \A i, j \in Counted(list, {}) : list[i] = list[j] => i = j
         /\ {list[i] : i \in Counted(list, {})} = Worthy(list)
  <1> DEFINE K == Counted(list, {})
  <1>1. DOMAIN list = 1 .. Len(list) /\ Len(list) \in Nat
    OBVIOUS
  <1>2. \A i \in K : /\ i \in DOMAIN list /\ list[i].outcome = "ok" /\ list[i].coins > 0
                     /\ \A j \in 1 .. i - 1 : list[j].event # list[i].event
    BY DEF Counted
  <1>3. ASSUME NEW i \in K, NEW j \in K, list[i] = list[j] PROVE i = j
    <2>1. ~(i < j) /\ ~(j < i)
      BY <1>1, <1>2, <1>3
    <2>2. i \in Nat /\ j \in Nat
      BY <1>1, <1>2
    <2> QED BY <2>1, <2>2
  <1>4. ASSUME NEW c \in Worthy(list) PROVE \E i \in K : list[i] = c
    <2> DEFINE copies == {i \in DOMAIN list : list[i].event = c.event}
    <2>1. copies \in SUBSET Nat /\ copies # {}
      BY <1>1 DEF Worthy
    <2>2. PICK i \in copies : \A j \in copies : i <= j
      <3> HIDE DEF copies
      <3> QED BY <2>1, LeastNat
    <2>3. i \in DOMAIN list /\ list[i] = c
      BY <2>2 DEF Worthy, CopiesAgree
    <2>4. \A j \in 1 .. i - 1 : list[j].event # list[i].event
      <3>1. ASSUME NEW j \in 1 .. i - 1, list[j].event = list[i].event PROVE FALSE
        <4>1. j \in DOMAIN list /\ ~(i <= j)
          BY <1>1, <2>3
        <4> QED BY <2>2, <3>1, <4>1
      <3> QED BY <3>1
    <2>5. c.outcome = "ok" /\ c.coins > 0
      BY DEF Worthy
    <2>6. i \in K
      BY <2>3, <2>4, <2>5 DEF Counted
    <2> QED BY <2>3, <2>6
  <1>5. \A i \in K : list[i] \in Worthy(list)
    BY <1>2 DEF Worthy
  <1> HIDE DEF K
  <1>6. {list[i] : i \in K} = Worthy(list)
    BY <1>4, <1>5
  <1> QED BY <1>3, <1>6 DEF K

\* The coins of each of a set of contributions.
CoinsAmong(contributions) == [c \in contributions |-> c.coins]

\* So givers, worth and start are those of the gifts in no order.
LEMMA GiftsDecide ==
  ASSUME NEW C, Contribution(C), NEW list \in Seq(C), CopiesAgree(list)
  PROVE  LET K == Counted(list, {}) IN
         /\ Givers(list, K) = {c.user : c \in Worthy(list)}
         /\ \A u : /\ Worth(list, K, u) = SumFunctionOnSet(CoinsAmong(Worthy(list)), {c \in Worthy(list) : c.user = u})
                   /\ Start(list, K, u) = Min({c.at : c \in {d \in Worthy(list) : d.user = u}})
  <1> DEFINE K == Counted(list, {})
             R == Worthy(list)
  <1>1. (\A i, j \in K : list[i] = list[j] => i = j) /\ {list[i] : i \in K} = R
    BY CountedOnce
  <1>2. K \subseteq DOMAIN list /\ IsFiniteSet(DOMAIN list)
    <2>1. K \subseteq DOMAIN list
      BY DEF Counted
    <2>2. DOMAIN list = 1 .. Len(list) /\ Len(list) \in Nat
      OBVIOUS
    <2> HIDE DEF K, R
    <2>3. IsFiniteSet(DOMAIN list)
      BY <2>2, FS_Interval
    <2> QED BY <2>1, <2>3
  <1> HIDE DEF K, R
  <1>3. Givers(list, K) = {c.user : c \in R}
    BY <1>1 DEF Givers
  <1>4. ASSUME NEW u
        PROVE  Worth(list, K, u) = SumFunctionOnSet(CoinsAmong(R), {c \in R : c.user = u})
    <2> DEFINE mine == {i \in K : list[i].user = u}
               f == [i \in DOMAIN list |-> list[i].coins]
               g == CoinsAmong(R)
    <2>1. IsFiniteSet(mine)
      <3>1. mine \in SUBSET DOMAIN list
        BY <1>2
      <3> HIDE DEF mine
      <3> QED BY <1>2, <3>1, FS_Subset
    <2>2. \A i \in mine : f[i] \in Nat /\ g[list[i]] = f[i]
      BY <1>1, <1>2 DEF CoinsAmong, Contribution
    <2>3. \A i, j \in mine : list[i] = list[j] => i = j
      BY <1>1
    <2>4. {list[i] : i \in mine} = {c \in R : c.user = u}
      BY <1>1
    <2>5. SumFunctionOnSet(f, mine) = SumFunctionOnSet(g, {list[i] : i \in mine})
      <3> HIDE DEF mine, f, g
      <3> QED BY <2>1, <2>2, <2>3, SumImage
    <2> QED BY <2>4, <2>5 DEF Worth
  <1>5. ASSUME NEW u
        PROVE  Start(list, K, u) = Min({c.at : c \in {d \in R : d.user = u}})
    <2>1. {list[i].at : i \in {j \in K : list[j].user = u}} = {c.at : c \in {d \in R : d.user = u}}
      BY <1>1
    <2> QED BY <2>1 DEF Start
  <1> QED BY <1>3, <1>4, <1>5 DEF K, R

\* Two lists of the same gifts allow the same winners.
THEOREM SameGiftsSameWinners ==
  ASSUME NEW C, Contribution(C), NEW list \in Seq(C), CopiesAgree(list),
         NEW other \in Seq(C), CopiesAgree(other), Worthy(list) = Worthy(other),
         NEW tieBreak, NEW w, MayWin(list, {}, tieBreak, w)
  PROVE  MayWin(other, {}, tieBreak, w)
  <1> DEFINE K == Counted(list, {})
             L == Counted(other, {})
  <1>1. /\ Givers(list, K) = {c.user : c \in Worthy(list)}
        /\ \A u : /\ Worth(list, K, u) = SumFunctionOnSet(CoinsAmong(Worthy(list)), {c \in Worthy(list) : c.user = u})
                  /\ Start(list, K, u) = Min({c.at : c \in {d \in Worthy(list) : d.user = u}})
    BY GiftsDecide
  <1>2. /\ Givers(other, L) = {c.user : c \in Worthy(other)}
        /\ \A u : /\ Worth(other, L, u) = SumFunctionOnSet(CoinsAmong(Worthy(other)), {c \in Worthy(other) : c.user = u})
                  /\ Start(other, L, u) = Min({c.at : c \in {d \in Worthy(other) : d.user = u}})
    BY GiftsDecide
  <1> HIDE DEF K, L
  <1>3. Givers(list, K) = Givers(other, L)
    BY <1>1, <1>2
  <1>4. \A u : Worth(list, K, u) = Worth(other, L, u) /\ Start(list, K, u) = Start(other, L, u)
    <2>1. ASSUME NEW u PROVE Worth(list, K, u) = Worth(other, L, u) /\ Start(list, K, u) = Start(other, L, u)
      <3> DEFINE R == Worthy(list)
      <3>1. Worth(list, K, u) = SumFunctionOnSet(CoinsAmong(R), {c \in R : c.user = u})
            /\ Start(list, K, u) = Min({c.at : c \in {d \in R : d.user = u}})
        BY <1>1
      <3>2. Worth(other, L, u) = SumFunctionOnSet(CoinsAmong(R), {c \in R : c.user = u})
            /\ Start(other, L, u) = Min({c.at : c \in {d \in R : d.user = u}})
        BY <1>2
      <3> QED BY <3>1, <3>2
    <2> QED BY <2>1
  <1>5. Best(list, K) = Best(other, L)
    BY <1>3, <1>4 DEF Best
  <1> QED BY <1>4, <1>5 DEF MayWin, K, L
=============================================================================
