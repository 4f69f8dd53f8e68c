---------------------------- MODULE Coins_proofs ----------------------------
(***************************************************************************)
(* Theorems about the coins that a Bitcoin transaction spends, for every   *)
(* finite set of coins, and all values, amounts, fee rates and memos.      *)
(*                                                                         *)
(* Facts about sums are facts about a recursion over finite sets.  They    *)
(* are proved by way of a smallest counterexample.                         *)
(***************************************************************************)
EXTENDS Coins, FiniteSetTheorems, WellFoundedInduction, TLAPS

---------------------------------------------------------------------------
\* Sums

\* A non-empty set of natural numbers has a least element.
LEMMA LeastNat ==
    ASSUME NEW T \in SUBSET Nat, T # {}
    PROVE  \E n \in T : \A m \in T : n <= m
<1>1. PICK n \in T : \A m \in T : <<m, n>> \notin OpToRel(<, Nat)
  BY WFMin, NatLessThanWellFounded, Zenon
<1>2. \A m \in T : ~(m < n)
  BY <1>1 DEF OpToRel
<1> QED
  BY <1>2

\* Among finite sets there is one of the smallest size.
LEMMA SmallestSet ==
    ASSUME NEW F, F # {}, \A s \in F : IsFiniteSet(s)
    PROVE  \E s \in F : Cardinality(s) \in Nat /\ \A r \in F : Cardinality(s) <= Cardinality(r)
<1> DEFINE Sizes == {Cardinality(s) : s \in F}
<1>1. Sizes \in SUBSET Nat /\ Sizes # {}
  BY FS_CardinalityType
<1>2. PICK n \in Sizes : \A m \in Sizes : n <= m
  <2> HIDE DEF Sizes
  <2> QED
    BY <1>1, LeastNat
<1> QED
  BY <1>1, <1>2

\* The element that a fold takes next, and one round of the recursion.
Pick(s) == CHOOSE x \in s : TRUE
Round(v, g, s) == IF s = {} THEN 0 ELSE v[Pick(s)] + g[s \ {Pick(s)}]
IsFold(v, U, g) == g = [s \in SUBSET U |-> Round(v, g, s)]

\* Sum folds the values of a set.
LEMMA SumIsFold ==
    ASSUME NEW v, NEW S
    PROVE  Sum(v, S) = (CHOOSE g : IsFold(v, S, g))[S]
BY Zenon DEF Sum, MapThenSumSet, MapThenFoldSet, IsFold, Round, Pick

\* Taking one element away makes a finite set smaller.
LEMMA PickSmaller ==
    ASSUME NEW s, s # {}, IsFiniteSet(s)
    PROVE  /\ Pick(s) \in s
           /\ IsFiniteSet(s \ {Pick(s)})
           /\ Cardinality(s) \in Nat
           /\ Cardinality(s \ {Pick(s)}) = Cardinality(s) - 1
           /\ Cardinality(s) > 0
<1>1. Pick(s) \in s
  BY DEF Pick
<1>2. Cardinality(s) \in Nat /\ Cardinality(s) # 0
  BY FS_CardinalityType, FS_EmptySet
<1> QED
  BY <1>1, <1>2, FS_RemoveElement

\* The recursion has a solution.
LEMMA FoldExists ==
    ASSUME NEW U, IsFiniteSet(U), NEW v \in [U -> Nat]
    PROVE  \E g \in [SUBSET U -> Nat] : IsFold(v, U, g)
<1> DEFINE Good(n) == \E g \in [SUBSET U -> Nat] :
                          \A s \in SUBSET U : Cardinality(s) <= n => g[s] = Round(v, g, s)
           Bad == {n \in Nat : ~Good(n)}
<1>0. \A s \in SUBSET U : IsFiniteSet(s) /\ Cardinality(s) \in Nat
                          /\ Cardinality(s) <= Cardinality(U)
  BY FS_Subset, FS_CardinalityType
<1>1. Good(0)
  <2> DEFINE g == [s \in SUBSET U |-> 0]
  <2>1. \A s \in SUBSET U : Cardinality(s) <= 0 => s = {}
    BY <1>0, FS_EmptySet
  <2>2. \A s \in SUBSET U : Cardinality(s) <= 0 => g[s] = Round(v, g, s)
    BY <2>1 DEF Round
  <2> QED
    BY <2>2
<1>2. ASSUME NEW n \in Nat, Good(n)
      PROVE  Good(n + 1)
  <2>1. PICK g \in [SUBSET U -> Nat] :
            \A s \in SUBSET U : Cardinality(s) <= n => g[s] = Round(v, g, s)
    BY <1>2
  <2> DEFINE h == [s \in SUBSET U |-> Round(v, g, s)]
  <2>2. \A s \in SUBSET U : s # {} =>
            /\ s \ {Pick(s)} \in SUBSET U /\ Pick(s) \in U
            /\ Cardinality(s \ {Pick(s)}) = Cardinality(s) - 1
    BY <1>0, PickSmaller
  <2>3. h \in [SUBSET U -> Nat]
    <3> SUFFICES ASSUME NEW s \in SUBSET U PROVE Round(v, g, s) \in Nat
      OBVIOUS
    <3>1. CASE s = {}
      BY <3>1 DEF Round
    <3>2. CASE s # {}
      <4>1. v[Pick(s)] \in Nat /\ g[s \ {Pick(s)}] \in Nat
        BY <2>2, <3>2
      <4> QED
        BY <4>1, <3>2 DEF Round
    <3> QED
      BY <3>1, <3>2
  <2>4. \A s \in SUBSET U : Cardinality(s) <= n => h[s] = g[s]
    BY <2>1
  <2>5. ASSUME NEW s \in SUBSET U, Cardinality(s) <= n + 1
        PROVE  h[s] = Round(v, h, s)
    <3>1. CASE s = {}
      BY <3>1 DEF Round
    <3>2. CASE s # {}
      <4> HIDE DEF h
      <4>1. s \ {Pick(s)} \in SUBSET U /\ Cardinality(s \ {Pick(s)}) <= n
        BY <2>2, <2>5, <3>2, <1>0
      <4>2. h[s \ {Pick(s)}] = g[s \ {Pick(s)}]
        BY <2>4, <4>1
      <4>3. h[s] = Round(v, g, s)
        BY Zenon DEF h
      <4> QED
        BY <4>2, <4>3, <3>2 DEF Round
    <3> QED
      BY <3>1, <3>2
  <2> QED
    BY <2>3, <2>5
<1>3. Bad = {}
  <2> SUFFICES ASSUME Bad # {} PROVE FALSE
    OBVIOUS
  <2> HIDE DEF Good
  <2>1. PICK n \in Bad : \A m \in Bad : n <= m
    <3>1. Bad \in SUBSET Nat
      OBVIOUS
    <3> QED
      BY <3>1, LeastNat
  <2>2. n # 0 /\ n - 1 \in Nat /\ ~(n - 1 \in Bad)
    BY <1>1, <2>1
  <2>3. Good(n - 1)
    BY <2>2
  <2>4. Good((n - 1) + 1)
    BY <2>2, <2>3, <1>2
  <2>5. (n - 1) + 1 = n
    BY <2>1
  <2> QED
    BY <2>4, <2>5, <2>1
<1>4. Good(Cardinality(U))
  <2> HIDE DEF Good
  <2> QED
    BY <1>3, FS_CardinalityType
<1>5. PICK g \in [SUBSET U -> Nat] :
          \A s \in SUBSET U : Cardinality(s) <= Cardinality(U) => g[s] = Round(v, g, s)
  BY <1>4
<1>6. \A s \in SUBSET U : g[s] = Round(v, g, s)
  BY <1>0, <1>5
<1> QED
  BY <1>6 DEF IsFold

\* What a solution of the recursion is at one set.
LEMMA FoldValue ==
    ASSUME NEW v, NEW U, NEW g, IsFold(v, U, g), NEW s \in SUBSET U
    PROVE  g[s] = Round(v, g, s)
<1> DEFINE f == [r \in SUBSET U |-> Round(v, g, r)]
<1>1. g = f
  BY DEF IsFold
<1>2. f[s] = Round(v, g, s)
  BY Zenon
<1> QED
  BY <1>1, <1>2, Zenon

\* And only one, whichever set it is begun from.
LEMMA FoldUnique ==
    ASSUME NEW v, NEW U, NEW W, IsFiniteSet(U), NEW g, NEW h,
           IsFold(v, U, g), IsFold(v, W, h), NEW t, t \subseteq U, t \subseteq W
    PROVE  g[t] = h[t]
<1> DEFINE Bad == {s \in SUBSET (U \cap W) : g[s] # h[s]}
<1>0. \A s \in SUBSET (U \cap W) : IsFiniteSet(s) /\ Cardinality(s) \in Nat
  BY FS_Subset, FS_CardinalityType
<1>1. SUFFICES ASSUME Bad # {} PROVE FALSE
  OBVIOUS
<1>2. \A r \in Bad : IsFiniteSet(r)
  BY <1>0
<1>3. PICK s \in Bad : Cardinality(s) \in Nat /\ \A r \in Bad : Cardinality(s) <= Cardinality(r)
  <2> HIDE DEF Bad
  <2> QED
    BY <1>1, <1>2, SmallestSet
<1>5. \A r \in SUBSET (U \cap W) : g[r] = Round(v, g, r) /\ h[r] = Round(v, h, r)
  <2>1. \A r \in SUBSET U : g[r] = Round(v, g, r)
    BY FoldValue, Zenon
  <2>2. \A r \in SUBSET W : h[r] = Round(v, h, r)
    BY FoldValue, Zenon
  <2> QED
    BY <2>1, <2>2
<1>6. s # {}
  BY <1>5 DEF Round
<1>7. /\ s \ {Pick(s)} \in SUBSET (U \cap W)
      /\ Cardinality(s \ {Pick(s)}) = Cardinality(s) - 1
      /\ Cardinality(s) \in Nat
  BY <1>0, <1>6, PickSmaller
<1>8. s \ {Pick(s)} \notin Bad
  <2> HIDE DEF Bad
  <2> QED
    BY <1>3, <1>7
<1>9. g[s \ {Pick(s)}] = h[s \ {Pick(s)}]
  BY <1>7, <1>8
<1>10. Round(v, g, s) = Round(v, h, s)
  BY <1>6, <1>9, Zenon DEF Round
<1>11. s \in SUBSET (U \cap W) /\ g[s] # h[s]
  BY <1>3
<1> QED
  BY <1>5, <1>10, <1>11, Zenon

\* A sum is a natural number, nothing for the empty set, and otherwise the value
\* that the fold takes first and the sum of the rest.
LEMMA SumStep ==
    ASSUME NEW S, IsFiniteSet(S), NEW v, \A c \in S : v[c] \in Nat
    PROVE  /\ Sum(v, S) \in Nat
           /\ S = {} => Sum(v, S) = 0
           /\ S # {} => Sum(v, S) = v[Pick(S)] + Sum(v, S \ {Pick(S)})
<1> DEFINE Sol(U) == CHOOSE g : IsFold(v, U, g)
<1>1. ASSUME NEW U \in SUBSET S
      PROVE  IsFold(v, U, Sol(U)) /\ \A s \in SUBSET U : Sol(U)[s] \in Nat
  <2> DEFINE w == [c \in U |-> v[c]]
  <2>0. IsFiniteSet(U) /\ w \in [U -> Nat]
    BY FS_Subset
  <2>1. PICK g \in [SUBSET U -> Nat] : IsFold(w, U, g)
    BY <2>0, FoldExists
  <2>2. \A s \in SUBSET U : s # {} => Pick(s) \in U
    BY DEF Pick
  <2>3. \A s \in SUBSET U : Round(w, g, s) = Round(v, g, s)
    BY <2>2 DEF Round
  <2>4. IsFold(v, U, g)
    BY <2>1, <2>3 DEF IsFold
  <2>5. IsFold(v, U, Sol(U))
    BY <2>4, Zenon
  <2> HIDE DEF Sol
  <2>6. \A s \in SUBSET U : Sol(U)[s] = g[s]
    <3> TAKE s \in SUBSET U
    <3>1. s \subseteq U
      OBVIOUS
    <3> QED
      BY <2>0, <2>4, <2>5, <3>1, FoldUnique
  <2> QED
    BY <2>5, <2>6
<1> HIDE DEF Sol
<1>2. \A U : Sum(v, U) = Sol(U)[U]
  BY SumIsFold DEF Sol
<1>3. Sol(S)[S] = Round(v, Sol(S), S)
  BY <1>1, FoldValue, Zenon
<1>4. Sum(v, S) \in Nat
  BY <1>1, <1>2
<1>5. S = {} => Sum(v, S) = 0
  BY <1>2, <1>3 DEF Round
<1>6. ASSUME S # {}
      PROVE  Sum(v, S) = v[Pick(S)] + Sum(v, S \ {Pick(S)})
  <2> DEFINE R == S \ {Pick(S)}
  <2>1. R \in SUBSET S /\ R \subseteq S /\ R \subseteq R
    OBVIOUS
  <2>2. IsFold(v, S, Sol(S)) /\ IsFold(v, R, Sol(R))
    BY <1>1, <2>1
  <2>3. Sol(S)[R] = Sol(R)[R]
    <3> HIDE DEF R
    <3> QED
      BY <2>1, <2>2, FoldUnique
  <2> QED
    BY <1>2, <1>3, <1>6, <2>3 DEF Round
<1> QED
  BY <1>4, <1>5, <1>6

\* It does not matter which one is taken first.
LEMMA SumRemove ==
    ASSUME NEW S, IsFiniteSet(S), NEW v, \A c \in S : v[c] \in Nat, NEW c \in S
    PROVE  Sum(v, S) = v[c] + Sum(v, S \ {c})
<1> DEFINE Bad == {s \in SUBSET S : \E e \in s : Sum(v, s) # v[e] + Sum(v, s \ {e})}
<1>0. \A s \in SUBSET S : IsFiniteSet(s) /\ Cardinality(s) \in Nat
  BY FS_Subset, FS_CardinalityType
<1>1. SUFFICES ASSUME Bad # {} PROVE FALSE
  OBVIOUS
<1>2. \A r \in Bad : IsFiniteSet(r)
  BY <1>0
<1>3. PICK s \in Bad : Cardinality(s) \in Nat /\ \A r \in Bad : Cardinality(s) <= Cardinality(r)
  <2> HIDE DEF Bad
  <2> QED
    BY <1>1, <1>2, SmallestSet
<1>5. PICK e \in s : Sum(v, s) # v[e] + Sum(v, s \ {e})
  BY <1>3
<1>6. s \in SUBSET S /\ s # {}
  BY <1>3, <1>5
<1> DEFINE p == Pick(s)
<1>7. p \in s /\ Sum(v, s) = v[p] + Sum(v, s \ {p})
  BY <1>0, <1>6, PickSmaller, SumStep
<1>8. p # e
  BY <1>5, <1>7
<1>9. ASSUME NEW x \in s, NEW y \in s \ {x}
      PROVE  Sum(v, s \ {x}) = v[y] + Sum(v, (s \ {x}) \ {y})
  <2>1. Cardinality(s \ {x}) = Cardinality(s) - 1
    BY <1>0, <1>6, FS_RemoveElement
  <2>2. s \ {x} \in SUBSET S
    BY <1>6
  <2>3. s \ {x} \notin Bad
    <3> HIDE DEF Bad
    <3> QED
      BY <1>3, <2>1
  <2> QED
    BY <2>2, <2>3
<1>10. (s \ {p}) \ {e} = (s \ {e}) \ {p}
  OBVIOUS
<1>11. Sum(v, s \ {p}) = v[e] + Sum(v, (s \ {p}) \ {e})
  BY <1>7, <1>8, <1>9
<1>12. Sum(v, s \ {e}) = v[p] + Sum(v, (s \ {p}) \ {e})
  BY <1>7, <1>8, <1>9, <1>10
<1>13. v[e] \in Nat /\ v[p] \in Nat /\ Sum(v, (s \ {p}) \ {e}) \in Nat
  <2>1. (s \ {p}) \ {e} \in SUBSET S
    BY <1>6
  <2> QED
    BY <1>0, <1>6, <1>7, <2>1, SumStep
<1> HIDE DEF p
<1> QED
  BY <1>5, <1>7, <1>11, <1>12, <1>13

\* No choice of as many coins or fewer is worth more than one that has the
\* largest.
LEMMA LargestMost ==
    ASSUME NEW v, NEW U, IsFiniteSet(U), \A c \in U : v[c] \in Nat,
           NEW A \in SUBSET U, NEW B \in SUBSET U, Cardinality(B) <= Cardinality(A),
           \A c \in A, d \in B \ A : v[d] <= v[c]
    PROVE  Sum(v, B) <= Sum(v, A)
<1> DEFINE Top(X, Y) == Cardinality(Y) <= Cardinality(X) /\ \A c \in X, d \in Y \ X : v[d] <= v[c]
           Bad == {Y \in SUBSET U : \E X \in SUBSET U : Top(X, Y) /\ ~(Sum(v, Y) <= Sum(v, X))}
<1>0. \A s \in SUBSET U : IsFiniteSet(s) /\ Cardinality(s) \in Nat
  BY FS_Subset, FS_CardinalityType
<1>1. SUFFICES ASSUME Bad # {} PROVE FALSE
  OBVIOUS
<1>2. \A r \in Bad : IsFiniteSet(r)
  BY <1>0
<1>3. PICK Y \in Bad : Cardinality(Y) \in Nat /\ \A r \in Bad : Cardinality(Y) <= Cardinality(r)
  <2> HIDE DEF Bad
  <2> QED
    BY <1>1, <1>2, SmallestSet
<1>5. PICK X \in SUBSET U : Top(X, Y) /\ ~(Sum(v, Y) <= Sum(v, X))
  BY <1>3
<1>6. /\ Y \in SUBSET U /\ IsFiniteSet(Y) /\ Cardinality(Y) \in Nat
      /\ IsFiniteSet(X) /\ Cardinality(X) \in Nat
      /\ Sum(v, X) \in Nat /\ Sum(v, Y) \in Nat
  BY <1>0, <1>3, <1>5, SumStep
<1>7. Y # {}
  BY <1>5, <1>6, SumStep
<1>8. PICK y \in Y : y \in X \/ Y \cap X = {}
  BY <1>7
<1>9. X # {}
  <2>1. Cardinality(Y) # 0
    BY <1>6, <1>7, FS_EmptySet
  <2> QED
    BY <2>1, <1>5, <1>6, FS_EmptySet
<1>10. PICK x \in X : (y \in X => x = y)
  BY <1>9
<1>11. v[y] <= v[x] /\ v[x] \in Nat /\ v[y] \in Nat
  BY <1>5, <1>6, <1>8, <1>10
<1>12. /\ Cardinality(X \ {x}) = Cardinality(X) - 1
       /\ Cardinality(Y \ {y}) = Cardinality(Y) - 1
  BY <1>6, FS_RemoveElement
<1>13. Top(X \ {x}, Y \ {y})
  <2>1. Cardinality(Y \ {y}) <= Cardinality(X \ {x})
    BY <1>5, <1>6, <1>12
  <2>2. ASSUME NEW c \in X \ {x}, NEW d \in (Y \ {y}) \ (X \ {x})
        PROVE  v[d] <= v[c]
    <3>1. d \notin X
      BY <1>8, <1>10
    <3> QED
      BY <1>5, <3>1
  <2> QED
    BY <2>1, <2>2
<1>14. Y \ {y} \notin Bad
  <2> HIDE DEF Bad
  <2> QED
    BY <1>3, <1>6, <1>12
<1>15. Sum(v, Y \ {y}) <= Sum(v, X \ {x})
  BY <1>6, <1>13, <1>14
<1>16. Sum(v, X \ {x}) \in Nat /\ Sum(v, Y \ {y}) \in Nat
  BY <1>0, <1>6, SumStep
<1>17. /\ Sum(v, X) = v[x] + Sum(v, X \ {x})
       /\ Sum(v, Y) = v[y] + Sum(v, Y \ {y})
  BY <1>6, SumRemove
<1> QED
  BY <1>5, <1>11, <1>15, <1>16, <1>17

---------------------------------------------------------------------------
\* Sizes and fees

\* A fee is a natural number, and a larger transaction pays no less.
LEMMA FeeMonotone ==
    ASSUME NEW a \in Nat, NEW b \in Nat, NEW r \in Nat, a <= b
    PROVE  /\ FeeFor(a, r) \in Nat /\ FeeFor(b, r) \in Nat
           /\ FeeFor(a, r) <= FeeFor(b, r)
<1>1. PICK d \in Nat : b = a + d
  <2>1. b - a \in Nat /\ b = a + (b - a)
    OBVIOUS
  <2> QED
    BY <2>1
<1>2. b * r = a * r + d * r /\ d * r \in Nat /\ a * r \in Nat /\ b * r \in Nat
  BY <1>1
<1>3. \A x, y \in Nat : x <= y => /\ (x + 9) \div 10 \in Nat /\ (y + 9) \div 10 \in Nat
                                /\ (x + 9) \div 10 <= (y + 9) \div 10
  OBVIOUS
<1>4. a * r <= b * r
  BY <1>2
<1> QED
  BY <1>2, <1>3, <1>4 DEF FeeFor

\* Estimated sizes are natural numbers.
LEMMA SizeType ==
    ASSUME NEW n \in Nat, NEW k \in {1, 2}, NEW memo \in 0 .. OP_RETURN_MAX_BYTES
    PROVE  estimate_vsize(n, k, memo) \in Nat
<1> USE DEF estimate_vsize, _op_return_vb, TX_OVERHEAD_VB, P2WPKH_INPUT_VB,
            P2WPKH_OUTPUT_VB, OP_RETURN_MAX_BYTES
<1>1. CASE k = 1
  BY <1>1
<1>2. CASE k = 2
  BY <1>2
<1> QED
  BY <1>1, <1>2

\* What the request of a transaction consists of.
LEMMA RequestFacts ==
    ASSUME NEW r \in RequestType
    PROVE  /\ r.amount \in Nat /\ r.rate \in Nat /\ r.memo \in 0 .. OP_RETURN_MAX_BYTES
           /\ r.sweep \in BOOLEAN /\ r.swap \in BOOLEAN
           /\ r.swap => r.memo > 0
           /\ r.payee \in 0 .. MAX_OUTPUT_VB
BY CoinsAssumption DEF RequestType

\* The fees that select_coins computes are natural numbers.
LEMMA FeeTypes ==
    ASSUME TypeOK, NEW n \in Nat
    PROVE  FeeWithChange(n) \in Nat /\ FeeNoChange(n) \in Nat
<1>1. request.rate \in Nat /\ request.memo \in 0 .. OP_RETURN_MAX_BYTES
  BY RequestFacts DEF TypeOK
<1>2. estimate_vsize(n, 2, request.memo) \in Nat /\ estimate_vsize(n, 1, request.memo) \in Nat
  BY <1>1, SizeType
<1>3. \A x \in Nat : FeeFor(x, request.rate) \in Nat
  <2> TAKE x \in Nat
  <2>1. x <= x
    OBVIOUS
  <2> QED
    BY <1>1, <2>1, FeeMonotone
<1> QED
  BY <1>2, <1>3 DEF FeeWithChange, FeeNoChange

\* What Decide answers, by cases.
LEMMA DecideCases ==
    ASSUME TypeOK, NEW n \in Nat, NEW t \in Nat
    PROVE  /\ Decide(n, t) = {} => t < request.amount + FeeNoChange(n)
           /\ \A s \in Decide(n, t) :
                /\ s \in [send : Nat, fee : Nat, change : Nat]
                /\ t = s.send + s.fee + s.change
                /\ \/ s.change > 0 /\ s.fee = FeeWithChange(n)
                   \/ /\ s.change = 0 /\ s.fee >= FeeNoChange(n)
                      /\ s.fee < FeeWithChange(n) + DUST_P2WPKH
<1>1. request.amount \in Nat
  BY RequestFacts DEF TypeOK
<1>2. FeeWithChange(n) \in Nat /\ FeeNoChange(n) \in Nat
  BY FeeTypes
<1> DEFINE change == t - request.amount - FeeWithChange(n)
<1>3. CASE change >= DUST_P2WPKH
  <2>1. Decide(n, t) =
            {[send |-> request.amount, fee |-> FeeWithChange(n), change |-> change]}
    BY <1>1, <1>2, <1>3 DEF Decide, DUST_P2WPKH
  <2>2. change \in Nat /\ change > 0 /\ t = request.amount + FeeWithChange(n) + change
    BY <1>1, <1>2, <1>3 DEF DUST_P2WPKH
  <2> HIDE DEF change
  <2>3. Decide(n, t) # {}
    BY <2>1
  <2>4. \A s \in Decide(n, t) :
            s = [send |-> request.amount, fee |-> FeeWithChange(n), change |-> change]
    BY <2>1
  <2> QED
    BY <1>1, <1>2, <2>2, <2>3, <2>4
<1>4. CASE change < DUST_P2WPKH /\ t >= request.amount + FeeNoChange(n)
  <2>1. Decide(n, t) =
            {[send |-> request.amount, fee |-> t - request.amount, change |-> 0]}
    BY <1>1, <1>2, <1>4 DEF Decide, DUST_P2WPKH
  <2> DEFINE fee == t - request.amount
  <2>2. /\ fee \in Nat /\ t = request.amount + fee + 0
        /\ fee >= FeeNoChange(n) /\ fee < FeeWithChange(n) + DUST_P2WPKH
    BY <1>1, <1>2, <1>4 DEF DUST_P2WPKH
  <2>3. Decide(n, t) = {[send |-> request.amount, fee |-> fee, change |-> 0]}
    BY <2>1
  <2> HIDE DEF fee
  <2>4. Decide(n, t) # {}
    BY <2>3
  <2>5. \A s \in Decide(n, t) : s = [send |-> request.amount, fee |-> fee, change |-> 0]
    BY <2>3
  <2> QED
    BY <1>1, <1>2, <2>2, <2>4, <2>5
<1>5. CASE change < DUST_P2WPKH /\ t < request.amount + FeeNoChange(n)
  <2>1. Decide(n, t) = {}
    BY <1>1, <1>2, <1>5 DEF Decide, DUST_P2WPKH
  <2> QED
    BY <1>5, <2>1
<1> QED
  BY <1>1, <1>2, <1>3, <1>4, <1>5 DEF DUST_P2WPKH

---------------------------------------------------------------------------
\* The coins taken

\* What the steps need to know of a set of coins.
LEMMA CoinSets ==
    ASSUME TypeOK, NEW S \in SUBSET Coin
    PROVE  /\ IsFiniteSet(S) /\ Cardinality(S) \in Nat
           /\ Cardinality(S) <= Cardinality(Coin)
           /\ Sum(value, S) \in Nat
           /\ S = {} => Sum(value, S) = 0
           /\ \A c \in Coin \ S : /\ Sum(value, S \cup {c}) = Sum(value, S) + value[c]
                                 /\ Cardinality(S \cup {c}) = Cardinality(S) + 1
<1>1. IsFiniteSet(S) /\ Cardinality(S) \in Nat /\ Cardinality(S) <= Cardinality(Coin)
  BY CoinsAssumption, FS_Subset, FS_CardinalityType
<1>2. \A c \in Coin : value[c] \in Nat
  BY CoinsAssumption DEF TypeOK
<1>3. Sum(value, S) \in Nat /\ (S = {} => Sum(value, S) = 0)
  BY <1>1, <1>2, SumStep
<1>4. ASSUME NEW c \in Coin \ S
      PROVE  /\ Sum(value, S \cup {c}) = Sum(value, S) + value[c]
             /\ Cardinality(S \cup {c}) = Cardinality(S) + 1
  <2> DEFINE A == S \cup {c}
  <2>1. A \ {c} = S /\ c \in A /\ \A d \in A : value[d] \in Nat
    BY <1>2
  <2>2. IsFiniteSet(A) /\ Cardinality(A) = Cardinality(S) + 1
    BY <1>1, FS_AddElement
  <2>3. Sum(value, A) = value[c] + Sum(value, A \ {c})
    <3> HIDE DEF A
    <3> QED
      BY <2>1, <2>2, SumRemove
  <2> QED
    BY <1>2, <1>3, <2>1, <2>2, <2>3
<1> QED
  BY <1>1, <1>3, <1>4

\* A round of select_coins takes one of the largest coins left.
LEMMA TakeCoin ==
    ASSUME CoinsInv, pc = "select", NEW c \in NextCoins
    PROVE  LET A == chosen \cup {c} IN
           /\ c \in Coin \ chosen /\ A \in SUBSET Coin
           /\ Cardinality(A) = Cardinality(chosen) + 1 /\ Cardinality(A) \in Nat
           /\ total + value[c] = Sum(value, A) /\ Sum(value, A) \in Nat
           /\ \A x \in A, d \in Coin \ A : value[d] <= value[x]
           /\ \A S \in SUBSET Coin : Cardinality(S) <= Cardinality(A) =>
                    Sum(value, S) <= Sum(value, A)
<1> DEFINE A == chosen \cup {c}
<1>1. TypeOK /\ total = Sum(value, chosen) /\ chosen \in SUBSET Coin
  BY DEF CoinsInv, TypeOK
<1>2. c \in Coin \ chosen /\ \A d \in Coin \ chosen : value[d] <= value[c]
  BY DEF NextCoins
<1>3. A \in SUBSET Coin
  BY <1>1, <1>2
<1>4. /\ Cardinality(A) = Cardinality(chosen) + 1 /\ Cardinality(A) \in Nat
      /\ Sum(value, A) = Sum(value, chosen) + value[c] /\ Sum(value, A) \in Nat
  BY <1>1, <1>2, <1>3, CoinSets
<1>5. \A x \in A, d \in Coin \ A : value[d] <= value[x]
  BY <1>2 DEF CoinsInv, Greedy
<1>6. \A x \in Coin : value[x] \in Nat
  BY <1>1, CoinsAssumption DEF TypeOK
<1>7. ASSUME NEW S \in SUBSET Coin, Cardinality(S) <= Cardinality(A)
      PROVE  Sum(value, S) <= Sum(value, A)
  <2>1. \A x \in A, d \in S \ A : value[d] <= value[x]
    BY <1>5
  <2> HIDE DEF A
  <2> QED
    BY <1>3, <1>6, <1>7, <2>1, CoinsAssumption, LargestMost
<1> QED
  BY <1>1, <1>2, <1>3, <1>4, <1>5, <1>7

---------------------------------------------------------------------------
\* The size that is built

\* BuiltSize, of n inputs and a payee, with change or without.
Built(n, change, memo, payee) ==
    TX_OVERHEAD_VB + n * P2WPKH_INPUT_VB + payee + (IF change THEN P2WPKH_OUTPUT_VB ELSE 0)
        + (IF memo = 0 THEN 0 ELSE 8 + 1 + encode_op_return_len(memo))

\* The estimate misses at most twelve bytes of the payee's output and the one of
\* PUSHDATA1, of a hundred and ten or more.
LEMMA NearEstimate ==
    ASSUME NEW n \in Nat \ {0}, NEW change \in BOOLEAN, NEW memo \in 0 .. OP_RETURN_MAX_BYTES,
           NEW payee \in 0 .. MAX_OUTPUT_VB, NEW longer \in 0 .. OP_RETURN_MAX_BYTES,
           memo <= longer
    PROVE  LET k == IF change THEN 2 ELSE 1
           IN  /\ Built(n, change, memo, payee) \in Nat /\ estimate_vsize(n, k, longer) \in Nat
               /\ 9 * Built(n, change, memo, payee) <= 10 * estimate_vsize(n, k, longer)
<1> DEFINE inputs == n * P2WPKH_INPUT_VB
           script == IF memo = 0 THEN 0 ELSE 8 + 1 + encode_op_return_len(memo)
           guess == IF longer = 0 THEN 0 ELSE _op_return_vb(longer)
           out == IF change THEN 62 ELSE 31
<1>1. inputs \in Nat /\ inputs >= 68
  BY DEF P2WPKH_INPUT_VB
<1>2. /\ guess \in Nat /\ script \in Nat /\ script <= guess + 1
      /\ script > guess => guess >= 12
  BY DEF encode_op_return_len, _op_return_vb, OP_PUSHDATA1, OP_RETURN_MAX_BYTES
<1>3. out \in Nat /\ out >= 31
  OBVIOUS
<1>4. estimate_vsize(n, IF change THEN 2 ELSE 1, longer) = 11 + inputs + out + guess
  <2>1. CASE change
    BY <2>1, <1>1, <1>2 DEF estimate_vsize, TX_OVERHEAD_VB, P2WPKH_OUTPUT_VB
  <2>2. CASE ~change
    BY <2>2, <1>1, <1>2 DEF estimate_vsize, TX_OVERHEAD_VB, P2WPKH_OUTPUT_VB
  <2> QED
    BY <2>1, <2>2
<1>5. Built(n, change, memo, payee) = 11 + inputs + (payee - 31) + out + script
  <2>1. CASE change
    BY <2>1, <1>1, <1>2 DEF Built, TX_OVERHEAD_VB, P2WPKH_OUTPUT_VB, MAX_OUTPUT_VB
  <2>2. CASE ~change
    BY <2>2, <1>1, <1>2 DEF Built, TX_OVERHEAD_VB, P2WPKH_OUTPUT_VB, MAX_OUTPUT_VB
  <2> QED
    BY <2>1, <2>2
<1> HIDE DEF inputs, script, guess, out
<1> QED
  BY <1>1, <1>2, <1>3, <1>4, <1>5 DEF MAX_OUTPUT_VB

\* A fee for the estimate is near the rate for what is built.
LEMMA NearRate ==
    ASSUME NEW built \in Nat, NEW size \in Nat, NEW rate \in Nat, NEW fee \in Nat,
           9 * built <= 10 * size, fee >= FeeFor(size, rate)
    PROVE  100 * fee >= 9 * (built * rate)
<1>1. PICK d \in Nat : 10 * size = 9 * built + d
  <2>1. 10 * size - 9 * built \in Nat /\ 10 * size = 9 * built + (10 * size - 9 * built)
    OBVIOUS
  <2> QED
    BY <2>1
<1>2. (10 * size) * rate = (9 * built) * rate + d * rate /\ d * rate \in Nat
  BY <1>1
<1>3. /\ (10 * size) * rate = 10 * (size * rate) /\ size * rate \in Nat
      /\ (9 * built) * rate = 9 * (built * rate) /\ built * rate \in Nat
  OBVIOUS
<1>4. 10 * FeeFor(size, rate) >= size * rate /\ FeeFor(size, rate) \in Nat
  <2>1. \A x \in Nat : 10 * ((x + 9) \div 10) >= x /\ (x + 9) \div 10 \in Nat
    OBVIOUS
  <2> QED
    BY <1>3, <2>1 DEF FeeFor
<1> QED
  BY <1>2, <1>3, <1>4

---------------------------------------------------------------------------
\* The invariant

\* Before the first coin is taken no set is small enough to be ruled out.
LEMMA CoinsInit == Init => CoinsInv
<1> SUFFICES ASSUME Init PROVE CoinsInv
  OBVIOUS
<1>1. TypeOK
  BY DEF Init, TypeOK, NoSelection
<1>2. Sum(value, {}) = 0 /\ Cardinality({}) = 0
  BY <1>1, CoinSets, FS_EmptySet
<1>3. pc = "select" => ~request.sweep
  BY RequestFacts DEF Init
<1>4. Greedy
  <2> SUFFICES ASSUME pc = "select", NEW S \in (SUBSET Coin) \ {{}},
                      Cardinality(S) <= Cardinality(chosen)
               PROVE  FALSE
    BY DEF Greedy, Init
  <2>1. Cardinality(S) \in Nat /\ Cardinality(S) # 0
    BY <1>1, CoinSets, FS_EmptySet
  <2> QED
    BY <1>2, <2>1 DEF Init
<1> QED
  BY <1>1, <1>2, <1>3, <1>4
  DEF Init, CoinsInv, Balanced, OverpayBounded, FewestCoins, FeeNearItsRate

\* A round of select_coins.  With what Decide answers, the coins taken are the
\* most that so many coins can be worth: if they do not pay, none do.
LEMMA TakeStep ==
    ASSUME CoinsInv, Take
    PROVE  CoinsInv'
<1>0. /\ TypeOK /\ pc = "select" /\ value' = value /\ request' = request
      /\ ~request.sweep /\ total = Sum(value, chosen) /\ Greedy /\ chosen \in SUBSET Coin
  BY DEF CoinsInv, Take, TypeOK
<1> DEFINE found(c) == Decide(Cardinality(chosen) + 1, total + value[c])
<1>1. PICK c \in NextCoins :
        /\ chosen' = chosen \cup {c} /\ total' = total + value[c]
        /\ \/ found(c) = {} /\ pc' = pc /\ selection' = selection
           \/ pc' = "selected" /\ selection' \in found(c)
  <2>1. PICK c \in NextCoins :
            /\ chosen' = chosen \cup {c} /\ total' = total + value[c]
            /\ IF found(c) = {} THEN UNCHANGED <<selection, pc>>
               ELSE pc' = "selected" /\ selection' \in found(c)
    BY Zenon DEF Take
  <2> HIDE DEF found
  <2> QED
    BY <2>1
<1> DEFINE n == Cardinality(chosen')
           t == Sum(value, chosen')
<1>2. /\ c \in Coin \ chosen /\ chosen' \in SUBSET Coin
      /\ n = Cardinality(chosen) + 1 /\ n \in Nat /\ total' = t /\ t \in Nat
      /\ \A x \in chosen', d \in Coin \ chosen' : value[d] <= value[x]
      /\ \A S \in SUBSET Coin : Cardinality(S) <= n => Sum(value, S) <= t
  BY <1>0, <1>1, TakeCoin
<1>3. Cardinality(chosen) \in Nat /\ \A S \in SUBSET Coin : Cardinality(S) \in Nat /\ Sum(value, S) \in Nat
  BY <1>0, CoinSets
<1>4. FeeNoChange(n) \in Nat /\ FeeWithChange(n) \in Nat /\ request.amount \in Nat
  BY <1>0, <1>2, FeeTypes, RequestFacts DEF TypeOK
<1>5. \A S : Pays(S)' <=> Pays(S)
  BY <1>0 DEF Pays, FeeNoChange
<1>6. \A S \in (SUBSET Coin) \ {{}} : Cardinality(S) < n => ~Pays(S)
  BY <1>0, <1>2, <1>3 DEF Greedy
<1> HIDE DEF n, t
<1>7. CASE Decide(n, t) = {} /\ pc' = pc /\ selection' = selection
  <2>1. t < request.amount + FeeNoChange(n)
    BY <1>0, <1>2, <1>7, DecideCases
  <2>2. ASSUME NEW S \in (SUBSET Coin) \ {{}}, Cardinality(S) <= n
        PROVE  ~Pays(S)
    <3>1. CASE Cardinality(S) = n
      <4>1. Sum(value, S) <= t /\ Sum(value, S) \in Nat
        BY <1>2, <1>3, <2>2
      <4> QED
        BY <1>2, <1>4, <2>1, <3>1, <4>1 DEF Pays
    <3>2. CASE Cardinality(S) < n
      BY <1>6, <3>2
    <3> QED
      BY <1>2, <1>3, <2>2, <3>1, <3>2
  <2>3. Greedy'
    BY <1>0, <1>2, <1>5, <2>2 DEF Greedy, n
  <2>4. TypeOK'
    BY <1>0, <1>2, <1>7 DEF TypeOK
  <2>5. total' = Sum(value', chosen')
    BY <1>0, <1>2 DEF t
  <2> QED
    BY <1>0, <1>7, <2>3, <2>4, <2>5
    DEF CoinsInv, Balanced, OverpayBounded, FewestCoins, FeeNearItsRate
<1>8. CASE pc' = "selected" /\ selection' \in Decide(n, t)
  <2>1. /\ selection' \in [send : Nat, fee : Nat, change : Nat]
        /\ t = selection'.send + selection'.fee + selection'.change
        /\ \/ selection'.change > 0 /\ selection'.fee = FeeWithChange(n)
           \/ /\ selection'.change = 0 /\ selection'.fee >= FeeNoChange(n)
              /\ selection'.fee < FeeWithChange(n) + DUST_P2WPKH
    BY <1>0, <1>2, <1>8, DecideCases
  <2>2. TypeOK'
    BY <1>0, <1>2, <1>8, <2>1 DEF TypeOK
  <2>3. total' = Sum(value', chosen') /\ Balanced'
    BY <1>0, <1>2, <2>1 DEF t, Balanced
  <2>4. OverpayBounded'
    BY <1>0, <2>1 DEF OverpayBounded, FeeWithChange, n
  <2>5. FewestCoins'
    <3>1. ASSUME NEW S \in (SUBSET Coin) \ {{}}, Pays(S)
          PROVE  Cardinality(S) >= n
      BY <1>2, <1>3, <1>6, <3>1
    <3> QED
      BY <1>5, <1>8, <3>1 DEF FewestCoins, n
  <2>6. FeeNearItsRate'
    <3> DEFINE change == selection'.change > 0
               k == IF change THEN 2 ELSE 1
    <3>1. BuiltSize' = Built(n, change, request.memo, request.payee)
      BY <1>0 DEF BuiltSize, Built, n
    <3>2. /\ request.memo \in 0 .. OP_RETURN_MAX_BYTES /\ request.rate \in Nat
          /\ request.payee \in 0 .. MAX_OUTPUT_VB
      BY <1>0, RequestFacts DEF TypeOK
    <3>3. request.memo <= request.memo /\ n \in Nat \ {0}
      BY <1>2, <1>3, <3>2 DEF OP_RETURN_MAX_BYTES
    <3>4. selection'.fee >= FeeFor(estimate_vsize(n, k, request.memo), request.rate)
      BY <1>4, <2>1 DEF FeeWithChange, FeeNoChange
    <3>5. change \in BOOLEAN /\ selection'.fee \in Nat
      BY <2>1
    <3> HIDE DEF change
    <3>6. /\ Built(n, change, request.memo, request.payee) \in Nat
          /\ estimate_vsize(n, k, request.memo) \in Nat
          /\ 9 * Built(n, change, request.memo, request.payee)
                <= 10 * estimate_vsize(n, k, request.memo)
      BY <3>2, <3>3, <3>5, NearEstimate
    <3> HIDE DEF k
    <3>7. 100 * selection'.fee >= 9 * (Built(n, change, request.memo, request.payee) * request.rate)
      BY <3>2, <3>4, <3>5, <3>6, NearRate
    <3> QED
      BY <1>0, <3>1, <3>7 DEF FeeNearItsRate
  <2> QED
    BY <1>0, <1>8, <2>2, <2>3, <2>4, <2>5, <2>6 DEF CoinsInv, Greedy
<1> QED
  BY <1>1, <1>2, <1>7, <1>8 DEF n, t

\* sweep_amount.
LEMMA SweepStep ==
    ASSUME CoinsInv, Sweep
    PROVE  CoinsInv'
<1> DEFINE all == Sum(value, Coin)
           size == estimate_vsize(Cardinality(Coin), 1, SweepMemo)
           fee == FeeFor(size, request.rate)
<1>0. /\ TypeOK /\ pc = "sweep" /\ value' = value /\ request' = request
      /\ request.sweep /\ total = Sum(value, chosen) /\ chosen \in SUBSET Coin
  BY DEF CoinsInv, Sweep, TypeOK
<1>1. /\ request.memo \in 0 .. OP_RETURN_MAX_BYTES /\ request.rate \in Nat
      /\ SweepMemo \in 0 .. OP_RETURN_MAX_BYTES /\ request.memo <= SweepMemo
  <2>1. request.memo \in 0 .. OP_RETURN_MAX_BYTES /\ request.rate \in Nat
    BY <1>0, RequestFacts DEF TypeOK
  <2> QED
    BY <2>1 DEF SweepMemo, OP_RETURN_MAX_BYTES
<1>2. Cardinality(Coin) \in Nat /\ all \in Nat
  BY <1>0, CoinSets
<1>3. size \in Nat /\ fee \in Nat
  <2>1. size \in Nat /\ size <= size
    BY <1>1, <1>2, SizeType
  <2> HIDE DEF size
  <2> QED
    BY <1>1, <2>1, FeeMonotone
<1>4. CASE TooSmall(all - fee)
  <2>1. /\ pc' = "insufficient" /\ chosen' = chosen /\ total' = total
        /\ selection' = selection
    BY <1>4 DEF Sweep
  <2>2. TypeOK'
    BY <1>0, <2>1 DEF TypeOK
  <2> QED
    BY <1>0, <2>1, <2>2
    DEF CoinsInv, Greedy, Balanced, OverpayBounded, FewestCoins, FeeNearItsRate
<1>5. CASE ~TooSmall(all - fee)
  <2>1. /\ pc' = "selected" /\ chosen' = Coin /\ total' = all
        /\ selection' = [send |-> all - fee, fee |-> fee, change |-> 0]
    BY <1>5 DEF Sweep
  <2>2. all - fee \in Nat
    BY <1>2, <1>3, <1>5 DEF TooSmall, DUST_P2WPKH
  <2>3. TypeOK'
    <3> HIDE DEF all, fee
    <3> QED
      BY <1>0, <1>2, <1>3, <2>1, <2>2 DEF TypeOK
  <2>4. total' = Sum(value', chosen') /\ Balanced'
    <3>1. Sum(value', chosen') = all
      BY <1>0, <2>1
    <3> HIDE DEF all, fee
    <3> QED
      BY <1>2, <1>3, <2>1, <3>1 DEF Balanced
  <2>5. FeeNearItsRate'
    <3>1. BuiltSize' = Built(Cardinality(Coin), FALSE, request.memo, request.payee)
      BY <1>0, <2>1 DEF BuiltSize, Built
    <3>2. Cardinality(Coin) \in Nat \ {0}
      <4>1. CASE Coin = {}
        <5>1. all = 0
          BY <1>0, <4>1, CoinSets, FS_EmptySet
        <5> HIDE DEF all, fee
        <5> QED
          BY <1>3, <2>2, <5>1, <1>5 DEF TooSmall, DUST_P2WPKH
      <4>2. CASE Coin # {}
        BY <1>2, <4>2, CoinsAssumption, FS_EmptySet
      <4> QED
        BY <4>1, <4>2
    <3>3. /\ Built(Cardinality(Coin), FALSE, request.memo, request.payee) \in Nat
          /\ 9 * Built(Cardinality(Coin), FALSE, request.memo, request.payee) <= 10 * size
      <4>1. request.payee \in 0 .. MAX_OUTPUT_VB
        BY <1>0, RequestFacts DEF TypeOK
      <4> QED
        BY <1>1, <3>2, <4>1, NearEstimate
    <3>4. fee >= FeeFor(size, request.rate)
      BY <1>3
    <3> HIDE DEF size, fee
    <3>5. 100 * fee >= 9 * (Built(Cardinality(Coin), FALSE, request.memo, request.payee) * request.rate)
      BY <1>1, <1>3, <3>3, <3>4, NearRate
    <3>6. selection'.fee = fee
      BY <2>1
    <3> QED
      BY <1>0, <3>1, <3>5, <3>6 DEF FeeNearItsRate
  <2> QED
    BY <1>0, <2>1, <2>3, <2>4, <2>5 DEF CoinsInv, Greedy, OverpayBounded, FewestCoins
<1> QED
  BY <1>4, <1>5

\* InsufficientFunds: no set of coins is larger than all of them.
LEMMA RunOutStep ==
    ASSUME CoinsInv, RunOut
    PROVE  CoinsInv'
<1>0. /\ TypeOK /\ pc = "select" /\ chosen = Coin /\ pc' = "insufficient"
      /\ UNCHANGED <<value, request, chosen, total, selection>>
  BY DEF CoinsInv, RunOut
<1>1. \A S \in (SUBSET Coin) \ {{}} : ~Pays(S)
  BY <1>0, CoinSets DEF CoinsInv, Greedy
<1>2. \A S : Pays(S)' <=> Pays(S)
  BY <1>0 DEF Pays, FeeNoChange
<1>3. TypeOK'
  BY <1>0 DEF TypeOK
<1> QED
  BY <1>0, <1>1, <1>2, <1>3
  DEF CoinsInv, Greedy, Balanced, OverpayBounded, FewestCoins, FeeNearItsRate

\* The inductive invariant holds of every run of select_coins and sweep_amount.
THEOREM CoinsInvariant == Spec => []CoinsInv
<1>1. CoinsInv /\ [Next]_vars => CoinsInv'
  <2> SUFFICES ASSUME CoinsInv, [Next]_vars PROVE CoinsInv'
    OBVIOUS
  <2>1. CASE Take
    BY <2>1, TakeStep
  <2>2. CASE RunOut
    BY <2>2, RunOutStep
  <2>3. CASE Sweep
    BY <2>3, SweepStep
  <2>4. CASE UNCHANGED vars
    BY <2>4 DEF CoinsInv, TypeOK, Greedy, Balanced, OverpayBounded, FewestCoins,
                FeeNearItsRate, Pays, BuiltSize, FeeNoChange, FeeWithChange, vars
  <2> QED
    BY <2>1, <2>2, <2>3, <2>4 DEF Next
<1> QED
  BY CoinsInit, <1>1, PTL DEF Spec

\* The variables keep their types: fees, change and what is sent are never
\* negative (coins.py Selection).
THEOREM TypeCorrect == Spec => []TypeOK
<1>1. CoinsInv => TypeOK
  BY DEF CoinsInv
<1> QED
  BY <1>1, CoinsInvariant, PTL

\* What the coins are worth is the payment, the change and the fee (coins.py
\* Selection, which the gate looks at).
THEOREM NothingUnaccounted == Spec => []Balanced
<1>1. CoinsInv => Balanced
  BY DEF CoinsInv
<1> QED
  BY <1>1, CoinsInvariant, PTL

\* What is folded into the fee is less than dust and the cost of a change output
\* (coins.py select_coins).
THEOREM OverpaymentBounded == Spec => []OverpayBounded
<1>1. CoinsInv => OverpayBounded
  BY DEF CoinsInv
<1> QED
  BY <1>1, CoinsInvariant, PTL

\* Taking the largest first finds coins whenever any set of coins can pay, and as
\* few as can be (coins.py select_coins).
THEOREM LargestFirstIsBest == Spec => []FewestCoins
<1>1. CoinsInv => FewestCoins
  BY DEF CoinsInv
<1> QED
  BY <1>1, CoinsInvariant, PTL

\* The fee is at least nine tenths of the rate asked for, for every payee's script
\* and every memo (coins.py select_coins, sweep_amount; btc.py build_unsigned_swap,
\* encode_op_return).
THEOREM RateNearlyPaid == Spec => []FeeNearItsRate
<1>1. CoinsInv => FeeNearItsRate
  BY DEF CoinsInv
<1> QED
  BY <1>1, CoinsInvariant, PTL
===========================================================================
