-------------------------- MODULE Amounts_proofs --------------------------
(***************************************************************************)
(* Proofs about Amounts: for every set of balances and base fees, every    *)
(* tip, gas limit, fee cap and unit, a sweep is complete and affordable    *)
(* and no transaction is charged more than the cap.  For every precision,  *)
(* and amounts with any number of decimals, a typed amount is kept.        *)
(***************************************************************************)
EXTENDS Amounts, WellFoundedInduction, TLAPS

---------------------------------------------------------------------------
\* Arithmetic

\* Rounding down to a multiple loses less than one unit.
LEMMA DivMultiple ==
    ASSUME NEW x \in Nat, NEW u \in Nat \ {0}
    PROVE  /\ x \div u \in Nat
           /\ (x \div u) * u <= x
           /\ x - (x \div u) * u < u
  OBVIOUS

\* A multiple is divided without a remainder.
LEMMA MultipleDiv ==
    ASSUME NEW x \in Nat, NEW u \in Nat \ {0}
    PROVE  (x * u) \div u = x /\ x * u \in Nat
  OBVIOUS

\* A larger price is a larger fee.
LEMMA FeeMonotone ==
    ASSUME NEW g \in Nat, NEW p \in Nat, NEW q \in Nat, p <= q
    PROVE  g * p \in Nat /\ g * p <= g * q /\ g * q \in Nat
  OBVIOUS

---------------------------------------------------------------------------
\* Powers of ten

\* A non-empty set of natural numbers has a least element.
LEMMA LeastNat ==
    ASSUME NEW T \in SUBSET Nat, T # {}
    PROVE  \E n \in T : \A m \in T : n <= m
<1>1. PICK n \in T : \A m \in T : <<m, n>> \notin OpToRel(<, Nat)
  BY WFMin, NatLessThanWellFounded, Zenon
<1>2. \A m \in T : ~(m < n)
  BY <1>1 DEF OpToRel
<1> QED
  BY <1>2

\* The largest exponent, and one round of the recursion of Pow10.
Top == Prec + Frac
PowStep(g, k) == IF k = 0 THEN 1 ELSE 10 * g[k - 1]
IsPow(g) == g = [k \in 0 .. Prec + Frac |-> PowStep(g, k)]

\* The recursion of Pow10 has a solution: what solves it up to n can be continued.
LEMMA PowExists == \E g \in [0 .. Top -> Nat] : IsPow(g)
<1> DEFINE Good(n) == \E g \in [0 .. Top -> Nat] :
                          \A k \in 0 .. Top : k <= n => g[k] = PowStep(g, k)
           Bad == {n \in Nat : ~Good(n)}
<1>0. Top \in Nat
  BY AmountsAssumption DEF Top
<1>1. Good(0)
  <2> DEFINE g == [k \in 0 .. Top |-> 1]
  <2>1. g \in [0 .. Top -> Nat] /\ \A k \in 0 .. Top : k <= 0 => g[k] = PowStep(g, k)
    BY <1>0 DEF PowStep
  <2> QED
    BY <2>1
<1>2. ASSUME NEW n \in Nat, Good(n)
      PROVE  Good(n + 1)
  <2>1. PICK g \in [0 .. Top -> Nat] : \A k \in 0 .. Top : k <= n => g[k] = PowStep(g, k)
    BY <1>2
  <2> DEFINE h == [k \in 0 .. Top |-> PowStep(g, k)]
  <2>2. \A k \in 0 .. Top : k # 0 => k - 1 \in 0 .. Top
    BY <1>0
  <2>3. h \in [0 .. Top -> Nat]
    BY <1>0, <2>2 DEF PowStep
  <2>4. \A k \in 0 .. Top : k <= n => h[k] = g[k]
    BY <2>1
  <2>5. ASSUME NEW k \in 0 .. Top, k <= n + 1
        PROVE  h[k] = PowStep(h, k)
    <3>1. h[k] = PowStep(g, k)
      OBVIOUS
    <3> HIDE DEF h
    <3>2. k # 0 => k - 1 \in 0 .. Top /\ k - 1 <= n
      BY <1>0, <2>5
    <3>3. k # 0 => h[k - 1] = g[k - 1]
      BY <2>4, <3>2
    <3> QED
      BY <3>1, <3>3 DEF PowStep
  <2> QED
    BY <2>3, <2>5
<1>3. Bad = {}
  <2> SUFFICES ASSUME Bad # {} PROVE FALSE
    OBVIOUS
  <2> HIDE DEF Good
  <2>1. PICK n \in Bad : \A m \in Bad : n <= m
    <3>1. Bad \in SUBSET Nat
      OBVIOUS
    <3> QED
      BY <3>1, LeastNat
  <2>2. n # 0 /\ n - 1 \in Nat /\ ~(n - 1 \in Bad)
    BY <1>1, <2>1
  <2>3. Good((n - 1) + 1)
    BY <2>2, <1>2
  <2>4. (n - 1) + 1 = n
    BY <2>1
  <2> QED
    BY <2>1, <2>3, <2>4
<1>4. PICK g \in [0 .. Top -> Nat] : \A k \in 0 .. Top : k <= Top => g[k] = PowStep(g, k)
  <2>1. Good(Top)
    <3> HIDE DEF Good
    <3> QED
      BY <1>0, <1>3
  <2> QED
    BY <2>1
<1>5. \A k \in 0 .. Top : g[k] = PowStep(g, k)
  BY <1>0, <1>4
<1> QED
  BY <1>5 DEF IsPow, Top

\* So Pow10 is what its definition says.
LEMMA PowValue ==
    ASSUME NEW k \in 0 .. Top
    PROVE  Pow10[k] = PowStep(Pow10, k)
<1>1. Pow10 = CHOOSE g : IsPow(g)
  BY Zenon DEF Pow10, IsPow, PowStep
<1>2. IsPow(Pow10)
  BY <1>1, PowExists, Zenon
<1> DEFINE f == [i \in 0 .. Prec + Frac |-> PowStep(Pow10, i)]
<1>3. Pow10 = f
  BY <1>2 DEF IsPow
<1>4. k \in 0 .. Prec + Frac
  BY DEF Top
<1>5. f[k] = PowStep(Pow10, k)
  BY <1>4, Zenon
<1> QED
  BY <1>3, <1>5, Zenon

\* A power of ten is the product of any two whose exponents add up to its own.
LEMMA PowProduct ==
    ASSUME NEW i \in 0 .. Top, NEW j \in 0 .. Top, i + j <= Top
    PROVE  /\ Pow10[i] \in Nat \ {0} /\ Pow10[j] \in Nat \ {0}
           /\ Pow10[i + j] = Pow10[i] * Pow10[j]
<1>0. Top \in Nat
  BY AmountsAssumption DEF Top
<1>1. Pow10[0] = 1 /\ \A k \in 1 .. Top : Pow10[k] = 10 * Pow10[k - 1]
  <2>1. \A k \in 0 .. Top : Pow10[k] = PowStep(Pow10, k)
    BY PowValue
  <2>2. \A k \in 1 .. Top : Pow10[k] = 10 * Pow10[k - 1]
    <3> TAKE k \in 1 .. Top
    <3>1. k \in 0 .. Top /\ k # 0
      BY <1>0
    <3> QED
      BY <2>1, <3>1 DEF PowStep
  <2>3. 0 \in 0 .. Top
    BY <1>0
  <2> QED
    BY <2>1, <2>2, <2>3 DEF PowStep
<1>2. \A k \in 0 .. Top : Pow10[k] \in Nat \ {0}
  <2> DEFINE Bad == {k \in 0 .. Top : ~(Pow10[k] \in Nat \ {0})}
  <2> SUFFICES ASSUME Bad # {} PROVE FALSE
    OBVIOUS
  <2>1. PICK k \in Bad : \A l \in Bad : k <= l
    <3>1. Bad \in SUBSET Nat
      BY <1>0
    <3> HIDE DEF Bad
    <3> QED
      BY <3>1, LeastNat
  <2>2. k # 0
    BY <1>1, <2>1
  <2>3. k \in 1 .. Top /\ k - 1 \in 0 .. Top
    BY <1>0, <2>2
  <2>4. ~(k - 1 \in Bad)
    <3> HIDE DEF Bad
    <3> QED
      BY <2>1, <2>3, <1>0
  <2>5. Pow10[k - 1] \in Nat \ {0}
    BY <2>3, <2>4
  <2>6. Pow10[k] = 10 * Pow10[k - 1]
    BY <1>1, <2>3
  <2> QED
    BY <2>5, <2>6
<1>3. Pow10[i + j] = Pow10[i] * Pow10[j]
  <2> DEFINE Bad == {l \in 0 .. Top - i : Pow10[i + l] # Pow10[i] * Pow10[l]}
  <2>0. j \in 0 .. Top - i
    BY <1>0
  <2> SUFFICES ASSUME Bad # {} PROVE FALSE
    BY <2>0
  <2>1. PICK l \in Bad : \A k \in Bad : l <= k
    <3>1. Bad \in SUBSET Nat
      BY <1>0
    <3> HIDE DEF Bad
    <3> QED
      BY <3>1, LeastNat
  <2>2. l # 0
    BY <1>0, <1>1, <1>2, <2>1
  <2>3. /\ l \in 1 .. Top /\ l - 1 \in 0 .. Top - i
        /\ i + l \in 1 .. Top /\ (i + l) - 1 = i + (l - 1)
        /\ l - 1 \in 0 .. Top /\ i + (l - 1) \in 0 .. Top
    BY <1>0, <2>2
  <2>4. ~(l - 1 \in Bad)
    <3> HIDE DEF Bad
    <3> QED
      BY <2>1, <2>3, <1>0
  <2>5. Pow10[i + (l - 1)] = Pow10[i] * Pow10[l - 1]
    BY <2>3, <2>4
  <2>6. Pow10[i + l] = 10 * Pow10[i + (l - 1)] /\ Pow10[l] = 10 * Pow10[l - 1]
    BY <1>1, <2>3
  <2>7. Pow10[i] \in Nat /\ Pow10[l - 1] \in Nat
    BY <1>2, <2>3
  <2>8. \A x, y \in Nat : 10 * (x * y) = x * (10 * y)
    OBVIOUS
  <2>9. Pow10[i + l] = Pow10[i] * Pow10[l]
    BY <2>5, <2>6, <2>7, <2>8
  <2> QED
    BY <2>1, <2>9
<1> QED
  BY <1>2, <1>3

\* Powers of ten grow.
LEMMA PowGrows ==
    ASSUME NEW i \in 0 .. Top, NEW j \in 0 .. Top, i <= j
    PROVE  /\ Pow10[i] \in Nat \ {0} /\ Pow10[j] \in Nat \ {0}
           /\ Pow10[i] <= Pow10[j]
           /\ i < j => 10 * Pow10[i] <= Pow10[j]
           /\ \E p \in Nat \ {0} : Pow10[j] = Pow10[i] * p
<1>0. Top \in Nat
  BY AmountsAssumption DEF Top
<1>1. j - i \in 0 .. Top /\ i + (j - i) = j
  BY <1>0
<1> DEFINE p == Pow10[j - i]
<1>2. /\ Pow10[i] \in Nat \ {0} /\ p \in Nat \ {0} /\ Pow10[j] = Pow10[i] * p
  BY <1>0, <1>1, PowProduct
<1>3. i < j => p >= 10
  <2> SUFFICES ASSUME i < j PROVE p >= 10
    OBVIOUS
  <2>1. j - i \in 0 .. Top /\ j - i # 0 /\ (j - i) - 1 \in 0 .. Top
    BY <1>0
  <2>2. p = 10 * Pow10[(j - i) - 1]
    BY <2>1, PowValue DEF PowStep
  <2>3. Pow10[(j - i) - 1] \in Nat \ {0}
    <3>1. 0 \in 0 .. Top /\ ((j - i) - 1) + 0 <= Top
      BY <1>0
    <3> QED
      BY <2>1, <3>1, PowProduct
  <2> QED
    BY <2>2, <2>3
<1> HIDE DEF p
<1>4. \A x, y \in Nat \ {0} : /\ x <= x * y /\ x * y \in Nat \ {0}
                              /\ y >= 10 => 10 * x <= x * y
  OBVIOUS
<1> QED
  BY <1>2, <1>3, <1>4

---------------------------------------------------------------------------
\* Rounding

\* Rounding to a multiple of m is off by at most half of m.
LEMMA RoundOff ==
    ASSUME NEW n \in Nat, NEW m \in Nat \ {0}
    PROVE  /\ RoundHalfEven(n, m) \in Nat
           /\ RoundHalfEven(n, m) * m \in Nat
           /\ 2 * (RoundHalfEven(n, m) * m - n) <= m
           /\ 2 * (n - RoundHalfEven(n, m) * m) <= m
<1> DEFINE q == n \div m
           r == n % m
<1>1. q \in Nat /\ r \in Nat /\ r < m /\ n = q * m + r
  OBVIOUS
<1>2. RoundHalfEven(n, m) = IF 2 * r > m \/ (2 * r = m /\ q % 2 = 1) THEN q + 1 ELSE q
  BY DEF RoundHalfEven
<1> HIDE DEF q, r
<1>3. q * m \in Nat /\ (q + 1) * m = q * m + m
  BY <1>1
<1> QED
  BY <1>1, <1>2, <1>3

\* A multiple is rounded to itself.
LEMMA RoundMultiple ==
    ASSUME NEW x \in Nat, NEW m \in Nat \ {0}
    PROVE  RoundHalfEven(x * m, m) = x
<1>1. (x * m) \div m = x /\ (x * m) % m = 0
  OBVIOUS
<1> QED
  BY <1>1 DEF RoundHalfEven

\* An amount that is rounded has more digits than the precision holds, and no
\* more than Frac of them are lost.
LEMMA DigitsLost ==
    ASSUME NEW n \in Typed, n > 0, ~(n < Pow10[Prec])
    PROVE  Digits(n) - Prec \in 0 .. Frac
<1>0. Prec \in Nat \ {0} /\ Frac \in Nat /\ Top = Prec + Frac /\ n \in Nat
  BY AmountsAssumption DEF Top
<1>1. \A k \in 0 .. Top : Pow10[k] \in Nat
  BY <1>0, PowGrows
<1> DEFINE T == {k \in 0 .. Top : n < Pow10[k]}
<1>2. PICK k \in T : \A l \in T : k <= l
  <2>1. Top \in T
    BY <1>0, TypedAssumption
  <2>2. T \in SUBSET Nat /\ T # {}
    BY <1>0, <2>1
  <2> HIDE DEF T
  <2> QED
    BY <2>2, LeastNat
<1>3. Pow10[0] = 1
  BY <1>0, PowValue DEF PowStep
<1>4. k \in 1 .. Top /\ k - 1 \in 0 .. Top
  BY <1>0, <1>2, <1>3
<1>5. ~(k - 1 \in T)
  <2> HIDE DEF T
  <2> QED
    BY <1>0, <1>2, <1>4
<1>6. Pow10[k - 1] <= n /\ n < Pow10[k]
  BY <1>0, <1>1, <1>2, <1>4, <1>5
<1>7. Digits(n) \in 1 .. Top /\ n < Pow10[Digits(n)]
  <2>1. \E d \in 1 .. Prec + Frac : Pow10[d - 1] <= n /\ n < Pow10[d]
    BY <1>0, <1>4, <1>6
  <2> QED
    BY <1>0, <2>1 DEF Digits
<1>8. ~(Digits(n) <= Prec)
  <2> SUFFICES ASSUME Digits(n) <= Prec PROVE FALSE
    OBVIOUS
  <2>1. Digits(n) \in 0 .. Top /\ Prec \in 0 .. Top
    BY <1>0, <1>7
  <2>2. Pow10[Digits(n)] <= Pow10[Prec]
    BY <2>1, PowGrows
  <2> QED
    BY <1>0, <1>1, <1>7, <2>1, <2>2
<1> QED
  BY <1>0, <1>7, <1>8

\* Rounding twice is off by less than one base unit.
LEMMA RoundedTwice ==
    ASSUME NEW n \in Typed, _amount(n)
    PROVE  /\ _base_units(n) \in Nat /\ _base_units(n) > 0
           /\ _base_units(n) * Pow10[Frac] - n < Pow10[Frac]
           /\ n - _base_units(n) * Pow10[Frac] < Pow10[Frac]
<1> DEFINE F == Pow10[Frac]
           s == Scaled(n)
           u == _base_units(n)
<1>0. Prec \in Nat \ {0} /\ Frac \in Nat /\ Top = Prec + Frac /\ Top \in Nat
  BY AmountsAssumption DEF Top
<1>1. n \in Nat /\ n > 0 /\ s >= F
  BY AmountsAssumption DEF _amount
<1>2. F \in Nat \ {0}
  BY <1>0, PowGrows
<1>3. u = RoundHalfEven(s, F)
  BY DEF _base_units
<1> HIDE DEF F, s, u
<1>4. ASSUME s \in Nat
      PROVE  /\ u \in Nat /\ u * F \in Nat /\ u > 0
             /\ 2 * (u * F - s) <= F /\ 2 * (s - u * F) <= F
  <2>1. u \in Nat /\ u * F \in Nat /\ 2 * (u * F - s) <= F /\ 2 * (s - u * F) <= F
    BY <1>2, <1>3, <1>4, RoundOff
  <2>2. u # 0
    <3> SUFFICES ASSUME u = 0 PROVE FALSE
      OBVIOUS
    <3>1. u * F = 0
      BY <1>2
    <3> QED
      BY <1>1, <1>2, <1>4, <2>1, <3>1
  <2> QED
    BY <2>1, <2>2
<1>5. CASE n < Pow10[Prec]
  <2>1. s = n
    BY <1>5 DEF s, Scaled
  <2> QED
    BY <1>1, <1>2, <1>4, <2>1 DEF F, u
<1>6. CASE ~(n < Pow10[Prec])
  <2> DEFINE e == Digits(n) - Prec
             m == Pow10[e]
             q == RoundHalfEven(n, m)
  <2>1. e \in 0 .. Frac /\ e \in 0 .. Top /\ Frac \in 0 .. Top
    BY <1>0, <1>1, <1>6, DigitsLost
  <2>2. s = q * m
    BY <1>6 DEF s, Scaled
  <2> HIDE DEF e
  <2>3. m \in Nat \ {0} /\ (e < Frac => 10 * m <= F)
    BY <1>0, <2>1, PowGrows DEF F
  <2>4. e = Frac => m = F
    BY DEF F
  <2> HIDE DEF m
  <2>5. q \in Nat /\ s \in Nat /\ 2 * (s - n) <= m /\ 2 * (n - s) <= m
    BY <1>1, <2>2, <2>3, RoundOff
  <2>6. CASE e < Frac
    BY <1>1, <1>2, <1>4, <2>3, <2>5, <2>6 DEF F, u
  <2>7. CASE e = Frac
    <3> HIDE DEF q
    <3>1. u = q
      BY <1>2, <1>3, <2>2, <2>4, <2>5, <2>7, RoundMultiple
    <3>2. u * F = s
      BY <2>2, <2>4, <2>7, <3>1
    <3> QED
      BY <1>1, <1>2, <1>4, <2>4, <2>5, <2>7, <3>2 DEF F, u
  <2> QED
    BY <1>0, <2>1, <2>6, <2>7
<1> QED
  BY <1>5, <1>6

---------------------------------------------------------------------------
\* The inductive invariant

\* Both conversions give whole native units.
LEMMA NativeNat ==
    ASSUME NEW a \in Nat, NEW asset \in Assets
    PROVE  Native(asset, a) \in Nat
  <1>1. a \div Unit \in Nat
    BY DivMultiple, AmountsAssumption
  <1>2. a * WeiPerUnit \in Nat
    BY MultipleDiv, AmountsAssumption
  <1> QED BY <1>1, <1>2 DEF Native, Assets

\* The program starts with nothing read and nothing computed.
LEMMA InitInv == Init => AmountInv
  BY AmountsAssumption
  DEF Init, AmountInv, TypeOK, SweepInv, Built, JobType, Done, Tokens

\* Parsing leaves only accepted amounts to the commands that follow.
LEMMA ParseAmountInv == AmountInv /\ ParseAmount => AmountInv'
  <1> SUFFICES ASSUME AmountInv, ParseAmount PROVE AmountInv'
    OBVIOUS
  <1> USE DEF AmountInv, ParseAmount
  <1>1. pc' \in {"usage", "fees", "amount"}
    OBVIOUS
  <1>2. TypeOK'
    BY <1>1 DEF TypeOK, Done
  <1>3. pc' \in {"fees", "amount"} /\ ~job.sweep => _amount(job.typed)
    OBVIOUS
  <1>4. SweepInv'
    BY <1>1, <1>3 DEF SweepInv, Built
  <1> QED BY <1>2, <1>4

\* max_fee_per_gas is a number, and nothing else has been computed.
LEMMA FetchFeesInv == AmountInv /\ FetchFees => AmountInv'
  BY AmountsAssumption
  DEF AmountInv, FetchFees, TypeOK, SweepInv, Built, Done

\* A sweep's amount is what was read, less the reserve.
LEMMA ComputeAmountInv == AmountInv /\ ComputeAmount => AmountInv'
  <1> SUFFICES ASSUME AmountInv, ComputeAmount PROVE AmountInv'
    OBVIOUS
  <1> DEFINE sendable == eth_sweep_sendable(balance, maxFee)
  <1>1. /\ pc = "amount" /\ seen' = balance
        /\ UNCHANGED <<job, balance, coin, baseFee, maxFee, native>>
    BY DEF ComputeAmount
  <1>2. /\ balance \in Nat /\ maxFee \in Nat /\ Gas * maxFee \in Nat
        /\ amount \in Nat /\ job \in JobType
    BY FeeMonotone, AmountsAssumption DEF AmountInv, TypeOK
  <1>3. CASE ~job.sweep
    <2>1. amount' = _base_units(job.typed) /\ pc' = "build"
      BY <1>3 DEF ComputeAmount
    <2>2. _amount(job.typed)
      BY <1>1, <1>3 DEF AmountInv, SweepInv, Built
    <2>3. job.typed \in Typed
      BY <1>2, <2>2 DEF JobType, _amount
    <2>4. amount' \in Nat
      BY <2>1, <2>2, <2>3, RoundedTwice
    <2> QED BY <1>1, <1>2, <1>3, <2>1, <2>4 DEF AmountInv, TypeOK, SweepInv, Built
  <1>4. CASE job.sweep /\ pc' = "aborted"
    <2>1. amount' = amount
      BY <1>4 DEF ComputeAmount
    <2> QED BY <1>1, <1>2, <1>4, <2>1 DEF AmountInv, TypeOK, SweepInv, Built, Done
  <1>5. CASE job.sweep /\ job.asset = "ETH" /\ pc' # "aborted"
    <2>1. amount' = ToUnits(sendable) /\ pc' = "build" /\ sendable > 0
      BY <1>1, <1>2, <1>5 DEF ComputeAmount, NothingToSweep, eth_sweep_sendable
    <2>2. sendable \in Nat /\ sendable = balance - Gas * maxFee
      BY <1>2, <2>1 DEF eth_sweep_sendable
    <2>3. amount' \in Nat
      BY <2>1, <2>2, DivMultiple, AmountsAssumption DEF ToUnits
    <2> HIDE DEF sendable
    <2>4. TypeOK'
      BY <1>1, <1>2, <2>1, <2>3 DEF AmountInv, TypeOK
    <2>5. Reserve' = Gas * maxFee
      BY <1>1, <1>5 DEF Reserve
    <2>6. SweepInv'
      BY <1>1, <1>2, <1>5, <2>1, <2>2, <2>5 DEF SweepInv, Built, ToUnits
    <2> QED BY <2>4, <2>6 DEF AmountInv
  <1>6. CASE job.sweep /\ job.asset # "ETH" /\ pc' # "aborted"
    <2>1. amount' = token_sweep_amount(balance) /\ pc' = "build"
      BY <1>6 DEF ComputeAmount
    <2>2. amount' = balance * Unit /\ amount' \in Nat
      BY <1>2, <2>1, MultipleDiv, AmountsAssumption DEF token_sweep_amount
    <2>3. TypeOK'
      BY <1>1, <1>2, <2>1, <2>2 DEF AmountInv, TypeOK
    <2>4. Reserve' = 0
      BY <1>1, <1>6 DEF Reserve
    <2>5. SweepInv'
      BY <1>1, <1>2, <1>6, <2>1, <2>2, <2>4 DEF SweepInv, Built
    <2> QED BY <2>3, <2>5 DEF AmountInv
  <1> QED BY <1>3, <1>4, <1>5, <1>6

\* Only a transaction within the cap is signed.
LEMMA BuildTxInv == AmountInv /\ BuildTx => AmountInv'
  <1> SUFFICES ASSUME AmountInv, BuildTx PROVE AmountInv'
    OBVIOUS
  <1>1. /\ pc = "build"
        /\ UNCHANGED <<job, balance, coin, baseFee, maxFee, seen, amount>>
    BY DEF BuildTx
  <1>2. /\ amount \in Nat /\ job.asset \in Assets /\ Gas * maxFee \in Nat
        /\ MaxFeeWei \in Nat
    BY FeeMonotone, AmountsAssumption DEF AmountInv, TypeOK, JobType
  <1>3. \/ pc' = "remainder" /\ native' = native
        \/ /\ native' = Native(job.asset, amount)
           /\ pc' \in {"aborted", "post"}
           /\ pc' = "post" /\ job.asset \in Evm => ~OverCap
    BY DEF BuildTx
  <1>4. native' \in Nat
    BY <1>2, <1>3, NativeNat DEF AmountInv, TypeOK
  <1>5. TypeOK'
    BY <1>1, <1>3, <1>4 DEF AmountInv, TypeOK, Done
  <1>6. Reserve' = Reserve
    BY <1>1 DEF Reserve
  <1>7. pc' = "post" /\ job.asset \in Evm => Gas * maxFee <= MaxFeeWei
    BY <1>2, <1>3 DEF OverCap
  <1>8. SweepInv'
    BY <1>1, <1>3, <1>6, <1>7 DEF AmountInv, SweepInv, Built
  <1> QED BY <1>5, <1>8 DEF AmountInv

\* The transaction of a sweep is what was read, less the reserve and less than
\* one base unit.
LEMMA SweepNative ==
    ASSUME AmountInv, job.sweep, pc \in Built
    PROVE  /\ native + Reserve <= seen
           /\ IF job.asset = "ETH" THEN seen - (native + Gas * maxFee) < WeiPerUnit
              ELSE native = seen
  <1>1. /\ seen \in Nat /\ Gas * maxFee \in Nat /\ job \in JobType
        /\ native = Native(job.asset, amount)
    BY FeeMonotone, AmountsAssumption DEF AmountInv, TypeOK, SweepInv, Built
  <1>2. CASE job.asset = "ETH"
    <2>1. Reserve = Gas * maxFee /\ seen - Reserve \in Nat
      BY <1>1, <1>2 DEF AmountInv, SweepInv, Reserve
    <2>2. native = ((seen - Reserve) \div WeiPerUnit) * WeiPerUnit
      BY <1>1, <1>2 DEF AmountInv, SweepInv, Native, ToUnits
    <2> DEFINE x == seen - Reserve
    <2>3. native \in Nat /\ native <= x /\ x - native < WeiPerUnit
      <3>1. x \in Nat /\ native = (x \div WeiPerUnit) * WeiPerUnit
        BY <2>1, <2>2
      <3> HIDE DEF x
      <3>2. (x \div WeiPerUnit) * WeiPerUnit <= x
            /\ x - (x \div WeiPerUnit) * WeiPerUnit < WeiPerUnit
        BY <3>1, DivMultiple, AmountsAssumption
      <3> QED BY <3>1, <3>2 DEF AmountInv, TypeOK
    <2> QED BY <1>1, <1>2, <2>1, <2>3, AmountsAssumption
  <1>3. CASE job.asset # "ETH"
    <2>1. job.asset \in {"ERC20", "TRC20"}
      BY <1>1, <1>3 DEF JobType, Tokens
    <2>2. native = (seen * Unit) \div Unit
      BY <1>1, <2>1 DEF AmountInv, SweepInv, Native
    <2>3. native = seen
      BY <1>1, <2>2, MultipleDiv, AmountsAssumption
    <2> QED BY <1>1, <1>3, <2>3 DEF Reserve
  <1> QED BY <1>2, <1>3

\* A sweep has what it sends, and the reserve.
LEMMA SweepCovered ==
    ASSUME AmountInv, job.sweep, pc \in {"post", "pending"}
    PROVE  balance >= native + Reserve
  <1>1. native + Reserve <= seen /\ seen <= balance
    BY SweepNative DEF AmountInv, SweepInv, Built
  <1>2. /\ balance \in Nat /\ seen \in Nat /\ native \in Nat /\ Reserve \in Nat
    BY FeeMonotone, AmountsAssumption DEF AmountInv, TypeOK, Reserve
  <1> QED BY <1>1, <1>2

\* A node rejects a sweep only for want of the coin that pays the fee.
LEMMA PostTxInv == AmountInv /\ PostTx => AmountInv'
  <1> SUFFICES ASSUME AmountInv, PostTx PROVE AmountInv'
    OBVIOUS
  <1>1. /\ pc = "post"
        /\ UNCHANGED <<job, balance, coin, baseFee, maxFee, seen, amount, native>>
        /\ pc' \in NodeAnswers
    BY DEF PostTx
  <1>2. /\ coin \in Nat /\ Gas * maxFee \in Nat /\ job \in JobType
    BY FeeMonotone, AmountsAssumption DEF AmountInv, TypeOK
  <1>3. job.sweep => balance >= native + Reserve
    BY <1>1, SweepCovered
  <1>4. /\ pc' \in {"pending", "rejected"}
        /\ pc' = "pending" => /\ job.asset \notin Tokens => balance >= native + Reserve
                              /\ job.asset = "ERC20" => ~CoinShort
        /\ pc' = "rejected" => CoinShort \/ ~(balance >= native + Reserve)
    BY <1>1 DEF NodeAnswers, Tokens
  <1>5. job.asset = "ERC20" /\ ~CoinShort => coin >= Gas * maxFee
    BY <1>2 DEF CoinShort
  <1>6. TypeOK'
    BY <1>1, <1>4 DEF AmountInv, TypeOK, Done
  <1>7. Reserve' = Reserve /\ CoinShort' = CoinShort
    BY <1>1 DEF Reserve, CoinShort
  <1>8. SweepInv'
    BY <1>1, <1>3, <1>4, <1>5, <1>7 DEF AmountInv, SweepInv, Built
  <1> QED BY <1>6, <1>8 DEF AmountInv

\* The smaller of two numbers.
LEMMA LeastOf ==
    ASSUME NEW x \in Nat, NEW y \in Nat
    PROVE  Least(x, y) \in Nat /\ Least(x, y) <= x /\ Least(x, y) <= y
  BY DEF Least

\* What a block charges: at most what the gate has seen, or the fee limit.  A sweep
\* that reverts is one of TRON.
LEMMA Charged ==
    ASSUME AmountInv, Mine
    PROVE  /\ balance' \in Nat /\ coin' \in Nat /\ pc' \in {"mined", "reverted"}
           /\ job.asset = "ETH" => balance - balance' - native <= MaxFeeWei
           /\ job.asset = "ERC20" => coin - coin' <= MaxFeeWei
           /\ job.asset = "TRC20" => coin - coin' <= FeeLimit
           /\ pc' = "reverted" /\ job.sweep =>
                    balance' >= native + Reserve /\ job.asset = "TRC20"
  <1>0. pc = "pending" /\ (job.sweep => balance >= native + Reserve)
    BY SweepCovered DEF Mine
  <1>1. /\ balance \in Nat /\ coin \in Nat /\ native \in Nat /\ baseFee \in Nat
        /\ maxFee \in Nat /\ Gas \in Nat /\ MaxFeeWei \in Nat /\ FeeLimit \in Nat
        /\ Tip \in Nat /\ TronCost \subseteq Nat
    BY AmountsAssumption DEF AmountInv, TypeOK
  <1>2. GasPrice \in Nat /\ GasPrice <= maxFee
    BY <1>1 DEF GasPrice
  <1>3. /\ Gas * GasPrice \in Nat /\ Gas * maxFee \in Nat /\ Gas * GasPrice <= Gas * maxFee
    BY <1>1, <1>2, FeeMonotone
  <1>4. /\ job.asset \notin Tokens => balance >= native + Reserve
        /\ job.asset = "ERC20" => coin >= Gas * maxFee
        /\ job.asset \in Evm => Gas * maxFee <= MaxFeeWei
    BY <1>0 DEF AmountInv, SweepInv, Built
  <1>5. CASE job.asset = "BTC" /\ balance' = balance - native /\ pc' = "mined" /\ coin' = coin
    <2>1. Reserve = 0 /\ job.asset \notin Tokens
      BY <1>5 DEF Reserve, Tokens
    <2> QED BY <1>1, <1>4, <1>5, <2>1
  <1>6. CASE /\ job.asset = "ETH" /\ balance' = balance - native - Gas * GasPrice
             /\ pc' = "mined" /\ coin' = coin
    <2>1. Reserve = Gas * maxFee /\ job.asset \notin Tokens /\ job.asset \in Evm
      BY <1>6 DEF Reserve, Tokens, Evm
    <2> QED BY <1>1, <1>3, <1>4, <1>6, <2>1
  <1>7. CASE /\ job.asset = "ERC20" /\ coin' = coin - Gas * GasPrice
             /\ \/ balance >= native /\ balance' = balance - native /\ pc' = "mined"
                \/ balance < native /\ balance' = balance /\ pc' = "reverted"
    <2>1. Reserve = 0 /\ job.asset \in Evm
      BY <1>7 DEF Reserve, Evm
    <2> QED BY <1>0, <1>1, <1>3, <1>4, <1>7, <2>1
  <1>8. CASE \E k \in Nat : /\ job.asset = "TRX" /\ balance >= native + k
                            /\ balance' = balance - native - k /\ pc' = "mined" /\ coin' = coin
    BY <1>1, <1>8
  <1>9. CASE \E k \in Nat : /\ job.asset = "TRC20"
                            /\ coin' = coin - Least(k, Least(coin, FeeLimit))
                            /\ \/ /\ balance >= native /\ balance' = balance - native
                                  /\ pc' = "mined"
                               \/ balance' = balance /\ pc' = "reverted"
    <2>1. PICK k \in Nat : coin' = coin - Least(k, Least(coin, FeeLimit))
      BY <1>9
    <2>2. /\ Least(coin, FeeLimit) \in Nat /\ Least(coin, FeeLimit) <= coin
          /\ Least(coin, FeeLimit) <= FeeLimit
      BY <1>1, LeastOf
    <2>3. coin' \in Nat /\ coin - coin' <= FeeLimit
      <3>1. /\ Least(k, Least(coin, FeeLimit)) \in Nat
            /\ Least(k, Least(coin, FeeLimit)) <= Least(coin, FeeLimit)
        BY <2>2, LeastOf
      <3> QED BY <1>1, <2>1, <2>2, <3>1
    <2> QED BY <1>0, <1>1, <1>9, <2>3
  <1>10. TronCost \cup {0} \subseteq Nat
    BY <1>1
  <1> QED BY <1>5, <1>6, <1>7, <1>8, <1>9, <1>10 DEF Mine

\* The account is never overdrawn.
LEMMA MineInv == AmountInv /\ Mine => AmountInv'
  <1> SUFFICES ASSUME AmountInv, Mine PROVE AmountInv'
    OBVIOUS
  <1>1. /\ balance' \in Nat /\ coin' \in Nat /\ pc' \in {"mined", "reverted"}
        /\ UNCHANGED <<job, baseFee, maxFee, seen, amount, native>>
        /\ pc' = "reverted" /\ job.sweep =>
                balance' >= native + Reserve /\ job.asset = "TRC20"
    BY Charged DEF Mine
  <1>2. Reserve' = Reserve
    BY <1>1 DEF Reserve
  <1>3. pc = "pending" /\ pc \in Built
    BY DEF Mine, Built
  <1>4. TypeOK'
    BY <1>1 DEF AmountInv, TypeOK, Done
  <1>5. SweepInv'
    BY <1>1, <1>2, <1>3 DEF AmountInv, SweepInv, Built
  <1> QED BY <1>4, <1>5 DEF AmountInv

\* The reserve is of max_fee_per_gas, not of the base fee.
LEMMA BaseFeeMovesInv == AmountInv /\ BaseFeeMoves => AmountInv'
  <1> SUFFICES ASSUME AmountInv, BaseFeeMoves PROVE AmountInv'
    OBVIOUS
  <1>1. TypeOK'
    BY AmountsAssumption DEF AmountInv, BaseFeeMoves, TypeOK
  <1>2. Reserve' = Reserve /\ CoinShort' = CoinShort
    BY DEF BaseFeeMoves, Reserve, CoinShort
  <1>3. SweepInv'
    BY <1>2 DEF AmountInv, BaseFeeMoves, SweepInv, Built
  <1> QED BY <1>1, <1>3 DEF AmountInv

\* A payment only adds to what was read.
LEMMA PaymentArrivesInv == AmountInv /\ PaymentArrives => AmountInv'
  <1> SUFFICES ASSUME AmountInv, PaymentArrives PROVE AmountInv'
    OBVIOUS
  <1>1. PICK b \in Balance : \/ balance' = balance + b /\ coin' = coin
                             \/ coin' = coin + b /\ balance' = balance
    BY DEF PaymentArrives
  <1>2. /\ balance \in Nat /\ coin \in Nat /\ b \in Nat /\ seen \in Nat /\ native \in Nat
        /\ Gas * maxFee \in Nat
    BY FeeMonotone, AmountsAssumption DEF AmountInv, TypeOK
  <1>3. balance' \in Nat /\ balance' >= balance /\ coin' \in Nat /\ coin' >= coin
    BY <1>1, <1>2
  <1>4. TypeOK'
    BY <1>3 DEF AmountInv, PaymentArrives, TypeOK
  <1>5. /\ Reserve' = Reserve /\ Reserve \in Nat /\ pc \notin {"rejected", "reverted"}
        /\ UNCHANGED <<job, baseFee, maxFee, seen, amount, native, pc>>
    BY <1>2 DEF PaymentArrives, Reserve, Done
  <1>6. SweepInv'
    BY <1>2, <1>3, <1>5 DEF AmountInv, SweepInv, Built
  <1> QED BY <1>4, <1>6 DEF AmountInv

\* Every step keeps the invariant.
LEMMA NextInv == AmountInv /\ [Next]_vars => AmountInv'
  <1> SUFFICES ASSUME AmountInv, [Next]_vars PROVE AmountInv'
    OBVIOUS
  <1>1. CASE UNCHANGED vars
    BY <1>1 DEF AmountInv, TypeOK, SweepInv, Reserve, CoinShort, vars
  <1>2. CASE Next
    BY <1>2, ParseAmountInv, FetchFeesInv, ComputeAmountInv, BuildTxInv, PostTxInv,
       MineInv, BaseFeeMovesInv, PaymentArrivesInv DEF Next
  <1> QED BY <1>1, <1>2

\* AmountInv holds in every reachable state.
LEMMA Inductive == Spec => []AmountInv
  BY InitInv, NextInv, PTL DEF Spec

---------------------------------------------------------------------------
\* The theorems

\* Amounts, balances and fees stay natural numbers, for every typed amount,
\* balance, fee and cap.
THEOREM TypeCorrect == Spec => []TypeOK
  <1>1. AmountInv => TypeOK
    BY DEF AmountInv
  <1> QED BY <1>1, Inductive, PTL

\* A sweep is never too large: eth_sweep_amount reserves the worst-case fee and
\* rounding down only leaves more, and a token sweep sends what is there.  Only the
\* chain's own coin can be short for a token (cli.py _send_eth, _send_tron).
THEOREM SweepsAffordable == Spec => []SweepAffordable
  <1>1. AmountInv => SweepAffordable
    BY SweepCovered DEF AmountInv, SweepInv, SweepAffordable
  <1> QED BY <1>1, Inductive, PTL

\* A sweep leaves nothing of a token, and of ETH the reserve and less than one
\* base unit.
THEOREM SweepsComplete == Spec => []SweepComplete
  <1>1. AmountInv => SweepComplete
    BY SweepNative DEF AmountInv, SweepInv, SweepComplete
  <1> QED BY <1>1, Inductive, PTL

\* The gate's cap on gas * max_fee_per_gas is a cap on what is charged, for ETH and
\* its tokens, and the fee limit is one on TRON.
THEOREM FeesCapped == Spec => FeeWithinCap
  <1>1. AmountInv /\ [Next]_vars =>
            [pc = "pending" /\ pc' \in {"mined", "reverted"} =>
                /\ job.asset = "ETH" => balance - balance' - native <= MaxFeeWei
                /\ job.asset = "ERC20" => coin - coin' <= MaxFeeWei
                /\ job.asset = "TRC20" => coin - coin' <= FeeLimit]_vars
    <2> SUFFICES ASSUME AmountInv, Next, pc = "pending", pc' \in {"mined", "reverted"}
                 PROVE  /\ job.asset = "ETH" => balance - balance' - native <= MaxFeeWei
                        /\ job.asset = "ERC20" => coin - coin' <= MaxFeeWei
                        /\ job.asset = "TRC20" => coin - coin' <= FeeLimit
      OBVIOUS
    <2>1. Mine
      BY DEF Next, ParseAmount, FetchFees, ComputeAmount, BuildTx, PostTx,
             BaseFeeMoves, PaymentArrives
    <2> QED BY <2>1, Charged
  <1> QED BY <1>1, Inductive, PTL DEF Spec, FeeWithinCap

\* A typed amount is kept: what _amount accepts, _base_units turns into a whole
\* number of base units less than one away from it, and nothing changes it after.
THEOREM TypedAmountKept == Spec => []CloseToTyped
<1>1. Init => CloseToTyped
  BY DEF Init, CloseToTyped, Computed
<1>2. AmountInv /\ CloseToTyped /\ [Next]_vars => CloseToTyped'
  <2> SUFFICES ASSUME AmountInv, CloseToTyped, [Next]_vars, Computed', ~job'.sweep
               PROVE  /\ amount' > 0
                      /\ amount' * Pow10[Frac] - job'.typed < Pow10[Frac]
                      /\ job'.typed - amount' * Pow10[Frac] < Pow10[Frac]
    BY DEF CloseToTyped
  <2>1. job' = job
    BY DEF Next, vars, ParseAmount, FetchFees, ComputeAmount, BuildTx, PostTx, Mine,
           BaseFeeMoves, PaymentArrives
  <2>2. CASE ComputeAmount
    <3>1. pc = "amount" /\ amount' = _base_units(job.typed)
      BY <2>1, <2>2 DEF ComputeAmount
    <3>2. _amount(job.typed) /\ job \in JobType
      BY <2>1, <3>1 DEF AmountInv, SweepInv, TypeOK
    <3>3. job.typed \in Typed
      BY <3>2 DEF JobType, _amount
    <3> QED
      BY <2>1, <3>1, <3>2, <3>3, RoundedTwice
  <2>3. CASE ~ComputeAmount
    <3>1. amount' = amount
      BY <2>3 DEF Next, vars, ParseAmount, FetchFees, BuildTx, PostTx, Mine, BaseFeeMoves,
                  PaymentArrives
    <3>2. Computed
      BY <2>3 DEF Computed, Next, vars, ParseAmount, FetchFees, BuildTx, PostTx, Mine,
                  BaseFeeMoves, PaymentArrives
    <3> QED
      BY <2>1, <3>1, <3>2 DEF CloseToTyped
  <2> QED
    BY <2>2, <2>3
<1> QED
  BY <1>1, <1>2, Inductive, PTL DEF Spec
===========================================================================
