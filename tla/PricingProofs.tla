---------------------------- MODULE PricingProofs ----------------------------
(***************************************************************************)
(* The binary search of FourthRoot returns the clamped integer fourth root *)
(* of its argument, and the integer arithmetic of a price around it is     *)
(* exact: division, saturation, the bound of the search and the clamp      *)
(* together give the multiplier of exact arithmetic, for every bill and    *)
(* every width of the integers.                                            *)
(***************************************************************************)
EXTENDS Pricing, TLAPS

(* The binary search of FourthRoot.                                        *)

LEMMA SquareIsMonotone ==
    ASSUME NEW a \in Nat, NEW b \in Nat, a =< b
    PROVE  a * a \in Nat /\ b * b \in Nat /\ a * a =< b * b
<1>1. a * a =< a * b
    BY SMT
<1>2. a * b =< b * b
    BY SMT
<1> QED
    BY <1>1, <1>2, SMT

\* Fourth powers are ordered as their roots are.
LEMMA Pow4IsMonotone ==
    ASSUME NEW a \in Nat, NEW b \in Nat, a =< b
    PROVE  Pow4(a) =< Pow4(b)
<1>1. a * a \in Nat /\ b * b \in Nat /\ a * a =< b * b
    BY SquareIsMonotone
<1>2. (a * a) * (a * a) =< (b * b) * (b * b)
    BY <1>1, SquareIsMonotone
<1>3. Pow4(a) = (a * a) * (a * a) /\ Pow4(b) = (b * b) * (b * b)
    BY SMT DEF Pow4
<1> QED
    BY <1>2, <1>3

LEMMA Pow4IsNat ==
    ASSUME NEW n \in Nat
    PROVE  Pow4(n) \in Nat
BY SMT DEF Pow4

\* The probe lies between the two ends.
LEMMA MidIsBetween ==
    ASSUME NEW l \in Nat, NEW h \in Nat, l =< h
    PROVE  l + (h - l) \div 2 \in l..h
BY SMT

LEMMA ZeroIsARoot == Pow4(0) = 0
BY SMT DEF Pow4

-----------------------------------------------------------------------------
LEMMA InitSearch == Init => SearchInv
<1> SUFFICES ASSUME Init PROVE SearchInv
    OBVIOUS
<1>1. MaxRoot \in Nat /\ Vals \subseteq Nat
    BY RootAssumption DEF RootAssumption
<1>2. returned \in BOOLEAN /\ ~returned
    BY Zenon DEF Init
<1>3. low = 0 /\ high = MaxRoot /\ ans = 0 /\ val \in Vals
    BY DEF Init
<1> QED
    BY <1>1, <1>2, <1>3 DEF SearchInv, TypeOK

LEMMA StepSearch == SearchInv /\ [Next]_vars => SearchInv'
<1> SUFFICES ASSUME SearchInv, [Next]_vars
             PROVE  SearchInv'
    OBVIOUS
<1>a. MaxRoot \in Nat
    BY RootAssumption
<1>1. CASE UNCHANGED vars
    BY <1>a, <1>1 DEF vars, SearchInv, TypeOK
<1>2. CASE Step /\ low =< high
  <2> DEFINE mid == low + (high - low) \div 2
  <2>1. mid \in low..high /\ mid \in 0..MaxRoot
      BY <1>a, <1>2, MidIsBetween DEF SearchInv, TypeOK
  <2>2. GoUp(mid) \/ GoDown(mid)
      BY <1>2 DEF Step
  <2> HIDE DEF mid
  <2>3. CASE GoUp(mid)
      BY <1>a, <1>2, <2>1, <2>3 DEF GoUp, Fits, Step, SearchInv, TypeOK
  <2>4. CASE GoDown(mid)
    <3>1. mid # 0
        BY <2>4, ZeroIsARoot DEF GoDown, Fits, SearchInv, TypeOK
    <3>2. /\ high' = mid - 1
          /\ UNCHANGED <<val, low, ans, returned>>
          /\ val < Pow4(mid)
        BY <2>4, <3>1, <2>1, Pow4IsNat DEF GoDown, Fits, SearchInv, TypeOK
    <3>3. high' + 1 = mid
        BY <3>2, <2>1
    <3> QED
        BY <1>a, <1>2, <2>1, <3>1, <3>2, <3>3 DEF Step, SearchInv, TypeOK
  <2> QED
      BY <2>2, <2>3, <2>4
<1>3. CASE Step /\ low > high
  <2>1. low > high /\ Return
      BY <1>a, <1>3 DEF Step, SearchInv, TypeOK
  <2>2. returned' \in BOOLEAN
      BY <2>1, Zenon DEF Return
  <2>3. UNCHANGED <<val, low, high, ans>> /\ low = high + 1
      BY <1>a, <2>1 DEF Return, SearchInv, TypeOK
  <2> QED
      BY <1>a, <2>2, <2>3 DEF SearchInv, TypeOK
<1> QED
    BY <1>1, <1>2, <1>3 DEF Next, SearchInv, TypeOK

LEMMA SearchInvariance == Spec => []SearchInv
<1> QED
    BY InitSearch, StepSearch, PTL DEF Spec

-----------------------------------------------------------------------------
LEMMA SearchFindsFloor == SearchInv => RootIsFloor
<1> SUFFICES ASSUME SearchInv, returned
             PROVE  /\ Pow4(ans) =< val
                    /\ ans = MaxRoot \/ val < Pow4(ans + 1)
    BY DEF RootIsFloor
<1>1. low > 0 /\ ans = low - 1 /\ high = low - 1
    BY DEF SearchInv, TypeOK
<1> QED
    BY <1>1, RootAssumption DEF SearchInv, TypeOK

LEMMA FloorGivesMultiplier == TypeOK /\ RootIsFloor => MultiplierIsExact
<1> SUFFICES ASSUME TypeOK, RootIsFloor, returned,
                    NEW k \in 0..val, Pow4(k) =< val, val < Pow4(k + 1)
             PROVE  clamp(ans) = clamp(k)
    BY DEF MultiplierIsExact
<1>1. /\ k \in Nat /\ ans \in Nat /\ val \in Nat
      /\ Pow4(ans) \in Nat /\ Pow4(k) \in Nat
      /\ Pow4(ans + 1) \in Nat /\ Pow4(k + 1) \in Nat
    BY Pow4IsNat, RootAssumption DEF TypeOK
<1>2. ans =< k
  <2> SUFFICES ASSUME ~(ans =< k) PROVE FALSE
      OBVIOUS
  <2>1. Pow4(k + 1) =< Pow4(ans)
      BY <1>1, Pow4IsMonotone
  <2> QED
      BY <1>1, <2>1 DEF RootIsFloor
<1>3. CASE ans = MaxRoot
    BY <1>1, <1>2, <1>3, ClampAssumption, RootAssumption DEF clamp
<1>4. CASE val < Pow4(ans + 1)
  <2>1. k =< ans
    <3> SUFFICES ASSUME ~(k =< ans) PROVE FALSE
        OBVIOUS
    <3>1. Pow4(ans + 1) =< Pow4(k)
        BY <1>1, Pow4IsMonotone
    <3> QED
        BY <1>1, <1>4, <3>1
  <2> QED
      BY <1>1, <1>2, <2>1
<1> QED
    BY <1>3, <1>4 DEF RootIsFloor

\* No variable of the search leaves its range: the u64 subtractions of
\* integer_fourth_root do not wrap.
THEOREM RootTypeOK == Spec => []TypeOK
<1>1. SearchInv => TypeOK
    BY DEF SearchInv
<1> QED
    BY <1>1, SearchInvariance, PTL

\* integer_fourth_root returns the floor of the fourth root, or its bound.
THEOREM RootOfEveryArgument == Spec => []RootIsFloor
<1> QED
    BY SearchFindsFloor, SearchInvariance, PTL

\* tps_multiplier_milli clamps the true root of every argument: the bound
\* 30000 is never visible in a price.
THEOREM MultiplierOfEveryArgument == Spec => []MultiplierIsExact
<1> QED
    BY RootTypeOK, RootOfEveryArgument, FloorGivesMultiplier, PTL

-----------------------------------------------------------------------------
(* The arithmetic around it.                                               *)

LEMMA ProductIsNat ==
    ASSUME NEW a \in Nat, NEW b \in Nat
    PROVE  a * b \in Nat
BY SMT

LEMMA ProductIsMonotone ==
    ASSUME NEW a \in Nat, NEW b \in Nat, NEW c \in Nat, a =< b
    PROVE  a * c =< b * c
BY SMT

\* A quotient is the floor of the fraction.
LEMMA Quotient ==
    ASSUME NEW a \in Nat, NEW b \in Nat \ {0}
    PROVE  /\ a \div b \in Nat
           /\ (a \div b) * b =< a
           /\ a < (a \div b + 1) * b
<1> DEFINE q == a \div b
<1>1. q \in Nat
    BY SMT
<1>2. b * q =< a
    BY SMT
<1>3. a < b * q + b
    BY SMT
<1> HIDE DEF q
<1>4. (q + 1) * b = b * q + b /\ q * b = b * q
    BY <1>1, SMT
<1> QED
    BY <1>1, <1>2, <1>3, <1>4 DEF q

LEMMA CubeIsNat ==
    ASSUME NEW n \in Nat
    PROVE  Pow3(n) \in Nat /\ (n > 0 => Pow3(n) > 0)
BY SMT DEF Pow3

\* Saturation at the scale only: a saturated cube saturates the product too.
LEMMA ScaleSaturates ==
    ASSUME NEW a \in Nat, NEW s \in Nat \ {0}, NEW max \in Nat
    PROVE  SaturatingMul(Least(max, a), s, max) = Least(max, a * s)
<1>1. CASE a =< max
    BY <1>1 DEF SaturatingMul, Least
<1>2. CASE a > max
  <2>1. max * s >= max /\ a * s >= a /\ max * s \in Nat /\ a * s \in Nat
      BY SMT
  <2> QED
      BY <1>2, <2>1 DEF SaturatingMul, Least
<1> QED
    BY <1>1, <1>2

-----------------------------------------------------------------------------
\* What the search is given, when the cube of the median does not saturate.
LEMMA RatioOfBill ==
    ASSUME NEW b \in Bills, Pow3(Median(b)) =< MaxU128
    PROVE  /\ Median(b) \in Nat \ {0}
           /\ Pow3(b.tps) * Pow4(Milli) \in Nat
           /\ Pow3(Median(b)) \in Nat \ {0}
           /\ Ratio(b) = Least(MaxU128, Pow3(b.tps) * Pow4(Milli)) \div Pow3(Median(b))
<1>1. b.tps \in Nat /\ Median(b) \in Nat \ {0} /\ Milli \in Nat \ {0} /\ MaxU128 \in Nat
    BY PricingAssumption DEF Median
<1>2. Pow3(b.tps) \in Nat /\ Pow3(Median(b)) \in Nat \ {0}
    BY <1>1, CubeIsNat
<1>3. Pow4(Milli) \in Nat \ {0}
    BY <1>1, SMT DEF Pow4
<1>4. Least(MaxU128, Pow3(Median(b))) = Pow3(Median(b))
    BY <1>1, <1>2 DEF Least
<1>5. SaturatingMul(Least(MaxU128, Pow3(b.tps)), Pow4(Milli), MaxU128)
          = Least(MaxU128, Pow3(b.tps) * Pow4(Milli))
    BY <1>1, <1>2, <1>3, ScaleSaturates
<1> QED
    BY <1>1, <1>2, <1>3, <1>4, <1>5, ProductIsNat DEF Ratio

LEMMA PriceInvariance == PriceSpec => []PriceInv
<1>1. PriceInit => PriceInv
    BY InitSearch DEF PriceInit, PriceInv
<1>2. PriceInv /\ [PriceNext]_<<vars, bill>> => PriceInv'
  <2> SUFFICES ASSUME PriceInv, [PriceNext]_<<vars, bill>>
               PROVE  PriceInv'
      OBVIOUS
  <2>1. [Next]_vars /\ bill' = bill
      BY DEF PriceNext
  <2>2. SearchInv'
      BY <2>1, StepSearch DEF PriceInv
  <2>3. val' = val
      BY <2>1 DEF Next, Step, GoUp, GoDown, Return, vars
  <2> QED
      BY <2>1, <2>2, <2>3 DEF PriceInv, Ratio, Median
<1> QED
    BY <1>1, <1>2, PTL DEF PriceSpec

\* The clamped floor of the root of the floor of a quotient: above the lower end
\* of the clamp it is at most the root of the fraction.
LEMMA RootIsNotAbove ==
    ASSUME NEW n \in Nat, NEW d \in Nat \ {0}, NEW max \in Nat,
           val = Least(max, n) \div d, TypeOK, RootIsFloor, returned,
           clamp(ans) > MinMilli
    PROVE  Pow4(clamp(ans)) * d =< n
<1> DEFINE k == clamp(ans)
           num == Least(max, n)
<1>1. /\ ans \in Nat /\ val \in Nat /\ k \in Nat /\ num \in Nat /\ num =< n /\ k =< ans
    BY RootAssumption, ClampAssumption DEF TypeOK, clamp, Least
<1>2. val * d =< num
    BY <1>1, Quotient
<1>3. Pow4(ans) \in Nat /\ Pow4(k) \in Nat
    BY <1>1, Pow4IsNat
<1>4. Pow4(k) =< val
    BY <1>1, <1>3, Pow4IsMonotone DEF RootIsFloor
<1>5. Pow4(k) * d =< val * d
    BY <1>1, <1>3, <1>4, ProductIsMonotone
<1>6. Pow4(k) * d \in Nat /\ val * d \in Nat
    BY <1>1, <1>3, ProductIsNat
<1> QED
    BY <1>1, <1>2, <1>5, <1>6

\* Below the upper end it is the floor of that root, if the upper end itself would
\* not saturate.
LEMMA RootIsNotBelow ==
    ASSUME NEW n \in Nat, NEW d \in Nat \ {0}, NEW max \in Nat,
           Pow4(MaxMilli) * d =< max,
           val = Least(max, n) \div d, TypeOK, RootIsFloor, returned,
           clamp(ans) < MaxMilli
    PROVE  n < Pow4(clamp(ans) + 1) * d
<1> DEFINE k == clamp(ans)
           num == Least(max, n)
<1>1. /\ ans \in Nat /\ val \in Nat /\ k \in Nat /\ num \in Nat
      /\ num = n \/ num = max
      /\ MaxMilli \in Nat /\ ans =< k /\ ans # MaxRoot
    BY RootAssumption, ClampAssumption DEF TypeOK, clamp, Least
<1>2. num < (val + 1) * d
    BY <1>1, Quotient
<1>3. Pow4(ans + 1) \in Nat /\ Pow4(k + 1) \in Nat /\ Pow4(MaxMilli) \in Nat
    BY <1>1, Pow4IsNat
<1>4. Pow4(ans + 1) =< Pow4(k + 1) /\ Pow4(k + 1) =< Pow4(MaxMilli)
    BY <1>1, Pow4IsMonotone
<1>5. val + 1 =< Pow4(k + 1)
    BY <1>1, <1>3, <1>4 DEF RootIsFloor
<1>6. (val + 1) * d =< Pow4(k + 1) * d
    BY <1>1, <1>3, <1>5, ProductIsMonotone
<1>7. Pow4(k + 1) * d =< Pow4(MaxMilli) * d
    BY <1>1, <1>3, <1>4, ProductIsMonotone
<1>8. /\ Pow4(k + 1) * d \in Nat /\ (val + 1) * d \in Nat
      /\ Pow4(MaxMilli) * d \in Nat
    BY <1>1, <1>3, ProductIsNat
<1> QED
    BY <1>1, <1>2, <1>6, <1>7, <1>8

\* Every price uses the multiplier of exact arithmetic: for every bill whose
\* median leaves room for the largest multiplier, neither the division, nor the
\* saturating cubes, nor the bound of the search shows.
THEOREM EveryPriceIsExact == PriceSpec => []PriceIsExact
<1>1. PriceInv => PriceIsExact
  <2> SUFFICES ASSUME PriceInv, returned,
                      Pow4(MaxMilli) * Pow3(Median(bill)) =< MaxU128
               PROVE  /\ clamp(ans) > MinMilli =>
                           Pow4(clamp(ans)) * Pow3(Median(bill)) =< Pow3(bill.tps) * Pow4(Milli)
                      /\ clamp(ans) < MaxMilli =>
                           Pow3(bill.tps) * Pow4(Milli)
                               < Pow4(clamp(ans) + 1) * Pow3(Median(bill))
      BY DEF PriceIsExact, tps_multiplier_milli
  <2>1. TypeOK /\ RootIsFloor /\ bill \in Bills /\ val = Ratio(bill)
      BY SearchFindsFloor DEF PriceInv, SearchInv
  <2>2. MaxU128 \in Nat /\ Median(bill) \in Nat \ {0} /\ Pow3(Median(bill)) \in Nat \ {0}
    <3>1. MaxU128 \in Nat /\ Median(bill) \in Nat \ {0}
        BY <2>1, PricingAssumption DEF Median
    <3> QED
        BY <3>1, CubeIsNat
  <2>3. Pow4(MaxMilli) \in Nat \ {0}
    <3>1. MaxMilli \in Nat \ {0}
        BY PricingAssumption, ClampAssumption
    <3> QED
        BY <3>1, SMT DEF Pow4
  <2>4. Pow3(Median(bill)) =< Pow4(MaxMilli) * Pow3(Median(bill))
      BY <2>2, <2>3, SMT
  <2>5. Pow3(Median(bill)) =< MaxU128
      BY <2>2, <2>3, <2>4, ProductIsNat
  <2> QED
      BY <2>1, <2>2, <2>5, RatioOfBill, RootIsNotAbove, RootIsNotBelow
<1> QED
    BY <1>1, PriceInvariance, PTL

-----------------------------------------------------------------------------
LEMMA Cancel ==
    ASSUME NEW a \in Nat, NEW b \in Nat, NEW c \in Nat \ {0}, a * c =< b * c
    PROVE  a =< b
<1> SUFFICES ASSUME a > b PROVE FALSE
    OBVIOUS
<1>1. (b + 1) * c =< a * c
    BY ProductIsMonotone
<1>2. (b + 1) * c = b * c + c /\ b * c \in Nat
    BY SMT
<1> QED
    BY <1>1, <1>2, ProductIsNat

LEMMA Pow4OfProduct ==
    ASSUME NEW a \in Nat, NEW b \in Nat
    PROVE  Pow4(a * b) = Pow4(a) * Pow4(b)
<1>1. (a * b) * (a * b) = (a * a) * (b * b)
    BY SMT
<1> DEFINE x == a * a
           y == b * b
<1>2. x \in Nat /\ y \in Nat
    BY ProductIsNat
<1>3. Pow4(a) = x * x /\ Pow4(b) = y * y
    BY SMT DEF Pow4
<1>4. a * b \in Nat
    BY ProductIsNat
<1>5. Pow4(a * b) = ((a * b) * (a * b)) * ((a * b) * (a * b))
    BY <1>4, SMT DEF Pow4
<1>6. Pow4(a * b) = (x * y) * (x * y)
    BY <1>1, <1>5
<1> HIDE DEF x, y
<1>7. (x * y) * (x * y) = (x * x) * (y * y)
    BY <1>2, SMT
<1> QED
    BY <1>3, <1>6, <1>7

\* Saturating products and the last division only ever lower the amount.
LEMMA AmountIsNotAbove ==
    ASSUME NEW b \in Bills, clamp(ans) \in Nat
    PROVE  /\ compute_amount(b) \in Nat
           /\ compute_amount(b) * Milli =< (b.tokens_generated * b.tqw_nano) * clamp(ans)
<1> DEFINE cost == b.tokens_generated * b.tqw_nano
           base == SaturatingMul(b.tokens_generated, b.tqw_nano, MaxU64)
           k == clamp(ans)
           num == SaturatingMul(base, k, MaxU64)
<1>1. MaxU64 \in Nat /\ Milli \in Nat \ {0} /\ b.tokens_generated \in Nat /\ b.tqw_nano \in Nat
    BY PricingAssumption
<1>2. cost \in Nat
    BY <1>1, ProductIsNat
<1>3. base \in Nat /\ base =< cost
    BY <1>1, <1>2 DEF SaturatingMul, Least
<1>4. base * k \in Nat /\ cost * k \in Nat /\ base * k =< cost * k
    BY <1>2, <1>3, ProductIsNat, ProductIsMonotone
<1>5. num \in Nat /\ num =< base * k
    BY <1>1, <1>4 DEF SaturatingMul, Least
<1>6. compute_amount(b) = num \div Milli
    BY DEF compute_amount, tps_multiplier_milli
<1> HIDE DEF num
<1>7. num \div Milli \in Nat /\ (num \div Milli) * Milli =< num
    BY <1>1, <1>5, Quotient
<1> QED
    BY <1>1, <1>4, <1>5, <1>6, <1>7, ProductIsNat

\* No bill is charged above the exact formula, whatever saturates, unless the cube
\* of its median does.
THEOREM NobodyIsOvercharged == PriceSpec => []NeverOvercharged
<1>1. PriceInv => NeverOvercharged
  <2> DEFINE amount == compute_amount(bill)
             base   == bill.tokens_generated * bill.tqw_nano
             k      == clamp(ans)
             m3     == Pow3(Median(bill))
             n3     == Pow3(bill.tps)
  <2> SUFFICES ASSUME PriceInv, returned, Pow3(Median(bill)) =< MaxU128,
                      ~(amount * Milli =< base * MinMilli)
               PROVE  Pow4(amount) * m3 =< Pow4(base) * n3
      BY DEF NeverOvercharged
  <2>1. TypeOK /\ RootIsFloor /\ bill \in Bills /\ val = Ratio(bill)
      BY SearchFindsFloor DEF PriceInv, SearchInv
  <2>2. k \in Nat /\ k >= MinMilli /\ MinMilli \in Nat
      BY <2>1, RootAssumption, ClampAssumption DEF TypeOK, clamp
  <2>3. /\ Milli \in Nat \ {0} /\ MaxU128 \in Nat
        /\ bill.tokens_generated \in Nat /\ bill.tqw_nano \in Nat /\ bill.tps \in Nat
      BY <2>1, PricingAssumption
  <2>4. amount \in Nat /\ amount * Milli =< base * k
      BY <2>1, <2>2, AmountIsNotAbove
  <2>5. base \in Nat /\ n3 \in Nat
      BY <2>3, ProductIsNat, CubeIsNat
  <2>6. m3 \in Nat \ {0} /\ n3 * Pow4(Milli) \in Nat /\ Ratio(bill) = Least(MaxU128, n3 * Pow4(Milli)) \div m3
      BY <2>1, RatioOfBill
  <2> HIDE DEF amount, base, m3, n3
  <2>7. k > MinMilli
      BY <2>2, <2>4
  <2>8. Pow4(k) * m3 =< n3 * Pow4(Milli)
      BY <2>1, <2>3, <2>6, <2>7, RootIsNotAbove
  <2> HIDE DEF k
  <2>9. Pow4(amount) * Pow4(Milli) =< Pow4(base) * Pow4(k)
      BY <2>2, <2>3, <2>4, <2>5, ProductIsNat, Pow4OfProduct, Pow4IsMonotone
  <2>10. /\ Pow4(amount) \in Nat /\ Pow4(base) \in Nat /\ Pow4(k) \in Nat
         /\ Pow4(Milli) \in Nat \ {0}
    <3>1. Pow4(Milli) \in Nat \ {0}
        BY <2>3, SMT DEF Pow4
    <3> QED
        BY <3>1, <2>2, <2>4, <2>5, Pow4IsNat
  <2> DEFINE A == Pow4(amount)
             B == Pow4(base)
             K == Pow4(k)
             M == Pow4(Milli)
  <2>11. A \in Nat /\ B \in Nat /\ K \in Nat /\ M \in Nat \ {0} /\ A * M =< B * K /\ K * m3 =< n3 * M
      BY <2>8, <2>9, <2>10
  <2> HIDE DEF A, B, K, M
  <2>12. (A * M) * m3 =< (B * K) * m3
      BY <2>6, <2>11, ProductIsNat, ProductIsMonotone
  <2>13. (K * m3) * B =< (n3 * M) * B
      BY <2>5, <2>6, <2>11, ProductIsNat, ProductIsMonotone
  <2>14. /\ (A * M) * m3 = (A * m3) * M
         /\ (B * K) * m3 = (K * m3) * B
         /\ (n3 * M) * B = (B * n3) * M
      BY <2>5, <2>6, <2>11, SMT
  <2>15. A * m3 \in Nat /\ B * n3 \in Nat
      BY <2>5, <2>6, <2>11, ProductIsNat
  <2>16. (A * m3) * M =< (B * n3) * M
    <3>1. (A * m3) * M \in Nat /\ (K * m3) * B \in Nat /\ (B * n3) * M \in Nat
        BY <2>5, <2>6, <2>11, <2>15, ProductIsNat
    <3> QED
        BY <3>1, <2>12, <2>13, <2>14
  <2>17. A * m3 =< B * n3
      BY <2>11, <2>15, <2>16, Cancel
  <2> QED
      BY <2>17 DEF A, B
<1> QED
    BY <1>1, PriceInvariance, PTL
=============================================================================
