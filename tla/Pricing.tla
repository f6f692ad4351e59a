------------------------------- MODULE Pricing -------------------------------
(***************************************************************************)
(* The price of a receipt: compute_amount and tps_multiplier_milli of      *)
(* crates/itoken-core/src/types.rs around the search of FourthRoot.        *)
(*                                                                         *)
(* The multiplier is (n / m)^(3/4), for a node's speed n and the network   *)
(* median m, in thousandths (Milli) and clamped; it is computed as the     *)
(* fourth root of n^3 * Milli^4 / m^3.  Cubes and the scale saturate at    *)
(* MaxU128, the products of compute_amount at MaxU64.  The two speeds are  *)
(* the rounded thousandths the f64 fields are converted to.                *)
(***************************************************************************)
EXTENDS FourthRoot

CONSTANTS
    MaxU64, MaxU128,    \* u64::MAX, u128::MAX
    Milli,              \* 1000
    Bills               \* what a receipt may say

ASSUME PricingAssumption ==
    /\ MaxU64 \in Nat /\ MaxU128 \in Nat \ {0} /\ Milli \in Nat \ {0}
    /\ MaxMilli > 0
    /\ Bills \subseteq [tps : Nat, median : Nat, tokens_generated : Nat, tqw_nano : Nat]
    /\ Vals = 0..MaxU128

VARIABLE bill           \* the receipt that is priced

Pow3(n) == n * n * n

Least(a, b) == IF a =< b THEN a ELSE b

SaturatingMul(a, b, max) == Least(max, a * b)

\* The median, or 1.000 tokens per second when the receipt has none.
Median(b) == IF b.median > 0 THEN b.median ELSE Milli

\* Mutant: the division comes before the scale.
RatioOfQuotient(b) ==
    SaturatingMul(Least(MaxU128, Pow3(b.tps)) \div Least(MaxU128, Pow3(Median(b))),
                  Pow4(Milli), MaxU128)

Ratio(b) ==
    LET num == SaturatingMul(Least(MaxU128, Pow3(b.tps)), Pow4(Milli), MaxU128)
        den == Least(MaxU128, Pow3(Median(b)))
    IN num \div den

tps_multiplier_milli == clamp(ans)

\* Mutant: fractions of a nano-iToken are rounded up.
compute_amount_rounded_up(b) ==
    LET base == SaturatingMul(b.tokens_generated, b.tqw_nano, MaxU64)
    IN (SaturatingMul(base, tps_multiplier_milli, MaxU64) + Milli - 1) \div Milli

compute_amount(b) ==
    LET base == SaturatingMul(b.tokens_generated, b.tqw_nano, MaxU64)
    IN SaturatingMul(base, tps_multiplier_milli, MaxU64) \div Milli

PriceInit ==
    /\ bill \in Bills
    /\ val = Ratio(bill)
    /\ Init

PriceNext == Next /\ UNCHANGED bill

PriceSpec == PriceInit /\ [][PriceNext]_<<vars, bill>> /\ WF_<<vars, bill>>(PriceNext)

-----------------------------------------------------------------------------
\* The multiplier is the one of exact arithmetic, k with
\*    k^4 * m^3 =< n^3 * Milli^4 < (k + 1)^4 * m^3
\* or the end of the clamp that lies on the side of it: rounding, the order of
\* scale and division, and saturation for whatever speed n, never show.  It
\* holds up to the median where the largest multiplier itself would saturate
\* (161,000 tokens per second in the code).
PriceIsExact ==
    returned /\ Pow4(MaxMilli) * Pow3(Median(bill)) =< MaxU128 =>
        LET k == tps_multiplier_milli
            scaled == Pow3(bill.tps) * Pow4(Milli)
        IN /\ k > MinMilli => Pow4(k) * Pow3(Median(bill)) =< scaled
           /\ k < MaxMilli => scaled < Pow4(k + 1) * Pow3(Median(bill))

\* Nothing in the chain of cubes, root, clamp and products ever charges more than
\* base * (n / m)^(3/4), or than the least multiplier allows, whatever saturates
\* on the way, as long as the cube of the median does not.
NeverOvercharged ==
    returned /\ Pow3(Median(bill)) =< MaxU128 =>
        LET amount == compute_amount(bill)
            base   == bill.tokens_generated * bill.tqw_nano
        IN \/ amount * Milli =< base * MinMilli
           \/ Pow4(amount) * Pow3(Median(bill)) =< Pow4(base) * Pow3(bill.tps)

-----------------------------------------------------------------------------
(* The loop invariant of the search, on the argument the bill gives it.      *)
PriceInv == SearchInv /\ bill \in Bills /\ val = Ratio(bill)
=============================================================================
