----------------------------- MODULE FourthRoot -----------------------------
(***************************************************************************)
(* integer_fourth_root of crates/itoken-core/src/types.rs: the binary      *)
(* search behind the speed multiplier of every price, and the clamp that   *)
(* tps_multiplier_milli applies to its result.  Every node recomputes the  *)
(* amount of every receipt it claims, so the search must give one answer.  *)
(*                                                                         *)
(* low, high, mid and ans are u64 and val is u128.  checked_pow never      *)
(* fails: 30000^4 is far below 2^128.                                      *)
(***************************************************************************)
EXTENDS Integers

CONSTANTS
    MaxRoot,        \* where the search starts from above: 30000
    Vals,           \* the arguments
    MinMilli,       \* the clamp: 100
    MaxMilli        \* and 3000

ASSUME RootAssumption == MaxRoot \in Nat /\ Vals \subseteq Nat

\* What makes the search's bound harmless: a root it cannot reach is clamped.
ASSUME ClampAssumption ==
    /\ MinMilli \in Nat /\ MaxMilli \in Nat
    /\ MinMilli =< MaxMilli /\ MaxMilli =< MaxRoot

VARIABLES val, low, high, ans, returned

vars == <<val, low, high, ans, returned>>

Pow4(n) == n * n * n * n

Init ==
    /\ val \in Vals
    /\ low = 0
    /\ high = MaxRoot
    /\ ans = 0
    /\ returned = FALSE

\* Mutant: low is returned, one more than the last value that fits.
ReturnLow ==
    /\ returned' = TRUE
    /\ ans' = low
    /\ UNCHANGED <<val, low, high>>

Return ==
    /\ returned' = TRUE
    /\ UNCHANGED <<val, low, high, ans>>

\* Mutant: an exact root is taken for too large.
FitsStrictly(mid) == Pow4(mid) < val

Fits(mid) == Pow4(mid) =< val

GoUp(mid) ==
    /\ Fits(mid)
    /\ ans' = mid
    /\ low' = mid + 1
    /\ UNCHANGED <<val, high, returned>>

\* Mutant: the upper end stays where it was probed.
GoDownInclusive(mid) ==
    /\ ~Fits(mid)
    /\ mid # 0
    /\ high' = mid
    /\ UNCHANGED <<val, low, ans, returned>>

\* Mutant: the upper end is moved by two.
GoDownTooFar(mid) ==
    /\ ~Fits(mid)
    /\ mid # 0
    /\ high' = mid - 2
    /\ UNCHANGED <<val, low, ans, returned>>

\* (Nothing is above val when mid is 0, so the break is never taken.)
GoDown(mid) ==
    /\ ~Fits(mid)
    /\ IF mid = 0
       THEN Return
       ELSE /\ high' = mid - 1
            /\ UNCHANGED <<val, low, ans, returned>>

\* A turn of the loop, or its end.
Step ==
    /\ ~returned
    /\ IF low =< high
       THEN LET mid == low + (high - low) \div 2 IN GoUp(mid) \/ GoDown(mid)
       ELSE Return

Next == Step

\* The function runs to its end.
Spec == Init /\ [][Next]_vars /\ WF_vars(Step)

clamp(n) == IF n < MinMilli THEN MinMilli ELSE IF n > MaxMilli THEN MaxMilli ELSE n

-----------------------------------------------------------------------------
\* No subtraction takes a u64 below zero.
TypeOK ==
    /\ val \in Nat
    /\ low \in 0..(MaxRoot + 1)
    /\ high \in 0..MaxRoot
    /\ ans \in 0..MaxRoot
    /\ returned \in BOOLEAN

\* The search returns the integer fourth root, rounded down, or MaxRoot when
\* the root lies beyond.
RootIsFloor ==
    returned =>
        /\ Pow4(ans) =< val
        /\ ans = MaxRoot \/ val < Pow4(ans + 1)

\* The multiplier is the clamped root of the argument, whatever its size: the
\* bound of the search never shows, and no other result is possible.  (The
\* first conjunct follows from the second; it keeps TLC within its integers.)
MultiplierIsExact ==
    returned => \A k \in 0..val :
        k * k =< val /\ Pow4(k) =< val /\ val < Pow4(k + 1) => clamp(ans) = clamp(k)

\* The search ends.
Terminates == <>returned

-----------------------------------------------------------------------------
(* The loop invariant: everything below low is a possible root, everything  *)
(* above high is too large, and ans is the value just below low.            *)
SearchInv ==
    /\ TypeOK
    /\ low =< high + 1
    /\ low = 0 => ans = 0
    /\ low > 0 => ans = low - 1 /\ Pow4(ans) =< val
    /\ high < MaxRoot => val < Pow4(high + 1)
    /\ returned => low = high + 1
=============================================================================
