------------------------------ MODULE MCPricing ------------------------------
(* Speeds on both sides of the median and beyond every clamp, with and      *)
(* without a median, and cubes below, at and beyond the width of the        *)
(* integers; a base price of nothing, of a few and of more than fits.       *)
EXTENDS Pricing

MCVals == 0..MaxU128

MCBills == [tps : 0..20, median : {0, 1, 2, 3, 4, 19},
            tokens_generated : {0, 1, 3}, tqw_nano : {1, 3, 5}]
=============================================================================
