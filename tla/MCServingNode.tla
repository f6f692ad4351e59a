---------------------------- MODULE MCServingNode ----------------------------
(* Two engines, one of which may change its model.  An answer with a comment   *)
(* and a CJK character beside another, so that a cut through it changes the    *)
(* bill; and one with [DONE] and two blank lines.                              *)
EXTENDS ServingNode, TLC

CONSTANTS e1, e2

MCTargets == <<e1, e2>>
MCOffers  == e1 :> {2, 4} @@ e2 :> {3}

MCBodies == {<<"x", "nl", "data", "a", "hi", "lo", "nl">>,
             <<"data", "!", "nl", "data", "done", "nl", "nl">>}

CJK(n) == [i \in 1..(2 * n) |-> IF i % 2 = 1 THEN "hi" ELSE "lo"]

\* The counts that the tests of the code expect.
ASSUME TokenCounts ==
    /\ estimate_token_count(<<"a", "x", "sp", "x", "a">>) = 2
    /\ estimate_token_count(<<"a", "!", "sp", "a", "!">>) = 4
    /\ estimate_token_count(<< >>) = 0
    /\ estimate_token_count(CJK(5)) = 5
    /\ estimate_token_count(<<"a", "x">> \o CJK(3) \o <<"!">>) = 5
    /\ estimate_token_count(CJK(3) \o <<"sp">> \o CJK(2)) = 5
=============================================================================
