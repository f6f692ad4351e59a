----------------------------- MODULE MCGateway -----------------------------
(* Three requests, two peers and a client that can pay twice.  The peers   *)
(* may answer with a receipt that another request has seen, with a wrong   *)
(* amount, or with a signature that does not verify.                       *)
EXTENDS Gateway, TLC

CONSTANTS q1, q2, q3, p1, p2, client, node, h1, h2,
          r11, r12, r21, r22, wrong, unsigned, own1, own2, own3

Rcpt(payee, priced, signed) ==
    [client_pubkey |-> client, node_pubkey |-> payee, amount_nano |-> 1,
     timestamp |-> 0, signed |-> signed, priced |-> priced]

MCReceipt ==
    r11 :> Rcpt(h1, TRUE, TRUE) @@ r12 :> Rcpt(h2, TRUE, TRUE) @@
    r21 :> Rcpt(h1, TRUE, TRUE) @@ r22 :> Rcpt(h2, TRUE, TRUE) @@
    wrong :> Rcpt(h2, FALSE, TRUE) @@ unsigned :> Rcpt(h2, TRUE, FALSE) @@
    own1 :> Rcpt(node, TRUE, TRUE) @@ own2 :> Rcpt(node, TRUE, TRUE) @@
    own3 :> Rcpt(node, TRUE, TRUE)

MCOffers ==
    q1 :> (p1 :> {r11} @@ p2 :> {r12, wrong, unsigned}) @@
    q2 :> (p1 :> {r21, r11} @@ p2 :> {r22, wrong}) @@
    q3 :> (p1 :> {r21, r11} @@ p2 :> {r12})

MCOwnReceipt == q1 :> own1 @@ q2 :> own2 @@ q3 :> own3

\* The second peer sees a slower network than the first.
MCMedian == [r \in Receipts |-> IF r \in {r12, r22} THEN 9 ELSE 10]

MCTokens == [r \in Receipts |-> IF r \in {r11, r12} THEN 50 ELSE 10]
=============================================================================
