--------------------------- MODULE MCReplication ---------------------------
(* Two nodes.  The first pays the second for one answer and itself for     *)
(* another, and can afford only one of the two.                            *)
EXTENDS Replication, TLC

CONSTANTS n1, n2, c1, c2, h1, h2, r12, r11

MCClient == n1 :> c1 @@ n2 :> c2
MCNode   == n1 :> h1 @@ n2 :> h2

Rcpt(client, node) ==
    [client_pubkey |-> client, node_pubkey |-> node, amount_nano |-> 1,
     timestamp |-> 0, signed |-> TRUE, priced |-> TRUE]

MCReceipt == r12 :> Rcpt(c1, h2) @@ r11 :> Rcpt(c1, h1)
=============================================================================
