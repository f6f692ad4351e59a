------------------------------ MODULE MCLedger ------------------------------
(* A node with a client, a node and a third account, and four receipts: an *)
(* ordinary one, one whose price only gossip accepts, a self-payment, and  *)
(* an unsigned one.                                                        *)
EXTENDS Ledger, TLC

CONSTANTS client, node, peer, paid, unpriced, self, unsigned

MCReceipt ==
    paid     :> [client_pubkey |-> client, node_pubkey |-> node, amount_nano |-> 1,
                 timestamp |-> 0, signed |-> TRUE, priced |-> TRUE] @@
    unpriced :> [client_pubkey |-> node, node_pubkey |-> peer, amount_nano |-> 1,
                 timestamp |-> 2, signed |-> TRUE, priced |-> FALSE] @@
    self     :> [client_pubkey |-> client, node_pubkey |-> client, amount_nano |-> 1,
                 timestamp |-> 1, signed |-> TRUE, priced |-> TRUE] @@
    unsigned :> [client_pubkey |-> client, node_pubkey |-> peer, amount_nano |-> 1,
                 timestamp |-> 1, signed |-> FALSE, priced |-> TRUE]

\* A peer that has paid the first receipt, and one that knows no account here.
MCExports ==
    {[balances |-> (node :> 1), claimed_receipts |-> {paid}],
     [balances |-> (peer :> 1), claimed_receipts |-> {}]}

\* A file written before receipts were stamped.
MCInitialFiles ==
    {[balances |-> (client :> 1 @@ node :> 1), claimed_receipts |-> {paid},
      receipt_timestamps |-> << >>]}
=============================================================================
