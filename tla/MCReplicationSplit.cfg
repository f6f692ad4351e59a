SPECIFICATION Spec
CONSTANTS
    n1 = n1
    n2 = n2
    c1 = c1
    c2 = c2
    h1 = h1
    h2 = h2
    r12 = r12
    r11 = r11
    Nodes = {n1, n2}
    Accounts = {c1, c2, h1, h2}
    client_hex <- MCClient
    node_hex <- MCNode
    Receipts = {r12, r11}
    Receipt <- MCReceipt
    MaxU64 = 3
    MaxReceiptAge = 1
    MaxFutureDrift = 1
    Retention = 1
    Seed = 1
    Channel = 2
    MaxAttempts = 2
    MaxStarts = 3
PROPERTY
    GossipIsClaimed
CHECK_DEADLOCK FALSE
