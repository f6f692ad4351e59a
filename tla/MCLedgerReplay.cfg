SPECIFICATION Spec
CONSTANTS
    client = client
    node = node
    peer = peer
    paid = paid
    unpriced = unpriced
    self = self
    unsigned = unsigned
    Accounts = {client, node, peer}
    Receipts = {paid, unpriced, self, unsigned}
    Receipt <- MCReceipt
    MaxU64 = 2
    MaxReceiptAge = 1
    MaxFutureDrift = 1
    Retention = 2
    SeedAmounts = {2}
    TransferAmounts = {1}
    Exports <- MCExports
    InitialFiles <- MCInitialFiles
    MaxClock = 3
INVARIANT
    PaidOnce
CHECK_DEADLOCK FALSE
