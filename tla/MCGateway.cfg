SPECIFICATION Spec
CONSTANTS
    q1 = q1
    q2 = q2
    q3 = q3
    p1 = p1
    p2 = p2
    client = client
    node = node
    h1 = h1
    h2 = h2
    r11 = r11
    r12 = r12
    r21 = r21
    r22 = r22
    wrong = wrong
    unsigned = unsigned
    own1 = own1
    own2 = own2
    own3 = own3
    NoPeer = NoPeer
    NoReceipt = NoReceipt
    Queries = {q1, q2, q3}
    Peers = {p1, p2}
    client_hex = client
    node_hex = node
    Accounts = {client, node, h1, h2}
    Receipts = {r11, r12, r21, r22, wrong, unsigned, own1, own2, own3}
    Receipt <- MCReceipt
    MaxU64 = 3
    MaxReceiptAge = 1
    MaxFutureDrift = 1
    Retention = 1
    Seed = 2
    Offers <- MCOffers
    OwnReceipt <- MCOwnReceipt
    Median <- MCMedian
    Medians = {10, 12}
    Tokens <- MCTokens
INVARIANTS
    TypeOK
    OnePaymentPerAnswer
    OneVerdictPerRequest
PROPERTY
    EveryQueryEnds
CHECK_DEADLOCK FALSE
