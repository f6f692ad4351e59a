------------------------------ MODULE Gateway ------------------------------
(***************************************************************************)
(* One node's HTTP gateway: handle_chat_completions of src/main.rs, with   *)
(* the reputation database and the router of crates/itoken-harness it      *)
(* consults, and the ledger it settles in.                                 *)
(*                                                                         *)
(* Every HTTP request is a task of its own.  Tasks interleave where the    *)
(* handler awaits (the DHT search, the peer's answer, the engine), and     *)
(* between its calls into the ledger, the statistics and the reputation    *)
(* database, each of which has a lock of its own.                          *)
(*                                                                         *)
(* The reputation file is saved with every verdict, as the ledger is with  *)
(* every claim; that a save can fail is in Ledger.  Expiry is there too:   *)
(* here all receipts are fresh.                                            *)
(***************************************************************************)
EXTENDS LedgerState, FiniteSetsExt

CONSTANTS
    Queries,        \* HTTP requests
    Peers,          \* nodes a search may find
    client_hex,     \* the gateway's client account
    node_hex,       \* the gateway's own node account
    Seed,           \* initial balance of the client account
    Offers,         \* per query and peer, the receipts the peer may answer with
    OwnReceipt,     \* per query, the receipt the gateway issues when it answers itself
    Median,         \* network_median_tps of each receipt
    Medians,        \* what the node's own get_median_tps may be
    Tokens,         \* tokens_generated of each receipt
    NoPeer,         \* selected_peer is None
    NoReceipt       \* receipt is None

ASSUME GatewayAssumption ==
    /\ {client_hex, node_hex} \subseteq Accounts
    /\ Offers \in [Queries -> [Peers -> SUBSET Receipts]]
    /\ OwnReceipt \in [Queries -> Receipts]
    /\ Median \in [Receipts -> Nat] /\ Medians \subseteq Nat
    /\ Tokens \in [Receipts -> Nat]
    /\ NoPeer \notin Peers /\ NoReceipt \notin Receipts
    /\ Seed \in 0..MaxU64 /\ IsFiniteSet(Queries)

VARIABLES
    query,          \* where each request is, the peer it went to, the receipt it holds
    ledger,         \* the LedgerState
    reputation,     \* successes, failures and tokens of each peer
    median,         \* what get_median_tps gives now
    broadcast       \* receipts handed to a publish task

vars == <<query, ledger, reputation, median, broadcast>>

At(phase, p, r) == [phase |-> phase, peer |-> p, receipt |-> r]

Init ==
    /\ query = [q \in Queries |-> At("idle", NoPeer, NoReceipt)]
    /\ ledger = [EmptyState EXCEPT !.balances = Put(Put(@, client_hex, Seed), node_hex, 0)]
    /\ reputation = [p \in Peers |-> [successes |-> 0, failures |-> 0, tokens |-> 0]]
    /\ median \in Medians
    /\ broadcast = {}

Moves(q, phase, p, r) == query' = [query EXCEPT ![q] = At(phase, p, r)]

-----------------------------------------------------------------------------
(* Reputation and routing.                                                 *)

\* calculate_score in thousandths, with no time passing.  Every success the
\* gateway records has a latency of one second, so that the average speed is
\* tokens per success; 50 of them make a full speed index.
Score(p) ==
    LET rec   == reputation[p]
        total == rec.successes + rec.failures
        speed == IF rec.successes = 0 THEN 0
                 ELSE LET s == (300 * rec.tokens) \div (50 * rec.successes)
                      IN IF s > 300 THEN 300 ELSE s
    IN  IF total = 0 THEN 500 ELSE (700 * rec.successes) \div total + speed

\* Candidates sorted by descending score: the first is one of the best.
resolve_routing(candidates) ==
    {p \in candidates : \A o \in candidates : Score(o) =< Score(p)}

\* Mutant: the failure of a peer that has succeeded before is not counted.
record_failure_of_strangers(p) ==
    reputation' = [reputation EXCEPT ![p].failures = IF reputation[p].successes > 0 THEN @ ELSE @ + 1]

record_success(p, r) ==
    reputation' = [reputation EXCEPT ![p] = [successes |-> @.successes + 1,
                                             failures  |-> @.failures,
                                             tokens    |-> @.tokens + Tokens[r]]]

record_failure(p) == reputation' = [reputation EXCEPT ![p].failures = @ + 1]

-----------------------------------------------------------------------------
(* The handler.                                                            *)

\* The request is validated; the DHT search for its model starts.
Receive(q) ==
    /\ query[q].phase = "idle"
    /\ \E phase \in {"searching", "refused"} : Moves(q, phase, NoPeer, NoReceipt)
    /\ UNCHANGED <<ledger, reputation, median, broadcast>>

\* The search ends and the request is routed: to the best candidate, or
\* nowhere when there is none.  The other candidates are forgotten.
Route(q) ==
    /\ query[q].phase = "searching"
    /\ \E candidates \in SUBSET Peers :
          IF candidates = {}
          THEN Moves(q, "local", NoPeer, NoReceipt)
          ELSE \E p \in resolve_routing(candidates) : Moves(q, "asking", p, NoReceipt)
    /\ UNCHANGED <<ledger, reputation, median, broadcast>>

\* An error, a response of the wrong kind, or no response at all.
PeerFails(q) ==
    /\ query[q].phase = "asking"
    /\ record_failure(query[q].peer)
    /\ Moves(q, "failed", query[q].peer, NoReceipt)
    /\ UNCHANGED <<ledger, median, broadcast>>

PeerAnswers(q) ==
    /\ query[q].phase = "asking"
    /\ \E r \in Offers[q][query[q].peer] : Moves(q, "answered", query[q].peer, r)
    /\ UNCHANGED <<ledger, reputation, median, broadcast>>

\* Within 20% of the node's own median, and the amount is what the fields
\* of the receipt come to.
Tolerable(r) ==
    /\ 10 * Median[r] >= 8 * median
    /\ 10 * Median[r] =< 12 * median
    /\ Receipt[r].priced

\* Mutant: the claim comes before the checks.
SettleFirst(q) ==
    /\ query[q].phase = "answered"
    /\ LET r == query[q].receipt
           p == query[q].peer IN
          IF Claimable(ledger, r, 0)
          THEN /\ ledger' = Paid(ledger, r)
               /\ IF Tolerable(r)
                  THEN Moves(q, "paid", p, r) /\ UNCHANGED reputation
                  ELSE Moves(q, "failed", p, r) /\ record_failure(p)
          ELSE /\ Moves(q, "failed", p, r)
               /\ record_failure(p)
               /\ UNCHANGED ledger
    /\ UNCHANGED <<median, broadcast>>

\* Mutant: a receipt the ledger refuses is left without a response.
SettleOnlyGood(q) ==
    /\ query[q].phase = "answered"
    /\ Claimable(ledger, query[q].receipt, 0)
    /\ ledger' = Paid(ledger, query[q].receipt)
    /\ Moves(q, "paid", query[q].peer, query[q].receipt)
    /\ UNCHANGED <<reputation, median, broadcast>>

\* The checks, then the client signs and the ledger claims.  A receipt that
\* names another client, or whose node signature does not verify, is refused
\* by the ledger (`signed`).
Settle(q) ==
    /\ query[q].phase = "answered"
    /\ LET r == query[q].receipt
           p == query[q].peer IN
          IF Tolerable(r) /\ Claimable(ledger, r, 0)
          THEN /\ ledger' = Paid(ledger, r)
               /\ Moves(q, "paid", p, r)
               /\ UNCHANGED reputation
          ELSE /\ Moves(q, "failed", p, r)
               /\ record_failure(p)
               /\ UNCHANGED ledger
    /\ UNCHANGED <<median, broadcast>>

\* The claim went well: the peer's success is recorded, the receipt goes to
\* a publish task, the text to the HTTP client.
Deliver(q) ==
    /\ query[q].phase = "paid"
    /\ record_success(query[q].peer, query[q].receipt)
    /\ broadcast' = broadcast \cup {query[q].receipt}
    /\ Moves(q, "served", query[q].peer, query[q].receipt)
    /\ UNCHANGED <<ledger, median>>

\* The node answers the request itself, if its engine does; whether the claim
\* of its receipt succeeds makes no difference.  (The success it records is
\* its own, which no routing looks at.)
ServeLocally(q) ==
    /\ query[q].phase = "local"
    /\ \/ LET r == OwnReceipt[q] IN
             /\ ledger' = IF Claimable(ledger, r, 0) THEN Paid(ledger, r) ELSE ledger
             /\ broadcast' = broadcast \cup {r}
             /\ Moves(q, "served", NoPeer, r)
       \/ /\ Moves(q, "failed", NoPeer, NoReceipt)
          /\ UNCHANGED <<ledger, broadcast>>
    /\ UNCHANGED <<reputation, median>>

\* The HTTP client closes its connection: the handler is dropped where it
\* awaits, without a verdict and without a payment.
Hangup(q) ==
    /\ query[q].phase \in {"searching", "asking", "local"}
    /\ Moves(q, "gone", query[q].peer, NoReceipt)
    /\ UNCHANGED <<ledger, reputation, median, broadcast>>

\* Heartbeats arrive and grow stale meanwhile.
MedianMoves ==
    /\ median' \in Medians \ {median}
    /\ UNCHANGED <<query, ledger, reputation, broadcast>>

QueryStep(q) ==
    \/ Receive(q)
    \/ Route(q)
    \/ PeerFails(q)
    \/ PeerAnswers(q)
    \/ Settle(q)
    \/ Deliver(q)
    \/ ServeLocally(q)
    \/ Hangup(q)

Next == MedianMoves \/ \E q \in Queries : QueryStep(q)

\* Tasks that can run do; P2P calls return (EveryCallReturns in SwarmLoop);
\* the local engine is assumed to answer or fail.
Fairness == \A q \in Queries :
    WF_vars(Route(q) \/ PeerFails(q) \/ PeerAnswers(q) \/ Settle(q) \/ Deliver(q) \/ ServeLocally(q))

Spec == Init /\ [][Next]_vars /\ Fairness

-----------------------------------------------------------------------------
Phases == {"idle", "refused", "searching", "asking", "answered", "paid", "local", "served", "failed", "gone"}

TypeOK ==
    /\ query \in [Queries -> [phase : Phases, peer : Peers \cup {NoPeer},
                              receipt : Receipts \cup {NoReceipt}]]
    /\ IsLedgerState(ledger)
    /\ reputation \in [Peers -> [successes : Nat, failures : Nat, tokens : Nat]]
    /\ median \in Medians
    /\ broadcast \subseteq Receipts

Finished(p, phase) == {q \in Queries : query[q].phase = phase /\ query[q].peer = p}

Settled == {q \in Queries : query[q].peer # NoPeer /\ query[q].phase \in {"paid", "served"}}

\* What the ledger claims for peers is exactly what the requests whose text is
\* delivered or about to be have cost, one receipt each: however requests interleave
\* and whatever peers answer (a receipt seen before included), no text is delivered
\* unpaid and nothing is paid for a request that failed.
OnePaymentPerAnswer ==
    /\ \A q, o \in Settled : query[q].receipt = query[o].receipt => q = o
    /\ \A q \in Settled : query[q].receipt \in ledger.claimed_receipts
    /\ \A r \in ledger.claimed_receipts :
          \/ \E q \in Settled : query[q].receipt = r
          \/ \E q \in Queries : OwnReceipt[q] = r

\* Each request routed to a peer leaves exactly one verdict in its record,
\* or none when its client hung up.
OneVerdictPerRequest ==
    \A p \in Peers :
        /\ reputation[p].successes = Cardinality(Finished(p, "served"))
        /\ reputation[p].failures = Cardinality(Finished(p, "failed"))

\* Every HTTP request is answered while its client waits.
EveryQueryEnds ==
    \A q \in Queries : query[q].phase = "searching" ~> query[q].phase \in {"served", "failed", "gone"}

\* What makes the safety properties inductive: a request has a peer from the moment it
\* is routed to one, and a receipt from its answer on.
GatewayInv ==
    /\ TypeOK
    /\ \A q \in Queries :
          /\ query[q].phase \in {"asking", "answered", "paid"} => query[q].peer \in Peers
          /\ query[q].phase \in {"answered", "paid"} => query[q].receipt \in Receipts
    /\ OnePaymentPerAnswer
    /\ OneVerdictPerRequest

InOrder(r) == Tolerable(r) /\ Receipt[r].signed /\ r \notin ledger.claimed_receipts

\* A peer whose answer is in order is paid.
GoodAnswerIsPaid ==
    [][\A q \in Queries : Settle(q) /\ InOrder(query[q].receipt)
          => query[q].receipt \in ledger'.claimed_receipts]_vars
=============================================================================
