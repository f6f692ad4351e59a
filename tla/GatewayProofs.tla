---------------------------- MODULE GatewayProofs ----------------------------
(***************************************************************************)
(* Payments and verdicts of the gateway match its answers, for every       *)
(* number of concurrent requests and peers, every set of receipts a peer   *)
(* may answer with, and every interleaving.                                *)
(***************************************************************************)
EXTENDS Gateway, LedgerStateProofs, FiniteSetTheorems

\* Where a request goes, and that the others stay where they are.
LEMMA MoveOfOne ==
    ASSUME GatewayInv, NEW q \in Queries, NEW phase \in Phases,
           NEW p \in Peers \cup {NoPeer}, NEW r \in Receipts \cup {NoReceipt},
           Moves(q, phase, p, r)
    PROVE  /\ query'[q] = At(phase, p, r)
           /\ \A o \in Queries : o # q => query'[o] = query[o]
           /\ query' \in [Queries -> [phase : Phases, peer : Peers \cup {NoPeer},
                                      receipt : Receipts \cup {NoReceipt}]]
  <1>1. query \in [Queries -> [phase : Phases, peer : Peers \cup {NoPeer},
                               receipt : Receipts \cup {NoReceipt}]]
    BY DEF GatewayInv, TypeOK
  <1>2. At(phase, p, r) \in [phase : Phases, peer : Peers \cup {NoPeer},
                             receipt : Receipts \cup {NoReceipt}]
    BY DEF At
  <1> QED BY <1>1, <1>2 DEF Moves

\* A move between phases that neither pay nor end a request with a verdict.
LEMMA QuietMove ==
    ASSUME GatewayInv, NEW q \in Queries, NEW phase \in Phases,
           NEW p \in Peers \cup {NoPeer}, NEW r \in Receipts \cup {NoReceipt},
           Moves(q, phase, p, r),
           query[q].phase \notin {"paid", "served", "failed"},
           \/ phase \notin {"paid", "served", "failed"}
           \/ p = NoPeer,
           phase \in {"asking", "answered", "paid"} => p \in Peers,
           phase \in {"answered", "paid"} => r \in Receipts,
           UNCHANGED <<reputation, median>>,
           broadcast' \subseteq Receipts,
           IsLedgerState(ledger'),
           ledger.claimed_receipts \subseteq ledger'.claimed_receipts,
           \A c \in ledger'.claimed_receipts : c \in ledger.claimed_receipts \/ c = OwnReceipt[q]
    PROVE  GatewayInv'
  <1>1. /\ query'[q] = At(phase, p, r)
        /\ \A o \in Queries : o # q => query'[o] = query[o]
        /\ query' \in [Queries -> [phase : Phases, peer : Peers \cup {NoPeer},
                                   receipt : Receipts \cup {NoReceipt}]]
    BY MoveOfOne
  <1>2. query'[q].phase = phase /\ query'[q].peer = p /\ query'[q].receipt = r
    BY <1>1 DEF At
  <1>3. TypeOK'
    BY <1>1 DEF GatewayInv, TypeOK
  <1>4. \A o \in Queries :
          /\ query'[o].phase \in {"asking", "answered", "paid"} => query'[o].peer \in Peers
          /\ query'[o].phase \in {"answered", "paid"} => query'[o].receipt \in Receipts
    BY <1>1, <1>2 DEF GatewayInv
  <1>5. Settled' = Settled /\ q \notin Settled
    BY <1>1, <1>2 DEF Settled
  <1>6. \A o \in Settled : query'[o] = query[o]
    BY <1>1, <1>5 DEF Settled
  <1>7. OnePaymentPerAnswer'
    BY <1>5, <1>6 DEF GatewayInv, OnePaymentPerAnswer
  <1>8. OneVerdictPerRequest'
    <2>1. \A o \in Peers : /\ Finished(o, "served")' = Finished(o, "served")
                           /\ Finished(o, "failed")' = Finished(o, "failed")
      BY <1>1, <1>2, GatewayAssumption DEF Finished
    <2> QED BY <2>1 DEF GatewayInv, OneVerdictPerRequest
  <1> QED BY <1>3, <1>4, <1>7, <1>8 DEF GatewayInv

\* One more request.
LEMMA OneMore ==
    ASSUME NEW A \in SUBSET Queries, NEW q \in Queries, q \notin A
    PROVE  Cardinality(A \cup {q}) = Cardinality(A) + 1
  BY FS_Subset, FS_AddElement, GatewayAssumption

\* Nothing but the median and the broadcast has changed.
LEMMA SameGateway ==
    ASSUME GatewayInv, UNCHANGED <<query, ledger, reputation>>,
           median' \in Medians, broadcast' \subseteq Receipts
    PROVE  GatewayInv'
  <1>1. TypeOK'
    BY DEF GatewayInv, TypeOK
  <1>2. OnePaymentPerAnswer'
    BY DEF GatewayInv, OnePaymentPerAnswer, Settled
  <1>3. \A p \in Peers : /\ Finished(p, "served")' = Finished(p, "served")
                         /\ Finished(p, "failed")' = Finished(p, "failed")
    BY DEF Finished
  <1>4. OneVerdictPerRequest'
    BY <1>3 DEF GatewayInv, OneVerdictPerRequest
  <1> QED BY <1>1, <1>2, <1>4 DEF GatewayInv

\* The peer failed, or its receipt was refused: a failure for it, and no payment.
LEMMA FailureStep ==
    ASSUME GatewayInv, NEW q \in Queries, NEW r \in Receipts \cup {NoReceipt},
           query[q].phase \in {"asking", "answered"},
           Moves(q, "failed", query[q].peer, r), record_failure(query[q].peer),
           UNCHANGED <<ledger, median, broadcast>>
    PROVE  GatewayInv'
  <1>1. PICK p \in Peers : p = query[q].peer
    BY DEF GatewayInv
  <1>2. /\ query'[q] = At("failed", p, r)
        /\ \A o \in Queries : o # q => query'[o] = query[o]
        /\ query' \in [Queries -> [phase : Phases, peer : Peers \cup {NoPeer},
                                   receipt : Receipts \cup {NoReceipt}]]
    BY <1>1, MoveOfOne DEF Phases
  <1>3. query'[q].phase = "failed" /\ query'[q].peer = p
    BY <1>2 DEF At
  <1>4. /\ reputation \in [Peers -> [successes : Nat, failures : Nat, tokens : Nat]]
        /\ reputation' = [reputation EXCEPT ![p].failures = @ + 1]
    BY <1>1 DEF GatewayInv, TypeOK, record_failure
  <1>5. /\ reputation' \in [Peers -> [successes : Nat, failures : Nat, tokens : Nat]]
        /\ reputation'[p].failures = reputation[p].failures + 1
        /\ reputation'[p].successes = reputation[p].successes
        /\ \A o \in Peers : o # p => reputation'[o] = reputation[o]
    BY <1>1, <1>4
  <1>6. TypeOK'
    BY <1>2, <1>5 DEF GatewayInv, TypeOK
  <1>7. \A o \in Queries :
          /\ query'[o].phase \in {"asking", "answered", "paid"} => query'[o].peer \in Peers
          /\ query'[o].phase \in {"answered", "paid"} => query'[o].receipt \in Receipts
    BY <1>2, <1>3 DEF GatewayInv
  <1>8. Settled' = Settled /\ \A o \in Settled : query'[o] = query[o]
    BY <1>1, <1>2, <1>3 DEF Settled
  <1>9. OnePaymentPerAnswer'
    BY <1>8 DEF GatewayInv, OnePaymentPerAnswer
  <1>10. OneVerdictPerRequest'
    <2>1. \A o \in Peers : Finished(o, "served")' = Finished(o, "served")
      BY <1>1, <1>2, <1>3 DEF Finished
    <2>2. \A o \in Peers : o # p => Finished(o, "failed")' = Finished(o, "failed")
      BY <1>1, <1>2, <1>3 DEF Finished
    <2>3. Finished(p, "failed")' = Finished(p, "failed") \cup {q} /\ q \notin Finished(p, "failed")
      BY <1>1, <1>2, <1>3 DEF Finished
    <2>4. Cardinality(Finished(p, "failed")') = Cardinality(Finished(p, "failed")) + 1
      <3>1. Finished(p, "failed") \in SUBSET Queries
        BY DEF Finished
      <3>2. Cardinality(Finished(p, "failed") \cup {q}) = Cardinality(Finished(p, "failed")) + 1
        BY <2>3, <3>1, OneMore
      <3> QED BY <2>3, <3>2
    <2> QED BY <1>1, <1>5, <2>1, <2>2, <2>4 DEF GatewayInv, OneVerdictPerRequest
  <1> QED BY <1>6, <1>7, <1>9, <1>10 DEF GatewayInv

-----------------------------------------------------------------------------
LEMMA InitGateway == Init => GatewayInv
  <1> SUFFICES ASSUME Init PROVE GatewayInv
    OBVIOUS
  <1>1. /\ \A q \in Queries : query[q].phase = "idle" /\ query[q].peer = NoPeer
        /\ query \in [Queries -> [phase : Phases, peer : Peers \cup {NoPeer},
                                  receipt : Receipts \cup {NoReceipt}]]
    BY DEF Init, At, Phases
  <1>2. IsLedgerState(ledger) /\ ledger.claimed_receipts = {}
    <2> DEFINE b == Put(EmptyState.balances, client_hex, Seed)
    <2>1. IsMap(EmptyState.balances, Accounts, 0..MaxU64)
      BY DEF EmptyState, IsMap
    <2>2. IsMap(b, Accounts, 0..MaxU64)
      BY <2>1, PutIsMap, GatewayAssumption
    <2>3. IsMap(Put(b, node_hex, 0), Accounts, 0..MaxU64)
      <3>1. 0 \in 0..MaxU64
        BY AgesAssumption
      <3> HIDE DEF b
      <3> QED BY <2>2, <3>1, PutIsMap, GatewayAssumption
    <2>4. IsMap(EmptyState.receipt_timestamps, Receipts, Nat)
      BY DEF EmptyState, IsMap
    <2>5. ledger = [EmptyState EXCEPT !.balances = Put(b, node_hex, 0)]
      BY DEF Init
    <2>6. ledger = [balances           |-> Put(b, node_hex, 0),
                    claimed_receipts   |-> {},
                    receipt_timestamps |-> EmptyState.receipt_timestamps]
      BY <2>5 DEF EmptyState
    <2> HIDE DEF b
    <2> QED BY <2>3, <2>4, <2>6 DEF IsLedgerState
  <1>3. TypeOK
    BY <1>1, <1>2 DEF Init, TypeOK
  <1>4. OnePaymentPerAnswer
    BY <1>1, <1>2 DEF OnePaymentPerAnswer, Settled
  <1>5. OneVerdictPerRequest
    <2>1. \A p \in Peers : Finished(p, "served") = {} /\ Finished(p, "failed") = {}
      BY <1>1 DEF Finished
    <2>2. \A p \in Peers : reputation[p].successes = 0 /\ reputation[p].failures = 0
      BY DEF Init
    <2> QED BY <2>1, <2>2, FS_EmptySet DEF OneVerdictPerRequest
  <1> QED BY <1>1, <1>3, <1>4, <1>5 DEF GatewayInv

\* A receipt in order is claimed for the request that brought it, and for no other.
LEMMA PaymentStep ==
    ASSUME GatewayInv, NEW q \in Queries, query[q].phase = "answered",
           Claimable(ledger, query[q].receipt, 0),
           ledger' = Paid(ledger, query[q].receipt),
           Moves(q, "paid", query[q].peer, query[q].receipt),
           UNCHANGED <<reputation, median, broadcast>>
    PROVE  GatewayInv'
  <1> DEFINE p == query[q].peer
             r == query[q].receipt
  <1>1. p \in Peers /\ r \in Receipts /\ p # NoPeer
    BY GatewayAssumption DEF GatewayInv
  <1>2. /\ query'[q] = At("paid", p, r)
        /\ \A o \in Queries : o # q => query'[o] = query[o]
        /\ query' \in [Queries -> [phase : Phases, peer : Peers \cup {NoPeer},
                                   receipt : Receipts \cup {NoReceipt}]]
    BY <1>1, MoveOfOne DEF Phases
  <1>3. query'[q].phase = "paid" /\ query'[q].peer = p /\ query'[q].receipt = r
    BY <1>2 DEF At
  <1>4. /\ ledger'.claimed_receipts = ledger.claimed_receipts \cup {r}
        /\ r \notin ledger.claimed_receipts
    BY DEF Paid, Claimable, Acceptable
  <1>5. IsLedgerState(ledger')
    <2>1. IsLedgerState(ledger) /\ Acceptable(ledger, r)
      BY DEF GatewayInv, TypeOK, Claimable
    <2> QED BY <1>1, <2>1, PaidIsLedgerState
  <1>6. TypeOK'
    BY <1>2, <1>5 DEF GatewayInv, TypeOK
  <1>7. \A o \in Queries :
          /\ query'[o].phase \in {"asking", "answered", "paid"} => query'[o].peer \in Peers
          /\ query'[o].phase \in {"answered", "paid"} => query'[o].receipt \in Receipts
    BY <1>1, <1>2, <1>3 DEF GatewayInv
  <1>8. /\ Settled' = Settled \cup {q} /\ q \notin Settled
        /\ \A o \in Settled : query'[o] = query[o]
    BY <1>1, <1>2, <1>3 DEF Settled
  <1>9. OnePaymentPerAnswer'
    <2>1. /\ \A o, u \in Settled : query[o].receipt = query[u].receipt => o = u
          /\ \A o \in Settled : query[o].receipt \in ledger.claimed_receipts
          /\ \A c \in ledger.claimed_receipts :
                \/ \E o \in Settled : query[o].receipt = c
                \/ \E o \in Queries : OwnReceipt[o] = c
      BY DEF GatewayInv, OnePaymentPerAnswer
    <2>2. \A o \in Settled : query'[o].receipt # r
      BY <1>4, <1>8, <2>1
    <2>3. \A o, u \in Settled' : query'[o].receipt = query'[u].receipt => o = u
      BY <1>3, <1>8, <2>1, <2>2
    <2>4. \A o \in Settled' : query'[o].receipt \in ledger'.claimed_receipts
      BY <1>3, <1>4, <1>8, <2>1
    <2>5. \A c \in ledger'.claimed_receipts :
                \/ \E o \in Settled' : query'[o].receipt = c
                \/ \E o \in Queries : OwnReceipt[o] = c
      BY <1>3, <1>4, <1>8, <2>1
    <2> QED BY <2>3, <2>4, <2>5 DEF OnePaymentPerAnswer
  <1>10. OneVerdictPerRequest'
    <2>1. \A o \in Peers : /\ Finished(o, "served")' = Finished(o, "served")
                           /\ Finished(o, "failed")' = Finished(o, "failed")
      BY <1>2, <1>3 DEF Finished
    <2> QED BY <2>1 DEF GatewayInv, OneVerdictPerRequest
  <1> QED BY <1>6, <1>7, <1>9, <1>10 DEF GatewayInv

LEMMA DeliverStep ==
    ASSUME GatewayInv, NEW q \in Queries, Deliver(q)
    PROVE  GatewayInv'
  <1> DEFINE r == query[q].receipt
  <1>0. PICK p \in Peers : p = query[q].peer
    BY DEF GatewayInv, Deliver
  <1>1. p \in Peers /\ r \in Receipts /\ query[q].phase = "paid" /\ p # NoPeer
    BY GatewayAssumption DEF GatewayInv, Deliver
  <1>2. /\ query'[q] = At("served", p, r)
        /\ \A o \in Queries : o # q => query'[o] = query[o]
        /\ query' \in [Queries -> [phase : Phases, peer : Peers \cup {NoPeer},
                                   receipt : Receipts \cup {NoReceipt}]]
    BY <1>0, <1>1, MoveOfOne DEF Phases, Deliver
  <1>3. query'[q].phase = "served" /\ query'[q].peer = p /\ query'[q].receipt = r
    BY <1>2 DEF At
  <1>4. /\ reputation \in [Peers -> [successes : Nat, failures : Nat, tokens : Nat]]
        /\ reputation' = [reputation EXCEPT ![p] = [successes |-> reputation[p].successes + 1,
                                                    failures  |-> reputation[p].failures,
                                                    tokens    |-> reputation[p].tokens + Tokens[r]]]
        /\ Tokens[r] \in Nat
    BY <1>0, <1>1, GatewayAssumption DEF GatewayInv, TypeOK, record_success, Deliver
  <1>5. /\ reputation' \in [Peers -> [successes : Nat, failures : Nat, tokens : Nat]]
        /\ reputation'[p].successes = reputation[p].successes + 1
        /\ reputation'[p].failures = reputation[p].failures
        /\ \A o \in Peers : o # p => reputation'[o] = reputation[o]
    <2> DEFINE rec == [successes |-> reputation[p].successes + 1,
                       failures  |-> reputation[p].failures,
                       tokens    |-> reputation[p].tokens + Tokens[r]]
    <2>1. reputation' = [reputation EXCEPT ![p] = rec]
      BY <1>4
    <2>2. /\ rec \in [successes : Nat, failures : Nat, tokens : Nat]
          /\ rec.successes = reputation[p].successes + 1
          /\ rec.failures = reputation[p].failures
      <3>1. reputation[p] \in [successes : Nat, failures : Nat, tokens : Nat]
        BY <1>1, <1>4
      <3> HIDE DEF r
      <3> QED BY <1>4, <3>1
    <2> HIDE DEF rec, r
    <2> QED BY <1>1, <1>4, <2>1, <2>2
  <1>6. TypeOK'
    BY <1>1, <1>2, <1>5 DEF GatewayInv, TypeOK, Deliver
  <1>7. \A o \in Queries :
          /\ query'[o].phase \in {"asking", "answered", "paid"} => query'[o].peer \in Peers
          /\ query'[o].phase \in {"answered", "paid"} => query'[o].receipt \in Receipts
    BY <1>2, <1>3 DEF GatewayInv
  <1>8. Settled' = Settled
    BY <1>0, <1>1, <1>2, <1>3 DEF Settled
  <1>9. \A o \in Queries : query'[o].receipt = query[o].receipt
    BY <1>2, <1>3
  <1>10. OnePaymentPerAnswer'
    <2>1. ledger' = ledger
      BY DEF Deliver
    <2> QED BY <1>8, <1>9, <2>1 DEF GatewayInv, OnePaymentPerAnswer, Settled
  <1>11. OneVerdictPerRequest'
    <2>1. \A o \in Peers : Finished(o, "failed")' = Finished(o, "failed")
      BY <1>0, <1>1, <1>2, <1>3 DEF Finished
    <2>2. \A o \in Peers : o # p => Finished(o, "served")' = Finished(o, "served")
      BY <1>0, <1>2, <1>3 DEF Finished
    <2>3. Finished(p, "served")' = Finished(p, "served") \cup {q} /\ q \notin Finished(p, "served")
      BY <1>0, <1>1, <1>2, <1>3 DEF Finished
    <2>4. Cardinality(Finished(p, "served")') = Cardinality(Finished(p, "served")) + 1
      <3>1. Finished(p, "served") \in SUBSET Queries
        BY DEF Finished
      <3>2. Cardinality(Finished(p, "served") \cup {q}) = Cardinality(Finished(p, "served")) + 1
        BY <2>3, <3>1, OneMore
      <3> QED BY <2>3, <3>2
    <2> QED BY <1>1, <1>5, <2>1, <2>2, <2>4 DEF GatewayInv, OneVerdictPerRequest
  <1> QED BY <1>6, <1>7, <1>10, <1>11 DEF GatewayInv

LEMMA SettleStep ==
    ASSUME GatewayInv, NEW q \in Queries, Settle(q)
    PROVE  GatewayInv'
  <1> DEFINE r == query[q].receipt
  <1>1. query[q].phase = "answered" /\ r \in Receipts
    BY DEF GatewayInv, Settle
  <1>2. CASE Tolerable(r) /\ Claimable(ledger, r, 0)
    BY <1>1, <1>2, PaymentStep DEF Settle
  <1>3. CASE ~(Tolerable(r) /\ Claimable(ledger, r, 0))
    BY <1>1, <1>3, FailureStep DEF Settle
  <1> QED BY <1>2, <1>3

LEMMA ServeLocallyStep ==
    ASSUME GatewayInv, NEW q \in Queries, ServeLocally(q)
    PROVE  GatewayInv'
  <1> DEFINE r == OwnReceipt[q]
  <1>1. r \in Receipts /\ NoPeer \in Peers \cup {NoPeer}
    BY GatewayAssumption
  <1>2. IsLedgerState(ledger) /\ broadcast \subseteq Receipts
    BY DEF GatewayInv, TypeOK
  <1>3. query[q].phase = "local" /\ UNCHANGED <<reputation, median>>
    BY DEF ServeLocally
  <1>4. CASE /\ ledger' = IF Claimable(ledger, r, 0) THEN Paid(ledger, r) ELSE ledger
             /\ broadcast' = broadcast \cup {r}
             /\ Moves(q, "served", NoPeer, r)
    <2>1. IsLedgerState(ledger')
      BY <1>1, <1>2, <1>4, PaidIsLedgerState DEF Claimable
    <2>2. /\ ledger.claimed_receipts \subseteq ledger'.claimed_receipts
          /\ \A c \in ledger'.claimed_receipts : c \in ledger.claimed_receipts \/ c = r
      BY <1>4 DEF Paid
    <2> QED BY <1>1, <1>2, <1>3, <1>4, <2>1, <2>2, QuietMove DEF Phases
  <1>5. CASE Moves(q, "failed", NoPeer, NoReceipt) /\ UNCHANGED <<ledger, broadcast>>
    BY <1>1, <1>2, <1>3, <1>5, QuietMove DEF Phases
  <1> QED BY <1>4, <1>5 DEF ServeLocally

LEMMA NextGateway == GatewayInv /\ [Next]_vars => GatewayInv'
  <1> SUFFICES ASSUME GatewayInv, [Next]_vars PROVE GatewayInv'
    OBVIOUS
  <1>0. IsLedgerState(ledger) /\ broadcast \subseteq Receipts
    BY DEF GatewayInv, TypeOK
  <1>1. ASSUME NEW q \in Queries, Receive(q) PROVE GatewayInv'
    BY <1>0, <1>1, QuietMove DEF Receive, Phases
  <1>2. ASSUME NEW q \in Queries, Route(q) PROVE GatewayInv'
    <2>1. query[q].phase = "searching" /\ UNCHANGED <<ledger, reputation, median, broadcast>>
      BY <1>2 DEF Route
    <2>2. CASE Moves(q, "local", NoPeer, NoReceipt)
      BY <1>0, <2>1, <2>2, QuietMove DEF Phases
    <2>3. ASSUME NEW p \in Peers, Moves(q, "asking", p, NoReceipt) PROVE GatewayInv'
      BY <1>0, <2>1, <2>3, QuietMove DEF Phases
    <2> QED BY <1>2, <2>2, <2>3 DEF Route, resolve_routing
  <1>3. ASSUME NEW q \in Queries, PeerFails(q) PROVE GatewayInv'
    BY <1>3, FailureStep DEF PeerFails
  <1>4. ASSUME NEW q \in Queries, PeerAnswers(q) PROVE GatewayInv'
    <2>1. query[q].phase = "asking" /\ query[q].peer \in Peers
      BY <1>4 DEF PeerAnswers, GatewayInv
    <2>2. PICK r \in Offers[q][query[q].peer] : Moves(q, "answered", query[q].peer, r)
      BY <1>4 DEF PeerAnswers
    <2>3. r \in Receipts
      BY <2>1, <2>2, GatewayAssumption
    <2> QED BY <1>0, <1>4, <2>1, <2>2, <2>3, QuietMove DEF PeerAnswers, Phases
  <1>5. ASSUME NEW q \in Queries, Hangup(q) PROVE GatewayInv'
    <2>1. query[q].peer \in Peers \cup {NoPeer}
      BY DEF GatewayInv, TypeOK
    <2> QED BY <1>0, <1>5, <2>1, QuietMove DEF Hangup, Phases
  <1>6. CASE MedianMoves
    BY <1>0, <1>6, SameGateway DEF MedianMoves
  <1>7. CASE UNCHANGED vars
    <2>1. median \in Medians
      BY DEF GatewayInv, TypeOK
    <2> QED BY <1>0, <1>7, <2>1, SameGateway DEF vars
  <1> QED BY <1>1, <1>2, <1>3, <1>4, <1>5, <1>6, <1>7, SettleStep, DeliverStep, ServeLocallyStep
          DEF Next, QueryStep

LEMMA GatewayInvariance == Spec => []GatewayInv
  BY InitGateway, NextGateway, PTL DEF Spec

\* The state of the gateway is well typed; its client's balance stays within u64.
THEOREM GatewayTypeOK == Spec => []TypeOK
  <1>1. GatewayInv => TypeOK
    BY DEF GatewayInv
  <1> QED BY <1>1, GatewayInvariance, PTL

\* Payments and delivered answers match one to one, whatever peers answer.
THEOREM GatewayPaysOncePerAnswer == Spec => []OnePaymentPerAnswer
  <1>1. GatewayInv => OnePaymentPerAnswer
    BY DEF GatewayInv
  <1> QED BY <1>1, GatewayInvariance, PTL

\* Every request a peer has finished left exactly one verdict on it.
THEOREM GatewayGivesOneVerdict == Spec => []OneVerdictPerRequest
  <1>1. GatewayInv => OneVerdictPerRequest
    BY DEF GatewayInv
  <1> QED BY <1>1, GatewayInvariance, PTL
=============================================================================
