------------------------- MODULE ReplicationProofs -------------------------
(***************************************************************************)
(* Whatever gossip duplicates, delays or loses, whatever a snapshot races  *)
(* with and whenever a node stops and starts again: the ledgers stay well  *)
(* formed, and a receipt for a peer's work is known nowhere before the     *)
(* gateway whose client pays has claimed it.  For every number of nodes    *)
(* and receipts, and channels of every size.                               *)
(***************************************************************************)
EXTENDS Replication, LedgerStateProofs

ReplicationInv == TypeOK /\ BackedEverywhere

\* Every receipt has a gateway.
LEMMA GatewayIsNode ==
    ASSUME NEW r \in Receipts
    PROVE  Gateway(r) \in Nodes /\ client_hex[Gateway(r)] = Receipt[r].client_pubkey
  BY NodesAssumption DEF Gateway

\* One node's ledger is replaced.
LEMMA LedgerOfOne ==
    ASSUME ReplicationInv, NEW n \in Nodes, NEW s, IsLedgerState(s),
           ledger[n].claimed_receipts \subseteq s.claimed_receipts,
           ledger' = [ledger EXCEPT ![n] = s]
    PROVE  /\ ledger' = [m \in Nodes |-> ledger'[m]]
           /\ \A m \in Nodes : IsLedgerState(ledger'[m])
           /\ ledger'[n] = s
           /\ \A m \in Nodes : m # n => ledger'[m] = ledger[m]
           /\ Backed \subseteq Backed'
  <1>1. ledger = [m \in Nodes |-> ledger[m]]
    BY DEF ReplicationInv, TypeOK
  <1>2. ledger'[n] = s /\ \A m \in Nodes : m # n => ledger'[m] = ledger[m]
    BY <1>1
  <1>3. ledger' = [m \in Nodes |-> ledger'[m]]
    BY <1>1
  <1>4. \A m \in Nodes : IsLedgerState(ledger'[m])
    BY <1>2 DEF ReplicationInv, TypeOK
  <1>5. \A m \in Nodes : ledger[m].claimed_receipts \subseteq ledger'[m].claimed_receipts
    BY <1>2
  <1>6. Backed \subseteq Backed'
    BY <1>5, GatewayIsNode DEF Backed
  <1> QED BY <1>2, <1>3, <1>4, <1>6

\* A claim at node n, of a receipt that is backed or that n is the gateway of.
LEMMA ClaimOfOne ==
    ASSUME ReplicationInv, NEW n \in Nodes, NEW r \in Receipts,
           n = Gateway(r) \/ r \in Backed,
           \/ Acceptable(ledger[n], r) /\ ledger' = [ledger EXCEPT ![n] = Paid(@, r)]
           \/ UNCHANGED ledger
    PROVE  /\ ledger' = [m \in Nodes |-> ledger'[m]]
           /\ \A m \in Nodes : IsLedgerState(ledger'[m])
           /\ \A m \in Nodes : ledger'[m].claimed_receipts \subseteq Backed'
           /\ Backed \subseteq Backed'
  <1>0. /\ ledger = [m \in Nodes |-> ledger[m]]
        /\ \A m \in Nodes : IsLedgerState(ledger[m])
        /\ \A m \in Nodes : ledger[m].claimed_receipts \subseteq Backed
    BY DEF ReplicationInv, TypeOK, BackedEverywhere
  <1>1. CASE UNCHANGED ledger
    BY <1>0, <1>1 DEF Backed
  <1>2. CASE Acceptable(ledger[n], r) /\ ledger' = [ledger EXCEPT ![n] = Paid(@, r)]
    <2> DEFINE s == Paid(ledger[n], r)
    <2>1. IsLedgerState(s)
      BY <1>0, <1>2, PaidIsLedgerState
    <2>2. s.claimed_receipts = ledger[n].claimed_receipts \cup {r}
      BY DEF Paid
    <2>3. ledger' = [ledger EXCEPT ![n] = s]
      BY <1>2
    <2> HIDE DEF s
    <2>4. /\ ledger' = [m \in Nodes |-> ledger'[m]]
          /\ \A m \in Nodes : IsLedgerState(ledger'[m])
          /\ ledger'[n] = s
          /\ \A m \in Nodes : m # n => ledger'[m] = ledger[m]
          /\ Backed \subseteq Backed'
      BY <2>1, <2>2, <2>3, LedgerOfOne
    <2>5. r \in Backed'
      BY <2>2, <2>4 DEF Backed
    <2> QED BY <1>0, <2>2, <2>4, <2>5
  <1> QED BY <1>1, <1>2

\* What was backed is, so what has not changed still is.
LEMMA StillBacked ==
    ASSUME ReplicationInv, Backed \subseteq Backed', NEW n \in Nodes
    PROVE  /\ publishing[n] \subseteq Backed'
           /\ gossip[n] \subseteq Backed'
           /\ sync[n].answer.claimed_receipts \subseteq Backed'
           /\ \A i \in 1..Len(events[n]) :
                 events[n][i].kind = "LedgerReceiptReceived" => events[n][i].receipt \in Backed'
  BY DEF ReplicationInv, BackedEverywhere

\* The ledgers stay as they are.
LEMMA SameLedgers ==
    ASSUME ReplicationInv, UNCHANGED ledger
    PROVE  /\ ledger' = [m \in Nodes |-> ledger'[m]]
           /\ \A m \in Nodes : IsLedgerState(ledger'[m])
           /\ \A m \in Nodes : ledger'[m].claimed_receipts \subseteq Backed'
           /\ Backed' = Backed
  <1>1. Backed' = Backed
    BY DEF Backed
  <1>2. ledger' = [m \in Nodes |-> ledger'[m]]
    BY DEF ReplicationInv, TypeOK
  <1> QED BY <1>1, <1>2 DEF ReplicationInv, TypeOK, BackedEverywhere

\* The task ends a failed attempt well typed, and with nothing in its hands.
LEMMA TaskIsTask ==
    ASSUME NEW k \in 0..MaxAttempts, NEW phase \in {"sleeping", "asked", "done"},
           phase = "sleeping" => k < MaxAttempts
    PROVE  IsTask(Task(phase, k)) /\ Task(phase, k).answer.claimed_receipts = {}
  BY DEF IsTask, Task, NoExport, IsMap

LEMMA AfterFailureIsTask ==
    ASSUME NEW k \in 0..MaxAttempts
    PROVE  IsTask(AfterFailure(k)) /\ AfterFailure(k).answer.claimed_receipts = {}
  <1>1. MaxAttempts \in Nat \ {0}
    BY NodesAssumption
  <1>2. CASE k >= MaxAttempts
    BY <1>1, <1>2, TaskIsTask DEF AfterFailure
  <1>3. CASE ~(k >= MaxAttempts)
    BY <1>1, <1>3, TaskIsTask DEF AfterFailure
  <1> QED BY <1>2, <1>3

\* One node's task moves on.
LEMMA TaskOfOne ==
    ASSUME ReplicationInv, NEW n \in Nodes, NEW t, IsTask(t), t.answer.claimed_receipts \subseteq Backed',
           Backed \subseteq Backed', sync' = [sync EXCEPT ![n] = t]
    PROVE  /\ sync' = [m \in Nodes |-> sync'[m]]
           /\ \A m \in Nodes : IsTask(sync'[m])
           /\ \A m \in Nodes : sync'[m].answer.claimed_receipts \subseteq Backed'
  <1>1. sync = [m \in Nodes |-> sync[m]]
    BY DEF ReplicationInv, TypeOK
  <1>2. sync'[n] = t /\ \A m \in Nodes : m # n => sync'[m] = sync[m]
    BY <1>1
  <1>3. sync' = [m \in Nodes |-> sync'[m]]
    BY <1>1
  <1> QED BY <1>2, <1>3, StillBacked DEF ReplicationInv, TypeOK

\* An event is offered to a channel with room, or lost.
LEMMA AppendEvent ==
    ASSUME ReplicationInv, NEW n \in Nodes, NEW e \in Event, Len(events[n]) < Channel,
           events' = [events EXCEPT ![n] = Append(@, e)],
           Backed \subseteq Backed', e.kind = "LedgerReceiptReceived" => e.receipt \in Backed'
    PROVE  /\ events' \in [Nodes -> Seq(Event)]
           /\ \A m \in Nodes : Len(events'[m]) =< Channel
           /\ \A m \in Nodes : \A i \in 1..Len(events'[m]) :
                 events'[m][i].kind = "LedgerReceiptReceived" => events'[m][i].receipt \in Backed'
  <1>1. events \in [Nodes -> Seq(Event)] /\ Channel \in Nat
    BY NodesAssumption DEF ReplicationInv, TypeOK
  <1>2. PICK q \in Seq(Event) : q = events[n]
    BY <1>1
  <1>3. /\ Append(q, e) \in Seq(Event)
        /\ Len(Append(q, e)) = Len(q) + 1
        /\ Append(q, e)[Len(q) + 1] = e
        /\ \A i \in 1..Len(q) : Append(q, e)[i] = q[i]
    BY <1>2
  <1>4. events'[n] = Append(q, e) /\ \A m \in Nodes : m # n => events'[m] = events[m]
    BY <1>1, <1>2
  <1>5. events' \in [Nodes -> Seq(Event)]
    BY <1>1, <1>2, <1>3
  <1>6. \A m \in Nodes : Len(events'[m]) =< Channel
    BY <1>1, <1>2, <1>3, <1>4 DEF ReplicationInv, TypeOK
  <1>7. ASSUME NEW m \in Nodes, NEW i \in 1..Len(events'[m]),
               events'[m][i].kind = "LedgerReceiptReceived"
        PROVE  events'[m][i].receipt \in Backed'
    <2>1. CASE m # n
      BY <1>4, <1>7, <2>1, StillBacked
    <2>2. CASE m = n /\ i = Len(q) + 1
      BY <1>3, <1>4, <1>7, <2>2
    <2>3. CASE m = n /\ i # Len(q) + 1
      <3>1. i \in 1..Len(q)
        BY <1>2, <1>3, <1>4, <2>3
      <3> QED BY <1>2, <1>3, <1>4, <1>7, <2>3, <3>1, StillBacked
    <2> QED BY <2>1, <2>2, <2>3
  <1> QED BY <1>5, <1>6, <1>7

\* The event loop takes the first event.
LEMMA TailEvents ==
    ASSUME ReplicationInv, NEW n \in Nodes, events[n] # << >>,
           events' = [events EXCEPT ![n] = Tail(@)], Backed \subseteq Backed'
    PROVE  /\ events' \in [Nodes -> Seq(Event)]
           /\ \A m \in Nodes : Len(events'[m]) =< Channel
           /\ \A m \in Nodes : \A i \in 1..Len(events'[m]) :
                 events'[m][i].kind = "LedgerReceiptReceived" => events'[m][i].receipt \in Backed'
           /\ Head(events[n]) \in Event
           /\ Head(events[n]) = events[n][1]
           /\ 1 \in 1..Len(events[n])
  <1>1. events \in [Nodes -> Seq(Event)] /\ Channel \in Nat
    BY NodesAssumption DEF ReplicationInv, TypeOK
  <1>2. PICK q \in Seq(Event) : q = events[n]
    BY <1>1
  <1>3. /\ Tail(q) \in Seq(Event)
        /\ Len(Tail(q)) = Len(q) - 1
        /\ \A i \in 1..Len(Tail(q)) : Tail(q)[i] = q[i + 1] /\ i + 1 \in 1..Len(q)
        /\ Head(q) \in Event /\ Head(q) = q[1] /\ 1 \in 1..Len(q)
    BY <1>2
  <1>4. events'[n] = Tail(q) /\ \A m \in Nodes : m # n => events'[m] = events[m]
    BY <1>1, <1>2
  <1>5. events' \in [Nodes -> Seq(Event)]
    BY <1>1, <1>2, <1>3
  <1>6. \A m \in Nodes : Len(events'[m]) =< Channel
    BY <1>1, <1>2, <1>3, <1>4 DEF ReplicationInv, TypeOK
  <1>7. ASSUME NEW m \in Nodes, NEW i \in 1..Len(events'[m]),
               events'[m][i].kind = "LedgerReceiptReceived"
        PROVE  events'[m][i].receipt \in Backed'
    <2>1. CASE m # n
      BY <1>4, <1>7, <2>1, StillBacked
    <2>2. CASE m = n
      BY <1>2, <1>3, <1>4, <1>7, <2>2, StillBacked
    <2> QED BY <2>1, <2>2
  <1> QED BY <1>2, <1>3, <1>5, <1>6, <1>7

\* Receipts on their way: what a node adds to what it publishes is backed.
LEMMA PublishingOfOne ==
    ASSUME ReplicationInv, Backed \subseteq Backed', NEW n \in Nodes, NEW R \in SUBSET Receipts,
           R \subseteq publishing[n] \cup Backed', publishing' = [publishing EXCEPT ![n] = R]
    PROVE  /\ publishing' \in [Nodes -> SUBSET Receipts]
           /\ \A m \in Nodes : publishing'[m] \subseteq Backed'
  <1>1. publishing \in [Nodes -> SUBSET Receipts]
    BY DEF ReplicationInv, TypeOK
  <1>2. publishing'[n] = R /\ \A m \in Nodes : m # n => publishing'[m] = publishing[m]
    BY <1>1
  <1> QED BY <1>1, <1>2, StillBacked

LEMMA GossipOfOne ==
    ASSUME ReplicationInv, Backed \subseteq Backed', NEW n \in Nodes, NEW r,
           gossip' = [gossip EXCEPT ![n] = @ \ {r}]
    PROVE  /\ gossip' \in [Nodes -> SUBSET Receipts]
           /\ \A m \in Nodes : gossip'[m] \subseteq Backed'
  <1>1. gossip \in [Nodes -> SUBSET Receipts]
    BY DEF ReplicationInv, TypeOK
  <1> QED BY <1>1, StillBacked

-----------------------------------------------------------------------------
LEMMA InitReplication == Init => ReplicationInv
  <1> SUFFICES ASSUME Init PROVE ReplicationInv
    OBVIOUS
  <1>1. MaxAttempts \in Nat \ {0} /\ MaxStarts \in Nat /\ Channel \in Nat
    BY NodesAssumption
  <1>2. IsLedgerState(EmptyState)
    BY DEF EmptyState, IsLedgerState, IsMap
  <1>3. \A n \in Nodes : ledger[n] = EmptyState /\ ledger[n].claimed_receipts = {}
    BY DEF Init, EmptyState
  <1>4. \A n \in Nodes : IsTask(sync[n]) /\ sync[n].answer.claimed_receipts = {}
    <2>1. 0 \in 0..MaxAttempts
      BY <1>1
    <2> QED BY <2>1, TaskIsTask DEF Init
  <1>5. events \in [Nodes -> Seq(Event)] /\ \A n \in Nodes : events[n] = << >> /\ Len(events[n]) = 0
    BY DEF Init
  <1>6. TypeOK
    BY <1>1, <1>2, <1>3, <1>4, <1>5 DEF TypeOK, Init
  <1>7. BackedEverywhere
    BY <1>3, <1>4, <1>5 DEF BackedEverywhere, Init
  <1> QED BY <1>6, <1>7 DEF ReplicationInv

\* Registering an account keeps a LedgerState one and claims nothing.
LEMMA RegisteredIsLedgerState ==
    ASSUME NEW s, IsLedgerState(s), NEW a \in Accounts, NEW initial \in 0..MaxU64
    PROVE  /\ IsLedgerState(Registered(s, a, initial))
           /\ Registered(s, a, initial).claimed_receipts = s.claimed_receipts
  <1>1. CASE a \in DOMAIN s.balances
    BY <1>1 DEF Registered
  <1>2. CASE a \notin DOMAIN s.balances
    <2> DEFINE b == Put(s.balances, a, initial)
    <2>1. IsMap(b, Accounts, 0..MaxU64)
      BY PutIsMap DEF IsLedgerState
    <2>2. Registered(s, a, initial) = [s EXCEPT !.balances = b]
      BY <1>2 DEF Registered
    <2>3. s = [balances           |-> s.balances,
               claimed_receipts   |-> s.claimed_receipts,
               receipt_timestamps |-> s.receipt_timestamps]
      BY DEF IsLedgerState
    <2> HIDE DEF b
    <2>4. Registered(s, a, initial) = [balances           |-> b,
                                       claimed_receipts   |-> s.claimed_receipts,
                                       receipt_timestamps |-> s.receipt_timestamps]
      BY <2>2, <2>3
    <2> QED BY <2>1, <2>4 DEF IsLedgerState
  <1> QED BY <1>1, <1>2

LEMMA StartStep ==
    ASSUME ReplicationInv, NEW n \in Nodes, Start(n)
    PROVE  ReplicationInv'
  <1> DEFINE s == Registered(Registered(ledger[n], client_hex[n], Seed), node_hex[n], 0)
  <1>1. IsLedgerState(s) /\ s.claimed_receipts = ledger[n].claimed_receipts
    <2>1. IsLedgerState(ledger[n])
      BY DEF ReplicationInv, TypeOK
    <2>2. /\ client_hex[n] \in Accounts /\ node_hex[n] \in Accounts
          /\ Seed \in 0..MaxU64 /\ 0 \in 0..MaxU64
      BY NodesAssumption, AgesAssumption
    <2> QED BY <2>1, <2>2, RegisteredIsLedgerState
  <1>2. ledger' = [ledger EXCEPT ![n] = s]
    BY DEF Start
  <1> HIDE DEF s
  <1>3. /\ ledger' = [m \in Nodes |-> ledger'[m]]
        /\ \A m \in Nodes : IsLedgerState(ledger'[m])
        /\ \A m \in Nodes : ledger'[m].claimed_receipts = ledger[m].claimed_receipts
        /\ Backed \subseteq Backed'
    BY <1>1, <1>2, LedgerOfOne
  <1>4. IsTask(Task("sleeping", 0)) /\ Task("sleeping", 0).answer.claimed_receipts = {}
    BY TaskIsTask, NodesAssumption
  <1>5. /\ sync' = [m \in Nodes |-> sync'[m]]
        /\ \A m \in Nodes : IsTask(sync'[m])
        /\ \A m \in Nodes : sync'[m].answer.claimed_receipts \subseteq Backed'
    BY <1>3, <1>4, TaskOfOne DEF Start
  <1>6. TypeOK'
    BY <1>3, <1>5, NodesAssumption DEF ReplicationInv, TypeOK, Start
  <1>7. BackedEverywhere'
    BY <1>3, <1>5, StillBacked DEF ReplicationInv, BackedEverywhere, Start
  <1> QED BY <1>6, <1>7 DEF ReplicationInv

LEMMA StopStep ==
    ASSUME ReplicationInv, NEW n \in Nodes, Stop(n)
    PROVE  ReplicationInv'
  <1>1. /\ ledger' = [m \in Nodes |-> ledger'[m]]
        /\ \A m \in Nodes : IsLedgerState(ledger'[m])
        /\ \A m \in Nodes : ledger'[m].claimed_receipts \subseteq Backed'
        /\ Backed' = Backed
    BY SameLedgers DEF Stop
  <1>2. IsTask(Task("done", 0)) /\ Task("done", 0).answer.claimed_receipts = {}
    BY TaskIsTask, NodesAssumption
  <1>3. /\ sync' = [m \in Nodes |-> sync'[m]]
        /\ \A m \in Nodes : IsTask(sync'[m])
        /\ \A m \in Nodes : sync'[m].answer.claimed_receipts \subseteq Backed'
    BY <1>1, <1>2, TaskOfOne DEF Stop
  <1>4. /\ publishing' \in [Nodes -> SUBSET Receipts]
        /\ \A m \in Nodes : publishing'[m] \subseteq Backed'
    <2>1. {} \in SUBSET Receipts /\ {} \subseteq publishing[n] \cup Backed'
      OBVIOUS
    <2> QED BY <1>1, <2>1, PublishingOfOne DEF Stop
  <1>5. /\ events' \in [Nodes -> Seq(Event)]
        /\ events'[n] = << >> /\ Len(events'[n]) = 0
        /\ \A m \in Nodes : m # n => events'[m] = events[m]
    BY DEF ReplicationInv, TypeOK, Stop
  <1>6. TypeOK'
    BY <1>1, <1>3, <1>4, <1>5, NodesAssumption DEF ReplicationInv, TypeOK, Stop
  <1>7. \A m \in Nodes : \A i \in 1..Len(events'[m]) :
            events'[m][i].kind = "LedgerReceiptReceived" => events'[m][i].receipt \in Backed'
    BY <1>1, <1>5, StillBacked
  <1>8. BackedEverywhere'
    BY <1>1, <1>3, <1>4, <1>7, StillBacked DEF BackedEverywhere, Stop
  <1> QED BY <1>6, <1>8 DEF ReplicationInv

\* The gateway of r settles it; it is broadcast once it is claimed, or its own.
LEMMA SettleStep ==
    ASSUME ReplicationInv, NEW r \in Receipts, SettleRemote(r) \/ SettleLocal(r)
    PROVE  ReplicationInv'
  <1> DEFINE g == Gateway(r)
  <1>1. g \in Nodes
    BY GatewayIsNode
  <1>2. \/ Acceptable(ledger[g], r) /\ ledger' = [ledger EXCEPT ![g] = Paid(@, r)]
        \/ UNCHANGED ledger
    BY DEF SettleRemote, SettleLocal, Claimable
  <1>3. /\ ledger' = [m \in Nodes |-> ledger'[m]]
        /\ \A m \in Nodes : IsLedgerState(ledger'[m])
        /\ \A m \in Nodes : ledger'[m].claimed_receipts \subseteq Backed'
        /\ Backed \subseteq Backed'
    BY <1>1, <1>2, ClaimOfOne
  <1>4. /\ publishing' \in [Nodes -> SUBSET Receipts]
        /\ \A m \in Nodes : publishing'[m] \subseteq Backed'
    <2> DEFINE R == publishing[g] \cup {r}
    <2>0. publishing[g] \in SUBSET Receipts
      BY <1>1 DEF ReplicationInv, TypeOK
    <2>1. CASE UNCHANGED publishing
      BY <1>3, <2>1, StillBacked DEF ReplicationInv, TypeOK
    <2>2. CASE publishing' = [publishing EXCEPT ![g] = R] /\ r \in Backed'
      <3>1. R \in SUBSET Receipts /\ R \subseteq publishing[g] \cup Backed'
        BY <2>0, <2>2
      <3> HIDE DEF R, g
      <3> QED BY <1>1, <1>3, <2>2, <3>1, PublishingOfOne
    <2>3. CASE SettleLocal(r)
      <3>1. r \in Backed'
        BY <2>3 DEF Backed, SettleLocal
      <3> QED BY <2>2, <2>3, <3>1 DEF SettleLocal
    <2>4. CASE SettleRemote(r) /\ Claimable(ledger[g], r, 0)
      <3>1. ledger' = [ledger EXCEPT ![g] = Paid(@, r)] /\ publishing' = [publishing EXCEPT ![g] = R]
        BY <2>4 DEF SettleRemote
      <3>2. ledger'[g] = Paid(ledger[g], r)
        BY <1>1, <3>1 DEF ReplicationInv, TypeOK
      <3>3. r \in Backed'
        BY <3>2 DEF Backed, Paid
      <3> QED BY <2>2, <3>1, <3>3
    <2> QED BY <2>1, <2>3, <2>4 DEF SettleRemote
  <1>5. UNCHANGED <<up, starts, gossip, events, sync>> /\ issued' = issued \cup {r}
    BY DEF SettleRemote, SettleLocal
  <1>6. TypeOK'
    BY <1>3, <1>4, <1>5 DEF ReplicationInv, TypeOK
  <1>7. BackedEverywhere'
    BY <1>3, <1>4, <1>5, StillBacked DEF BackedEverywhere
  <1> QED BY <1>6, <1>7 DEF ReplicationInv

LEMMA PublishStep ==
    ASSUME ReplicationInv, NEW g \in Nodes, NEW r \in Receipts, Publish(g, r)
    PROVE  ReplicationInv'
  <1>1. /\ ledger' = [m \in Nodes |-> ledger'[m]]
        /\ \A m \in Nodes : IsLedgerState(ledger'[m])
        /\ \A m \in Nodes : ledger'[m].claimed_receipts \subseteq Backed'
        /\ Backed' = Backed
    BY SameLedgers DEF Publish
  <1>2. /\ publishing' \in [Nodes -> SUBSET Receipts]
        /\ \A m \in Nodes : publishing'[m] \subseteq Backed'
    <2>1. publishing[g] \ {r} \in SUBSET Receipts
      BY DEF ReplicationInv, TypeOK
    <2> QED BY <1>1, <2>1, PublishingOfOne DEF Publish
  <1>3. r \in Backed
    BY DEF Publish, ReplicationInv, BackedEverywhere
  <1>4. /\ gossip' \in [Nodes -> SUBSET Receipts]
        /\ \A m \in Nodes : gossip'[m] \subseteq Backed'
    <2>1. gossip \in [Nodes -> SUBSET Receipts]
      BY DEF ReplicationInv, TypeOK
    <2>2. \A m \in Nodes : gossip'[m] \subseteq gossip[m] \cup {r}
      BY <2>1 DEF Publish
    <2>3. gossip' \in [Nodes -> SUBSET Receipts]
      BY <2>1 DEF Publish
    <2> QED BY <1>1, <1>3, <2>2, <2>3, StillBacked
  <1>5. TypeOK'
    BY <1>1, <1>2, <1>4 DEF ReplicationInv, TypeOK, Publish
  <1>6. BackedEverywhere'
    BY <1>1, <1>2, <1>4, StillBacked DEF BackedEverywhere, Publish
  <1> QED BY <1>5, <1>6 DEF ReplicationInv

LEMMA GossipStep ==
    ASSUME ReplicationInv, NEW n \in Nodes, NEW r \in Receipts, GossipArrives(n, r) \/ GossipLost(n, r)
    PROVE  ReplicationInv'
  <1>0. UNCHANGED <<ledger, up, starts, issued, publishing, sync>> /\ r \in gossip[n]
    BY DEF GossipArrives, GossipLost
  <1>1. /\ ledger' = [m \in Nodes |-> ledger'[m]]
        /\ \A m \in Nodes : IsLedgerState(ledger'[m])
        /\ \A m \in Nodes : ledger'[m].claimed_receipts \subseteq Backed'
        /\ Backed' = Backed
    BY <1>0, SameLedgers
  <1>2. /\ gossip' \in [Nodes -> SUBSET Receipts]
        /\ \A m \in Nodes : gossip'[m] \subseteq Backed'
    <2>1. CASE UNCHANGED gossip
      BY <1>1, <2>1, StillBacked DEF ReplicationInv, TypeOK
    <2>2. CASE gossip' = [gossip EXCEPT ![n] = @ \ {r}]
      BY <1>1, <2>2, GossipOfOne
    <2> QED BY <2>1, <2>2 DEF GossipArrives, GossipLost
  <1>3. /\ events' \in [Nodes -> Seq(Event)]
        /\ \A m \in Nodes : Len(events'[m]) =< Channel
        /\ \A m \in Nodes : \A i \in 1..Len(events'[m]) :
              events'[m][i].kind = "LedgerReceiptReceived" => events'[m][i].receipt \in Backed'
    <2>1. CASE UNCHANGED events
      BY <1>1, <2>1, StillBacked DEF ReplicationInv, TypeOK
    <2>2. CASE Len(events[n]) < Channel /\ events' = [events EXCEPT ![n] = Append(@, ReceiptEvent(r))]
      <3>1. ReceiptEvent(r) \in Event /\ ReceiptEvent(r).receipt = r
        BY DEF Event, ReceiptEvent
      <3>2. r \in Backed'
        BY <1>0, <1>1 DEF ReplicationInv, BackedEverywhere
      <3> HIDE DEF ReceiptEvent
      <3> QED BY <1>1, <2>2, <3>1, <3>2, AppendEvent
    <2>3. \/ UNCHANGED events
          \/ Len(events[n]) < Channel /\ events' = [events EXCEPT ![n] = Append(@, ReceiptEvent(r))]
      <3>1. events = [events EXCEPT ![n] = events[n]]
        BY DEF ReplicationInv, TypeOK
      <3> QED BY <3>1 DEF GossipArrives, GossipLost, Offered
    <2> QED BY <2>1, <2>2, <2>3
  <1>4. TypeOK'
    BY <1>0, <1>1, <1>2, <1>3 DEF ReplicationInv, TypeOK
  <1>5. BackedEverywhere'
    BY <1>0, <1>1, <1>2, <1>3, StillBacked DEF BackedEverywhere
  <1> QED BY <1>4, <1>5 DEF ReplicationInv

\* The event loop claims a gossiped receipt or answers a snapshot request.
LEMMA HandleReceiptStep ==
    ASSUME ReplicationInv, NEW n \in Nodes, HandleReceipt(n)
    PROVE  ReplicationInv'
  <1>1. PICK e : e = Head(events[n])
    OBVIOUS
  <1>2. e \in Event /\ e = events[n][1] /\ 1 \in 1..Len(events[n])
    <2>1. events[n] \in Seq(Event) /\ events[n] # << >>
      BY DEF ReplicationInv, TypeOK, HandleReceipt
    <2> QED BY <1>1, <2>1
  <1>3. e.kind = "LedgerReceiptReceived"
    BY <1>1 DEF HandleReceipt
  <1>4. PICK r \in Receipts : e = ReceiptEvent(r)
    BY <1>2, <1>3 DEF Event, ReceiptEvent, SyncEvent
  <1>5. e.receipt = r
    BY <1>4 DEF ReceiptEvent
  <1>6. r \in Backed
    BY <1>2, <1>3, <1>5 DEF ReplicationInv, BackedEverywhere
  <1>7. \/ Acceptable(ledger[n], r) /\ ledger' = [ledger EXCEPT ![n] = Paid(@, r)]
        \/ UNCHANGED ledger
    BY <1>1, <1>5 DEF HandleReceipt
  <1>8. /\ ledger' = [m \in Nodes |-> ledger'[m]]
        /\ \A m \in Nodes : IsLedgerState(ledger'[m])
        /\ \A m \in Nodes : ledger'[m].claimed_receipts \subseteq Backed'
        /\ Backed \subseteq Backed'
    BY <1>6, <1>7, ClaimOfOne
  <1>9. /\ events' \in [Nodes -> Seq(Event)]
        /\ \A m \in Nodes : Len(events'[m]) =< Channel
        /\ \A m \in Nodes : \A i \in 1..Len(events'[m]) :
              events'[m][i].kind = "LedgerReceiptReceived" => events'[m][i].receipt \in Backed'
    BY <1>8, TailEvents DEF HandleReceipt
  <1>10. TypeOK'
    BY <1>8, <1>9 DEF ReplicationInv, TypeOK, HandleReceipt
  <1>11. BackedEverywhere'
    BY <1>8, <1>9, StillBacked DEF BackedEverywhere, HandleReceipt
  <1> QED BY <1>10, <1>11 DEF ReplicationInv

LEMMA HandleSyncStep ==
    ASSUME ReplicationInv, NEW p \in Nodes, HandleSync(p)
    PROVE  ReplicationInv'
  <1>1. /\ ledger' = [m \in Nodes |-> ledger'[m]]
        /\ \A m \in Nodes : IsLedgerState(ledger'[m])
        /\ \A m \in Nodes : ledger'[m].claimed_receipts \subseteq Backed'
        /\ Backed' = Backed
    BY SameLedgers DEF HandleSync
  <1>2. PICK e : e = Head(events[p])
    OBVIOUS
  <1>3. e \in Event /\ e.kind = "SyncLedger"
    <2>1. events[p] \in Seq(Event) /\ events[p] # << >>
      BY DEF ReplicationInv, TypeOK, HandleSync
    <2> QED BY <1>2, <2>1 DEF HandleSync
  <1>4. PICK n \in Nodes, k \in 0..MaxAttempts : e = SyncEvent(n, k)
    BY <1>3 DEF Event, ReceiptEvent, SyncEvent
  <1>5. e.from = n /\ e.attempt = k
    BY <1>4 DEF SyncEvent
  <1>6. /\ events' \in [Nodes -> Seq(Event)]
        /\ \A m \in Nodes : Len(events'[m]) =< Channel
        /\ \A m \in Nodes : \A i \in 1..Len(events'[m]) :
              events'[m][i].kind = "LedgerReceiptReceived" => events'[m][i].receipt \in Backed'
    BY <1>1, TailEvents DEF HandleSync
  <1> DEFINE t == [phase |-> "answered", attempts |-> k, answer |-> Export(ledger[p])]
  <1>7. /\ sync' = [m \in Nodes |-> sync'[m]]
        /\ \A m \in Nodes : IsTask(sync'[m])
        /\ \A m \in Nodes : sync'[m].answer.claimed_receipts \subseteq Backed'
    <2>1. CASE UNCHANGED sync
      BY <1>1, <2>1, StillBacked DEF ReplicationInv, TypeOK
    <2>2. CASE sync' = [sync EXCEPT ![n] = t]
      <3>1. IsLedgerState(ledger[p]) /\ ledger[p].claimed_receipts \subseteq Backed
        BY DEF ReplicationInv, TypeOK, BackedEverywhere
      <3>2. IsTask(t) /\ t.answer.claimed_receipts \subseteq Backed'
        BY <1>1, <3>1 DEF IsTask, Export, IsLedgerState
      <3> HIDE DEF t
      <3> QED BY <1>1, <2>2, <3>2, TaskOfOne
    <2> QED BY <1>2, <1>5, <2>1, <2>2 DEF HandleSync
  <1>8. TypeOK'
    BY <1>1, <1>6, <1>7 DEF ReplicationInv, TypeOK, HandleSync
  <1>9. BackedEverywhere'
    BY <1>1, <1>6, <1>7, StillBacked DEF BackedEverywhere, HandleSync
  <1> QED BY <1>8, <1>9 DEF ReplicationInv

\* Steps that only move one node's task, and perhaps queue an event without a receipt.
LEMMA TaskStep ==
    ASSUME ReplicationInv, NEW n \in Nodes, NEW t, IsTask(t), t.answer.claimed_receipts = {},
           sync' = [sync EXCEPT ![n] = t],
           UNCHANGED <<ledger, up, starts, issued, publishing, gossip>>,
           \/ UNCHANGED events
           \/ \E p \in Nodes : \E e \in Event :
                 /\ e.kind = "SyncLedger" /\ Len(events[p]) < Channel
                 /\ events' = [events EXCEPT ![p] = Append(@, e)]
    PROVE  ReplicationInv'
  <1>1. /\ ledger' = [m \in Nodes |-> ledger'[m]]
        /\ \A m \in Nodes : IsLedgerState(ledger'[m])
        /\ \A m \in Nodes : ledger'[m].claimed_receipts \subseteq Backed'
        /\ Backed' = Backed
    BY SameLedgers
  <1>2. /\ sync' = [m \in Nodes |-> sync'[m]]
        /\ \A m \in Nodes : IsTask(sync'[m])
        /\ \A m \in Nodes : sync'[m].answer.claimed_receipts \subseteq Backed'
    BY <1>1, TaskOfOne
  <1>3. /\ events' \in [Nodes -> Seq(Event)]
        /\ \A m \in Nodes : Len(events'[m]) =< Channel
        /\ \A m \in Nodes : \A i \in 1..Len(events'[m]) :
              events'[m][i].kind = "LedgerReceiptReceived" => events'[m][i].receipt \in Backed'
    <2>1. CASE UNCHANGED events
      BY <1>1, <2>1, StillBacked DEF ReplicationInv, TypeOK
    <2>2. ASSUME NEW p \in Nodes, NEW e \in Event, e.kind = "SyncLedger", Len(events[p]) < Channel,
                 events' = [events EXCEPT ![p] = Append(@, e)]
          PROVE  /\ events' \in [Nodes -> Seq(Event)]
                 /\ \A m \in Nodes : Len(events'[m]) =< Channel
                 /\ \A m \in Nodes : \A i \in 1..Len(events'[m]) :
                       events'[m][i].kind = "LedgerReceiptReceived" => events'[m][i].receipt \in Backed'
      BY <1>1, <2>2, AppendEvent
    <2> QED BY <2>1, <2>2
  <1>4. TypeOK'
    BY <1>1, <1>2, <1>3 DEF ReplicationInv, TypeOK
  <1>5. BackedEverywhere'
    BY <1>1, <1>2, <1>3, StillBacked DEF BackedEverywhere
  <1> QED BY <1>4, <1>5 DEF ReplicationInv

LEMMA AskPeerStep ==
    ASSUME ReplicationInv, NEW n \in Nodes, NEW p \in Nodes, AskPeer(n, p)
    PROVE  ReplicationInv'
  <1> DEFINE k == sync[n].attempts + 1
  <1>1. k \in 0..MaxAttempts
    BY NodesAssumption DEF ReplicationInv, TypeOK, IsTask, AskPeer
  <1> HIDE DEF k
  <1>2. UNCHANGED <<ledger, up, starts, issued, publishing, gossip>>
    BY DEF AskPeer
  <1>3. CASE Len(events[p]) < Channel
    <2>1. /\ IsTask(Task("asked", k)) /\ Task("asked", k).answer.claimed_receipts = {}
          /\ SyncEvent(n, k) \in Event /\ SyncEvent(n, k).kind = "SyncLedger"
      BY <1>1, TaskIsTask DEF Event, SyncEvent
    <2>2. /\ events' = [events EXCEPT ![p] = Append(@, SyncEvent(n, k))]
          /\ sync' = [sync EXCEPT ![n] = Task("asked", k)]
      BY <1>3 DEF AskPeer, k
    <2> QED BY <1>2, <1>3, <2>1, <2>2, TaskStep
  <1>4. CASE ~(Len(events[p]) < Channel)
    <2>1. sync' = [sync EXCEPT ![n] = AfterFailure(k)] /\ UNCHANGED events
      BY <1>4 DEF AskPeer, k
    <2> QED BY <1>1, <1>2, <2>1, AfterFailureIsTask, TaskStep
  <1> QED BY <1>3, <1>4

LEMMA NoPeerStep ==
    ASSUME ReplicationInv, NEW n \in Nodes, NoPeer(n)
    PROVE  ReplicationInv'
  <1>1. PICK k \in 0..MaxAttempts : k = sync[n].attempts + 1
    BY NodesAssumption DEF ReplicationInv, TypeOK, IsTask, NoPeer
  <1>2. sync' = [sync EXCEPT ![n] = AfterFailure(k)]
    BY <1>1 DEF NoPeer
  <1> QED BY <1>2, AfterFailureIsTask, TaskStep DEF NoPeer

LEMMA NodeClosedStep ==
    ASSUME ReplicationInv, NEW n \in Nodes, NodeClosed(n)
    PROVE  ReplicationInv'
  <1>1. IsTask(Task("done", 0)) /\ Task("done", 0).answer.claimed_receipts = {}
    BY TaskIsTask, NodesAssumption
  <1> QED BY <1>1, TaskStep DEF NodeClosed

LEMMA AskFailsStep ==
    ASSUME ReplicationInv, NEW n \in Nodes, AskFails(n)
    PROVE  ReplicationInv'
  <1>1. PICK k \in 0..MaxAttempts : k = sync[n].attempts
    BY DEF ReplicationInv, TypeOK, IsTask
  <1>2. sync' = [sync EXCEPT ![n] = AfterFailure(k)]
    BY <1>1 DEF AskFails
  <1> QED BY <1>2, AfterFailureIsTask, TaskStep DEF AskFails

LEMMA ImportStep ==
    ASSUME ReplicationInv, NEW n \in Nodes, Import(n)
    PROVE  ReplicationInv'
  <1> DEFINE s == Merged(ledger[n], sync[n].answer, 0)
  <1>1. /\ IsLedgerState(ledger[n]) /\ IsTask(sync[n])
        /\ sync[n].answer.claimed_receipts \subseteq Backed
        /\ \A m \in Nodes : ledger[m].claimed_receipts \subseteq Backed
    BY DEF ReplicationInv, TypeOK, BackedEverywhere
  <1>2. IsLedgerState(s)
    BY <1>1, MergedIsLedgerState, AgesAssumption DEF IsTask
  <1>3. s.claimed_receipts = ledger[n].claimed_receipts \cup sync[n].answer.claimed_receipts
    BY DEF Merged
  <1>4. ledger' = [ledger EXCEPT ![n] = s]
    BY DEF Import
  <1> HIDE DEF s
  <1>5. /\ ledger' = [m \in Nodes |-> ledger'[m]]
        /\ \A m \in Nodes : IsLedgerState(ledger'[m])
        /\ ledger'[n] = s
        /\ \A m \in Nodes : m # n => ledger'[m] = ledger[m]
        /\ Backed \subseteq Backed'
    BY <1>2, <1>3, <1>4, LedgerOfOne
  <1>6. \A m \in Nodes : ledger'[m].claimed_receipts \subseteq Backed'
    BY <1>1, <1>3, <1>5
  <1>7. IsTask(Task("done", 0)) /\ Task("done", 0).answer.claimed_receipts = {}
    BY TaskIsTask, NodesAssumption
  <1>8. /\ sync' = [m \in Nodes |-> sync'[m]]
        /\ \A m \in Nodes : IsTask(sync'[m])
        /\ \A m \in Nodes : sync'[m].answer.claimed_receipts \subseteq Backed'
    BY <1>5, <1>7, TaskOfOne DEF Import
  <1>9. TypeOK'
    BY <1>5, <1>8 DEF ReplicationInv, TypeOK, Import
  <1>10. BackedEverywhere'
    BY <1>5, <1>6, <1>8, StillBacked DEF BackedEverywhere, Import
  <1> QED BY <1>9, <1>10 DEF ReplicationInv

LEMMA NextReplication == ReplicationInv /\ [Next]_vars => ReplicationInv'
  <1> SUFFICES ASSUME ReplicationInv, [Next]_vars PROVE ReplicationInv'
    OBVIOUS
  <1>1. CASE Next
    BY <1>1, StartStep, StopStep, SettleStep, PublishStep, GossipStep, HandleReceiptStep,
       HandleSyncStep, AskPeerStep, NodeClosedStep, NoPeerStep,
       AskFailsStep, ImportStep DEF Next
  <1>2. CASE UNCHANGED vars
    BY <1>2, SameLedgers, StillBacked DEF ReplicationInv, TypeOK, BackedEverywhere, vars
  <1> QED BY <1>1, <1>2

LEMMA ReplicationInvariance == Spec => []ReplicationInv
  BY InitReplication, NextReplication, PTL DEF Spec

\* Ledgers, channels and boot synchronization tasks stay well formed on every node.
THEOREM ReplicationTypeOK == Spec => []TypeOK
  <1>1. ReplicationInv => TypeOK
    BY DEF ReplicationInv
  <1> QED BY <1>1, ReplicationInvariance, PTL

\* A receipt for a peer's work is claimed nowhere before its gateway has claimed it.
THEOREM ReplicationClaimsAtGatewayFirst == Spec => []ClaimedAtGatewayFirst
  <1>1. ReplicationInv => ClaimedAtGatewayFirst
    BY DEF ReplicationInv, BackedEverywhere, Backed, ClaimedAtGatewayFirst
  <1> QED BY <1>1, ReplicationInvariance, PTL

-----------------------------------------------------------------------------
(* A node's own accounts move once for each receipt.                       *)

\* The amounts of receipts, added up.
LEMMA AmountWith ==
    ASSUME NEW rs, rs \subseteq Receipts, IsFiniteSet(rs), NEW r \in Receipts, r \notin rs
    PROVE  AmountOf(rs \cup {r}) = AmountOf(rs) + Receipt[r].amount_nano
  <1> DEFINE f == [x \in Receipts |-> Receipt[x].amount_nano]
  <1>1. \A y \in rs \cup {r} : f[y] \in Int
    BY ReceiptAssumption DEF ReceiptType
  <1>2. f[r] = Receipt[r].amount_nano
    OBVIOUS
  <1> HIDE DEF f
  <1>3. SumFunctionOnSet(f, rs \cup {r}) = SumFunctionOnSet(f, rs) + f[r]
    BY <1>1, SumWith
  <1> QED BY <1>2, <1>3 DEF AmountOf, f

LEMMA AmountMonotone ==
    ASSUME NEW ss, ss \subseteq Receipts, IsFiniteSet(ss), NEW rs, rs \subseteq ss
    PROVE  AmountOf(rs) \in Nat /\ AmountOf(rs) =< AmountOf(ss)
  <1> DEFINE f == [x \in Receipts |-> Receipt[x].amount_nano]
  <1>1. \A y \in ss : f[y] \in Nat
    BY ReceiptAssumption DEF ReceiptType
  <1> HIDE DEF f
  <1>2. SumFunctionOnSet(f, rs) \in Nat /\ SumFunctionOnSet(f, rs) =< SumFunctionOnSet(f, ss)
    BY <1>1, SumMonotone
  <1> QED BY <1>2 DEF AmountOf, f

LEMMA AmountEmpty == AmountOf({}) = 0
  BY SumEmpty DEF AmountOf

\* Marks that are added to the claimed ones add to what is earned and spent.
LEMMA MarksGrow ==
    ASSUME NEW ss, ss \subseteq Receipts, IsFiniteSet(ss), NEW rs, rs \subseteq ss, NEW n
    PROVE  /\ AmountOf(Earning(rs, n)) \in Nat /\ AmountOf(Earning(ss, n)) \in Nat
           /\ AmountOf(Earning(rs, n)) =< AmountOf(Earning(ss, n))
           /\ AmountOf(Spending(rs, n)) \in Nat /\ AmountOf(Spending(ss, n)) \in Nat
           /\ AmountOf(Spending(rs, n)) =< AmountOf(Spending(ss, n))
  <1>1. /\ Earning(ss, n) \subseteq Receipts /\ Spending(ss, n) \subseteq Receipts
        /\ Earning(rs, n) \subseteq Earning(ss, n) /\ Spending(rs, n) \subseteq Spending(ss, n)
    BY DEF Earning, Spending
  <1>2. IsFiniteSet(Earning(ss, n)) /\ IsFiniteSet(Spending(ss, n))
    BY FS_Subset DEF Earning, Spending
  <1> QED BY <1>1, <1>2, AmountMonotone

\* One more mark, of a receipt that n earns or spends.
LEMMA MarkOfOne ==
    ASSUME NEW rs, rs \subseteq Receipts, IsFiniteSet(rs), NEW r \in Receipts, r \notin rs, NEW n
    PROVE  /\ Receipt[r].node_pubkey = node_hex[n] =>
                AmountOf(Earning(rs \cup {r}, n)) = AmountOf(Earning(rs, n)) + Receipt[r].amount_nano
           /\ Receipt[r].client_pubkey = client_hex[n] =>
                AmountOf(Spending(rs \cup {r}, n)) = AmountOf(Spending(rs, n)) + Receipt[r].amount_nano
  <1>1. ASSUME Receipt[r].node_pubkey = node_hex[n]
        PROVE  AmountOf(Earning(rs \cup {r}, n)) = AmountOf(Earning(rs, n)) + Receipt[r].amount_nano
    <2>1. Earning(rs \cup {r}, n) = Earning(rs, n) \cup {r}
      BY <1>1 DEF Earning
    <2>2. /\ Earning(rs, n) \subseteq Receipts /\ r \notin Earning(rs, n)
          /\ IsFiniteSet(Earning(rs, n))
      BY FS_Subset DEF Earning
    <2>3. AmountOf(Earning(rs, n) \cup {r}) = AmountOf(Earning(rs, n)) + Receipt[r].amount_nano
      BY <2>2, AmountWith
    <2> QED BY <1>1, <2>1, <2>3
  <1>2. ASSUME Receipt[r].client_pubkey = client_hex[n]
        PROVE  AmountOf(Spending(rs \cup {r}, n)) = AmountOf(Spending(rs, n)) + Receipt[r].amount_nano
    <2>1. Spending(rs \cup {r}, n) = Spending(rs, n) \cup {r}
      BY <1>2 DEF Spending
    <2>2. /\ Spending(rs, n) \subseteq Receipts /\ r \notin Spending(rs, n)
          /\ IsFiniteSet(Spending(rs, n))
      BY FS_Subset DEF Spending
    <2>3. AmountOf(Spending(rs, n) \cup {r}) = AmountOf(Spending(rs, n)) + Receipt[r].amount_nano
      BY <2>2, AmountWith
    <2> QED BY <1>2, <2>1, <2>3
  <1> QED BY <1>1, <1>2

\* What a claim makes of each balance.
LEMMA PaidBalance ==
    ASSUME NEW s, NEW r \in Receipts, Acceptable(s, r), NEW a
    PROVE  /\ a \in DOMAIN s.balances => a \in DOMAIN Paid(s, r).balances
           /\ get_balance(Paid(s, r), a) =
                IF a = Receipt[r].node_pubkey THEN get_balance(s, a) + Receipt[r].amount_nano
                ELSE IF a = Receipt[r].client_pubkey THEN get_balance(s, a) - Receipt[r].amount_nano
                ELSE get_balance(s, a)
  BY DEF Paid, Move, Put, get_balance, Acceptable

LEMMA PaidMovesOnce ==
    ASSUME NEW s, IsLedgerState(s), IsFiniteSet(s.claimed_receipts),
           NEW r \in Receipts, Acceptable(s, r), NEW n \in Nodes, MovesOnce(s, n)
    PROVE  MovesOnce(Paid(s, r), n)
  <1> DEFINE t == Paid(s, r)
  <1>1. PICK rs : rs = s.claimed_receipts
    OBVIOUS
  <1>2. t.claimed_receipts = rs \cup {r} /\ r \notin rs /\ rs \subseteq Receipts /\ IsFiniteSet(rs)
    BY <1>1 DEF Paid, Acceptable, IsLedgerState
  <1>3. PICK ss : ss = rs \cup {r} /\ IsFiniteSet(ss) /\ ss \subseteq Receipts /\ rs \subseteq ss
    BY <1>2, FS_AddElement
  <1>4. PICK amount \in Nat : amount = Receipt[r].amount_nano
    BY ReceiptAssumption DEF ReceiptType
  <1>5. PICK h, c : h = node_hex[n] /\ c = client_hex[n] /\ h # c
    BY NodesAssumption
  <1>6. PICK hb \in Nat, cb \in Nat : hb = get_balance(s, h) /\ cb = get_balance(s, c)
    BY <1>5, BalanceIsU64, AgesAssumption, NodesAssumption
  <1>7. Receipt[r].client_pubkey # Receipt[r].node_pubkey
    BY DEF Acceptable
  <1>8. PICK e \in Nat, e1 \in Nat, p \in Nat, p1 \in Nat :
            /\ e = AmountOf(Earning(rs, n)) /\ e1 = AmountOf(Earning(ss, n))
            /\ p = AmountOf(Spending(rs, n)) /\ p1 = AmountOf(Spending(ss, n))
            /\ e =< e1 /\ p =< p1
    BY <1>3, MarksGrow
  <1>9. /\ Receipt[r].node_pubkey = h => e1 = e + amount
        /\ Receipt[r].client_pubkey = c => p1 = p + amount
    <2>1. /\ Receipt[r].node_pubkey = node_hex[n] =>
               AmountOf(Earning(rs \cup {r}, n)) = AmountOf(Earning(rs, n)) + Receipt[r].amount_nano
          /\ Receipt[r].client_pubkey = client_hex[n] =>
               AmountOf(Spending(rs \cup {r}, n)) = AmountOf(Spending(rs, n)) + Receipt[r].amount_nano
      BY <1>2, MarkOfOne
    <2> QED BY <1>3, <1>4, <1>5, <1>8, <2>1, Zenon
  <1>10. hb =< e /\ cb >= Seed - p /\ Seed \in Nat /\ {h, c} \subseteq DOMAIN s.balances
    BY <1>1, <1>5, <1>6, <1>8, NodesAssumption, AgesAssumption DEF MovesOnce
  <1>11. {h, c} \subseteq DOMAIN t.balances
    BY <1>10, PaidBalance
  <1>12. get_balance(t, h) =< e1
    <2>1. get_balance(t, h) = IF h = Receipt[r].node_pubkey THEN hb + amount
                              ELSE IF h = Receipt[r].client_pubkey THEN hb - amount ELSE hb
      BY <1>4, <1>6, PaidBalance
    <2> HIDE DEF t
    <2> QED BY <1>4, <1>6, <1>8, <1>9, <1>10, <2>1
  <1>13. get_balance(t, c) >= Seed - p1
    <2>1. get_balance(t, c) = IF c = Receipt[r].node_pubkey THEN cb + amount
                              ELSE IF c = Receipt[r].client_pubkey THEN cb - amount ELSE cb
      BY <1>4, <1>6, PaidBalance
    <2> HIDE DEF t
    <2> QED BY <1>4, <1>6, <1>7, <1>8, <1>9, <1>10, <2>1
  <1> QED BY <1>2, <1>3, <1>5, <1>8, <1>11, <1>12, <1>13 DEF MovesOnce

\* A snapshot moves neither account of a node that has both.
LEMMA MergedMovesOnce ==
    ASSUME NEW s, IsLedgerState(s), IsFiniteSet(s.claimed_receipts), NEW now \in Nat,
           NEW ext, ext.claimed_receipts \subseteq Receipts, IsFiniteSet(ext.claimed_receipts),
           NEW n \in Nodes, MovesOnce(s, n)
    PROVE  MovesOnce(Merged(s, ext, now), n)
  <1> DEFINE t == Merged(s, ext, now)
  <1>1. PICK rs, ss : rs = s.claimed_receipts /\ ss = t.claimed_receipts
    OBVIOUS
  <1>2. rs \subseteq ss /\ ss \subseteq Receipts /\ IsFiniteSet(ss)
    BY <1>1, FS_Union DEF Merged, IsLedgerState
  <1>3. PICK h, c : h = node_hex[n] /\ c = client_hex[n]
    OBVIOUS
  <1>4. /\ {h, c} \subseteq DOMAIN t.balances
        /\ get_balance(t, h) = get_balance(s, h) /\ get_balance(t, c) = get_balance(s, c)
    BY <1>3 DEF MovesOnce, Merged, get_balance
  <1>5. get_balance(s, h) \in Nat /\ get_balance(s, c) \in Nat /\ Seed \in Nat
    BY <1>3, BalanceIsU64, AgesAssumption, NodesAssumption
  <1> HIDE DEF t
  <1>6. PICK e \in Nat, e1 \in Nat, p \in Nat, p1 \in Nat :
            /\ e = AmountOf(Earning(rs, n)) /\ e1 = AmountOf(Earning(ss, n))
            /\ p = AmountOf(Spending(rs, n)) /\ p1 = AmountOf(Spending(ss, n))
            /\ e =< e1 /\ p =< p1
    BY <1>2, MarksGrow
  <1>7. get_balance(s, h) =< e /\ get_balance(s, c) >= Seed - p
    BY <1>1, <1>3, <1>6 DEF MovesOnce
  <1>8. get_balance(t, h) =< e1 /\ get_balance(t, c) >= Seed - p1
    BY <1>4, <1>5, <1>6, <1>7
  <1> QED BY <1>1, <1>3, <1>4, <1>6, <1>8 DEF MovesOnce, t

\* A node that boots knowing nothing registers its client with the seed and its
\* node account with nothing; one that has booted before keeps both.
LEMMA RegisteredMovesOnce ==
    ASSUME NEW n \in Nodes, NEW s, s = EmptyState \/ MovesOnce(s, n)
    PROVE  MovesOnce(Registered(Registered(s, client_hex[n], Seed), node_hex[n], 0), n)
  <1>1. PICK h, c : h = node_hex[n] /\ c = client_hex[n] /\ h # c
    BY NodesAssumption
  <1>2. CASE MovesOnce(s, n)
    <2>1. {h, c} \subseteq DOMAIN s.balances
      BY <1>1, <1>2 DEF MovesOnce
    <2>2. Registered(Registered(s, c, Seed), h, 0) = s
      BY <2>1 DEF Registered
    <2> QED BY <1>1, <1>2, <2>2
  <1>3. CASE s = EmptyState
    <2> DEFINE t == [balances           |-> [a \in {c} |-> Seed],
                     claimed_receipts   |-> {},
                     receipt_timestamps |-> s.receipt_timestamps]
               u == [balances           |-> [a \in {c, h} |-> IF a = h THEN 0 ELSE Seed],
                     claimed_receipts   |-> {},
                     receipt_timestamps |-> s.receipt_timestamps]
    <2>1. Registered(s, c, Seed) = t
      BY <1>3 DEF Registered, EmptyState, Put
    <2>2. Registered(t, h, 0) = u
      <3>1. h \notin DOMAIN t.balances
        BY <1>1
      <3>2. Put(t.balances, h, 0) = u.balances
        BY <1>1 DEF Put
      <3> QED BY <3>1, <3>2 DEF Registered
    <2>3. /\ get_balance(u, h) = 0 /\ get_balance(u, c) = Seed
          /\ {h, c} \subseteq DOMAIN u.balances /\ u.claimed_receipts = {}
      BY <1>1 DEF get_balance
    <2> HIDE DEF t, u
    <2>4. Earning({}, n) = {} /\ Spending({}, n) = {}
      BY DEF Earning, Spending
    <2>5. Seed \in Nat
      BY NodesAssumption, AgesAssumption
    <2>6. MovesOnce(u, n)
      BY <1>1, <2>3, <2>4, <2>5, AmountEmpty DEF MovesOnce
    <2> QED BY <1>1, <2>1, <2>2, <2>6
  <1> QED BY <1>2, <1>3

\* One node's share of OwnAccounts.
OwnAccountsOf(n) ==
    /\ IsFiniteSet(ledger[n].claimed_receipts)
    /\ IsFiniteSet(sync[n].answer.claimed_receipts)
    /\ ledger[n] = EmptyState \/ MovesOnce(ledger[n], n)
    /\ n \in up => MovesOnce(ledger[n], n)
    /\ events[n] # << >> => n \in up

AccountsInv == ReplicationInv /\ OwnAccounts

\* What does not change keeps its share of the invariant.
LEMMA SameNode ==
    ASSUME OwnAccounts, NEW n \in Nodes, ledger'[n] = ledger[n], n \in up' => n \in up
    PROVE  /\ IsFiniteSet(ledger'[n].claimed_receipts)
           /\ ledger'[n] = EmptyState \/ MovesOnce(ledger'[n], n)
           /\ n \in up' => MovesOnce(ledger'[n], n)
  BY DEF OwnAccounts

\* A claim by a node that runs, in the ledgers of all.
LEMMA ClaimAccounts ==
    ASSUME AccountsInv, NEW n \in up, NEW r \in Receipts, up' = up,
           \/ Acceptable(ledger[n], r) /\ ledger' = [ledger EXCEPT ![n] = Paid(@, r)]
           \/ UNCHANGED ledger
    PROVE  \A m \in Nodes :
              /\ IsFiniteSet(ledger'[m].claimed_receipts)
              /\ ledger'[m] = EmptyState \/ MovesOnce(ledger'[m], m)
              /\ m \in up' => MovesOnce(ledger'[m], m)
  <1>0. n \in Nodes /\ OwnAccounts
    BY DEF AccountsInv, ReplicationInv, TypeOK
  <1>1. CASE UNCHANGED ledger
    BY <1>0, <1>1, SameNode
  <1>2. CASE Acceptable(ledger[n], r) /\ ledger' = [ledger EXCEPT ![n] = Paid(@, r)]
    <2>1. PICK s : s = ledger[n] /\ IsLedgerState(s) /\ MovesOnce(s, n) /\ IsFiniteSet(s.claimed_receipts)
      BY <1>0 DEF AccountsInv, OwnAccounts, ReplicationInv, TypeOK
    <2>2. MovesOnce(Paid(s, r), n)
      BY <1>0, <1>2, <2>1, PaidMovesOnce
    <2>3. IsFiniteSet(Paid(s, r).claimed_receipts)
      BY <2>1, FS_AddElement DEF Paid
    <2>4. ledger'[n] = Paid(s, r) /\ \A m \in Nodes : m # n => ledger'[m] = ledger[m]
      BY <1>0, <1>2, <2>1 DEF AccountsInv, ReplicationInv, TypeOK
    <2> QED BY <1>0, <2>2, <2>3, <2>4, SameNode
  <1> QED BY <1>1, <1>2

\* A task that holds no answer knows of no receipt.
LEMMA NoAnswer ==
    ASSUME NEW phase, NEW k
    PROVE  IsFiniteSet(Task(phase, k).answer.claimed_receipts)
  <1>1. Task(phase, k).answer.claimed_receipts = {}
    BY DEF Task, NoExport
  <1> QED BY <1>1, FS_EmptySet

\* The tasks keep finite answers.
LEMMA FiniteAnswers ==
    ASSUME AccountsInv, NEW n \in Nodes, NEW t, IsFiniteSet(t.answer.claimed_receipts),
           UNCHANGED sync \/ sync' = [sync EXCEPT ![n] = t]
    PROVE  \A m \in Nodes : IsFiniteSet(sync'[m].answer.claimed_receipts)
  <1>1. sync = [m \in Nodes |-> sync[m]] /\ \A m \in Nodes : IsFiniteSet(sync[m].answer.claimed_receipts)
    BY DEF AccountsInv, ReplicationInv, TypeOK, OwnAccounts
  <1>2. CASE sync' = [sync EXCEPT ![n] = t]
    <2>1. sync'[n] = t /\ \A m \in Nodes : m # n => sync'[m] = sync[m]
      BY <1>1, <1>2
    <2> QED BY <1>1, <2>1
  <1> QED BY <1>1, <1>2

LEMMA InitAccounts == Init => AccountsInv
  <1> SUFFICES ASSUME Init PROVE AccountsInv
    OBVIOUS
  <1>1. \A n \in Nodes : /\ ledger[n] = EmptyState /\ ledger[n].claimed_receipts = {}
                         /\ sync[n].answer.claimed_receipts = {}
                         /\ events[n] = << >> /\ n \notin up
    BY DEF Init, EmptyState, Task, NoExport
  <1>2. OwnAccounts
    BY <1>1, FS_EmptySet DEF OwnAccounts
  <1> QED BY <1>2, InitReplication DEF AccountsInv

LEMMA StartAccounts ==
    ASSUME AccountsInv, NEW n \in Nodes, Start(n)
    PROVE  OwnAccounts'
  <1> DEFINE s == Registered(Registered(ledger[n], client_hex[n], Seed), node_hex[n], 0)
  <1>0. OwnAccounts /\ IsLedgerState(ledger[n])
    BY DEF AccountsInv, ReplicationInv, TypeOK
  <1>1. MovesOnce(s, n)
    BY <1>0, RegisteredMovesOnce DEF OwnAccounts
  <1>2. s.claimed_receipts = ledger[n].claimed_receipts
    <2>1. /\ client_hex[n] \in Accounts /\ node_hex[n] \in Accounts
          /\ Seed \in 0..MaxU64 /\ 0 \in 0..MaxU64
      BY NodesAssumption, AgesAssumption
    <2> QED BY <1>0, <2>1, RegisteredIsLedgerState
  <1>3. ledger'[n] = s /\ \A m \in Nodes : m # n => ledger'[m] = ledger[m]
    BY DEF AccountsInv, ReplicationInv, TypeOK, Start
  <1>4. \A m \in Nodes : IsFiniteSet(sync'[m].answer.claimed_receipts)
    <2>1. PICK t : t = Task("sleeping", 0) /\ IsFiniteSet(t.answer.claimed_receipts)
      BY NoAnswer, Zenon
    <2>2. UNCHANGED sync \/ sync' = [sync EXCEPT ![n] = t]
      BY <2>1 DEF Start
    <2> QED BY <2>1, <2>2, FiniteAnswers
  <1> HIDE DEF s
  <1>5. ASSUME NEW m \in Nodes PROVE OwnAccountsOf(m)'
    <2>1. events'[m] # << >> => m \in up'
      BY <1>0 DEF OwnAccounts, Start
    <2>2. CASE m = n
      BY <1>0, <1>1, <1>2, <1>3, <1>4, <2>1, <2>2 DEF OwnAccountsOf, OwnAccounts
    <2>3. CASE m # n
      BY <1>0, <1>3, <1>4, <2>1, <2>3, SameNode DEF OwnAccountsOf, Start
    <2> QED BY <2>2, <2>3
  <1> QED BY <1>5 DEF OwnAccounts, OwnAccountsOf

LEMMA StopAccounts ==
    ASSUME AccountsInv, NEW n \in Nodes, Stop(n)
    PROVE  OwnAccounts'
  <1>0. OwnAccounts
    BY DEF AccountsInv
  <1>1. \A m \in Nodes : IsFiniteSet(sync'[m].answer.claimed_receipts)
    <2>1. PICK t : t = Task("done", 0) /\ IsFiniteSet(t.answer.claimed_receipts)
      BY NoAnswer, Zenon
    <2>2. UNCHANGED sync \/ sync' = [sync EXCEPT ![n] = t]
      BY <2>1 DEF Stop
    <2> QED BY <2>1, <2>2, FiniteAnswers
  <1>2. events'[n] = << >> /\ \A m \in Nodes : m # n => events'[m] = events[m]
    BY DEF AccountsInv, ReplicationInv, TypeOK, Stop
  <1>3. \A m \in Nodes : events'[m] # << >> => m \in up'
    BY <1>0, <1>2 DEF OwnAccounts, Stop
  <1>4. \A m \in Nodes : ledger'[m] = ledger[m] /\ (m \in up' => m \in up)
    BY DEF Stop
  <1> QED BY <1>0, <1>1, <1>3, <1>4, SameNode DEF OwnAccounts

LEMMA SettleAccounts ==
    ASSUME AccountsInv, NEW r \in Receipts, SettleRemote(r) \/ SettleLocal(r)
    PROVE  OwnAccounts'
  <1>1. Gateway(r) \in up /\ UNCHANGED <<up, events, sync>>
    BY DEF SettleRemote, SettleLocal
  <1>2. \/ Acceptable(ledger[Gateway(r)], r) /\ ledger' = [ledger EXCEPT ![Gateway(r)] = Paid(@, r)]
        \/ UNCHANGED ledger
    BY DEF SettleRemote, SettleLocal, Claimable
  <1>3. \A m \in Nodes :
            /\ IsFiniteSet(ledger'[m].claimed_receipts)
            /\ ledger'[m] = EmptyState \/ MovesOnce(ledger'[m], m)
            /\ m \in up' => MovesOnce(ledger'[m], m)
    BY <1>1, <1>2, ClaimAccounts
  <1> QED BY <1>1, <1>3 DEF AccountsInv, OwnAccounts

LEMMA HandleReceiptAccounts ==
    ASSUME AccountsInv, NEW n \in Nodes, HandleReceipt(n)
    PROVE  OwnAccounts'
  <1>0. /\ OwnAccounts /\ ReplicationInv /\ n \in up /\ UNCHANGED <<up, sync>>
        /\ events[n] # << >> /\ events \in [Nodes -> Seq(Event)]
        /\ events' = [events EXCEPT ![n] = Tail(@)]
    BY DEF AccountsInv, OwnAccounts, ReplicationInv, TypeOK, HandleReceipt
  <1>1. PICK e : e = Head(events[n])
    OBVIOUS
  <1>2. e \in Event /\ e.kind = "LedgerReceiptReceived"
    BY <1>0, <1>1 DEF HandleReceipt
  <1>3. PICK r \in Receipts : e.receipt = r
    BY <1>2 DEF Event, ReceiptEvent, SyncEvent
  <1>4. \/ Acceptable(ledger[n], r) /\ ledger' = [ledger EXCEPT ![n] = Paid(@, r)]
        \/ UNCHANGED ledger
    BY <1>1, <1>3 DEF HandleReceipt
  <1>5. \A m \in Nodes :
            /\ IsFiniteSet(ledger'[m].claimed_receipts)
            /\ ledger'[m] = EmptyState \/ MovesOnce(ledger'[m], m)
            /\ m \in up' => MovesOnce(ledger'[m], m)
    BY <1>0, <1>4, ClaimAccounts
  <1>6. \A m \in Nodes : events'[m] # << >> => m \in up'
    BY <1>0 DEF OwnAccounts
  <1> QED BY <1>0, <1>5, <1>6 DEF OwnAccounts

LEMMA HandleSyncAccounts ==
    ASSUME AccountsInv, NEW p \in Nodes, HandleSync(p)
    PROVE  OwnAccounts'
  <1>0. /\ OwnAccounts /\ p \in up /\ UNCHANGED <<ledger, up>>
        /\ events[p] # << >> /\ events \in [Nodes -> Seq(Event)]
        /\ events' = [events EXCEPT ![p] = Tail(@)]
    BY DEF AccountsInv, OwnAccounts, ReplicationInv, TypeOK, HandleSync
  <1>1. PICK e : e = Head(events[p])
    OBVIOUS
  <1>2. e \in Event /\ e.kind = "SyncLedger"
    BY <1>0, <1>1 DEF HandleSync
  <1>3. PICK n \in Nodes : e.from = n
    BY <1>2 DEF Event, ReceiptEvent, SyncEvent
  <1>4. PICK t : t = [phase |-> "answered", attempts |-> e.attempt, answer |-> Export(ledger[p])]
    OBVIOUS
  <1>5. UNCHANGED sync \/ sync' = [sync EXCEPT ![n] = t]
    BY <1>1, <1>3, <1>4 DEF HandleSync
  <1>6. IsFiniteSet(t.answer.claimed_receipts)
    BY <1>0, <1>4 DEF Export, OwnAccounts
  <1>7. \A m \in Nodes : IsFiniteSet(sync'[m].answer.claimed_receipts)
    BY <1>5, <1>6, FiniteAnswers
  <1>8. \A m \in Nodes : events'[m] # << >> => m \in up'
    BY <1>0 DEF OwnAccounts
  <1> QED BY <1>0, <1>7, <1>8 DEF OwnAccounts

LEMMA GossipAccounts ==
    ASSUME AccountsInv, NEW n \in Nodes, NEW r \in Receipts,
           Publish(n, r) \/ GossipArrives(n, r) \/ GossipLost(n, r)
    PROVE  OwnAccounts'
  <1>0. OwnAccounts /\ events \in [Nodes -> Seq(Event)] /\ UNCHANGED <<ledger, up, sync>>
    BY DEF AccountsInv, ReplicationInv, TypeOK, Publish, GossipArrives, GossipLost
  <1>1. \A m \in Nodes : events'[m] = events[m] \/ m \in up
    BY <1>0 DEF Publish, GossipArrives, GossipLost
  <1> QED BY <1>0, <1>1 DEF OwnAccounts

LEMMA TaskAccounts ==
    ASSUME AccountsInv, NEW n \in Nodes, NEW p \in Nodes,
           AskPeer(n, p) \/ NodeClosed(n) \/ NoPeer(n) \/ AskFails(n)
    PROVE  OwnAccounts'
  <1>0. OwnAccounts /\ events \in [Nodes -> Seq(Event)] /\ UNCHANGED <<ledger, up>>
    BY DEF AccountsInv, ReplicationInv, TypeOK, AskPeer, NodeClosed, NoPeer, AskFails
  <1>1. PICK t : IsFiniteSet(t.answer.claimed_receipts) /\ sync' = [sync EXCEPT ![n] = t]
    <2>1. \A k : /\ IsFiniteSet(Task("asked", k).answer.claimed_receipts)
                 /\ IsFiniteSet(Task("done", k).answer.claimed_receipts)
                 /\ IsFiniteSet(AfterFailure(k).answer.claimed_receipts)
      BY FS_EmptySet DEF AfterFailure, Task, NoExport
    <2>2. CASE AskPeer(n, p)
      <3>1. PICK k : k = sync[n].attempts + 1
        OBVIOUS
      <3>2. sync' = [sync EXCEPT ![n] = Task("asked", k)] \/ sync' = [sync EXCEPT ![n] = AfterFailure(k)]
        BY <2>2, <3>1 DEF AskPeer
      <3> QED BY <2>1, <3>2, Zenon
    <2>3. CASE NoPeer(n)
      BY <2>1, <2>3, Zenon DEF NoPeer
    <2>4. CASE AskFails(n)
      BY <2>1, <2>4, Zenon DEF AskFails
    <2>5. CASE NodeClosed(n)
      BY <2>1, <2>5, Zenon DEF NodeClosed
    <2> QED BY <2>2, <2>3, <2>4, <2>5
  <1>2. \A m \in Nodes : IsFiniteSet(sync'[m].answer.claimed_receipts)
    BY <1>1, FiniteAnswers
  <1>3. \A m \in Nodes : events'[m] = events[m] \/ m \in up
    BY <1>0 DEF AskPeer, NodeClosed, NoPeer, AskFails
  <1> QED BY <1>0, <1>2, <1>3 DEF OwnAccounts

LEMMA ImportAccounts ==
    ASSUME AccountsInv, NEW n \in Nodes, Import(n)
    PROVE  OwnAccounts'
  <1>0. OwnAccounts /\ n \in up /\ UNCHANGED <<up, events>>
    BY DEF AccountsInv, Import
  <1>1. PICK s : /\ s = ledger[n] /\ IsLedgerState(s) /\ MovesOnce(s, n)
                 /\ IsFiniteSet(s.claimed_receipts)
    BY <1>0 DEF AccountsInv, OwnAccounts, ReplicationInv, TypeOK
  <1>2. PICK ext : /\ ext = sync[n].answer /\ ext.claimed_receipts \subseteq Receipts
                   /\ IsFiniteSet(ext.claimed_receipts)
    BY <1>0 DEF AccountsInv, OwnAccounts, ReplicationInv, TypeOK, IsTask
  <1>3. MovesOnce(Merged(s, ext, 0), n)
    BY <1>1, <1>2, MergedMovesOnce
  <1>4. IsFiniteSet(Merged(s, ext, 0).claimed_receipts)
    BY <1>1, <1>2, FS_Union DEF Merged
  <1>5. ledger'[n] = Merged(s, ext, 0) /\ \A m \in Nodes : m # n => ledger'[m] = ledger[m]
    BY <1>1, <1>2 DEF AccountsInv, ReplicationInv, TypeOK, Import
  <1>6. \A m \in Nodes : IsFiniteSet(sync'[m].answer.claimed_receipts)
    <2>1. PICK t : t = Task("done", 0) /\ IsFiniteSet(t.answer.claimed_receipts)
      BY NoAnswer, Zenon
    <2>2. UNCHANGED sync \/ sync' = [sync EXCEPT ![n] = t]
      BY <2>1 DEF Import
    <2> QED BY <2>1, <2>2, FiniteAnswers
  <1>7. ASSUME NEW m \in Nodes PROVE OwnAccountsOf(m)'
    <2>1. events'[m] # << >> => m \in up'
      BY <1>0 DEF OwnAccounts
    <2>2. CASE m = n
      BY <1>3, <1>4, <1>5, <1>6, <2>1, <2>2 DEF OwnAccountsOf
    <2>3. CASE m # n
      BY <1>0, <1>5, <1>6, <2>1, <2>3, SameNode DEF OwnAccountsOf
    <2> QED BY <2>2, <2>3
  <1> QED BY <1>7 DEF OwnAccounts, OwnAccountsOf

LEMMA NextAccounts == AccountsInv /\ [Next]_vars => AccountsInv'
  <1> SUFFICES ASSUME AccountsInv, [Next]_vars PROVE AccountsInv'
    OBVIOUS
  <1>1. ReplicationInv'
    BY NextReplication DEF AccountsInv
  <1>2. CASE Next
    <2>1. OwnAccounts'
      BY <1>2, StartAccounts, StopAccounts, SettleAccounts, HandleReceiptAccounts,
         HandleSyncAccounts, GossipAccounts, TaskAccounts, ImportAccounts DEF Next
    <2> QED BY <1>1, <2>1 DEF AccountsInv
  <1>3. CASE UNCHANGED vars
    BY <1>1, <1>3 DEF AccountsInv, OwnAccounts, vars
  <1> QED BY <1>2, <1>3

\* However gossip is duplicated or races with a snapshot, a node's own ledger
\* credits and debits its own accounts at most once for each receipt.
THEOREM ReplicationOwnAccountsMoveOnce == Spec => []OwnAccountsMoveOnce
  <1>1. AccountsInv => OwnAccountsMoveOnce
    <2> SUFFICES ASSUME AccountsInv, NEW n \in Nodes, HasBooted(n)
                 PROVE  /\ get_balance(ledger[n], node_hex[n]) =< AmountOf(EarnedBy(n))
                        /\ get_balance(ledger[n], client_hex[n]) >= Seed - AmountOf(SpentBy(n))
      BY DEF OwnAccountsMoveOnce
    <2>1. ledger[n] # EmptyState
      BY DEF HasBooted, EmptyState
    <2>2. MovesOnce(ledger[n], n)
      BY <2>1 DEF AccountsInv, OwnAccounts
    <2> QED BY <2>2 DEF MovesOnce, EarnedBy, SpentBy
  <1> QED BY <1>1, InitAccounts, NextAccounts, PTL DEF Spec

=============================================================================
