---------------------------- MODULE Replication ----------------------------
(***************************************************************************)
(* The ledgers of several nodes and the three ways one learns of another's *)
(* receipts: its own gateway (src/main.rs handle_chat_completions), gossip *)
(* of claimed receipts, and the ledger snapshot a node asks a peer for     *)
(* when it boots.  Each node runs an event loop that takes one event at a  *)
(* time from a bounded channel the swarm loop fills without waiting.       *)
(*                                                                         *)
(* A gateway issues every receipt for its own client account, payable to   *)
(* the account of the peer that answered, or to its own node account when  *)
(* it answered the prompt itself.  Time stands still: expiry and pruning   *)
(* are in Ledger; saves succeed, so a restarted node has its ledger.       *)
(***************************************************************************)
EXTENDS LedgerState, Sequences

CONSTANTS
    Nodes,
    client_hex,         \* client account of each node
    node_hex,           \* node account of each node
    Seed,               \* initial balance of a client account
    Channel,            \* capacity of the event channel
    MaxAttempts,        \* max_attempts of the boot synchronization
    MaxStarts           \* bound: how many starts there are, of all nodes together

ASSUME NodesAssumption ==
    /\ client_hex \in [Nodes -> Accounts]
    /\ node_hex \in [Nodes -> Accounts]
    /\ \A n \in Nodes : client_hex[n] # node_hex[n]     \* two keypairs, of two files
    /\ \A r \in Receipts : \E g \in Nodes : Receipt[r].client_pubkey = client_hex[g]
    /\ Seed \in 0..MaxU64
    /\ Channel \in Nat /\ MaxAttempts \in Nat \ {0} /\ MaxStarts \in Nat

VARIABLES
    ledger,         \* the LedgerState of each node
    up,             \* the running nodes
    starts,         \* how many starts there were
    issued,         \* the receipts some gateway has issued
    publishing,     \* per node, what its spawned publish tasks hold
    gossip,         \* per node, the receipts that may still reach it by gossip
    events,         \* per node, the event channel
    sync            \* per node, its boot synchronization task

vars == <<ledger, up, starts, issued, publishing, gossip, events, sync>>

Gateway(r) == CHOOSE g \in Nodes : client_hex[g] = Receipt[r].client_pubkey
IsLocal(r) == Receipt[r].node_pubkey = node_hex[Gateway(r)]

NoExport == [balances |-> [a \in {} |-> 0], claimed_receipts |-> {}]

\* The task's progress: it sleeps between attempts, has asked a peer, holds
\* the peer's answer, or has ended.
Task(phase, attempts) == [phase |-> phase, attempts |-> attempts, answer |-> NoExport]

ReceiptEvent(r)    == [kind |-> "LedgerReceiptReceived", receipt |-> r]
SyncEvent(n, k)    == [kind |-> "SyncLedger", from |-> n, attempt |-> k]

-----------------------------------------------------------------------------
Init ==
    /\ ledger = [n \in Nodes |-> EmptyState]
    /\ up = {}
    /\ starts = 0
    /\ issued = {}
    /\ publishing = [n \in Nodes |-> {}]
    /\ gossip = [n \in Nodes |-> {}]
    /\ events = [n \in Nodes |-> << >>]
    /\ sync = [n \in Nodes |-> Task("done", 0)]

Registered(s, a, initial) ==
    IF a \in DOMAIN s.balances THEN s ELSE [s EXCEPT !.balances = Put(@, a, initial)]

\* main: the ledger is read, both accounts are registered, the tasks start.
Start(n) ==
    /\ n \notin up
    /\ starts < MaxStarts
    /\ up' = up \cup {n}
    /\ starts' = starts + 1
    /\ ledger' = [ledger EXCEPT ![n] =
                     Registered(Registered(@, client_hex[n], Seed), node_hex[n], 0)]
    /\ sync' = [sync EXCEPT ![n] = Task("sleeping", 0)]
    /\ UNCHANGED <<issued, publishing, gossip, events>>

\* The process stops: what its tasks and channels held is gone.
Stop(n) ==
    /\ n \in up
    /\ up' = up \ {n}
    /\ publishing' = [publishing EXCEPT ![n] = {}]
    /\ events' = [events EXCEPT ![n] = << >>]
    /\ sync' = [sync EXCEPT ![n] = Task("done", 0)]
    /\ UNCHANGED <<ledger, starts, issued, gossip>>

-----------------------------------------------------------------------------
(* The gateway.                                                            *)

\* Mutant: broadcast whether or not the claim succeeded.
SettleRemoteUnclaimed(r) ==
    LET g == Gateway(r) IN
    /\ g \in up
    /\ r \notin issued
    /\ ~IsLocal(r)
    /\ issued' = issued \cup {r}
    /\ ledger' = IF Claimable(ledger[g], r, 0)
                 THEN [ledger EXCEPT ![g] = Paid(@, r)] ELSE ledger
    /\ publishing' = [publishing EXCEPT ![g] = @ \cup {r}]
    /\ UNCHANGED <<up, starts, gossip, events, sync>>

\* A peer answered: the receipt is claimed, and broadcast if that succeeds.
SettleRemote(r) ==
    LET g == Gateway(r) IN
    /\ g \in up
    /\ r \notin issued
    /\ ~IsLocal(r)
    /\ issued' = issued \cup {r}
    /\ IF Claimable(ledger[g], r, 0)
       THEN /\ ledger' = [ledger EXCEPT ![g] = Paid(@, r)]
            /\ publishing' = [publishing EXCEPT ![g] = @ \cup {r}]
       ELSE UNCHANGED <<ledger, publishing>>
    /\ UNCHANGED <<up, starts, gossip, events, sync>>

\* The gateway answered itself: the outcome of the claim is ignored and the
\* receipt is broadcast.
SettleLocal(r) ==
    LET g == Gateway(r) IN
    /\ g \in up
    /\ r \notin issued
    /\ IsLocal(r)
    /\ issued' = issued \cup {r}
    /\ ledger' = IF Claimable(ledger[g], r, 0)
                 THEN [ledger EXCEPT ![g] = Paid(@, r)] ELSE ledger
    /\ publishing' = [publishing EXCEPT ![g] = @ \cup {r}]
    /\ UNCHANGED <<up, starts, gossip, events, sync>>

\* A publish task runs: Gossipsub takes the message for the other nodes, or
\* refuses it (no peers, closed channel), which is ignored.
Publish(g, r) ==
    /\ r \in publishing[g]
    /\ publishing' = [publishing EXCEPT ![g] = @ \ {r}]
    /\ \/ gossip' = [n \in Nodes |-> IF n = g THEN gossip[n] ELSE gossip[n] \cup {r}]
       \/ UNCHANGED gossip
    /\ UNCHANGED <<ledger, up, starts, issued, events, sync>>

-----------------------------------------------------------------------------
(* Gossip and the event loop.                                              *)

\* Mutant: the channel is not bounded.
OfferedUnbounded(q, e) == Append(q, e)

\* Sender::try_send, a full channel taken as a loss.
Offered(q, e) == IF Len(q) < Channel THEN Append(q, e) ELSE q

\* A gossip message reaches the swarm loop, which offers it to the channel
\* with try_send and forgets it when the channel is full.  Gossipsub may
\* deliver it again (`again`).
GossipArrives(n, r) ==
    /\ n \in up
    /\ r \in gossip[n]
    /\ events' = [events EXCEPT ![n] = Offered(@, ReceiptEvent(r))]
    /\ \E again \in BOOLEAN :
          gossip' = IF again THEN gossip ELSE [gossip EXCEPT ![n] = @ \ {r}]
    /\ UNCHANGED <<ledger, up, starts, issued, publishing, sync>>

GossipLost(n, r) ==
    /\ r \in gossip[n]
    /\ gossip' = [gossip EXCEPT ![n] = @ \ {r}]
    /\ UNCHANGED <<ledger, up, starts, issued, publishing, events, sync>>

\* The event loop claims a gossiped receipt; a refusal is only logged.
HandleReceipt(n) ==
    /\ events[n] # << >>
    /\ Head(events[n]).kind = "LedgerReceiptReceived"
    /\ LET r == Head(events[n]).receipt IN
          ledger' = IF Acceptable(ledger[n], r)
                    THEN [ledger EXCEPT ![n] = Paid(@, r)] ELSE ledger
    /\ events' = [events EXCEPT ![n] = Tail(@)]
    /\ UNCHANGED <<up, starts, issued, publishing, gossip, sync>>

Export(s) == [balances |-> s.balances, claimed_receipts |-> s.claimed_receipts]

\* The event loop answers a SyncLedger request with a snapshot, which is of
\* use only to the attempt that asked.
HandleSync(p) ==
    /\ events[p] # << >>
    /\ Head(events[p]).kind = "SyncLedger"
    /\ LET e == Head(events[p]) IN
          sync' = IF sync[e.from] = Task("asked", e.attempt)
                  THEN [sync EXCEPT ![e.from] = [phase    |-> "answered",
                                                 attempts |-> e.attempt,
                                                 answer   |-> Export(ledger[p])]]
                  ELSE sync
    /\ events' = [events EXCEPT ![p] = Tail(@)]
    /\ UNCHANGED <<ledger, up, starts, issued, publishing, gossip>>

-----------------------------------------------------------------------------
(* The boot synchronization task.                                          *)

\* Mutant: the number of attempts is not looked at.
AfterFailureForever(k) == Task("sleeping", 0)

\* A failed attempt: the task sleeps and tries again, or gives up.
AfterFailure(k) == IF k >= MaxAttempts THEN Task("done", 0) ELSE Task("sleeping", k)

\* The task wakes, finds a connected peer and sends the request; the peer
\* queues it, or answers "Node is busy" when its channel is full.
AskPeer(n, p) ==
    LET k == sync[n].attempts + 1 IN
    /\ n \in up
    /\ sync[n].phase = "sleeping"
    /\ p \in up \ {n}
    /\ IF Len(events[p]) < Channel
       THEN /\ events' = [events EXCEPT ![p] = Append(@, SyncEvent(n, k))]
            /\ sync' = [sync EXCEPT ![n] = Task("asked", k)]
       ELSE /\ sync' = [sync EXCEPT ![n] = AfterFailure(k)]
            /\ UNCHANGED events
    /\ UNCHANGED <<ledger, up, starts, issued, publishing, gossip>>

\* The task wakes and finds no connected peer.
NoPeer(n) ==
    /\ n \in up
    /\ sync[n].phase = "sleeping"
    /\ sync' = [sync EXCEPT ![n] = AfterFailure(@.attempts + 1)]
    /\ UNCHANGED <<ledger, up, starts, issued, publishing, gossip, events>>

\* The task wakes and finds that the swarm loop has ended: the process is about
\* to stop.  (Here it may go on; nothing rests on when it stops.)
NodeClosed(n) ==
    /\ n \in up
    /\ sync[n].phase = "sleeping"
    /\ sync' = [sync EXCEPT ![n] = Task("done", 0)]
    /\ UNCHANGED <<ledger, up, starts, issued, publishing, gossip, events>>

\* The request times out or its connection closes.
AskFails(n) ==
    /\ n \in up
    /\ sync[n].phase = "asked"
    /\ sync' = [sync EXCEPT ![n] = AfterFailure(@.attempts)]
    /\ UNCHANGED <<ledger, up, starts, issued, publishing, gossip, events>>

\* Mutant: the peer's balances are added to those of known accounts.
ImportAdding(n) ==
    /\ n \in up
    /\ sync[n].phase = "answered"
    /\ ledger' = [ledger EXCEPT ![n] =
          [Merged(@, sync[n].answer, 0) EXCEPT !.balances =
              [a \in DOMAIN @ |-> get_balance(ledger[n], a)
                                    + get_balance(sync[n].answer, a)]]]
    /\ sync' = [sync EXCEPT ![n] = Task("done", 0)]
    /\ UNCHANGED <<up, starts, issued, publishing, gossip, events>>

\* The answer is merged into the ledger as it is by now.
Import(n) ==
    /\ n \in up
    /\ sync[n].phase = "answered"
    /\ ledger' = [ledger EXCEPT ![n] = Merged(@, sync[n].answer, 0)]
    /\ sync' = [sync EXCEPT ![n] = Task("done", 0)]
    /\ UNCHANGED <<up, starts, issued, publishing, gossip, events>>

SyncStep(n) ==
    \/ \E p \in Nodes : AskPeer(n, p)
    \/ NodeClosed(n)
    \/ NoPeer(n)
    \/ AskFails(n)
    \/ Import(n)

Next ==
    \/ \E n \in Nodes : Start(n) \/ Stop(n)
    \/ \E r \in Receipts : SettleRemote(r)
    \/ \E r \in Receipts : SettleLocal(r)
    \/ \E n \in Nodes, r \in Receipts : Publish(n, r)
    \/ \E n \in Nodes, r \in Receipts : GossipArrives(n, r)
    \/ \E n \in Nodes, r \in Receipts : GossipLost(n, r)
    \/ \E n \in Nodes : HandleReceipt(n)
    \/ \E n \in Nodes : HandleSync(n)
    \/ \E n \in Nodes, p \in Nodes : AskPeer(n, p)
    \/ \E n \in Nodes : NodeClosed(n)
    \/ \E n \in Nodes : NoPeer(n)
    \/ \E n \in Nodes : AskFails(n)
    \/ \E n \in Nodes : Import(n)

\* A task that can run runs (tokio schedules every ready task), and the
\* request-response library ends every request.
Fairness == \A n \in Nodes : WF_vars(SyncStep(n))

Spec == Init /\ [][Next]_vars /\ Fairness

-----------------------------------------------------------------------------
\* What an event channel holds.
Event == {ReceiptEvent(r) : r \in Receipts}
           \cup {SyncEvent(n, k) : n \in Nodes, k \in 0..MaxAttempts}

\* t is the boot synchronization task of a node.
IsTask(t) ==
    /\ t = [phase |-> t.phase, attempts |-> t.attempts, answer |-> t.answer]
    /\ t.phase \in {"sleeping", "asked", "answered", "done"}
    /\ t.attempts \in 0..MaxAttempts
    /\ t.phase = "sleeping" => t.attempts < MaxAttempts
    /\ IsMap(t.answer.balances, Accounts, 0..MaxU64)
    /\ t.answer.claimed_receipts \subseteq Receipts

TypeOK ==
    /\ ledger = [n \in Nodes |-> ledger[n]]
    /\ \A n \in Nodes : IsLedgerState(ledger[n])
    /\ up \subseteq Nodes
    /\ starts \in 0..MaxStarts
    /\ issued \subseteq Receipts
    /\ publishing \in [Nodes -> SUBSET Receipts]
    /\ gossip \in [Nodes -> SUBSET Receipts]
    /\ events \in [Nodes -> Seq(Event)]
    /\ \A n \in Nodes : Len(events[n]) =< Channel
    /\ sync = [n \in Nodes |-> sync[n]]
    /\ \A n \in Nodes : IsTask(sync[n])

AmountOf(rs)    == SumFunctionOnSet([r \in Receipts |-> Receipt[r].amount_nano], rs)
Earning(rs, n)  == {r \in rs : Receipt[r].node_pubkey = node_hex[n]}
Spending(rs, n) == {r \in rs : Receipt[r].client_pubkey = client_hex[n]}
EarnedBy(n)     == Earning(ledger[n].claimed_receipts, n)
SpentBy(n)      == Spending(ledger[n].claimed_receipts, n)
HasBooted(n)    == node_hex[n] \in DOMAIN ledger[n].balances

\* However gossip is duplicated or races with a snapshot, a node's own ledger
\* credits its node account, and debits its client account, at most once for
\* each receipt.
OwnAccountsMoveOnce ==
    \A n \in Nodes : HasBooted(n) =>
        /\ get_balance(ledger[n], node_hex[n]) =< AmountOf(EarnedBy(n))
        /\ get_balance(ledger[n], client_hex[n]) >= Seed - AmountOf(SpentBy(n))

\* The account of s that n's node key names holds at most what receipts claimed
\* in s pay to it, and the client's has lost at most what they take from it.
MovesOnce(s, n) ==
    /\ {node_hex[n], client_hex[n]} \subseteq DOMAIN s.balances
    /\ get_balance(s, node_hex[n]) =< AmountOf(Earning(s.claimed_receipts, n))
    /\ get_balance(s, client_hex[n]) >= Seed - AmountOf(Spending(s.claimed_receipts, n))

\* What makes OwnAccountsMoveOnce inductive: a node that has not booted knows
\* nothing, one that has, has both its accounts, so that a snapshot changes the
\* balance of neither; only a node that runs has events to handle.
OwnAccounts ==
    \A n \in Nodes :
        /\ IsFiniteSet(ledger[n].claimed_receipts)
        /\ IsFiniteSet(sync[n].answer.claimed_receipts)
        /\ ledger[n] = EmptyState \/ MovesOnce(ledger[n], n)
        /\ n \in up => MovesOnce(ledger[n], n)
        /\ events[n] # << >> => n \in up

\* A receipt for a peer's work is nowhere claimed unless the gateway whose
\* client pays has claimed it.
ClaimedAtGatewayFirst ==
    \A n \in Nodes : \A r \in ledger[n].claimed_receipts :
        ~IsLocal(r) => r \in ledger[Gateway(r)].claimed_receipts

\* The receipts that may be known: those a gateway pays to itself, which it
\* broadcasts unpaid too, and those their gateway has claimed.
Backed == {r \in Receipts : IsLocal(r) \/ r \in ledger[Gateway(r)].claimed_receipts}

\* What makes ClaimedAtGatewayFirst inductive: every receipt anywhere on its way
\* between two ledgers is one of those.
BackedEverywhere ==
    \A n \in Nodes :
        /\ ledger[n].claimed_receipts \subseteq Backed
        /\ publishing[n] \subseteq Backed
        /\ gossip[n] \subseteq Backed
        /\ sync[n].answer.claimed_receipts \subseteq Backed
        /\ \A i \in 1..Len(events[n]) :
              events[n][i].kind = "LedgerReceiptReceived" => events[n][i].receipt \in Backed

\* The boot synchronization of a node that keeps running ends, answered or not.
BootSyncEnds == \A n \in Nodes : sync[n].phase # "done" ~> sync[n].phase = "done"

\* A receipt its gateway has claimed is claimed by every node whose event loop
\* gossip brings it to, so that the ledgers do not split.
GossipIsClaimed ==
    [][\A n \in Nodes : HandleReceipt(n) =>
          LET r == Head(events[n]).receipt IN
          r \in ledger[Gateway(r)].claimed_receipts => r \in ledger'[n].claimed_receipts]_vars

\* A receipt a node has marked as claimed, and that pays the node itself, has
\* been paid into its balance: importing marks updates balances with them.
ClaimedIsCredited ==
    \A n \in Nodes : HasBooted(n) =>
        get_balance(ledger[n], node_hex[n]) = AmountOf(EarnedBy(n))
=============================================================================
