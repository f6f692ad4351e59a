# iToken: a TLA+ model of the node, its ledger and their replication

iToken is a peer-to-peer market for LLM inference.  Every node is one process
that answers OpenAI-style HTTP requests, forwards them to peers that host the
model, serves the requests of its peers, and keeps a ledger of what every
client has paid every node.  There is no chain and no leader: ledgers learn of
one another's payments by gossip and by one snapshot at boot.

This directory holds TLA+ modules for the parts of the node with state worth
checking, TLC configurations for small instances, and TLAPS proofs.  Paths below
are relative to the repository.

## 1. The system

| Component | Code | State | Operations |
|---|---|---|---|
| Ledger | `crates/itoken-ledger/src/lib.rs` | balances, claimed receipts, their stamps; `ledger.json` | register_account, transfer, claim_receipt, claim_gossip_receipt, export_state, import_state, prune_old_receipts, save_atomic |
| Swarm loop, P2P node | `crates/itoken-network/src/lib.rs` | command channel, event channel, responders of DHT searches and outbound requests | dial, listen, advertise, search, publish, request, respond, shutdown; events of libp2p |
| Event loop | `src/main.rs:270-388` | the event being served | serve inference, export snapshot, claim gossip, feed heartbeat |
| Boot synchronization | `src/main.rs:421-464` | attempts | ask a peer for its ledger, merge, retry, give up |
| HTTP gateway | `src/main.rs:527-865` | requests in flight | validate, search, route, ask, check, sign, claim, record, broadcast, or answer locally |
| Rate limiter | `src/main.rs:77-99, 1035-1060` | visits per address | check_limit |
| Reputation, routing | `crates/itoken-harness/src/{reputation,routing}.rs` | successes, failures, tokens, latency, last seen; `reputation.json` | record_success, record_failure, get_score, resolve_routing |
| Network statistics | `crates/itoken-harness/src/network_stats.rs` | TPS of each peer, own history | feed_heartbeat, record_local_inference, get_median_tps |
| Pricing | `crates/itoken-core/src/types.rs` | none | compute_amount, tps_multiplier_milli, integer_fourth_root |
| Signatures, keys | `crates/itoken-core/src/crypto.rs` | two key files | load or generate, sign, verify |
| Engines | `crates/itoken-inference/src/{detector,proxy}.rs` | cached engines; a stream's line buffer | scan, probe, proxy_query |
| Data directory | `src/main.rs:135-186` | lock file, key files, ledger file | open at start-up |
| Periodic tasks | `src/main.rs:390-419, 466-498` | none | prune and broadcast health every 30 s, scan engines every 60 s |
| Demo mode | `src/main.rs:869-1031` | none | one sequential inference |

How they interact.  HTTP handlers, the event loop and the periodic tasks are
tokio tasks that share the ledger, the reputation database and the statistics,
each behind a mutex that no task holds across an await.  They reach the network
only through the command channel, with a one-shot responder in each command;
the network reaches them only through the event channel.  A payment runs: the
gateway finds a peer, the peer answers with text and a receipt it has signed,
the gateway checks and signs the receipt and claims it in its own ledger, then
hands it to a task that publishes it; every other node's event loop claims it
from gossip.

What is hard in it, and what makes each part correct:

* Ledger.  A receipt is paid at most once, although marks are pruned, imported
  with another stamp than they are claimed with, lost by failed saves and read
  back from older files.  No arithmetic leaves u64; a payment keeps the supply.
* Replication.  Gossip is lost, repeated and reordered, queues drop it, nodes
  restart, and a snapshot races with gossip.  A node's own balances move once per
  receipt; a receipt is claimed at its gateway before it is claimed elsewhere.
* Swarm loop.  Two bounded channels in opposite directions, responders held
  across network events, and a shutdown at any moment.  Every call returns, no
  responder is lost or used twice, every accepted request is answered.
* Gateway.  Concurrent requests settle from one balance and learn of a failure at
  any of seven places.  A delivered answer is paid, a failed one costs nothing,
  and each leaves one verdict on its peer.
* Pricing.  All nodes must compute the same amount from a receipt.
* Serving a query.  Lines are cut across chunks, the stream breaks off, and the
  engine cache is replaced while the answer streams.  The text is what the engine
  sent on whole lines, the bill is the token count of its contents, and the weight is
  that of the engine that served.
* Rate limiter, statistics, reputation, data directory.  Sliding windows, eviction,
  decay and in-place writes, each with an edge that is easily off by one.

PROJECT.json lists these as hazards, each at its line of code, with the
properties that would notice it going wrong, or the reason why none does yet.

## 2. The modules

| Module | Models | Lines of thought |
|---|---|---|
| `LedgerState` | the data of a ledger and what each operation makes of one | pure operators, shared by `Ledger`, `Replication` and `Gateway` |
| `Ledger` | one `LocalLedger`, its file, the process and the clock | one action per operation; each is one critical section, ended by `save_atomic` where the code saves |
| `Settlement` | what a ledger promises about each receipt, with no balances, stamps or files | abstract; `Ledger` implements it (`KeepsSettlement`) |
| `Replication` | several nodes: settlement, publish tasks, gossip, event channels, boot synchronization | no clock (that is `Ledger`) and no failed saves |
| `SwarmLoop` | `run_swarm_loop`, the `P2PNode` methods, the event loop's serving | one action per branch of the loop and per await of a caller |
| `Gateway` | `handle_chat_completions` with routing and reputation | one action per stretch of the handler between awaits; the claim and the record after it are separate, since other threads run between them |
| `TokenCount` | `estimate_token_count` of `proxy.rs` | a pure operator: which positions of a text count |
| `ServingNode` | a query from the cached engine to its receipt: engine cache and scan, `InferenceProxy`'s stream parser, the receipt | one action per chunk and per line |
| `FourthRoot`, `Pricing` | `integer_fourth_root`; around it `tps_multiplier_milli` and `compute_amount` with their saturation | one action per turn of the search |
| `RateLimiter`, `NetworkStats`, `Reputation`, `DataDir` | one small stateful part each | one action per operation, which is one critical section |
| `NodeParts` | those four on one clock | composition by a choice at the start of a behaviour, see below |
| `*Proofs` | the theorems of section 5 | |
| `MC*` | the instances TLC checks | |

### Ledger

`state` is what the mutex guards, `file` what `ledger.json` holds.  `save_atomic`
either replaces the file (write, fsync, rename) or fails and leaves it: the code
logs the error and goes on.  `Stop` is a crash or an exit, `Open` reads the
file; a file that does not parse counts as none (`EmptyState`), and a file from
before `receipt_timestamps` existed has marks without stamps (`InitialFiles`).
`payouts` and `filePayouts` are history variables: how many times the payment
of each receipt is contained in the balances in memory and in the file.  They
saturate at 2, which is all the properties ask.  Operations that return `Err`
change nothing and are not steps.

A receipt is named by its id.  Ids are fresh UUIDs, so one id has one content,
given by the constant `Receipt`; `signed` stands for a successful
`verify_receipt_signatures` and `priced` for `amount_nano = compute_amount()`.
Time is in seconds and does not go back.  Timestamps are assumed far below the
u64 maximum, where `timestamp + MAX_RECEIPT_AGE_SECS` (lib.rs:150) would
overflow.  `transfer` is part of the module, although the daemon never calls it.

### Settlement

For a node a receipt is unpaid, noted (a peer says it is settled), paid (in the
balances and remembered) or forgotten (in the balances and no longer
remembered).  `Settlement` says which of these may follow which: only what is not
remembered is paid, a paid receipt is forgotten only past its deadline, learning
from a peer never makes a receipt less known, and a crash takes back balances and
marks together, to what the disk had.  The refinement mapping reads the status of
a receipt off the marks and the history of payouts, in memory and in the file; the
deadline of a receipt is its timestamp plus the retention.  A save that wrote
balances and marks in two parts would not be a step of `Settlement`.

### Replication

`Start` registers the two accounts of a node as `main` does, with the seed
balance for the client.  `SettleRemote` is a peer's answer being claimed;
`SettleLocal` is the local path, which ignores the outcome of the claim.  The
spawned publish tasks are `publishing`; a message that Gossipsub has accepted is
in `gossip` of every other node until it arrives, perhaps more than once, or is
lost.  The swarm loop offers it to the event channel with `try_send`
(`Offered`).  `AskPeer`, `NodeClosed`, `NoPeer`, `AskFails`, `HandleSync` and `Import` are the
boot synchronization: the snapshot is taken when the peer's event loop reaches the
request and merged when the answer has come back, with gossip in between.  A
stale answer (the attempt was given up) finds no one: requests have ids, in libp2p.
`NodeClosed` is the `break` on `is_closed()`: it comes shortly before the process ends,
and the model lets it come at any time.

`SettleLocal` broadcasts the receipt whether or not it was claimed, as the code does
(`let _ =` at main.rs:754), although the comment three lines below calls the receipt
claimed: when the client cannot pay for its own node's answer, peers are told of a
receipt that the gateway itself has refused.

### SwarmLoop

A caller is idle, sending (waiting for room), waiting (for its responder), or done.
`searches` and `pending` are the two maps of responders.  Records found during a
search only add to the list that the responder will carry, and are left out.
`Ready` says when a branch of `select!` can run: whenever the loop runs, since no
branch awaits anything.  `TakeShutdown` leaves the loop, which drops the maps,
the channel and every responder in them.

### Gateway

The phases of a request are the places where the handler awaits, and where it
ends.  The peer's answer is any receipt in `Offers`, among them wrong amounts,
signatures that do not verify, and receipts that another request has seen.
`Settle` is the client's checks in order and the claim; all failing branches
record one failure and answer with an error.  `Hangup` is the HTTP client closing
its connection: the server drops the handler at its await.  The score has no
time decay here (that is `Reputation`), and the median moves freely within a set
(what it is, is `NetworkStats`).  A search may also find the node itself, which
advertises its own models; the request to itself then fails like any other.

### ServingNode

The event loop and the gateway's local fallback take the first engine of the cache
and run the same steps, so that one `query` stands for either.  `EngineMoves` is the
world: engines come, go and load other models.  A scan probes the targets in
order and then replaces the cache; it may run through every step of a query.  An
answer is a sequence of symbols that arrives in chunks cut anywhere (`Chunk`): the
start of a content, whitespace, punctuation, letters, `[DONE]`, newlines, and the two
halves of a CJK character.  `Lossy` is `from_utf8_lossy` on one chunk, which replaces
half a character by one that is no longer CJK.  `Parse` is one turn of the inner loop,
which `[DONE]` leaves with the rest still in the buffer.  Each content is billed as
`estimate_token_count` of what was read of it (`TokenCount`, whose counts TLC compares
with those the tests of `proxy.rs` expect).  A query that does not validate
(`Invalid`) or is refused by its engine, and the fixed text of `MockWords` words that is
sold when there is no engine, are phases of their own.

What the parser should find is said apart from it.  `Read` is a reader that takes one
byte at a time and knows nothing of chunks.  `split` is history: the characters a
chunk has cut.  `Decoded` is the answer with the halves of just these replaced, `Sent`
the contents the reader finds in what arrived of it, and `Uncut` those it would have
found with no character cut.  The text is exactly `Sent`, and the bill exactly the
token count of `Sent`.  It does depend on the cuts: a letter before a CJK character is
billed as 2, but as 1 if the character was cut, as the replacement counts as no
CJK character.  What holds for every way to cut is that a cut never costs anything:
the bill is at most that of `Uncut`.

### FourthRoot and Pricing

`low`, `high`, `ans` are the variables of the function.  The `None` branch of
`checked_pow` cannot be taken (30000^4 is below 2^128) and is left out.
`Pricing` adds what surrounds the search: cubes and scale saturating at u128, the
quotient, the clamp, and the products of `compute_amount` saturating at u64.
Widths are constants.

### RateLimiter, NetworkStats, Reputation, DataDir and NodeParts

`RateLimiter` keeps, as the code does, the instants of requests let through;
`at` and `allowed` remember all of them, for the properties.  `NetworkStats` ranks
the reports left after eviction (`Ranking` is any order by speed, as the sort
leaves open which of two equal reports comes first) and takes the middle; `heard`
remembers the last report of each forwarder.  `Reputation` has scores in thousandths and the decay as
a table; its saves may fail, and a restart reads the file, or nothing of a file that was
corrupted.  In `DataDir` two
processes open the lock file and load or generate a key, which is written in two
steps with crashes in between; one key file stands for both.  The lock excludes
where the code opens it without sharing (`Exclusive`): on Windows.

These parts share nothing but the clock.  `NodeParts` lets one of them move in each
behaviour: the steps of the others would not change it, and the states to check are
the sum of theirs and not the product.

## 3. The runs

| Run | Instance | Shows |
|---|---|---|
| `ledger` | 3 accounts, 4 receipts (ordinary, wrongly priced, to itself, unsigned), clock 0..3, balances up to 2, an age limit of 1 and a retention of 2, two exports, an empty and a legacy file | the seven properties of `Ledger`, and that it implements `Settlement` |
| `ledger_replay` | the same | finding: a pruned receipt is paid again from gossip |
| `replication` | 2 nodes, one receipt of each kind, a client who can pay one of them, channels of 2, 2 attempts, 3 starts in all | the invariants of `Replication` and the end of the boot synchronization |
| `replication_split`, `replication_import` | the same | findings: a refused gossip claim, a mark without its payment |
| `swarm_loop` | a search, a request, another command, two inbound requests, channels of 1 | responders, answers and the return of every call |
| `gateway` | 3 requests, 2 peers, 9 receipts, a client who can pay twice | payments, answers and verdicts correspond |
| `gateway_poor` | the same | finding: a good answer is not paid when the balance is gone |
| `fourth_root` | 1134 bills with integers of 40 and 6000 instead of 2^64 and 2^128, multipliers from 1/3 to 5/3 | the search, and that no price is inexact or too high |
| `serving` | 2 engines, one of which may change its model, 2 answers cut anywhere | text, bill and weight of an answer; gone engines leave the cache |
| `node_parts` | 5 requests from 2 addresses at 2 per 2 ticks; 3 forwarders at 3 speeds; 3 verdicts on a peer; 2 processes and 2 keys; a clock of 0..3 | the window, the median, the ranking, one identity |
| `node_parts_decay` | the same | finding: the score of a silent peer is not the documented one |

Why these bounds are enough.  The ledger's clock passes every boundary of
expiry and retention (with limits of 1 and 2, times 0 to 3 include before, at and
after each), and the maximal balance is reached by two payments.  Two nodes are
a gateway and a receiver; a third would only repeat the receiver's part, as nodes
forward nothing of what they claim.  Three starts are both nodes and a restart of
either.  Channels of one place are full with every message, which is the state
the code's 256 places reach under load.  Three requests are two that spend the
balance and one that finds it spent.  The bills of `fourth_root` lie on both sides of
each clamp, and reach the saturation of every cube and product.  The answers of
`serving` have a letter before a character of two bytes (cutting it changes the bill),
`[DONE]` with blank lines after it, a comment and a mark of punctuation, and every way
of cutting them and breaking them off is taken.  Windows of
2 within a clock of 3 include requests before, at and after their edge; three
forwarders make medians of none, one, two and three reports.  The proofs cover the
rest where there are any.

`CHECK_DEADLOCK FALSE` is set where the system may stop: the bounds of the clock
and of starts, requests that are all answered, a swarm loop that was shut down, a
search that has returned.

Each property of a passing run has a mutant: a definition of the model changed as
a plausible bug would change the code, with which TLC refutes the property.
Their definitions stand before the ones they replace.

### Fairness

* `Replication`: weak fairness of each boot synchronization task (tokio runs every
  ready task; the 2 s sleep ends; the request-response behaviour ends every request
  with an answer or a failure).  Nothing is assumed of gossip.
* `SwarmLoop`: weak fairness of the loop's branches and of the callers; strong
  fairness of sending into a channel (tokio's channels are fair to waiting
  senders); Kademlia is not assumed to end a query, only the cleanup tick is.  That
  a request being served ends (`Served`) is an assumption on the inference
  backend: its HTTP client (`proxy.rs:39`) has no timeout.
* `Gateway`: weak fairness of each request's handler, which rests on
  `EveryCallReturns` of `SwarmLoop` and on the same assumption on the backend.
* `ServingNode`: weak fairness of the serving task, with the same assumption: an
  engine that is silent for ever is not modelled, its stream ends; and of the scan,
  which sleeps 60 seconds and whose probes time out.
* `Pricing`: the function keeps running.

## 4. Findings

The violated runs are disagreements between the code and what the repository
says of it, met while modelling.  PROJECT.json quotes the lines.

1. `PaidOnce`: the claimed set "prevents double-spend" only for 7 days.  Gossip
   claims check no timestamp, so gossip that arrives after the prune pays again.
   What does hold, and is proved, is `PaidOnceInRetention`, and that claims other
   than from gossip never pay twice (`PaidIsNotClaimable`).
2. `GossipIsClaimed`: gossip claims avoid local time and prices to prevent
   "consensus splits", but they depend on the local balance of the client, which a
   node that has not synchronized does not know.
3. `ClaimedIsCredited`: `import_state` "updates balances" only of unknown accounts;
   a mark learnt by import makes the later gossip of the payment a double claim.
4. `GoodAnswerIsPaid`: a peer that succeeds is meant to be paid and gain
   reputation; when other requests have spent the balance before its receipt is
   claimed, it is refused and loses some.
5. `ScoreAsDocumented`: two comments (reputation.rs:12-13 and 65-67) multiply the whole
   score of a silent peer by the decay, so that a good one would fall below a stranger.
   The code, and a third comment (line 86), let it go back to the score of a
   stranger, never past it: that is `RankedByRecord`, which is proved of the code.

## 5. What is proved

Every theorem holds for all values of the constants within the named assumptions,
which TLC evaluates in the runs.  Each comes from an inductive invariant that is
stronger than what it proves, and that TLC has checked on the instance of the run
before.  Every invariant of every passing run is stated by a theorem, and so are
the action properties `SupplyKept`, `FailureNeverHelps` and `KeepsSettlement`.

The assumptions, beyond the types of the constants: the retention is not shorter
than the age limit; ledger files and exports hold finitely many accounts (a JSON map);
the client key and the node key of a node differ (two files, two keypairs); a
receipt's client is the client of some node; only blank lines follow `[DONE]`, a
line does not begin with whitespace, `data: ` stands only at the beginning of one, and a
character of two bytes comes whole from an engine (chunks may cut it).

Inductions over data go by a set: instead of a predicate, the lemma
`NatInductionOnSet` (and `FiniteInduction`) takes the set of the numbers (of the subsets)
for which a thing holds, and the library's facts on well-founded relations say that
it is everything.

`LedgerStateProofs` has the lemmas that the other proofs share: a payment, a merge
and a prune of a LedgerState give a LedgerState, within u64.  Its second half is about
sums over finite sets: the sum of the library is a fold, that is, a function defined by
recursion over all ways to take elements out of the set, and is shown to be one
number (`IterAny`), which grows by what is added to the set (`SumWith`, `SumWithout`) and
does not change under a payment (`MoveKeepsSum`).

`LedgerProofs`: the six invariants of the run `ledger`, from `LedgerInv`.
`PaidOnceInRetention` alone is not kept by a prune, because nothing says that a
pruned receipt is old.  `Remembered` says, of memory and of the file alike, that a
paid receipt within its retention is marked; that its stamp, if it has one, is not
before its timestamp, so that pruning by the stamp cannot forget it too soon
(imports stamp with the present, claims with the receipt's time); and that one
without a stamp is not from the future, so that the stamp pruning gives it is
not before its timestamp either.  The proof goes action by action; lemmas say what
a payment, a merge and a prune keep of `Remembered`, and `SaveKeepsInv` does the two
outcomes of a save once for all actions.

`SupplyKept` follows with the lemmas on sums, and with `FiniteAccounts`: the balances, in
memory and in the file, are of finitely many accounts.

Its second part shows that `Ledger` implements `Settlement`.  Initial states map to initial
states (a legacy file to paid or unpaid receipts), and under `LedgerInv` every step
maps to a step or a stutter.  The invariant is needed for `Forget`: only
`Remembered` says that what is pruned is past its deadline.

`ReplicationProofs`: `TypeOK` and `ClaimedAtGatewayFirst`.  `BackedEverywhere` says of
every place a receipt can be on its way between two ledgers (publish tasks, gossip,
event channels, snapshots in an answer) what the property says of ledgers: it is
claimed at its gateway, or the gateway pays itself.  Claims only add marks and nothing
is pruned, so what is backed stays so; each action only moves receipts between
places, but for the gateway's own claim, which backs what it adds.  (With pruning, a
gateway forgets: there the property is one of the moment of the claim.)
`OwnAccountsMoveOnce` comes from `AccountsInv`: a node that has started has both its
accounts, so that no snapshot, which brings balances of unknown accounts only, ever
changes them; each claim marks a receipt that was not marked, and adds its amount
to the sum of what is earned or spent, by the lemmas on sums.

`SwarmLoopProofs`: `TypeOK`, `OneResponder` and `OneServer`.  Counting places in a
channel is not how steps keep these; `RespondersInPlace` and `RequestsInPlace` say
that no channel holds one thing twice and that a responder or a request is in a
channel or a map exactly when its state says so.  The lemmas on `Append` and `Tail` do
the channels once; `CountOnce` gets back from there to the counts.

`GatewayProofs`: `TypeOK`, `OnePaymentPerAnswer` and `OneVerdictPerRequest`, from
`GatewayInv`, which adds that a request routed to a peer has one, and an answered
request its receipt.  The cases are the outcomes of a request: `QuietMove` (no
payment, no verdict), `FailureStep`, `PaymentStep`, `DeliverStep`.

`PricingProofs`: the search keeps its loop invariant (all below `low` is a possible
root, all above `high` is too large, `ans` is just below `low`) and returns the floor
of the root or its bound; after the clamp the bound never shows; and with the floor of
the quotient and the saturations around it, the multiplier is that of exact arithmetic
(`EveryPriceIsExact`) and no amount exceeds the exact price (`NobodyIsOvercharged`).

`ServingNodeProofs`: `TypeOK`, `PricedByServingEngine`, `TextIsWholeLines` and
`BilledIsSent`, from `ServingInv`.  `EnginesKnown` says that an engine is one of the targets,
at a weight of its models, wherever it stands: in the cache, in a list that a scan is
making, in a query.  `ParsedSoFar` relates the parser of chunks to the reader of bytes: the
buffer is what arrived since the end of a line, with the halves of the characters in
`split` replaced, the text is what the reader had found up to that end, and the tokens
are the bill of that text.  One turn of the
loop takes one line out of the buffer and leads the reader from the end of one line
to the end of the next (`LineIsRead`, by induction over the bytes of the line).  The hard
case is `[DONE]`, which leaves lines in the buffer: they are blank, and a later turn or
the end of the stream finds nothing in them (`BlankAfterDone`, `ReadBlank`).  That the
recursion of `Read` defines a function at all is a lemma, too (`Recursion`, `ReadDef`).
The bound on the bill compares the reader of `Decoded` with that of the body itself,
byte by byte: they find the same lines (`ReadGarbled`, `DecodedGarbled`), whose
contents differ only in characters replaced as a whole; and replacing characters in
this way does not raise `estimate_token_count` (`CountGarbled`): no position
counts newly, but for marks that now end a word without CJK characters, and each of
these counted before as a character of its word.  The sum over
contents follows by induction (`BillAtMost`), and `CutCostsNothing` puts them together.

`NodePartsProofs` has the theorems on the small parts, from `PartsInv`, of which each part
has its share.
* `LimiterInv`: the instants kept are those of requests let through, and all of
  them that are within the window.  It gives `AtMostLimit` and `RefusedOnlyAtLimit`, of the
  limiter alone and beside the other parts.
* `StatsInv`: a report that is kept is the last of its peer, and a fresh one is
  kept, so that the reports left after eviction are the fresh ones.  `RankingExists`
  shows by induction that finitely many reports can be ranked, and `MiddleDivides` that
  the middle of a ranking has half of it on either side: that is `MedianOfFresh`.
* `ReputationInv`: tokens come from successes only, in memory and in the file, and no
  success is in the future, so that the decay is a share of a distance from the
  default score, and keeps its sign: `RankedByRecord` and `FailureNeverHelps`.
* `DirectoryInv`: one process at most holds the lock, a key it has generated is for a
  file that is missing or short, and every key ever run under is the whole file's:
  `OneIdentity`.  Where the lock does not exclude, nothing is claimed.

Only model-checked: liveness (`BootSyncEnds`, `EveryCallReturns`, `EveryRequestAnswered`,
`EveryQueryEnds`, `EveryStreamEnds`, `Terminates`, `GoneEngineLeaves`), which rests on fairness and on when actions are
enabled, which the prover does not reach.  The findings are shown by TLC's
counterexamples.

## 6. What is not modelled

* Cryptography: a receipt's signatures verify or do not (`signed`).
* The conversion of f64 speeds to thousandths, and the formatting of floats in JSON.
* libp2p: its events arrive in any order, searches find any peers, gossip is lost and
  repeated.  Which peer a heartbeat is attributed to is the forwarder, as in the code.
* The detector's HTTP formats, and how it guesses a model's weight from its name: a
  probe returns the weight or nothing.
* HTTP wording, SSE chunks, the read-only endpoints, argument parsing, and what the
  health broadcast says.
* The demo mode: one inference in sequence, with operations that are modelled.
* Timestamps near the u64 maximum and counters near the u32 maximum; see their hazards.

## 7. Plan

Done, in this order: the ledger and its replication, the concurrency that carries
them, the gateway, serving and pricing, the small stateful parts; the abstract
`Settlement` and its refinement; the proofs of section 5.

Left, in order of importance:

1. `Gateway` over `Reputation` with time and over `NetworkStats`, in place of the free
   median, for a property of the tolerance between two nodes whose medians come from
   the same heartbeats.
2. `Replication` with the clock of `Ledger`: pruning between gossip and import.
