----------------------------- MODULE Reputation -----------------------------
(***************************************************************************)
(* What a node remembers of its peers: ReputationDb and NodeReputation of  *)
(* crates/itoken-harness/src/reputation.rs.  Every operation runs under    *)
(* one mutex, saves the whole of the records and is a step; a save may     *)
(* fail, and a restart reads the file.                                     *)
(*                                                                         *)
(* Scores are in thousandths; Decay[h] is e^(-0.01 h) in thousandths.  The *)
(* counters are u32 in the code; here they stop at Verdicts.               *)
(***************************************************************************)
EXTENDS Integers, Functions

CONSTANTS
    Nodes,          \* peers
    Costs,          \* latency and tokens of a success
    Decay,          \* what is left of a score after some time without a success
    MaxStale,       \* MAX_STALE_AGE_SECS
    Verdicts,       \* bound: verdicts on one peer
    MaxTime         \* bound: the clock stops here

VARIABLES
    now,
    records,        \* of the peers that had a verdict
    reputation_file \* reputation.json

vars == <<now, records, reputation_file>>

DEFAULT_SCORE == 500

NewRecord ==
    [successes |-> 0, failures |-> 0, latency |-> 0, tokens |-> 0, last_seen |-> now]

Record(n) == IF n \in DOMAIN records THEN records[n] ELSE NewRecord

With(n, rec) == [m \in DOMAIN records \cup {n} |-> IF m = n THEN rec ELSE records[m]]

success_rate(rec) == (1000 * rec.successes) \div (rec.successes + rec.failures)

\* Tokens per second against 50, at most 1.
speed_index(rec) ==
    IF rec.latency = 0 \/ rec.tokens = 0 THEN 0
    ELSE LET i == (1000 * rec.tokens) \div (50 * rec.latency) IN IF i > 1000 THEN 1000 ELSE i

\* Mutant: the weights of success rate and speed are swapped.
calculate_score_swapped(rec) ==
    IF rec.successes + rec.failures = 0 THEN DEFAULT_SCORE
    ELSE LET base == (3 * success_rate(rec) + 7 * speed_index(rec)) \div 10
         IN DEFAULT_SCORE + ((base - DEFAULT_SCORE) * Decay[now - rec.last_seen]) \div 1000

calculate_score(rec) ==
    IF rec.successes + rec.failures = 0 THEN DEFAULT_SCORE
    ELSE LET base == (7 * success_rate(rec) + 3 * speed_index(rec)) \div 10
         IN DEFAULT_SCORE + ((base - DEFAULT_SCORE) * Decay[now - rec.last_seen]) \div 1000

get_score(n) == IF n \in DOMAIN records THEN calculate_score(records[n]) ELSE DEFAULT_SCORE

Save == reputation_file' = records' \/ reputation_file' = reputation_file

Init ==
    /\ now = 0
    /\ records = << >>
    /\ reputation_file = << >>

\* A file that has been corrupted reads as an empty one.
Restart ==
    /\ reputation_file' \in {reputation_file, << >>}
    /\ records' = reputation_file'
    /\ UNCHANGED now

record_success(n, cost) ==
    LET rec == Record(n) IN
    /\ rec.successes + rec.failures < Verdicts
    /\ records' = With(n, [rec EXCEPT !.successes = @ + 1, !.latency = @ + cost.latency,
                                      !.tokens = @ + cost.tokens, !.last_seen = now])
    /\ Save
    /\ UNCHANGED now

\* Mutant: a failure counts as having seen the peer.
record_failure_seen(n) ==
    LET rec == Record(n) IN
    /\ rec.successes + rec.failures < Verdicts
    /\ records' = With(n, [rec EXCEPT !.failures = @ + 1, !.last_seen = now])
    /\ Save
    /\ UNCHANGED now

record_failure(n) ==
    LET rec == Record(n) IN
    /\ rec.successes + rec.failures < Verdicts
    /\ records' = With(n, [rec EXCEPT !.failures = @ + 1])
    /\ Save
    /\ UNCHANGED now

\* (The daemon never calls it.)
prune_stale ==
    LET kept == {n \in DOMAIN records : now - records[n].last_seen < MaxStale} IN
    /\ kept # DOMAIN records
    /\ records' = Restrict(records, kept)
    /\ Save
    /\ UNCHANGED now

Tick ==
    /\ now < MaxTime
    /\ now' = now + 1
    /\ UNCHANGED <<records, reputation_file>>

Next ==
    \/ Restart
    \/ \E n \in Nodes, cost \in Costs : record_success(n, cost)
    \/ \E n \in Nodes : record_failure(n)
    \/ prune_stale
    \/ Tick

-----------------------------------------------------------------------------
IsRecords(f) ==
    /\ DOMAIN f \subseteq Nodes
    /\ \A n \in DOMAIN f : /\ f[n].successes + f[n].failures \in 1..Verdicts
                           /\ f[n].last_seen \in 0..now

TypeOK == IsRecords(records) /\ IsRecords(reputation_file)

Good(n) == n \in DOMAIN records /\ records[n].failures = 0
Bad(n)  == n \in DOMAIN records /\ records[n].successes = 0

\* However long ago its verdicts are, and whatever restarts and pruning took back,
\* a peer that only ever succeeded is routed to no later than one nobody knows, and
\* a peer that only ever failed no earlier.
RankedByRecord ==
    \A n \in Nodes : /\ Good(n) => get_score(n) >= DEFAULT_SCORE
                     /\ Bad(n) => get_score(n) =< DEFAULT_SCORE

\* The score that the comment of calculate_score documents.
documented_score(rec) ==
    (((7 * success_rate(rec) + 3 * speed_index(rec)) \div 10) * Decay[now - rec.last_seen]) \div 1000

\* "Score = base_score x decay_factor": the score itself fades with the time a peer is
\* unseen.  It does not: its distance from DEFAULT_SCORE does.
ScoreAsDocumented ==
    \A n \in DOMAIN records : get_score(n) = documented_score(records[n])

\* A failure never moves a peer up in the ranking.  A failure that counted as seeing
\* the peer would: it would undo the decay of a good score.
FailureNeverHelps ==
    [][\A n \in Nodes : record_failure(n) => get_score(n)' =< get_score(n)]_vars

\* What makes RankedByRecord inductive: a peer has tokens from successes only, and its
\* last success is not in the future.
RecordsInv(f) ==
    /\ DOMAIN f \subseteq Nodes
    /\ \A n \in DOMAIN f :
          /\ f[n] \in [successes : Nat, failures : Nat, latency : Nat, tokens : Nat, last_seen : Nat]
          /\ f[n].successes + f[n].failures \in 1..Verdicts
          /\ f[n].last_seen =< now
          /\ f[n].successes = 0 => f[n].tokens = 0

ReputationInv == now \in 0..MaxTime /\ RecordsInv(records) /\ RecordsInv(reputation_file)

=============================================================================
