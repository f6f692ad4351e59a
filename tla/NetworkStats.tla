---------------------------- MODULE NetworkStats ----------------------------
(***************************************************************************)
(* What a node knows of the speed of the network:                          *)
(* crates/itoken-harness/src/network_stats.rs.  Every operation runs under *)
(* one mutex, right after it has read the clock, and is a step.  Speeds    *)
(* are natural numbers here; medians are doubled, so that the mean of two  *)
(* speeds is one, too.                                                     *)
(*                                                                         *)
(* A report belongs to the peer the swarm loop names: the one that         *)
(* forwarded the heartbeat, which need not be the one that sent it.        *)
(***************************************************************************)
EXTENDS Integers, Sequences, FiniteSets, Functions, SequencesExt

CONSTANTS
    Forwarders,     \* peers that forward heartbeats
    Speeds,         \* the tps_avg a heartbeat may carry
    stale_duration, \* 300 seconds
    Default,        \* 25.0
    History,        \* the last 10 local inferences count
    MaxTime         \* bound: the clock stops here

VARIABLES
    now,                \* Instant::now()
    tps_map,            \* the reports, by peer
    last_seen,          \* when each came
    local_tps_history,  \* speeds of this node's own inferences
    heard               \* history: the last report of each peer ever, and when

vars == <<now, tps_map, last_seen, local_tps_history, heard>>

Init ==
    /\ now = 0
    /\ tps_map = << >>
    /\ last_seen = << >>
    /\ local_tps_history = << >>
    /\ heard = << >>

Insert(f, k, v) == [x \in DOMAIN f \cup {k} |-> IF x = k THEN v ELSE f[x]]

feed_heartbeat(p, tps) ==
    /\ last_seen' = Insert(last_seen, p, now)
    /\ tps_map' = Insert(tps_map, p, tps)
    /\ heard' = Insert(heard, p, [tps |-> tps, at |-> now])
    /\ UNCHANGED <<now, local_tps_history>>

record_local_inference(tps) ==
    LET grown == Append(local_tps_history, tps) IN
    /\ local_tps_history' = IF Len(grown) > History THEN Tail(grown) ELSE grown
    /\ UNCHANGED <<now, tps_map, last_seen, heard>>

Stale == {p \in DOMAIN last_seen : now - last_seen[p] >= stale_duration}

\* The peers in the order of their reports.
Ranking(reports) ==
    CHOOSE ranked \in SetToSeqs(DOMAIN reports) :
        \A i, j \in DOMAIN ranked : i < j => reports[ranked[i]] =< reports[ranked[j]]

\* The middle of the sorted reports, or the mean of the two in the middle.
MiddleOf(reports) ==
    LET ranked == Ranking(reports)
        mid    == Len(ranked) \div 2
        value(i) == reports[ranked[i + 1]]      \* sequences count from 1 here, from 0 in the code
    IN IF ranked = << >> THEN 2 * Default
       ELSE IF Len(ranked) % 2 = 0 THEN value(mid - 1) + value(mid) ELSE 2 * value(mid)

\* Mutant: a stale peer loses its instant, and keeps its report for ever.
get_median_tps_keeping_reports ==
    /\ last_seen' = Restrict(last_seen, DOMAIN last_seen \ Stale)
    /\ UNCHANGED <<now, tps_map, local_tps_history, heard>>

\* Stale peers are forgotten; what is left is ranked, and its middle returned.
get_median_tps ==
    /\ last_seen' = Restrict(last_seen, DOMAIN last_seen \ Stale)
    /\ tps_map' = Restrict(tps_map, DOMAIN tps_map \ Stale)
    /\ UNCHANGED <<now, local_tps_history, heard>>

\* What it returns when it is called now.
MedianNow == MiddleOf(Restrict(tps_map, DOMAIN tps_map \ Stale))

Tick ==
    /\ now < MaxTime
    /\ now' = now + 1
    /\ UNCHANGED <<tps_map, last_seen, local_tps_history, heard>>

Next ==
    \/ \E p \in Forwarders, tps \in Speeds : feed_heartbeat(p, tps)
    \/ \E tps \in Speeds : record_local_inference(tps)
    \/ get_median_tps
    \/ Tick

-----------------------------------------------------------------------------
TypeOK ==
    /\ DOMAIN tps_map \subseteq Forwarders
    /\ DOMAIN last_seen = DOMAIN tps_map
    /\ \A p \in DOMAIN tps_map : tps_map[p] \in Speeds /\ last_seen[p] \in 0..now
    /\ local_tps_history \in Seq(Speeds) /\ Len(local_tps_history) =< History

Fresh == {p \in DOMAIN heard : now - heard[p].at < stale_duration}

\* The median that prices are computed with lies in the middle of the reports that
\* are not stale, each peer's last one counted once: at least half of the peers heard
\* of lately are not faster, and at least half not slower, so that no minority of
\* them, and no peer that is gone, can move it beyond what the others report.
MedianOfFresh ==
    LET slower == {p \in Fresh : 2 * heard[p].tps =< MedianNow}
        faster == {p \in Fresh : 2 * heard[p].tps >= MedianNow}
    IN IF Fresh = {} THEN MedianNow = 2 * Default
       ELSE /\ 2 * Cardinality(slower) >= Cardinality(Fresh)
            /\ 2 * Cardinality(faster) >= Cardinality(Fresh)

\* What makes MedianOfFresh inductive: a report that is kept is the last that was
\* heard of its peer, and one that is fresh is kept.
StatsInv ==
    /\ TypeOK
    /\ IsFiniteSet(DOMAIN heard)
    /\ \A p \in DOMAIN heard : heard[p].tps \in Speeds /\ heard[p].at \in 0..now
    /\ DOMAIN tps_map \subseteq DOMAIN heard
    /\ \A p \in DOMAIN tps_map : tps_map[p] = heard[p].tps /\ last_seen[p] = heard[p].at
    /\ Fresh \subseteq DOMAIN tps_map
=============================================================================
