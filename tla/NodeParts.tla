------------------------------ MODULE NodeParts ------------------------------
(***************************************************************************)
(* Four parts of a node that share nothing but its clock: the rate limiter,*)
(* the network statistics, the reputation database and the start on the    *)
(* data directory.  One of them moves in a behaviour, chosen at the start: *)
(* what the others do meanwhile makes no difference to it, and the states  *)
(* to check are the sum of theirs and not the product.                     *)
(***************************************************************************)
EXTENDS RateLimiter

CONSTANTS
    Forwarders, Speeds, stale_duration, Default, History,
    Nodes, Costs, Decay, MaxStale, Verdicts,
    Processes, Keys, NoKey, Exclusive

ASSUME PartsAssumption ==
    /\ Speeds \subseteq Nat /\ Default \in Nat
    /\ stale_duration \in Nat \ {0} /\ History \in Nat \ {0}
    /\ Costs \subseteq [latency : Nat, tokens : Nat]
    /\ Decay \in [0..MaxTime -> 0..1000] /\ Decay[0] = 1000
    /\ \A t, u \in 0..MaxTime : t =< u => Decay[u] =< Decay[t]
    /\ MaxStale \in Nat /\ Verdicts \in Nat
    /\ Keys \cap {NoKey, "none", "short"} = {} /\ Exclusive \in BOOLEAN

VARIABLES
    part,
    tps_map, last_seen, local_tps_history, heard,
    records, reputation_file,
    process, holders, key_file, identities

N == INSTANCE NetworkStats
R == INSTANCE Reputation
D == INSTANCE DataDir

limiter    == <<visits, at, allowed>>
stats      == <<tps_map, last_seen, local_tps_history, heard>>
reputation == <<records, reputation_file>>
directory  == <<process, holders, key_file, identities>>

PartsInit ==
    /\ part \in {"limiter", "stats", "reputation", "directory"}
    /\ Init /\ N!Init /\ R!Init /\ D!Init

PartsNext ==
    /\ UNCHANGED part
    /\ \/ /\ part = "limiter"
          /\ Next
          /\ UNCHANGED <<stats, reputation, directory>>
       \/ /\ part = "stats"
          /\ N!Next
          /\ UNCHANGED <<limiter, reputation, directory>>
       \/ /\ part = "reputation"
          /\ R!Next
          /\ UNCHANGED <<limiter, stats, directory>>
       \/ /\ part = "directory"
          /\ D!Next
          /\ UNCHANGED <<now, limiter, stats, reputation>>

PartsSpec == PartsInit /\ [][PartsNext]_<<part, now, limiter, stats, reputation, directory>>

-----------------------------------------------------------------------------
\* What makes the properties inductive.
PartsInv == LimiterInv /\ N!StatsInv /\ R!ReputationInv /\ D!DirectoryInv

PartsTypeOK == TypeOK /\ N!TypeOK /\ R!TypeOK /\ D!TypeOK

\* The properties of the instantiated parts; each is explained in its module.
MedianOfFresh     == N!MedianOfFresh
RankedByRecord    == R!RankedByRecord
FailureNeverHelps == R!FailureNeverHelps
ScoreAsDocumented == R!ScoreAsDocumented
OneIdentity       == D!OneIdentity
=============================================================================
