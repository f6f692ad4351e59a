--------------------------- MODULE NodePartsProofs ---------------------------
(***************************************************************************)
(* The rate limiter keeps to its limit in every window of time and refuses *)
(* only at it, the reputation database ranks peers by their record, a data *)
(* directory keeps one identity, and the median of the network lies in the *)
(* middle of what was heard lately, for every number of addresses,         *)
(* requests, peers, processes and keys: of the limiter first, whose clock  *)
(* the other parts share, then of the parts beside each other.             *)
(***************************************************************************)
EXTENDS NodeParts, FiniteSetTheorems, SequenceTheorems, NaturalsInduction,
        WellFoundedInduction, TLAPS

-----------------------------------------------------------------------------
(* The rate limiter, by itself: Spec is that of RateLimiter. *)

\* A part of a finite set is finite, and not larger.
LEMMA PartIsNotLarger ==
    ASSUME NEW T, IsFiniteSet(T), NEW S, S \subseteq T
    PROVE  IsFiniteSet(S) /\ Cardinality(S) =< Cardinality(T)
BY FS_Subset

LEMMA ThroughIsFinite ==
    ASSUME IsFiniteSet(allowed), NEW a, NEW from
    PROVE  IsFiniteSet(Through(a, from)) /\ Cardinality(Through(a, from)) \in Nat
<1>1. Through(a, from) \subseteq allowed
    BY DEF Through
<1> QED
    BY <1>1, FS_Subset, FS_CardinalityType

\* The calls that are kept and still recent are those let through within the window
\* that ends now.
LEMMA RecentIsThrough ==
    ASSUME LimiterInv, NEW a \in Addresses
    PROVE  Recent(a) = Through(a, now + 1 - window)
<1>1. now \in Nat /\ window \in Nat /\ \A c \in allowed : c \in Calls /\ at[c] \in Nat /\ at[c] =< now
    BY LimiterAssumption DEF LimiterInv, TypeOK, NotYet
<1>2. visits[a] \subseteq {c \in allowed : From[c] = a}
    BY DEF LimiterInv
<1>3. \A c \in allowed : From[c] = a /\ now - at[c] < window => c \in visits[a]
    BY DEF LimiterInv
<1>4. Recent(a) \subseteq Through(a, now + 1 - window)
    BY <1>1, <1>2 DEF Recent, Through
<1>5. Through(a, now + 1 - window) \subseteq Recent(a)
    BY <1>1, <1>3 DEF Recent, Through
<1> QED
    BY <1>4, <1>5

LEMMA InitLimiter == Init => LimiterInv
<1> SUFFICES ASSUME Init PROVE LimiterInv
    OBVIOUS
<1>1. MaxTime \in Nat /\ limit \in Nat
    BY LimiterAssumption
<1>2. TypeOK
    BY <1>1 DEF Init, TypeOK, NotYet
<1>3. IsFiniteSet(allowed)
    BY FS_EmptySet DEF Init
<1>4. AtMostLimit
  <2> SUFFICES ASSUME NEW a \in Addresses, NEW from \in 0..MaxTime
               PROVE  Cardinality(Through(a, from)) =< limit
      BY DEF AtMostLimit
  <2>1. Through(a, from) = {}
      BY DEF Init, Through
  <2> QED
      BY <1>1, <2>1, FS_EmptySet
<1>5. RefusedOnlyAtLimit
    BY DEF Init, RefusedOnlyAtLimit
<1> QED
    BY <1>2, <1>3, <1>4, <1>5 DEF LimiterInv, Init

\* A call that is let through leaves every window with room, if it falls into it.
LEMMA LetThrough ==
    ASSUME LimiterInv, NEW c \in Calls, check_limit(c), Cardinality(Recent(From[c])) < limit
    PROVE  LimiterInv'
<1> DEFINE a == From[c]
<1>1. /\ now \in 0..MaxTime /\ window \in Nat \ {0} /\ MaxTime \in Nat /\ limit \in Nat
      /\ a \in Addresses /\ at \in [Calls -> 0..NotYet]
      /\ visits \in [Addresses -> SUBSET Calls] /\ allowed \subseteq Calls
    BY LimiterAssumption DEF LimiterInv, TypeOK
<1>2. /\ at[c] = NotYet
      /\ at' = [at EXCEPT ![c] = now]
      /\ visits' = [visits EXCEPT ![a] = Recent(a) \cup {c}]
      /\ allowed' = allowed \cup {c}
      /\ now' = now
    BY DEF check_limit
<1>3. c \notin allowed
    BY <1>1, <1>2 DEF LimiterInv, NotYet
<1>4. /\ at'[c] = now
      /\ \A d \in Calls : d # c => at'[d] = at[d]
    BY <1>1, <1>2
<1>5. TypeOK'
    BY <1>1, <1>2 DEF TypeOK, Recent, NotYet
<1>6. IsFiniteSet(allowed')
    BY <1>2, FS_AddElement DEF LimiterInv
<1>7. \A d \in allowed' : at'[d] =< now'
    BY <1>1, <1>2, <1>4 DEF LimiterInv
<1>8. ASSUME NEW b \in Addresses
      PROVE  /\ visits'[b] \subseteq {d \in allowed' : From[d] = b}
             /\ \A d \in allowed' : From[d] = b /\ now' - at'[d] < window => d \in visits'[b]
  <2>1. CASE b = a
    <3>1. visits'[b] = Recent(a) \cup {c}
        BY <1>1, <1>2, <2>1
    <3>2. Recent(a) \subseteq {d \in allowed : From[d] = a}
        BY <1>1 DEF LimiterInv, Recent
    <3>3. \A d \in allowed : From[d] = a /\ now - at[d] < window => d \in Recent(a)
        BY <1>1 DEF LimiterInv, Recent
    <3> QED
        BY <1>1, <1>2, <1>3, <1>4, <2>1, <3>1, <3>2, <3>3
  <2>2. CASE b # a
    <3>1. visits'[b] = visits[b]
        BY <1>1, <1>2, <2>2
    <3> QED
        BY <1>1, <1>2, <1>3, <1>4, <2>2, <3>1 DEF LimiterInv
  <2> QED
      BY <2>1, <2>2
<1>9. ASSUME NEW b \in Addresses, NEW from \in 0..MaxTime
      PROVE  Cardinality(Through(b, from)') =< limit
  <2>1. CASE b = a /\ from =< now /\ now < from + window
    <3>1. Through(b, from)' \subseteq Recent(a) \cup {c}
        BY <1>1, <1>2, <1>3, <1>4, <2>1 DEF LimiterInv, Through, Recent
    <3>2. IsFiniteSet(Recent(a)) /\ Cardinality(Recent(a)) \in Nat
        BY <1>1, RecentIsThrough, ThroughIsFinite DEF LimiterInv
    <3>3. IsFiniteSet(Recent(a) \cup {c}) /\ Cardinality(Recent(a) \cup {c}) =< Cardinality(Recent(a)) + 1
      <4>1. \/ Cardinality(Recent(a) \cup {c}) = Cardinality(Recent(a))
            \/ Cardinality(Recent(a) \cup {c}) = Cardinality(Recent(a)) + 1
          BY <3>2, FS_AddElement
      <4> QED
          BY <3>2, <4>1, FS_AddElement
    <3>4. /\ Cardinality(Through(b, from)') =< Cardinality(Recent(a) \cup {c})
          /\ IsFiniteSet(Through(b, from)')
        BY <3>1, <3>3, FS_Subset
    <3>5. Cardinality(Through(b, from)') \in Nat /\ Cardinality(Recent(a) \cup {c}) \in Nat
        BY <3>3, <3>4, FS_CardinalityType
    <3> QED
        BY <1>1, <3>2, <3>3, <3>4, <3>5
  <2>2. CASE ~(b = a /\ from =< now /\ now < from + window)
    <3>1. Through(b, from)' = Through(b, from)
        BY <1>1, <1>2, <1>3, <1>4, <2>2 DEF Through
    <3> QED
        BY <3>1 DEF LimiterInv, AtMostLimit
  <2> QED
      BY <2>1, <2>2
<1>10. ASSUME NEW d \in Calls, at'[d] # NotYet, d \notin allowed'
       PROVE  Cardinality(Through(From[d], at[d] + 1 - window)') >= limit
  <2>1. d # c /\ at'[d] = at[d] /\ d \notin allowed
      BY <1>2, <1>4, <1>10
  <2>2. Cardinality(Through(From[d], at[d] + 1 - window)) >= limit
      BY <1>10, <2>1 DEF LimiterInv, RefusedOnlyAtLimit
  <2>3. Through(From[d], at[d] + 1 - window) \subseteq Through(From[d], at[d] + 1 - window)'
      BY <1>1, <1>2, <1>3, <1>4, <2>1 DEF Through
  <2>4. IsFiniteSet(Through(From[d], at[d] + 1 - window)')
    <3>1. Through(From[d], at[d] + 1 - window)' \subseteq allowed'
        BY DEF Through
    <3> QED
        BY <1>6, <3>1, FS_Subset
  <2>5. /\ Cardinality(Through(From[d], at[d] + 1 - window)) =<
              Cardinality(Through(From[d], at[d] + 1 - window)')
        /\ IsFiniteSet(Through(From[d], at[d] + 1 - window))
      BY <2>3, <2>4, FS_Subset
  <2>6. /\ Cardinality(Through(From[d], at[d] + 1 - window)) \in Nat
        /\ Cardinality(Through(From[d], at[d] + 1 - window)') \in Nat
      BY <2>4, <2>5, FS_CardinalityType
  <2> QED
      BY <1>1, <2>2, <2>5, <2>6
<1>11. AtMostLimit'
    BY <1>9 DEF AtMostLimit
<1>12. RefusedOnlyAtLimit'
    BY <1>10 DEF RefusedOnlyAtLimit, NotYet
<1> QED
    BY <1>5, <1>6, <1>7, <1>8, <1>11, <1>12 DEF LimiterInv

\* A refused call changes no window, and finds `limit` calls in the one before it.
LEMMA Refused ==
    ASSUME LimiterInv, NEW c \in Calls, check_limit(c), ~(Cardinality(Recent(From[c])) < limit)
    PROVE  LimiterInv'
<1> DEFINE a == From[c]
<1>1. /\ now \in 0..MaxTime /\ window \in Nat \ {0} /\ MaxTime \in Nat /\ limit \in Nat
      /\ a \in Addresses /\ at \in [Calls -> 0..NotYet]
      /\ visits \in [Addresses -> SUBSET Calls] /\ allowed \subseteq Calls
    BY LimiterAssumption DEF LimiterInv, TypeOK
<1>2. /\ at[c] = NotYet
      /\ at' = [at EXCEPT ![c] = now]
      /\ visits' = [visits EXCEPT ![a] = Recent(a)]
      /\ allowed' = allowed
      /\ now' = now
    BY DEF check_limit
<1>3. c \notin allowed
    BY <1>1, <1>2 DEF LimiterInv, NotYet
<1>4. at'[c] = now /\ \A d \in Calls : d # c => at'[d] = at[d]
    BY <1>1, <1>2
<1>5. TypeOK'
    BY <1>1, <1>2 DEF TypeOK, Recent, NotYet
<1>6. \A b, from : Through(b, from)' = Through(b, from)
    BY <1>1, <1>2, <1>3, <1>4 DEF Through
<1>7. ASSUME NEW b \in Addresses
      PROVE  /\ visits'[b] \subseteq {d \in allowed' : From[d] = b}
             /\ \A d \in allowed' : From[d] = b /\ now' - at'[d] < window => d \in visits'[b]
  <2>1. visits'[b] = IF b = a THEN Recent(a) ELSE visits[b]
      BY <1>1, <1>2
  <2> QED
      BY <1>1, <1>2, <1>3, <1>4, <2>1 DEF LimiterInv, Recent
<1>8. AtMostLimit'
    BY <1>6 DEF LimiterInv, AtMostLimit
<1>9. ASSUME NEW d \in Calls, at'[d] # NotYet, d \notin allowed'
      PROVE  Cardinality(Through(From[d], at'[d] + 1 - window)) >= limit
  <2>1. CASE d = c
    <3>1. Cardinality(Recent(a)) \in Nat
        BY <1>1, RecentIsThrough, ThroughIsFinite DEF LimiterInv
    <3>2. Recent(a) = Through(a, now + 1 - window)
        BY <1>1, RecentIsThrough
    <3> QED
        BY <1>1, <1>4, <2>1, <3>1, <3>2
  <2>2. CASE d # c
      BY <1>2, <1>4, <1>9, <2>2 DEF LimiterInv, RefusedOnlyAtLimit
  <2> QED
      BY <2>1, <2>2
<1>10. RefusedOnlyAtLimit'
    BY <1>6, <1>9 DEF RefusedOnlyAtLimit, NotYet
<1> QED
    BY <1>2, <1>3, <1>4, <1>5, <1>7, <1>8, <1>10 DEF LimiterInv

LEMMA Later ==
    ASSUME LimiterInv, Tick
    PROVE  LimiterInv'
<1>1. now \in Nat /\ MaxTime \in Nat /\ window \in Nat /\ now' = now + 1 /\ now < MaxTime
    BY LimiterAssumption DEF LimiterInv, TypeOK, Tick
<1>2. visits' = visits /\ at' = at /\ allowed' = allowed
    BY DEF Tick
<1>3. TypeOK'
    BY <1>1, <1>2 DEF LimiterInv, TypeOK
<1>4. AtMostLimit' /\ RefusedOnlyAtLimit'
    BY <1>2 DEF LimiterInv, AtMostLimit, RefusedOnlyAtLimit, Through
<1>5. \A c \in allowed : at[c] \in Nat
    BY DEF LimiterInv, TypeOK, NotYet
<1> QED
    BY <1>1, <1>2, <1>3, <1>4, <1>5 DEF LimiterInv

LEMMA LimiterStep == LimiterInv /\ [Next]_vars => LimiterInv'
<1> SUFFICES ASSUME LimiterInv, [Next]_vars PROVE LimiterInv'
    OBVIOUS
<1>1. CASE UNCHANGED vars
    BY <1>1 DEF vars, LimiterInv, TypeOK, AtMostLimit, RefusedOnlyAtLimit, Through
<1> QED
    BY <1>1, LetThrough, Refused, Later DEF Next

LEMMA LimiterInvariance == Spec => []LimiterInv
    BY LimiterStep, InitLimiter, PTL DEF Spec

\* The limiter never lets more than `limit` requests of one address through in any
\* window of time.
THEOREM LimiterKeepsLimit == Spec => []AtMostLimit
<1>1. LimiterInv => AtMostLimit
    BY DEF LimiterInv
<1> QED
    BY <1>1, LimiterInvariance, PTL

\* It refuses a request only when that many went through in the window before it.
THEOREM LimiterRefusesOnlyAtLimit == Spec => []RefusedOnlyAtLimit
<1>1. LimiterInv => RefusedOnlyAtLimit
    BY DEF LimiterInv
<1> QED
    BY <1>1, LimiterInvariance, PTL

-----------------------------------------------------------------------------
partsVars == <<part, now, limiter, stats, reputation, directory>>

-----------------------------------------------------------------------------
(* Data directory. *)

LEMMA DirectoryStarts == ASSUME D!Init PROVE D!DirectoryInv
BY DEF D!Init, D!Doing, D!DirectoryInv, D!TypeOK

\* Processes come and go; where the lock excludes, there is one at a time.
LEMMA ProcessesComeAndGo ==
    ASSUME D!DirectoryInv, NEW p \in Processes,
           D!OpenLock(p) \/ D!RefuseShortKey(p) \/ D!Die(p)
    PROVE  D!DirectoryInv'
<1>1. Keys \cap {NoKey, "none", "short"} = {}
    BY PartsAssumption
<1>2. CASE D!OpenLock(p)
    BY <1>1, <1>2 DEF D!DirectoryInv, D!TypeOK, D!OpenLock, D!Goes, D!Doing
<1>3. CASE D!RefuseShortKey(p)
    BY <1>1, <1>3 DEF D!DirectoryInv, D!TypeOK, D!RefuseShortKey, D!Goes, D!Doing
<1>4. CASE D!Die(p)
    BY <1>1, <1>4 DEF D!DirectoryInv, D!TypeOK, D!Die, D!Goes, D!Doing
<1> QED
    BY <1>2, <1>3, <1>4

\* The one that has the lock loads the key of the file, or makes one for it.
LEMMA KeyIsLoadedOrMade ==
    ASSUME D!DirectoryInv, NEW p \in Processes,
           D!LoadKey(p) \/ D!GenerateKey(p) \/ D!TruncateKey(p) \/ D!WriteKey(p)
    PROVE  D!DirectoryInv'
<1>1. Keys \cap {NoKey, "none", "short"} = {}
    BY PartsAssumption
<1>2. CASE D!LoadKey(p)
    BY <1>1, <1>2 DEF D!DirectoryInv, D!TypeOK, D!LoadKey, D!Goes, D!Doing
<1>3. CASE D!GenerateKey(p)
    BY <1>1, <1>3 DEF D!DirectoryInv, D!TypeOK, D!GenerateKey, D!Goes, D!Doing
<1>4. CASE D!TruncateKey(p)
    BY <1>1, <1>4 DEF D!DirectoryInv, D!TypeOK, D!TruncateKey, D!Goes, D!Doing
<1>5. CASE D!WriteKey(p)
  <2>1. /\ process[p].key \in Keys /\ key_file' = process[p].key
        /\ process' = [process EXCEPT ![p] = [step |-> "running", key |-> process[p].key]]
        /\ identities' = identities \cup {process[p].key} /\ holders' = holders
      BY <1>5 DEF D!DirectoryInv, D!WriteKey, D!Goes, D!Doing
  <2>2. p \in holders /\ (Exclusive => \A q \in Processes : q # p => process[q].step = "down")
      BY <1>5 DEF D!DirectoryInv, D!TypeOK, D!WriteKey
  <2>3. Exclusive => identities = {}
      BY <1>1, <1>5 DEF D!DirectoryInv, D!TypeOK, D!WriteKey
  <2> QED
      BY <1>1, <2>1, <2>2, <2>3 DEF D!DirectoryInv, D!TypeOK
<1> QED
    BY <1>2, <1>3, <1>4, <1>5

LEMMA DirectoryHasOneIdentity == ASSUME D!DirectoryInv PROVE OneIdentity
BY DEF D!DirectoryInv, OneIdentity, D!OneIdentity

-----------------------------------------------------------------------------
(* Reputation. *)

LEMMA ReputationStarts == ASSUME R!Init PROVE R!ReputationInv
BY LimiterAssumption DEF R!Init, R!ReputationInv, R!RecordsInv

\* A save writes all the records or leaves the file as it was.
LEMMA SavedIsInv ==
    ASSUME R!ReputationInv, R!RecordsInv(records)', R!Save, now' = now
    PROVE  R!ReputationInv'
BY DEF R!ReputationInv, R!RecordsInv, R!Save

Counts == [successes : Nat, failures : Nat, latency : Nat, tokens : Nat, last_seen : Nat]

LEMMA VerdictIsRecorded ==
    ASSUME R!ReputationInv, NEW n \in Nodes,
           \/ \E cost \in Costs : R!record_success(n, cost)
           \/ R!record_failure(n)
    PROVE  R!ReputationInv'
<1>0. PICK rec : rec = R!Record(n)
    OBVIOUS
<1>1. now \in Nat /\ Verdicts \in Nat /\ Costs \subseteq [latency : Nat, tokens : Nat]
    BY PartsAssumption, LimiterAssumption DEF R!ReputationInv
<1>2. /\ rec \in Counts /\ rec.last_seen =< now
      /\ rec.successes = 0 => rec.tokens = 0
    BY <1>0, <1>1 DEF R!ReputationInv, R!RecordsInv, R!Record, R!NewRecord, Counts
<1>3. PICK new : /\ records' = R!With(n, new)
                 /\ R!Save /\ now' = now
                 /\ new \in Counts /\ new.last_seen =< now
                 /\ new.successes + new.failures \in 1..Verdicts
                 /\ new.successes = 0 => new.tokens = 0
  <2>1. CASE \E cost \in Costs : R!record_success(n, cost)
    <3>1. PICK cost \in Costs : R!record_success(n, cost)
        BY <2>1
    <3>2. cost.latency \in Nat /\ cost.tokens \in Nat
        BY <1>1
    <3>3. PICK r1, r2, r3, new :
             /\ r1 = [rec EXCEPT !.successes = rec.successes + 1]
             /\ r2 = [r1 EXCEPT !.latency = rec.latency + cost.latency]
             /\ r3 = [r2 EXCEPT !.tokens = rec.tokens + cost.tokens]
             /\ new = [r3 EXCEPT !.last_seen = now]
             /\ records' = R!With(n, new) /\ R!Save /\ now' = now
             /\ rec.successes + rec.failures < Verdicts
        BY <1>0, <3>1, Zenon DEF R!record_success
    <3>4. /\ new \in Counts /\ new.last_seen = now
          /\ new.successes = rec.successes + 1 /\ new.failures = rec.failures
      <4>1. /\ rec.successes + 1 \in Nat
            /\ rec.latency + cost.latency \in Nat /\ rec.tokens + cost.tokens \in Nat
          BY <1>2, <3>2 DEF Counts
      <4>2. r1 \in Counts /\ r1.successes = rec.successes + 1 /\ r1.failures = rec.failures
          BY <1>2, <3>3, <4>1 DEF Counts
      <4>3. r2 \in Counts /\ r2.successes = rec.successes + 1 /\ r2.failures = rec.failures
          BY <3>3, <4>1, <4>2 DEF Counts
      <4>4. r3 \in Counts /\ r3.successes = rec.successes + 1 /\ r3.failures = rec.failures
          BY <3>3, <4>1, <4>3 DEF Counts
      <4> QED
          BY <1>1, <3>3, <4>4 DEF Counts
    <3>5. rec.successes \in Nat /\ rec.failures \in Nat
        BY <1>2 DEF Counts
    <3>6. new.successes + new.failures \in 1..Verdicts /\ new.successes # 0
        BY <1>1, <3>3, <3>4, <3>5
    <3>7. new.last_seen =< now
        BY <1>1, <3>4
    <3> QED
        BY <3>3, <3>4, <3>6, <3>7, Zenon
  <2>2. CASE R!record_failure(n)
      BY <1>0, <1>1, <1>2, <2>2 DEF R!record_failure, Counts
  <2> QED
      BY <2>1, <2>2
<1>4. R!RecordsInv(records)'
    BY <1>3 DEF R!ReputationInv, R!RecordsInv, R!With, Counts
<1> QED
    BY <1>3, <1>4, SavedIsInv

\* Restarts and pruning take back whole records.
LEMMA RecordsAreTakenBack ==
    ASSUME R!ReputationInv, R!Restart \/ R!prune_stale
    PROVE  R!ReputationInv'
<1>1. CASE R!Restart
  <2>1. records' = reputation_file' /\ now' = now
      BY <1>1 DEF R!Restart
  <2>2. CASE reputation_file' = reputation_file
      BY <2>1, <2>2 DEF R!ReputationInv, R!RecordsInv
  <2>3. CASE reputation_file' = << >>
      BY <2>1, <2>3 DEF R!ReputationInv, R!RecordsInv
  <2> QED
      BY <1>1, <2>2, <2>3 DEF R!Restart
<1>2. CASE R!prune_stale
  <2>1. PICK kept \in SUBSET DOMAIN records :
            records' = [n \in kept |-> records[n]] /\ now' = now
      BY <1>2 DEF R!prune_stale, R!Restrict
  <2>2. R!RecordsInv(records)'
      BY <2>1 DEF R!ReputationInv, R!RecordsInv
  <2> QED
      BY <1>2, <2>2, SavedIsInv DEF R!prune_stale
<1> QED
    BY <1>1, <1>2

\* So does time, when the records stay as they are.
LEMMA RecordsKeep ==
    ASSUME R!ReputationInv, UNCHANGED reputation,
           now' = now \/ (now < MaxTime /\ now' = now + 1)
    PROVE  R!ReputationInv'
BY LimiterAssumption DEF R!ReputationInv, R!RecordsInv, reputation

\* What remains of a score is between nothing and all of it.
LEMMA DecayIsAShare ==
    ASSUME R!ReputationInv, NEW n \in DOMAIN records
    PROVE  /\ now - records[n].last_seen \in 0..MaxTime
           /\ Decay[now - records[n].last_seen] \in 0..1000
<1>1. now \in 0..MaxTime /\ records[n].last_seen \in Nat /\ records[n].last_seen =< now
  <2>1. now \in 0..MaxTime /\ R!RecordsInv(records)
    BY DEF R!ReputationInv
  <2>2. PICK was : was = records[n]
    OBVIOUS
  <2>3. /\ was \in [successes : Nat, failures : Nat, latency : Nat, tokens : Nat, last_seen : Nat]
        /\ was.last_seen =< now
    BY <2>1, <2>2 DEF R!RecordsInv
  <2>4. was.last_seen \in Nat
    BY <2>3
  <2> QED
    BY <2>1, <2>2, <2>3, <2>4
<1>2. \A i \in 0..MaxTime : Decay[i] \in 0..1000
    BY PartsAssumption, Zenon
<1>3. now - records[n].last_seen \in 0..MaxTime
    BY <1>1, LimiterAssumption
<1> QED
    BY <1>2, <1>3, Zenon

LEMMA QuotientOfItself == ASSUME NEW k \in Nat, k > 0 PROVE (1000 * k) \div k = 1000
OBVIOUS

LEMMA SpeedIsNatural ==
    ASSUME NEW rec \in Counts
    PROVE  R!speed_index(rec) \in Nat /\ (rec.tokens = 0 => R!speed_index(rec) = 0)
<1>1. rec.latency \in Nat /\ rec.tokens \in Nat
    BY DEF Counts
<1>2. rec.latency # 0 => (1000 * rec.tokens) \div (50 * rec.latency) \in Nat
  <2>1. \A k, m \in Nat : m > 0 => k \div m \in Nat
      OBVIOUS
  <2>2. 1000 * rec.tokens \in Nat /\ 50 * rec.latency \in Nat
      BY <1>1
  <2>3. rec.latency # 0 => 50 * rec.latency > 0
      BY <1>1
  <2> QED
      BY <2>1, <2>2, <2>3
<1> QED
    BY <1>1, <1>2 DEF R!speed_index

LEMMA CountsOfRecord ==
    ASSUME R!ReputationInv, NEW n \in DOMAIN records
    PROVE  /\ records[n] \in Counts
           /\ records[n].successes \in Nat /\ records[n].failures \in Nat
           /\ records[n].successes + records[n].failures > 0
           /\ records[n].successes = 0 => records[n].tokens = 0
<1>1. Verdicts \in Nat
    BY PartsAssumption, Zenon
<1> QED
    BY <1>1 DEF R!ReputationInv, R!RecordsInv, Counts

LEMMA RecordRanks == ASSUME R!ReputationInv PROVE RankedByRecord
<1> SUFFICES ASSUME NEW n \in DOMAIN records
             PROVE  /\ records[n].failures = 0 => R!calculate_score(records[n]) >= 500
                    /\ records[n].successes = 0 => R!calculate_score(records[n]) =< 500
    BY DEF RankedByRecord, R!RankedByRecord, R!Good, R!Bad, R!get_score, R!DEFAULT_SCORE
<1>1. PICK rec, score, share : /\ rec = records[n] /\ score = R!calculate_score(records[n])
                               /\ share = Decay[now - rec.last_seen]
    OBVIOUS
<1>2. /\ rec \in Counts /\ rec.successes \in Nat /\ rec.failures \in Nat
      /\ rec.successes + rec.failures > 0
      /\ rec.successes = 0 => rec.tokens = 0
    BY <1>1, CountsOfRecord, Zenon
<1>3. R!speed_index(rec) \in Nat /\ (rec.successes = 0 => R!speed_index(rec) = 0)
    BY <1>2, SpeedIsNatural
<1>4. PICK base : base = (7 * R!success_rate(rec) + 3 * R!speed_index(rec)) \div 10
    OBVIOUS
<1>5. PICK gain : gain = ((base - 500) * share) \div 1000
    OBVIOUS
<1>6. score = 500 + gain
    BY <1>1, <1>2, <1>4, <1>5 DEF R!calculate_score, R!DEFAULT_SCORE
<1>7. share \in 0..1000
    BY <1>1, DecayIsAShare, Zenon
<1>8. ASSUME rec.failures = 0 PROVE score >= 500
  <2>1. R!success_rate(rec) = 1000
      BY <1>2, <1>8, QuotientOfItself DEF R!success_rate
  <2>2. base \in Int /\ base >= 500
      BY <1>3, <1>4, <2>1
  <2>3. gain \in Int /\ gain >= 0
    <3>1. PICK product : product = (base - 500) * share
        OBVIOUS
    <3>2. product \in Int /\ product >= 0
        BY <1>7, <2>2, <3>1
    <3> QED
        BY <1>5, <3>1, <3>2
  <2> QED
      BY <1>6, <2>3
<1>9. ASSUME rec.successes = 0 PROVE score =< 500
  <2>1. R!success_rate(rec) = 0
      BY <1>2, <1>9 DEF R!success_rate
  <2>2. base \in Int /\ base =< 500
      BY <1>3, <1>4, <1>9, <2>1
  <2>3. gain \in Int /\ gain =< 0
    <3>1. PICK product : product = (base - 500) * share
        OBVIOUS
    <3>2. product \in Int /\ product =< 0
        BY <1>7, <2>2, <3>1
    <3> QED
        BY <1>5, <3>1, <3>2
  <2> QED
      BY <1>6, <2>3
<1> QED
    BY <1>1, <1>8, <1>9

\* A quotient does not grow when the divisor does.
LEMMA QuotientShrinks ==
    ASSUME NEW a \in Nat, NEW k \in Nat, k > 0
    PROVE  /\ a \div (k + 1) \in Nat /\ a \div k \in Nat
           /\ a \div (k + 1) =< a \div k
<1>1. PICK q : q = a \div k
    OBVIOUS
<1>2. PICK r : r = a \div (k + 1)
    OBVIOUS
<1>3. q \in Nat /\ a < k * (q + 1)
    BY <1>1
<1>4. r \in Nat /\ (k + 1) * r =< a
    BY <1>2
<1>5. ASSUME r > q PROVE FALSE
  <2>1. r >= q + 1 /\ k * r =< (k + 1) * r
      BY <1>3, <1>4, <1>5
  <2>2. k * (q + 1) =< k * r
      BY <1>3, <1>4, <2>1
  <2>3. k * (q + 1) \in Nat /\ k * r \in Nat /\ (k + 1) * r \in Nat
      BY <1>3, <1>4
  <2> QED
      BY <1>3, <1>4, <2>1, <2>2, <2>3
<1> QED
    BY <1>1, <1>2, <1>3, <1>4, <1>5

\* A first failure takes the score of a peer nobody knows to nothing.
LEMMA FirstFailure ==
    ASSUME R!ReputationInv, NEW n \in Nodes, n \notin DOMAIN records, R!record_failure(n)
    PROVE  R!get_score(n)' =< R!get_score(n)
<1>1. PICK new : new = [successes |-> 0, failures |-> 1, latency |-> 0, tokens |-> 0,
                        last_seen |-> now]
    OBVIOUS
<1>2. records' = R!With(n, new) /\ now' = now
    BY <1>1 DEF R!record_failure, R!Record, R!NewRecord
<1>3. n \in DOMAIN records' /\ records'[n] = new
    BY <1>2 DEF R!With
<1>4. R!get_score(n)' = 500 + ((0 - 500) * Decay[0]) \div 1000
    BY <1>1, <1>2, <1>3
    DEF R!get_score, R!calculate_score, R!success_rate, R!speed_index, R!DEFAULT_SCORE, R!ReputationInv
<1>5. Decay[0] = 1000
    BY PartsAssumption, Zenon
<1>6. R!get_score(n)' = 0
    BY <1>4, <1>5
<1>7. R!get_score(n) = 500
    BY DEF R!get_score, R!DEFAULT_SCORE
<1> QED
    BY <1>6, <1>7

\* One more leaves its speed, its age and its distance from the default, and lowers its rate.
LEMMA FurtherFailure ==
    ASSUME R!ReputationInv, NEW n \in DOMAIN records, n \in Nodes, R!record_failure(n)
    PROVE  R!get_score(n)' =< R!get_score(n)
<1>1. PICK rec, new : rec = records[n] /\ new = [rec EXCEPT !.failures = @ + 1]
    OBVIOUS
<1>2. records' = R!With(n, new) /\ now' = now
    BY <1>1 DEF R!record_failure, R!Record
<1>3. n \in DOMAIN records' /\ records'[n] = new
    BY <1>2 DEF R!With
<1>4. /\ rec \in Counts /\ rec.successes \in Nat /\ rec.failures \in Nat
      /\ rec.successes + rec.failures > 0
    BY <1>1, CountsOfRecord, Zenon
<1>5. /\ new.successes = rec.successes /\ new.failures = rec.failures + 1
      /\ new.latency = rec.latency /\ new.tokens = rec.tokens
      /\ new.last_seen = rec.last_seen
    BY <1>1, <1>4 DEF Counts
<1>6. PICK share : share = Decay[now - rec.last_seen]
    OBVIOUS
<1>6b. share \in 0..1000
    BY <1>1, <1>6, DecayIsAShare, Zenon
<1>7. PICK speed : speed = R!speed_index(rec) /\ speed \in Nat
    BY <1>4, SpeedIsNatural, Zenon
<1>8. R!speed_index(new) = speed
  <2>1. PICK l, t : l = rec.latency /\ t = rec.tokens
      OBVIOUS
  <2>2. new.latency = l /\ new.tokens = t
      BY <1>5, <2>1
  <2>3. R!speed_index(rec) = R!speed_index(new)
      BY <2>1, <2>2 DEF R!speed_index
  <2> QED
      BY <1>7, <2>3
<1>9. PICK rate : rate = R!success_rate(rec)
    OBVIOUS
<1>10. PICK lower : lower = R!success_rate(new)
    OBVIOUS
<1>11. rate \in Nat /\ lower \in Nat /\ lower =< rate
  <2>1. PICK a \in Nat, k \in Nat : a = 1000 * rec.successes /\ k = rec.successes + rec.failures
      BY <1>4
  <2>2. rate = a \div k
      BY <1>9, <2>1 DEF R!success_rate
  <2>3. new.successes + new.failures = k + 1
      BY <1>4, <1>5, <2>1
  <2>4. lower = a \div (k + 1)
      BY <1>5, <1>10, <2>1, <2>3 DEF R!success_rate
  <2> QED
      BY <1>4, <2>1, <2>2, <2>4, QuotientShrinks
<1>12. PICK base, below : /\ base = (7 * rate + 3 * speed) \div 10
                          /\ below = (7 * lower + 3 * speed) \div 10
    OBVIOUS
<1>13. base \in Int /\ below \in Int /\ below =< base
    BY <1>7, <1>11, <1>12
<1>14. R!get_score(n) = 500 + ((base - 500) * share) \div 1000
    BY <1>1, <1>4, <1>6, <1>7, <1>9, <1>12 DEF R!get_score, R!calculate_score, R!DEFAULT_SCORE
<1>15. R!get_score(n)' = 500 + ((below - 500) * share) \div 1000
  <2>1. new.successes + new.failures # 0
      BY <1>4, <1>5
  <2> QED
      BY <1>2, <1>3, <1>5, <1>6, <1>8, <1>10, <1>12, <2>1
      DEF R!get_score, R!calculate_score, R!DEFAULT_SCORE, R!success_rate, R!speed_index
<1>16. PICK x, y : x = (below - 500) * share /\ y = (base - 500) * share
    OBVIOUS
<1>17. x \in Int /\ y \in Int /\ x =< y
  <2>1. x \in Int /\ y \in Int /\ y - x = (base - below) * share
      BY <1>6b, <1>13, <1>16
  <2>2. (base - below) * share >= 0
      BY <1>6b, <1>13
  <2> QED
      BY <2>1, <2>2
<1> QED
    BY <1>14, <1>15, <1>16, <1>17

-----------------------------------------------------------------------------
(* Network statistics. *)

\* A set of numbers that is not empty has a smallest one.
LEMMA Smallest ==
    ASSUME NEW S, S \subseteq Nat, S # {}
    PROVE  \E m \in S : \A y \in S : m =< y
<1> DEFINE less == {ss \in Nat \X Nat : ss[1] < ss[2]}
<1>1. IsWellFoundedOn(less, Nat)
    BY NatLessThanWellFounded DEF OpToRel
<1>2. PICK m \in S : \A y \in S : ~(<<y, m>> \in less)
  <2> HIDE DEF less
  <2> QED
      BY <1>1, WFMin
<1>3. ASSUME NEW y \in S PROVE m =< y
  <2>1. y < m => <<y, m>> \in less
      OBVIOUS
  <2> HIDE DEF less
  <2> QED
      BY <1>2, <2>1
<1> QED
    BY <1>3

\* Every number is in G if 0 is, and G is closed under successors.
LEMMA NatInductionOnSet ==
    ASSUME NEW G, 0 \in G, \A n \in Nat : n \in G => n + 1 \in G
    PROVE  Nat \subseteq G
<1> DEFINE bad == {n \in Nat : n \notin G}
<1>1. SUFFICES ASSUME bad # {} PROVE FALSE
    OBVIOUS
<1>2. PICK m \in bad : \A y \in bad : m =< y
  <2>1. bad \subseteq Nat
      OBVIOUS
  <2> HIDE DEF bad
  <2> QED
      BY <1>1, <2>1, Smallest
<1>3. m \in Nat \ {0} /\ m - 1 \in Nat /\ ~(m =< m - 1)
    OBVIOUS
<1>4. m - 1 \in G
    BY <1>2, <1>3
<1> QED
    BY <1>3, <1>4

\* s lists the n elements of T, each once, those with less of f first.
Ranks(s, n, T, f) ==
    /\ s \in [1..n -> T]
    /\ \A i, j \in 1..n : i # j => s[i] # s[j]
    /\ \A i, j \in 1..n : i < j => f[s[i]] =< f[s[j]]

\* Of a set that is not empty, one element has the least of f.
LEMMA LeastOf ==
    ASSUME NEW T, T # {}, NEW f, \A p \in T : f[p] \in Nat
    PROVE  \E x \in T : \A y \in T : f[x] =< f[y]
<1> DEFINE values == {f[p] : p \in T}
<1>1. PICK m \in values : \A v \in values : m =< v
  <2>1. values # {} /\ values \subseteq Nat
      OBVIOUS
  <2> HIDE DEF values
  <2> QED
      BY <2>1, Smallest
<1> QED
    BY <1>1

\* A finite set can be ranked: the least first, then the others.
LEMMA RankingExists ==
    ASSUME NEW S, IsFiniteSet(S), NEW f, \A p \in S : f[p] \in Nat
    PROVE  \E s : Ranks(s, Cardinality(S), S, f)
<1> DEFINE G == {n \in Nat : \A T \in SUBSET S :
                    IsFiniteSet(T) /\ Cardinality(T) = n => \E s : Ranks(s, n, T, f)}
<1>1. 0 \in G
  <2>1. ASSUME NEW T \in SUBSET S, IsFiniteSet(T), Cardinality(T) = 0
        PROVE  \E s : Ranks(s, 0, T, f)
    <3>1. T = {} /\ 1..0 = {}
        BY <2>1, FS_EmptySet
    <3>2. Ranks([i \in 1..0 |-> i], 0, T, f)
        BY <3>1 DEF Ranks
    <3> QED
        BY <3>2
  <2> QED
      BY <2>1
<1>2. ASSUME NEW n \in Nat, n \in G PROVE n + 1 \in G
  <2> SUFFICES ASSUME NEW T \in SUBSET S, IsFiniteSet(T), Cardinality(T) = n + 1
               PROVE  \E s : Ranks(s, n + 1, T, f)
      OBVIOUS
  <2>1. T # {}
    <3>1. n + 1 # 0
        OBVIOUS
    <3> QED
        BY <3>1, FS_EmptySet
  <2>2. PICK x \in T : \A y \in T : f[x] =< f[y]
      BY <2>1, LeastOf
  <2>3. PICK rest : rest = T \ {x}
      OBVIOUS
  <2>4. IsFiniteSet(rest) /\ Cardinality(rest) = n /\ rest \in SUBSET S
    <3>1. IsFiniteSet(rest) /\ Cardinality(rest) = Cardinality(T) - 1
        BY <2>3, FS_RemoveElement
    <3> QED
        BY <2>3, <3>1
  <2>5. PICK h : Ranks(h, n, rest, f)
      BY <1>2, <2>4
  <2> DEFINE s == [i \in 1..(n + 1) |-> IF i = 1 THEN x ELSE h[i - 1]]
  <2>6. s[1] = x /\ \A i \in 1..(n + 1) : i # 1 =>
            i - 1 \in 1..n /\ s[i] = h[i - 1] /\ s[i] \in T /\ s[i] # x
    <3>1. \A i \in 1..(n + 1) : i # 1 => i - 1 \in 1..n
        OBVIOUS
    <3>2. \A k \in 1..n : h[k] \in T /\ h[k] # x
        BY <2>3, <2>5 DEF Ranks
    <3> QED
        BY <3>1, <3>2
  <2>7. s \in [1..(n + 1) -> T]
      BY <2>6
  <2> HIDE DEF s
  <2>8. ASSUME NEW i \in 1..(n + 1), NEW j \in 1..(n + 1), i # j PROVE s[i] # s[j]
    <3>1. CASE i = 1 \/ j = 1
        BY <2>6, <2>8, <3>1
    <3>2. CASE i # 1 /\ j # 1
      <4>1. PICK k \in 1..n, l \in 1..n : k = i - 1 /\ l = j - 1 /\ s[i] = h[k] /\ s[j] = h[l]
          BY <2>6, <3>2
      <4>2. k # l
          BY <2>8, <4>1
      <4> QED
          BY <2>5, <4>1, <4>2 DEF Ranks
    <3> QED
        BY <3>1, <3>2
  <2>9. ASSUME NEW i \in 1..(n + 1), NEW j \in 1..(n + 1), i < j PROVE f[s[i]] =< f[s[j]]
    <3>1. j # 1
        BY <2>9
    <3>2. CASE i = 1
        BY <2>2, <2>6, <3>1, <3>2
    <3>3. CASE i # 1
      <4>1. PICK k \in 1..n, l \in 1..n : k = i - 1 /\ l = j - 1 /\ s[i] = h[k] /\ s[j] = h[l]
          BY <2>6, <3>1, <3>3
      <4>2. k < l
          BY <2>9, <4>1
      <4> QED
          BY <2>5, <4>1, <4>2 DEF Ranks
    <3> QED
        BY <3>2, <3>3
  <2>10. Ranks(s, n + 1, T, f)
      BY <2>7, <2>8, <2>9 DEF Ranks
  <2> QED
      BY <2>10
<1>3. Nat \subseteq G
  <2> HIDE DEF G
  <2> QED
      BY <1>1, <1>2, NatInductionOnSet
<1>4. Cardinality(S) \in Nat
    BY FS_CardinalityType
<1> QED
    BY <1>3, <1>4

\* The elements from rank a to rank b are b - a + 1.
LEMMA RankedAreMany ==
    ASSUME NEW s, NEW n \in Nat, NEW S, NEW f, IsFiniteSet(S), Ranks(s, n, S, f),
           NEW a \in 1..n, NEW b \in 1..n, a =< b,
           NEW P, P \subseteq S, \A i \in a..b : s[i] \in P
    PROVE  Cardinality(P) \in Nat /\ Cardinality(P) >= b - a + 1
<1>1. IsFiniteSet(P) /\ Cardinality(P) \in Nat
    BY FS_Subset, FS_CardinalityType
<1>2. PICK c : c = [i \in a..b |-> s[i]]
    OBVIOUS
<1>3. c \in [a..b -> P] /\ \A i, j \in a..b : i # j => c[i] # c[j]
    BY <1>2 DEF Ranks
<1>4. c \in Injection(a..b, P)
    BY <1>3 DEF Injection, IsInjective
<1>5. PICK I : I = a..b /\ IsFiniteSet(I) /\ Cardinality(I) = b - a + 1
    BY FS_Interval
<1>6. Cardinality(I) =< Cardinality(P)
    BY <1>1, <1>4, <1>5, FS_Injection
<1> QED
    BY <1>1, <1>5, <1>6

LEMMA Halves ==
    ASSUME NEW n \in Nat
    PROVE  /\ n \div 2 \in Nat
           /\ n = 2 * (n \div 2) \/ n = 2 * (n \div 2) + 1
           /\ n % 2 = 0 <=> n = 2 * (n \div 2)
OBVIOUS

\* The middle of a ranking, or the sum of the two in the middle.
Middle(s, n, f) ==
    IF n % 2 = 0 THEN f[s[n \div 2]] + f[s[n \div 2 + 1]] ELSE 2 * f[s[n \div 2 + 1]]

\* Half of the elements are not above m, and half not below.
Divides(m, S, n, f) ==
    /\ 2 * Cardinality({p \in S : 2 * f[p] =< m}) >= n
    /\ 2 * Cardinality({p \in S : 2 * f[p] >= m}) >= n

LEMMA MiddleDivides ==
    ASSUME NEW S, IsFiniteSet(S), NEW f, \A p \in S : f[p] \in Nat,
           NEW n \in Nat, n = Cardinality(S), n # 0, NEW s, Ranks(s, n, S, f),
           NEW m, m = Middle(s, n, f)
    PROVE  Divides(m, S, n, f)
<1>1. PICK below, above : below = {p \in S : 2 * f[p] =< m} /\ above = {p \in S : 2 * f[p] >= m}
    OBVIOUS
<1>2. below \subseteq S /\ above \subseteq S
    BY <1>1
<1>3. \A i \in 1..n : s[i] \in S /\ f[s[i]] \in Nat
    BY DEF Ranks
<1>4. PICK h \in Nat : h = n \div 2 /\ (n % 2 = 0 => n = 2 * h) /\ (n % 2 # 0 => n = 2 * h + 1)
  <2>1. n \div 2 \in Nat /\ (n = 2 * (n \div 2) \/ n = 2 * (n \div 2) + 1)
        /\ (n % 2 = 0 <=> n = 2 * (n \div 2))
      BY Halves
  <2> QED
      BY <2>1
<1>5. CASE n % 2 = 0
  <2>1. n = 2 * h /\ h \in 1..n /\ h + 1 \in 1..n /\ m = f[s[h]] + f[s[h + 1]]
      BY <1>4, <1>5 DEF Middle
  <2>2. PICK v \in Nat, w \in Nat : v = f[s[h]] /\ w = f[s[h + 1]] /\ v =< w /\ m = v + w
    <3>1. f[s[h]] =< f[s[h + 1]]
        BY <2>1 DEF Ranks
    <3> QED
        BY <1>3, <2>1, <3>1
  <2>3. ASSUME NEW i \in 1..h PROVE s[i] \in below
    <3>1. i \in 1..n /\ (i = h \/ i < h)
        BY <2>1
    <3>2. f[s[i]] =< v /\ f[s[i]] \in Nat
        BY <1>3, <2>1, <2>2, <3>1 DEF Ranks
    <3>3. 2 * f[s[i]] =< m
        BY <2>2, <3>2
    <3> QED
        BY <1>1, <1>3, <3>1, <3>3
  <2>4. ASSUME NEW i \in (h + 1)..n PROVE s[i] \in above
    <3>1. i \in 1..n /\ (i = h + 1 \/ h + 1 < i)
        BY <2>1
    <3>2. w =< f[s[i]] /\ f[s[i]] \in Nat
        BY <1>3, <2>1, <2>2, <3>1 DEF Ranks
    <3>3. 2 * f[s[i]] >= m
        BY <2>2, <3>2
    <3> QED
        BY <1>1, <1>3, <3>1, <3>3
  <2>5. Cardinality(below) \in Nat /\ Cardinality(below) >= h
    <3>1. 1 \in 1..n /\ 1 =< h /\ h - 1 + 1 = h
        BY <2>1
    <3>2. Cardinality(below) \in Nat /\ Cardinality(below) >= h - 1 + 1
        BY <1>2, <2>1, <2>3, <3>1, RankedAreMany
    <3> QED
        BY <3>1, <3>2
  <2>6. Cardinality(above) \in Nat /\ Cardinality(above) >= h
    <3>1. PICK a \in 1..n : a = h + 1 /\ n \in 1..n /\ a =< n /\ n - a + 1 = h
        BY <2>1
    <3>2. Cardinality(above) \in Nat /\ Cardinality(above) >= n - a + 1
        BY <1>2, <2>4, <3>1, RankedAreMany
    <3> QED
        BY <3>1, <3>2
  <2> QED
      BY <1>1, <2>1, <2>5, <2>6 DEF Divides
<1>6. CASE n % 2 # 0
  <2>1. PICK k \in 1..n : k = h + 1 /\ n = 2 * h + 1 /\ m = 2 * f[s[k]]
      BY <1>4, <1>6 DEF Middle
  <2>2. PICK v \in Nat : v = f[s[k]] /\ m = 2 * v
      BY <1>3, <2>1
  <2>3. ASSUME NEW i \in 1..k PROVE s[i] \in below
    <3>1. i \in 1..n /\ (i = k \/ i < k)
        OBVIOUS
    <3>2. f[s[i]] =< v /\ f[s[i]] \in Nat
        BY <1>3, <2>2, <3>1 DEF Ranks
    <3>3. 2 * f[s[i]] =< m
        BY <2>2, <3>2
    <3> QED
        BY <1>1, <1>3, <3>1, <3>3
  <2>4. ASSUME NEW i \in k..n PROVE s[i] \in above
    <3>1. i \in 1..n /\ (i = k \/ k < i)
        OBVIOUS
    <3>2. v =< f[s[i]] /\ f[s[i]] \in Nat
        BY <1>3, <2>2, <3>1 DEF Ranks
    <3>3. 2 * f[s[i]] >= m
        BY <2>2, <3>2
    <3> QED
        BY <1>1, <1>3, <3>1, <3>3
  <2>5. Cardinality(below) \in Nat /\ Cardinality(below) >= k
    <3>1. 1 \in 1..n /\ 1 =< k /\ k - 1 + 1 = k
        OBVIOUS
    <3>2. Cardinality(below) \in Nat /\ Cardinality(below) >= k - 1 + 1
        BY <1>2, <2>3, <3>1, RankedAreMany
    <3> QED
        BY <3>1, <3>2
  <2>6. Cardinality(above) \in Nat /\ Cardinality(above) >= n - k + 1
    <3>1. n \in 1..n /\ k =< n
        OBVIOUS
    <3> QED
        BY <1>2, <2>4, <3>1, RankedAreMany
  <2> QED
      BY <1>1, <2>1, <2>5, <2>6 DEF Divides
<1> QED
    BY <1>5, <1>6

LEMMA SameFiniteness == ASSUME NEW S PROVE N!IsFiniteSet(S) <=> IsFiniteSet(S)
BY Zenon DEF N!IsFiniteSet, IsFiniteSet

LEMMA SameCardinality == ASSUME NEW S PROVE N!Cardinality(S) = Cardinality(S)
BY Zenon DEF N!Cardinality, Cardinality

LEMMA StatsStart == ASSUME N!Init PROVE N!StatsInv
<1>1. DOMAIN << >> = {} /\ << >> \in Seq(Speeds) /\ Len(<< >>) = 0
    OBVIOUS
<1>2. History \in Nat
    BY PartsAssumption
<1>3. N!IsFiniteSet({})
    BY FS_EmptySet, SameFiniteness
<1>4. N!TypeOK
    BY <1>1, <1>2 DEF N!Init, N!TypeOK
<1>5. heard = << >> /\ tps_map = << >>
    BY DEF N!Init
<1> QED
    BY <1>1, <1>3, <1>4, <1>5 DEF N!StatsInv, N!Fresh

\* A heartbeat is kept as the last of its peer.
LEMMA HeartbeatIsKept ==
    ASSUME N!StatsInv, now \in Nat,
           NEW p \in Forwarders, NEW tps \in Speeds, N!feed_heartbeat(p, tps)
    PROVE  N!StatsInv'
<1>1. /\ last_seen' = N!Insert(last_seen, p, now) /\ tps_map' = N!Insert(tps_map, p, tps)
      /\ heard' = N!Insert(heard, p, [tps |-> tps, at |-> now])
      /\ now' = now /\ local_tps_history' = local_tps_history
    BY DEF N!feed_heartbeat
<1>2. /\ DOMAIN tps_map' = DOMAIN tps_map \cup {p} /\ DOMAIN last_seen' = DOMAIN last_seen \cup {p}
      /\ DOMAIN heard' = DOMAIN heard \cup {p}
      /\ tps_map'[p] = tps /\ last_seen'[p] = now /\ heard'[p] = [tps |-> tps, at |-> now]
    BY <1>1 DEF N!Insert
<1>3. ASSUME NEW q, q # p
      PROVE  /\ q \in DOMAIN tps_map => tps_map'[q] = tps_map[q]
             /\ q \in DOMAIN last_seen => last_seen'[q] = last_seen[q]
             /\ q \in DOMAIN heard => heard'[q] = heard[q]
    BY <1>1, <1>3 DEF N!Insert
<1>4. N!TypeOK'
  <2>1. \A q \in DOMAIN tps_map' : tps_map'[q] \in Speeds /\ last_seen'[q] \in 0..now'
      BY <1>1, <1>2, <1>3 DEF N!StatsInv, N!TypeOK
  <2> QED
      BY <1>1, <1>2, <2>1 DEF N!StatsInv, N!TypeOK
<1>5. N!IsFiniteSet(DOMAIN heard)'
  <2>1. IsFiniteSet(DOMAIN heard)
      BY SameFiniteness DEF N!StatsInv
  <2>2. IsFiniteSet(DOMAIN heard')
      BY <1>2, <2>1, FS_AddElement
  <2> QED
      BY <2>2, SameFiniteness
<1>6. \A q \in DOMAIN heard' : heard'[q].tps \in Speeds /\ heard'[q].at \in 0..now'
    BY <1>1, <1>2, <1>3 DEF N!StatsInv
<1>7. \A q \in DOMAIN tps_map' : tps_map'[q] = heard'[q].tps /\ last_seen'[q] = heard'[q].at
    BY <1>2, <1>3 DEF N!StatsInv, N!TypeOK
<1>8. N!Fresh' \subseteq DOMAIN tps_map'
    BY <1>1, <1>2, <1>3 DEF N!StatsInv, N!Fresh
<1> QED
    BY <1>2, <1>4, <1>5, <1>6, <1>7, <1>8 DEF N!StatsInv

\* The history of this node's own speeds stays within its length.
LEMMA InferenceIsKept ==
    ASSUME N!StatsInv, NEW tps \in Speeds, N!record_local_inference(tps)
    PROVE  N!StatsInv'
<1>1. PICK own \in Seq(Speeds) : own = local_tps_history /\ Len(own) =< History
    BY DEF N!StatsInv, N!TypeOK
<1>2. PICK grown \in Seq(Speeds) : grown = Append(own, tps) /\ Len(grown) = Len(own) + 1
  <2>1. Append(own, tps) \in Seq(Speeds) /\ Len(Append(own, tps)) = Len(own) + 1
      OBVIOUS
  <2> QED
      BY <2>1
<1>3. local_tps_history' = IF Len(grown) > History THEN Tail(grown) ELSE grown
    BY <1>1, <1>2 DEF N!record_local_inference
<1>4. Len(own) \in Nat /\ History \in Nat \ {0}
    BY PartsAssumption
<1>5. Tail(grown) \in Seq(Speeds) /\ Len(Tail(grown)) = Len(own)
  <2>1. grown # << >>
      BY <1>2, <1>4
  <2> QED
      BY <1>2, <1>4, <2>1, HeadTailProperties
<1>6. local_tps_history' \in Seq(Speeds) /\ Len(local_tps_history') =< History
    BY <1>1, <1>2, <1>3, <1>4, <1>5
<1>7. UNCHANGED <<now, tps_map, last_seen, heard>>
    BY DEF N!record_local_inference
<1> QED
    BY <1>6, <1>7 DEF N!StatsInv, N!TypeOK, N!Fresh

\* What is evicted is stale.
LEMMA EvictionIsOfStale ==
    ASSUME N!StatsInv, now \in Nat, N!get_median_tps
    PROVE  N!StatsInv'
<1>1. PICK kept : kept = DOMAIN tps_map \ N!Stale
    OBVIOUS
<1>2. /\ tps_map' = [q \in kept |-> tps_map[q]] /\ last_seen' = [q \in kept |-> last_seen[q]]
      /\ UNCHANGED <<now, local_tps_history, heard>> /\ kept \subseteq DOMAIN tps_map
    BY <1>1 DEF N!get_median_tps, N!Restrict, N!StatsInv, N!TypeOK
<1>3. N!Fresh \subseteq kept
    BY <1>1, PartsAssumption DEF N!Fresh, N!Stale, N!StatsInv, N!TypeOK
<1>4. N!TypeOK'
    BY <1>2 DEF N!StatsInv, N!TypeOK
<1>5. N!Fresh' = N!Fresh /\ DOMAIN tps_map' = kept
    BY <1>2 DEF N!Fresh
<1> QED
    BY <1>2, <1>3, <1>4, <1>5 DEF N!StatsInv

\* Time makes nothing fresh.
LEMMA StatsBeside ==
    ASSUME N!StatsInv, now \in Nat, UNCHANGED stats, now' = now \/ now' = now + 1
    PROVE  N!StatsInv'
<1>1. UNCHANGED <<tps_map, last_seen, local_tps_history, heard>>
    BY DEF stats
<1>2. N!TypeOK'
    BY <1>1 DEF N!StatsInv, N!TypeOK
<1>3. N!Fresh' \subseteq N!Fresh
    BY <1>1, PartsAssumption DEF N!StatsInv, N!Fresh
<1>4. \A p \in DOMAIN heard : heard[p].at \in 0..now'
    BY DEF N!StatsInv
<1> QED
    BY <1>1, <1>2, <1>3, <1>4 DEF N!StatsInv

LEMMA StatsStep == ASSUME N!StatsInv, now \in Nat, N!Next PROVE N!StatsInv'
<1>1. CASE N!Tick
    BY <1>1, StatsBeside DEF N!Tick, stats
<1> QED
    BY <1>1, HeartbeatIsKept, InferenceIsKept, EvictionIsOfStale DEF N!Next

\* The ranking of a map of reports is one.
LEMMA RankingRanks ==
    ASSUME NEW reports, NEW S, S = DOMAIN reports, IsFiniteSet(S), \A p \in S : reports[p] \in Nat
    PROVE  Ranks(N!Ranking(reports), Cardinality(S), S, reports)
<1>1. PICK n \in Nat : n = Cardinality(S)
    BY FS_CardinalityType
<1>2. N!SetToSeqs(S) = {g \in [1..n -> S] : \A i, j \in 1..n : i # j => g[i] # g[j]}
    BY <1>1, SameCardinality, Zenon DEF N!SetToSeqs
<1> DEFINE Sorted(g) == \A i, j \in DOMAIN g : i < j => reports[g[i]] =< reports[g[j]]
<1>3. PICK s : Ranks(s, n, S, reports)
    BY <1>1, RankingExists
<1>4. s \in N!SetToSeqs(S) /\ Sorted(s)
  <2>1. s \in [1..n -> S] /\ DOMAIN s = 1..n
      BY <1>3 DEF Ranks
  <2> QED
      BY <1>2, <1>3, <2>1 DEF Ranks
<1>5. PICK r : r = N!Ranking(reports) /\ r \in N!SetToSeqs(S) /\ Sorted(r)
  <2>1. N!Ranking(reports) = CHOOSE g \in N!SetToSeqs(S) : Sorted(g)
      BY DEF N!Ranking
  <2> HIDE DEF Sorted
  <2> QED
      BY <1>4, <2>1
<1>6. r \in [1..n -> S] /\ DOMAIN r = 1..n /\ \A i, j \in 1..n : i # j => r[i] # r[j]
    BY <1>2, <1>5
<1>7. Ranks(r, n, S, reports)
    BY <1>5, <1>6 DEF Ranks
<1> QED
    BY <1>1, <1>5, <1>7

LEMMA MedianIsOfFresh == ASSUME N!StatsInv, now \in Nat PROVE MedianOfFresh
<1>1. PICK S, reports : S = N!Fresh /\ reports = [p \in S |-> tps_map[p]]
    OBVIOUS
<1>2. DOMAIN tps_map \ N!Stale = S
    BY <1>1, PartsAssumption DEF N!Fresh, N!Stale, N!StatsInv, N!TypeOK
<1>3. N!MedianNow = N!MiddleOf(reports)
    BY <1>1, <1>2 DEF N!MedianNow, N!Restrict
<1>4. IsFiniteSet(S)
  <2>1. IsFiniteSet(DOMAIN heard) /\ S \subseteq DOMAIN heard
      BY <1>1, SameFiniteness DEF N!StatsInv, N!Fresh
  <2> QED
      BY <2>1, FS_Subset
<1>5. \A p \in S : reports[p] = heard[p].tps /\ reports[p] \in Nat
  <2>1. \A p \in S : p \in DOMAIN tps_map /\ reports[p] = tps_map[p]
      BY <1>1 DEF N!StatsInv
  <2>2. \A p \in DOMAIN tps_map : tps_map[p] = heard[p].tps /\ tps_map[p] \in Speeds
      BY DEF N!StatsInv, N!TypeOK
  <2>3. Speeds \subseteq Nat
      BY PartsAssumption
  <2> QED
      BY <2>1, <2>2, <2>3
<1>6. PICK n \in Nat : n = Cardinality(S)
    BY <1>4, FS_CardinalityType
<1>7. PICK s : s = N!Ranking(reports) /\ Ranks(s, n, S, reports)
    BY <1>1, <1>4, <1>5, <1>6, RankingRanks
<1>8. Len(s) = n /\ (s = << >> <=> n = 0)
  <2>1. s \in [1..n -> S]
      BY <1>7 DEF Ranks
  <2>2. s \in Seq(S) /\ Len(s) = n
      BY <2>1
  <2> QED
      BY <2>2, EmptySeq
<1>9. PICK m : m = N!MedianNow
    OBVIOUS
<1>10. CASE n = 0
  <2>1. S = {}
      BY <1>4, <1>6, <1>10, FS_EmptySet
  <2>2. m = 2 * Default
      BY <1>3, <1>7, <1>8, <1>9, <1>10 DEF N!MiddleOf
  <2> QED
      BY <1>1, <1>9, <2>1, <2>2 DEF MedianOfFresh, N!MedianOfFresh
<1>11. CASE n # 0
  <2>1. m = Middle(s, n, reports)
    <3>1. PICK h \in Nat : h = n \div 2
        BY Halves
    <3>2. m = IF n % 2 = 0 THEN reports[s[(h - 1) + 1]] + reports[s[h + 1]] ELSE 2 * reports[s[h + 1]]
        BY <1>3, <1>7, <1>8, <1>9, <1>11, <3>1, Zenon DEF N!MiddleOf
    <3>3. (h - 1) + 1 = h
        BY <3>1
    <3> QED
        BY <3>1, <3>2, <3>3, Zenon DEF Middle
  <2>2. /\ 2 * Cardinality({p \in S : 2 * reports[p] =< m}) >= n
        /\ 2 * Cardinality({p \in S : 2 * reports[p] >= m}) >= n
    <3>1. Divides(m, S, n, reports)
        BY <1>4, <1>5, <1>6, <1>7, <1>11, <2>1, MiddleDivides
    <3> QED
        BY <3>1 DEF Divides
  <2>3. /\ {p \in S : 2 * reports[p] =< m} = {p \in S : 2 * heard[p].tps =< m}
        /\ {p \in S : 2 * reports[p] >= m} = {p \in S : 2 * heard[p].tps >= m}
      BY <1>5
  <2>4. /\ 2 * N!Cardinality({p \in S : 2 * heard[p].tps =< m}) >= N!Cardinality(S)
        /\ 2 * N!Cardinality({p \in S : 2 * heard[p].tps >= m}) >= N!Cardinality(S)
      BY <1>6, <2>2, <2>3, SameCardinality
  <2>5. S # {}
      BY <1>6, <1>11, FS_EmptySet
  <2> QED
      BY <1>1, <1>9, <2>4, <2>5, Zenon DEF MedianOfFresh, N!MedianOfFresh
<1> QED
    BY <1>10, <1>11

-----------------------------------------------------------------------------
(* The parts beside each other. *)

\* The clock is the limiter's too: with its own state unchanged, the step of another
\* part is a tick or nothing to it.
LEMMA LimiterBeside ==
    ASSUME LimiterInv, UNCHANGED limiter, now' = now \/ (now < MaxTime /\ now' = now + 1)
    PROVE  LimiterInv'
<1>1. [Next]_vars
    BY DEF Next, Tick, vars, limiter
<1> QED
    BY <1>1, LimiterStep

LEMMA DirectoryBeside == ASSUME D!DirectoryInv, UNCHANGED directory PROVE D!DirectoryInv'
BY DEF D!DirectoryInv, D!TypeOK, directory

LEMMA PartsStep == PartsInv /\ [PartsNext]_partsVars => PartsInv'
<1> SUFFICES ASSUME PartsInv, [PartsNext]_partsVars PROVE PartsInv'
    OBVIOUS
<1> USE DEF PartsInv
<1>0. now \in Nat /\ MaxTime \in Nat
    BY LimiterAssumption DEF R!ReputationInv
<1>1. CASE part = "limiter" /\ Next /\ UNCHANGED <<stats, reputation, directory>>
  <2>1. now' = now \/ (now < MaxTime /\ now' = now + 1)
      BY <1>1 DEF Next, check_limit, Tick
  <2> QED
      BY <1>0, <1>1, <2>1, LimiterStep, StatsBeside, RecordsKeep, DirectoryBeside
<1>2. CASE part = "stats" /\ N!Next /\ UNCHANGED <<limiter, reputation, directory>>
  <2>1. now' = now \/ (now < MaxTime /\ now' = now + 1)
      BY <1>2 DEF N!Next, N!feed_heartbeat, N!record_local_inference, N!get_median_tps, N!Tick
  <2> QED
      BY <1>0, <1>2, <2>1, LimiterBeside, StatsStep, RecordsKeep, DirectoryBeside
<1>3. CASE part = "reputation" /\ R!Next /\ UNCHANGED <<limiter, stats, directory>>
  <2>1. now' = now \/ (now < MaxTime /\ now' = now + 1)
    <3>1. ASSUME NEW n \in Nodes, NEW cost \in Costs, R!record_success(n, cost) PROVE now' = now
        BY <3>1, Zenon DEF R!record_success
    <3>2. ASSUME NEW n \in Nodes, R!record_failure(n) PROVE now' = now
        BY <3>2, Zenon DEF R!record_failure
    <3> QED
        BY <1>3, <3>1, <3>2, Zenon DEF R!Next, R!Restart, R!prune_stale, R!Tick
  <2>2. R!ReputationInv'
      BY <1>3, VerdictIsRecorded, RecordsAreTakenBack, RecordsKeep DEF R!Next, R!Tick, reputation
  <2> QED
      BY <1>0, <1>3, <2>1, <2>2, LimiterBeside, StatsBeside, DirectoryBeside
<1>4. CASE part = "directory" /\ D!Next /\ UNCHANGED <<now, limiter, stats, reputation>>
  <2>1. D!DirectoryInv'
      BY <1>4, ProcessesComeAndGo, KeyIsLoadedOrMade DEF D!Next
  <2> QED
      BY <1>0, <1>4, <2>1, LimiterBeside, StatsBeside, RecordsKeep
<1>5. CASE UNCHANGED partsVars
    BY <1>0, <1>5, LimiterBeside, StatsBeside, RecordsKeep, DirectoryBeside DEF partsVars
<1> QED
    BY <1>1, <1>2, <1>3, <1>4, <1>5 DEF PartsNext

LEMMA PartsInvariance == PartsSpec => []PartsInv
<1>1. PartsInit => PartsInv
    BY InitLimiter, StatsStart, ReputationStarts, DirectoryStarts DEF PartsInit, PartsInv
<1> QED
    BY <1>1, PartsStep, PTL DEF PartsSpec, partsVars

\* Calls and visits, reports and their instants, records and their file, processes and
\* their keys stay well formed.
THEOREM PartsAreWellFormed == PartsSpec => []PartsTypeOK
<1>1. PartsInv => PartsTypeOK
  <2> SUFFICES ASSUME PartsInv PROVE PartsTypeOK
      OBVIOUS
  <2>1. TypeOK /\ N!TypeOK /\ D!TypeOK
      BY DEF PartsInv, LimiterInv, N!StatsInv, D!DirectoryInv
  <2>2. R!TypeOK
      BY DEF PartsInv, R!ReputationInv, R!RecordsInv, R!TypeOK, R!IsRecords
  <2> QED
      BY <2>1, <2>2 DEF PartsTypeOK
<1> QED
    BY <1>1, PartsInvariance, PTL

\* The median of the network lies in the middle of the reports that are fresh: at least
\* half of the peers heard of lately are not faster, and at least half not slower.
THEOREM PartsMedianOfFresh == PartsSpec => []MedianOfFresh
<1>1. PartsInv => MedianOfFresh
  <2>1. PartsInv => N!StatsInv /\ now \in Nat
      BY DEF PartsInv, R!ReputationInv
  <2> QED
      BY <2>1, MedianIsOfFresh
<1> QED
    BY <1>1, PartsInvariance, PTL

\* The limiter's two properties hold of it beside the other parts.
THEOREM PartsKeepLimit == PartsSpec => [](AtMostLimit /\ RefusedOnlyAtLimit)
<1>1. PartsInv => AtMostLimit /\ RefusedOnlyAtLimit
    BY DEF PartsInv, LimiterInv
<1> QED
    BY <1>1, PartsInvariance, PTL

\* A peer that only succeeded is never ranked below an unknown one, nor one that only
\* failed above it: through decay, restarts, failed saves and pruning.
THEOREM PartsRankByRecord == PartsSpec => []RankedByRecord
<1>1. PartsInv => RankedByRecord
    BY RecordRanks DEF PartsInv
<1> QED
    BY <1>1, PartsInvariance, PTL

\* A failure never moves a peer up.
THEOREM PartsFailureNeverHelps == PartsSpec => FailureNeverHelps
<1> DEFINE Lowers == \A n \in Nodes : R!record_failure(n) => R!get_score(n)' =< R!get_score(n)
<1>1. PartsInv => [Lowers]_(R!vars)
    BY FirstFailure, FurtherFailure DEF PartsInv
<1>2. [][Lowers]_(R!vars) => FailureNeverHelps
    BY DEF FailureNeverHelps, R!FailureNeverHelps
<1> QED
    BY <1>1, <1>2, PartsInvariance, PTL

\* Where the lock excludes, a data directory has one identity for ever.
THEOREM PartsKeepOneIdentity == PartsSpec => []OneIdentity
<1>1. PartsInv => OneIdentity
    BY DirectoryHasOneIdentity DEF PartsInv
<1> QED
    BY <1>1, PartsInvariance, PTL
=============================================================================
