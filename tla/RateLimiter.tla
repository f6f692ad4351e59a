----------------------------- MODULE RateLimiter -----------------------------
(***************************************************************************)
(* The sliding window in front of the HTTP gateway: RateLimiter of         *)
(* src/main.rs.  check_limit runs under a mutex and reads a monotonic      *)
(* clock, so that every call is one step.  `visits` holds the calls that   *)
(* were let through and not yet dropped; the instant of each is at[c].     *)
(***************************************************************************)
EXTENDS Integers, FiniteSets

CONSTANTS
    Calls,          \* HTTP requests
    Addresses,      \* IP addresses
    From,           \* the address each request comes from
    limit,          \* 60 requests
    window,         \* per 60 seconds
    MaxTime         \* bound: the clock stops here

ASSUME LimiterAssumption ==
    /\ From \in [Calls -> Addresses]
    /\ limit \in Nat /\ window \in Nat \ {0}
    /\ MaxTime \in Nat

VARIABLES
    now,            \* Instant::now()
    visits,         \* per address, the calls whose instants are kept
    at,             \* when each call was made; in the future when it was not yet
    allowed         \* the calls let through

vars == <<now, visits, at, allowed>>

NotYet == MaxTime + 1

Init ==
    /\ now = 0
    /\ visits = [a \in Addresses |-> {}]
    /\ at = [c \in Calls |-> NotYet]
    /\ allowed = {}

\* Mutant: an instant is kept for one unit too few.
RecentTooBriefly(a) == {v \in visits[a] : now - at[v] < window - 1}

Recent(a) == {v \in visits[a] : now - at[v] < window}

\* Mutant: a refused call is kept as well.
check_limit_counting_refused(c) ==
    LET a == From[c] IN
    /\ at[c] = NotYet
    /\ at' = [at EXCEPT ![c] = now]
    /\ visits' = [visits EXCEPT ![a] = Recent(a) \cup {c}]
    /\ allowed' = IF Cardinality(Recent(a)) < limit THEN allowed \cup {c} ELSE allowed
    /\ UNCHANGED now

check_limit(c) ==
    LET a == From[c] IN
    /\ at[c] = NotYet
    /\ at' = [at EXCEPT ![c] = now]
    /\ IF Cardinality(Recent(a)) < limit
       THEN /\ visits' = [visits EXCEPT ![a] = Recent(a) \cup {c}]
            /\ allowed' = allowed \cup {c}
       ELSE /\ visits' = [visits EXCEPT ![a] = Recent(a)]
            /\ UNCHANGED allowed
    /\ UNCHANGED now

Tick ==
    /\ now < MaxTime
    /\ now' = now + 1
    /\ UNCHANGED <<visits, at, allowed>>

Next ==
    \/ \E c \in Calls : check_limit(c)
    \/ Tick

Spec == Init /\ [][Next]_vars

-----------------------------------------------------------------------------
TypeOK ==
    /\ now \in 0..MaxTime
    /\ visits \in [Addresses -> SUBSET Calls]
    /\ at \in [Calls -> 0..NotYet]
    /\ allowed \in SUBSET Calls

\* The calls of an address that were let through from one instant on, for a window.
Through(a, from) ==
    {c \in allowed : From[c] = a /\ from =< at[c] /\ at[c] < from + window}

\* No window of time, wherever it begins, holds more than `limit` requests of one
\* address that were let through.
AtMostLimit ==
    \A a \in Addresses, from \in 0..MaxTime : Cardinality(Through(a, from)) =< limit

\* A request is refused only if `limit` others of its address went through within
\* the window that ends with it: requests that were refused themselves, or are
\* older, never keep an address out.
RefusedOnlyAtLimit ==
    \A c \in Calls : at[c] # NotYet /\ c \notin allowed =>
        Cardinality(Through(From[c], at[c] + 1 - window)) >= limit

-----------------------------------------------------------------------------
(* What makes both inductive: the kept instants are those of calls that were let  *)
(* through, and include all of them that are younger than the window.             *)
LimiterInv ==
    /\ TypeOK
    /\ IsFiniteSet(allowed)
    /\ \A c \in allowed : at[c] =< now
    /\ \A a \in Addresses :
          /\ visits[a] \subseteq {c \in allowed : From[c] = a}
          /\ \A c \in allowed : From[c] = a /\ now - at[c] < window => c \in visits[a]
    /\ AtMostLimit
    /\ RefusedOnlyAtLimit
=============================================================================
