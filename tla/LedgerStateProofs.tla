-------------------------- MODULE LedgerStateProofs --------------------------
(***************************************************************************)
(* What the operations on one ledger make of a LedgerState is one: lemmas  *)
(* for the proofs of Ledger, Replication and Gateway.                      *)
(***************************************************************************)
EXTENDS LedgerState, FiniteSetTheorems, TLAPS

\* HashMap::insert keeps a map a map.
LEMMA PutIsMap ==
    ASSUME NEW K, NEW V, NEW m, IsMap(m, K, V), NEW k \in K, NEW v \in V
    PROVE  /\ IsMap(Put(m, k, v), K, V)
           /\ DOMAIN Put(m, k, v) = DOMAIN m \cup {k}
           /\ Put(m, k, v)[k] = v
           /\ \A x \in DOMAIN m : x # k => Put(m, k, v)[x] = m[x]
  BY DEF IsMap, Put

\* A balance that is looked up is a u64, known account or not.
LEMMA BalanceIsU64 ==
    ASSUME NEW s, IsLedgerState(s), NEW a \in Accounts
    PROVE  get_balance(s, a) \in 0..MaxU64
  BY AgesAssumption DEF IsLedgerState, IsMap, get_balance

\* The checks before a payment keep both new balances in u64.
LEMMA MoveIsMap ==
    ASSUME NEW s, IsLedgerState(s),
           NEW from \in Accounts, NEW to \in Accounts, NEW amount \in Nat,
           CanMove(s, from, to, amount)
    PROVE  IsMap(Move(s, from, to, amount), Accounts, 0..MaxU64)
  <1> DEFINE debited == Put(s.balances, from, get_balance(s, from) - amount)
  <1>1. /\ get_balance(s, from) \in 0..MaxU64
        /\ get_balance(s, to) \in 0..MaxU64
    BY BalanceIsU64
  <1>2. /\ get_balance(s, from) - amount \in 0..MaxU64
        /\ get_balance(s, to) + amount \in 0..MaxU64
    BY <1>1, AgesAssumption DEF CanMove
  <1>3. IsMap(s.balances, Accounts, 0..MaxU64)
    BY DEF IsLedgerState
  <1>4. IsMap(debited, Accounts, 0..MaxU64)
    <2> HIDE DEF debited
    <2> QED BY <1>2, <1>3, PutIsMap DEF debited
  <1>5. IsMap(Put(debited, to, get_balance(s, to) + amount), Accounts, 0..MaxU64)
    <2> HIDE DEF debited
    <2> QED BY <1>2, <1>4, PutIsMap
  <1> QED BY <1>5 DEF Move

\* Executing an acceptable receipt leaves a LedgerState.
LEMMA PaidIsLedgerState ==
    ASSUME NEW s, IsLedgerState(s), NEW r \in Receipts, Acceptable(s, r)
    PROVE  IsLedgerState(Paid(s, r))
  <1> DEFINE b == Move(s, Receipt[r].client_pubkey, Receipt[r].node_pubkey, Receipt[r].amount_nano)
             t == Put(s.receipt_timestamps, r, Receipt[r].timestamp)
             c == s.claimed_receipts \cup {r}
  <1>1. /\ Receipt[r].client_pubkey \in Accounts
        /\ Receipt[r].node_pubkey \in Accounts
        /\ Receipt[r].amount_nano \in Nat
        /\ Receipt[r].timestamp \in Nat
    BY ReceiptAssumption DEF ReceiptType
  <1>2. IsMap(b, Accounts, 0..MaxU64)
    BY <1>1, MoveIsMap DEF Acceptable
  <1>3. IsMap(t, Receipts, Nat)
    BY <1>1, PutIsMap DEF IsLedgerState
  <1>4. c \subseteq Receipts
    BY DEF IsLedgerState
  <1>5. Paid(s, r) = [balances |-> b, claimed_receipts |-> c, receipt_timestamps |-> t]
    BY DEF Paid
  <1> HIDE DEF b, t, c
  <1> QED BY <1>2, <1>3, <1>4, <1>5 DEF IsLedgerState

\* Merging a peer's export leaves a LedgerState.
LEMMA MergedIsLedgerState ==
    ASSUME NEW s, IsLedgerState(s), NEW t0 \in Nat,
           NEW ext, IsMap(ext.balances, Accounts, 0..MaxU64), ext.claimed_receipts \subseteq Receipts
    PROVE  IsLedgerState(Merged(s, ext, t0))
  <1>1. IsMap(Merged(s, ext, t0).balances, Accounts, 0..MaxU64)
    BY DEF IsLedgerState, IsMap, Merged
  <1>2. IsMap(Merged(s, ext, t0).receipt_timestamps, Receipts, Nat)
    BY DEF IsLedgerState, IsMap, Merged
  <1>3. Merged(s, ext, t0).claimed_receipts \subseteq Receipts
    BY DEF IsLedgerState, Merged
  <1> QED BY <1>1, <1>2, <1>3 DEF IsLedgerState, Merged

\* Pruning leaves a LedgerState.
LEMMA PrunedIsLedgerState ==
    ASSUME NEW s, IsLedgerState(s), NEW t0 \in Nat
    PROVE  IsLedgerState(Pruned(s, t0))
  <1>1. IsMap(Pruned(s, t0).receipt_timestamps, Receipts, Nat)
    BY DEF IsLedgerState, IsMap, Pruned
  <1> QED BY <1>1 DEF IsLedgerState, Pruned

-----------------------------------------------------------------------------
(* Induction over a finite set, and over the natural numbers.  They are stated for a   *)
(* set G of the things the induction shows, not for a predicate: the provers can take *)
(* a set as the instance of a lemma, and not an operator.                             *)

\* A set is in G if every one of its parts is when all smaller parts are.
LEMMA StrongFiniteInduction ==
    ASSUME NEW S, IsFiniteSet(S), NEW G,
           \A T \in SUBSET S : (\A U \in SUBSET T : U # T => U \in G) => T \in G
    PROVE  S \in G
  <1> DEFINE bad == {T \in SUBSET S : T \notin G}
  <1>1. SUFFICES ASSUME S \notin G PROVE FALSE
    OBVIOUS
  <1>2. bad \subseteq FiniteSubsetsOf(S) /\ bad # {}
    BY <1>1, FS_Subset DEF FiniteSubsetsOf
  <1>3. PICK T \in bad : \A U \in bad : ~(<<U, T>> \in StrictSubsetOrdering(S))
    <2> HIDE DEF bad
    <2> QED BY <1>2, FS_StrictSubsetOrderingWellFounded, WFMin
  <1>4. \A U \in SUBSET T : U # T => U \in G
    BY <1>3 DEF StrictSubsetOrdering
  <1> QED BY <1>3, <1>4

\* A finite set is in G if the empty set is, and G is closed under one element more.
LEMMA FiniteInduction ==
    ASSUME NEW S, IsFiniteSet(S), NEW G, {} \in G,
           \A T \in SUBSET S : \A x \in S \ T : T \in G => T \cup {x} \in G
    PROVE  S \in G
  <1> SUFFICES ASSUME NEW T \in SUBSET S, \A U \in SUBSET T : U # T => U \in G
               PROVE  T \in G
    BY StrongFiniteInduction
  <1>1. CASE T = {}
    BY <1>1
  <1>2. ASSUME NEW x \in T PROVE T \in G
    <2>1. T \ {x} \in G /\ (T \ {x}) \cup {x} = T
      BY <1>2
    <2> QED BY <1>2, <2>1
  <1> QED BY <1>1, <1>2

\* Every number is in G if 0 is, and G is closed under successors.
LEMMA NatInductionOnSet ==
    ASSUME NEW G, 0 \in G, \A n \in Nat : n \in G => n + 1 \in G
    PROVE  Nat \subseteq G
  <1> DEFINE bad == {n \in Nat : n \notin G}
  <1>1. SUFFICES ASSUME bad # {} PROVE FALSE
    OBVIOUS
  <1> DEFINE less == {ss \in Nat \X Nat : ss[1] < ss[2]}
  <1>0. IsWellFoundedOn(less, Nat)
    BY NatLessThanWellFounded DEF OpToRel
  <1>2. PICK n \in bad : \A m \in bad : ~(<<m, n>> \in less)
    <2>1. bad \subseteq Nat
      OBVIOUS
    <2> HIDE DEF bad, less
    <2> QED BY <1>0, <1>1, <2>1, WFMin
  <1>3. n \in Nat \ {0} /\ n - 1 \in Nat
    OBVIOUS
  <1>4. <<n - 1, n>> \in less
    BY <1>3
  <1>5. n - 1 \in G
    <2> HIDE DEF less
    <2> QED BY <1>2, <1>3, <1>4
  <1> QED BY <1>3, <1>5

-----------------------------------------------------------------------------
(* Sums over a finite set.  The sum of the community modules is a recursive function   *)
(* on the subsets of S, which takes them apart by CHOOSE: that there is such a function*)
(* is shown one cardinality after the other.                                           *)

\* The element that is taken out first.
Chosen(s) == CHOOSE x \in s : TRUE

\* It is an element.
LEMMA ChosenIn == ASSUME NEW s, s # {} PROVE Chosen(s) \in s
  BY DEF Chosen

Iter(f, S) == CHOOSE g : g = [s \in SUBSET S |-> IF s = {} THEN 0 ELSE f[Chosen(s)] + g[s \ {Chosen(s)}]]

IsIter(g, f, D) == g = [s \in D |-> IF s = {} THEN 0 ELSE f[Chosen(s)] + g[s \ {Chosen(s)}]]

Level(S, n) == {s \in SUBSET S : Cardinality(s) =< n}

\* A function that is made from another one as the recursion says, and agrees with
\* it where the recursion leads to, satisfies the recursion.
LEMMA IterFromOther ==
    ASSUME NEW f, NEW g, NEW D, NEW H,
           H = [s \in D |-> IF s = {} THEN 0
                            ELSE f[Chosen(s)] + g[s \ {Chosen(s)}]],
           \A s \in D : s # {} =>
               H[s \ {Chosen(s)}] = g[s \ {Chosen(s)}]
    PROVE  IsIter(H, f, D)
  <1> DEFINE K == [s \in D |-> IF s = {} THEN 0
                               ELSE f[Chosen(s)] + H[s \ {Chosen(s)}]]
  <1>1. ASSUME NEW s \in D PROVE H[s] = K[s]
    <2>1. CASE s = {}
      BY <2>1
    <2>2. CASE s # {}
      <3>1. PICK x : x = Chosen(s)
        OBVIOUS
      <3>2. H[s] = f[x] + g[s \ {x}] /\ K[s] = f[x] + H[s \ {x}] /\ H[s \ {x}] = g[s \ {x}]
        BY <2>2, <3>1
      <3> QED BY <3>2
    <2> QED BY <2>1, <2>2
  <1>2. H = K
    BY <1>1
  <1> QED BY <1>2 DEF IsIter

\* On the subsets of n elements at most, there is a function as the recursion says.
LEMMA IterOnLevels ==
    ASSUME NEW f, NEW S, IsFiniteSet(S), NEW n \in Nat
    PROVE  \E g : IsIter(g, f, Level(S, n))
  <1> DEFINE G == {k \in Nat : \E g : IsIter(g, f, Level(S, k))}
  <1>a. \A s \in SUBSET S : IsFiniteSet(s) /\ Cardinality(s) \in Nat
    BY FS_Subset, FS_CardinalityType
  <1>b. ASSUME NEW s \in SUBSET S, NEW x \in s
        PROVE  Cardinality(s \ {x}) = Cardinality(s) - 1
    BY <1>a, FS_RemoveElement
  <1>1. 0 \in G
    <2>1. Level(S, 0) = {{}}
      BY <1>a, FS_EmptySet DEF Level
    <2>2. IsIter([s \in {{}} |-> 0], f, {{}})
      BY DEF IsIter
    <2> QED BY <2>1, <2>2
  <1>2. ASSUME NEW k \in Nat, k \in G PROVE k + 1 \in G
    <2>1. PICK g : IsIter(g, f, Level(S, k))
      BY <1>2
    <2> DEFINE h == [s \in Level(S, k + 1) |-> IF s = {} THEN 0 ELSE f[Chosen(s)] + g[s \ {Chosen(s)}]]
    <2>2. \A s \in Level(S, k) : s \in Level(S, k + 1) /\ h[s] = g[s]
      <3> SUFFICES ASSUME NEW s \in Level(S, k) PROVE s \in Level(S, k + 1) /\ h[s] = g[s]
        OBVIOUS
      <3>1. s \in Level(S, k + 1)
        BY <1>a DEF Level
      <3>2. g[s] = IF s = {} THEN 0 ELSE f[Chosen(s)] + g[s \ {Chosen(s)}]
        BY <2>1 DEF IsIter
      <3> QED BY <3>1, <3>2
    <2>3. \A s \in Level(S, k + 1) : s # {} => s \ {Chosen(s)} \in Level(S, k)
      <3> SUFFICES ASSUME NEW s \in Level(S, k + 1), NEW x \in s PROVE s \ {x} \in Level(S, k)
        BY ChosenIn
      <3>1. s \in SUBSET S /\ Cardinality(s) \in Nat /\ Cardinality(s) =< k + 1
        BY <1>a DEF Level
      <3>2. Cardinality(s \ {x}) = Cardinality(s) - 1
        BY <1>b, <3>1
      <3> QED BY <3>1, <3>2 DEF Level
    <2>4. \A s \in Level(S, k + 1) : s # {} => h[s \ {Chosen(s)}] = g[s \ {Chosen(s)}]
      BY <2>2, <2>3
    <2>5. PICK L, H : L = Level(S, k + 1) /\ H = h
      OBVIOUS
    <2>6. H = [s \in L |-> IF s = {} THEN 0
                           ELSE f[Chosen(s)] + g[s \ {Chosen(s)}]]
      BY <2>5
    <2>7. \A s \in L : s # {} => H[s \ {Chosen(s)}] = g[s \ {Chosen(s)}]
      BY <2>4, <2>5
    <2>8. IsIter(H, f, L)
      <3> HIDE DEF h
      <3> QED BY <2>6, <2>7, IterFromOther, Zenon
    <2> QED BY <2>5, <2>8
  <1>3. Nat \subseteq G
    <2> HIDE DEF G
    <2> QED BY <1>1, <1>2, NatInductionOnSet
  <1> QED BY <1>3

\* Iter is a function as its recursion says.
LEMMA IterDef ==
    ASSUME NEW f, NEW S, IsFiniteSet(S)
    PROVE  IsIter(Iter(f, S), f, SUBSET S)
  <1>1. Cardinality(S) \in Nat /\ Level(S, Cardinality(S)) = SUBSET S
    <2>1. \A T \in SUBSET S : Cardinality(T) =< Cardinality(S)
      BY FS_Subset
    <2> QED BY <2>1, FS_CardinalityType DEF Level
  <1>2. PICK g : IsIter(g, f, Level(S, Cardinality(S)))
    BY <1>1, IterOnLevels
  <1>3. IsIter(CHOOSE h : IsIter(h, f, SUBSET S), f, SUBSET S)
    BY <1>1, <1>2
  <1>4. Iter(f, S) = CHOOSE h : IsIter(h, f, SUBSET S)
    BY DEF Iter, IsIter
  <1> QED BY <1>3, <1>4

\* The sum is the value of that function on the whole set.
LEMMA SumIsIter ==
    ASSUME NEW f, NEW S
    PROVE  SumFunctionOnSet(f, S) = Iter(f, S)[S]
  BY DEF SumFunctionOnSet, FoldFunctionOnSet, MapThenFoldSet, Iter, Chosen

\* The iteration takes one element after the other, in an order of its own...
LEMMA IterStep ==
    ASSUME NEW f, NEW S, IsFiniteSet(S), NEW T \in SUBSET S
    PROVE  /\ T = {} => Iter(f, S)[T] = 0
           /\ T # {} => \E x \in T : Iter(f, S)[T] = f[x] + Iter(f, S)[T \ {x}]
  <1> DEFINE g == Iter(f, S)
  <1>1. IsIter(g, f, SUBSET S)
    BY IterDef
  <1> HIDE DEF g
  <1>2. g[T] = IF T = {} THEN 0 ELSE f[Chosen(T)] + g[T \ {Chosen(T)}]
    BY <1>1 DEF IsIter
  <1> QED BY <1>2, ChosenIn DEF g

\* Sums of integers are integers.
LEMMA IterInt ==
    ASSUME NEW f, NEW S, IsFiniteSet(S), \A x \in S : f[x] \in Int
    PROVE  \A T \in SUBSET S : Iter(f, S)[T] \in Int
  <1> DEFINE G == {U \in SUBSET S : Iter(f, S)[U] \in Int}
  <1> SUFFICES ASSUME NEW T \in SUBSET S PROVE T \in G
    OBVIOUS
  <1>1. IsFiniteSet(T)
    BY FS_Subset
  <1>2. ASSUME NEW U \in SUBSET T, \A V \in SUBSET U : V # U => V \in G
        PROVE  U \in G
    <2>1. CASE U = {}
      BY <2>1, IterStep
    <2>2. CASE U # {}
      <3>1. PICK x \in U : Iter(f, S)[U] = f[x] + Iter(f, S)[U \ {x}]
        BY <2>2, IterStep
      <3>2. U \ {x} \in G
        BY <1>2
      <3>3. f[x] \in Int /\ Iter(f, S)[U \ {x}] \in Int
        BY <3>2
      <3> QED BY <3>1, <3>3
    <2> QED BY <2>1, <2>2
  <1> QED
    <2> HIDE DEF G
    <2> QED BY <1>1, <1>2, StrongFiniteInduction

\* ... and does not depend on that order.
LEMMA IterAny ==
    ASSUME NEW f, NEW S, IsFiniteSet(S), \A x \in S : f[x] \in Int
    PROVE  \A T \in SUBSET S : \A x \in T : Iter(f, S)[T] = f[x] + Iter(f, S)[T \ {x}]
  <1> DEFINE g == Iter(f, S)
             G == {U \in SUBSET S : \A x \in U : g[U] = f[x] + g[U \ {x}]}
  <1> SUFFICES ASSUME NEW T \in SUBSET S PROVE T \in G
    BY Zenon
  <1>1. IsFiniteSet(T)
    BY FS_Subset
  <1>2. ASSUME NEW U \in SUBSET T, \A V \in SUBSET U : V # U => V \in G
        PROVE  U \in G
    <2> SUFFICES ASSUME NEW x \in U PROVE g[U] = f[x] + g[U \ {x}]
      OBVIOUS
    <2>1. PICK c \in U : g[U] = f[c] + g[U \ {c}]
      BY IterStep
    <2>2. CASE c = x
      BY <2>1, <2>2
    <2>3. CASE c # x
      <3>1. U \ {c} \in G /\ U \ {x} \in G
        BY <1>2
      <3>2. g[U \ {c}] = f[x] + g[(U \ {c}) \ {x}]
        BY <2>3, <3>1
      <3>3. g[U \ {x}] = f[c] + g[(U \ {x}) \ {c}]
        BY <2>3, <3>1
      <3>4. (U \ {c}) \ {x} = (U \ {x}) \ {c} /\ (U \ {c}) \ {x} \in SUBSET S
        OBVIOUS
      <3>5. f[x] \in Int /\ f[c] \in Int /\ g[(U \ {c}) \ {x}] \in Int
        BY <3>4, IterInt
      <3>6. PICK rest : rest = g[(U \ {c}) \ {x}]
        OBVIOUS
      <3>7. rest \in Int
        BY <3>5, <3>6
      <3>8. g[U] = f[c] + (f[x] + rest)
        BY <2>1, <3>2, <3>6, Zenon
      <3>9. g[U \ {x}] = f[c] + rest
        BY <3>3, <3>4, <3>6, Zenon
      <3> QED BY <3>5, <3>7, <3>8, <3>9
    <2> QED BY <2>2, <2>3
  <1> QED
    <2> HIDE DEF G
    <2> QED BY <1>1, <1>2, StrongFiniteInduction

\* Two functions, two sets that are summed: what counts is the values on T.
LEMMA IterSame ==
    ASSUME NEW f, NEW S, IsFiniteSet(S), NEW h, NEW R, IsFiniteSet(R),
           NEW T, T \subseteq S, T \subseteq R, \A x \in S : f[x] \in Int, \A x \in R : h[x] \in Int,
          \A x \in T : f[x] = h[x]
    PROVE  Iter(f, S)[T] = Iter(h, R)[T]
  <1> DEFINE g == Iter(f, S)
             k == Iter(h, R)
             G == {U \in SUBSET T : g[U] = k[U]}
  <1>1. IsFiniteSet(T)
    BY FS_Subset
  <1>2. {} \in G
    BY IterStep
  <1>3. ASSUME NEW U \in SUBSET T, NEW x \in T \ U, U \in G PROVE U \cup {x} \in G
    <2>1. (U \cup {x}) \ {x} = U /\ U \cup {x} \in SUBSET S /\ U \cup {x} \in SUBSET R /\ U \cup {x} \in SUBSET T
      BY <1>3
    <2>2. g[U \cup {x}] = f[x] + g[U]
      <3>1. g[U \cup {x}] = f[x] + g[(U \cup {x}) \ {x}]
        BY <2>1, IterAny
      <3> QED BY <2>1, <3>1
    <2>3. k[U \cup {x}] = h[x] + k[U]
      <3>1. k[U \cup {x}] = h[x] + k[(U \cup {x}) \ {x}]
        BY <2>1, IterAny
      <3> QED BY <2>1, <3>1
    <2> HIDE DEF g, k
    <2> QED BY <1>3, <2>1, <2>2, <2>3
  <1>4. T \in G
    <2> HIDE DEF G
    <2> QED BY <1>1, <1>2, <1>3, FiniteInduction
  <1> QED BY <1>4

LEMMA SumEmpty ==
    ASSUME NEW f
    PROVE  SumFunctionOnSet(f, {}) = 0
  BY SumIsIter, IterStep, FS_EmptySet

LEMMA SumInt ==
    ASSUME NEW f, NEW S, IsFiniteSet(S), \A x \in S : f[x] \in Int
    PROVE  SumFunctionOnSet(f, S) \in Int
  BY SumIsIter, IterInt

LEMMA SumSame ==
    ASSUME NEW f, NEW h, NEW S, IsFiniteSet(S), \A x \in S : f[x] \in Int /\ f[x] = h[x]
    PROVE  SumFunctionOnSet(f, S) = SumFunctionOnSet(h, S)
  BY SumIsIter, IterSame

LEMMA SumWithout ==
    ASSUME NEW f, NEW S, IsFiniteSet(S), \A x \in S : f[x] \in Int, NEW x \in S
    PROVE  SumFunctionOnSet(f, S) = f[x] + SumFunctionOnSet(f, S \ {x})
  <1>1. Iter(f, S)[S] = f[x] + Iter(f, S)[S \ {x}]
    BY IterAny
  <1>2. IsFiniteSet(S \ {x})
    BY FS_Subset
  <1>3. Iter(f, S)[S \ {x}] = Iter(f, S \ {x})[S \ {x}]
    BY <1>2, IterSame
  <1> QED BY <1>1, <1>3, SumIsIter

LEMMA SumWith ==
    ASSUME NEW f, NEW S, IsFiniteSet(S), NEW x, x \notin S, \A y \in S \cup {x} : f[y] \in Int
    PROVE  SumFunctionOnSet(f, S \cup {x}) = SumFunctionOnSet(f, S) + f[x]
  <1>1. IsFiniteSet(S \cup {x}) /\ (S \cup {x}) \ {x} = S
    BY FS_AddElement
  <1>2. SumFunctionOnSet(f, S \cup {x}) = f[x] + SumFunctionOnSet(f, (S \cup {x}) \ {x})
    BY <1>1, SumWithout
  <1>3. SumFunctionOnSet(f, S) \in Int /\ f[x] \in Int
    BY SumInt
  <1>4. SumFunctionOnSet(f, S \cup {x}) = f[x] + SumFunctionOnSet(f, S)
    BY <1>1, <1>2, Zenon
  <1> QED BY <1>3, <1>4

LEMMA SumMonotone ==
    ASSUME NEW f, NEW S, IsFiniteSet(S), \A x \in S : f[x] \in Nat, NEW T \in SUBSET S
    PROVE  SumFunctionOnSet(f, T) \in Nat /\ SumFunctionOnSet(f, T) =< SumFunctionOnSet(f, S)
  <1> DEFINE G == {U \in SUBSET S : \A V \in SUBSET U : SumFunctionOnSet(f, V) \in Nat /\ SumFunctionOnSet(f, V) =< SumFunctionOnSet(f, U)}
  <1>1. {} \in G
    BY SumEmpty
  <1>2. ASSUME NEW U \in SUBSET S, NEW x \in S \ U, U \in G PROVE U \cup {x} \in G
    <2>1. IsFiniteSet(U)
      BY FS_Subset
    <2>2. SumFunctionOnSet(f, U \cup {x}) = SumFunctionOnSet(f, U) + f[x] /\ SumFunctionOnSet(f, U) \in Nat /\ f[x] \in Nat
      BY <1>2, <2>1, SumWith
    <2> SUFFICES ASSUME NEW V \in SUBSET (U \cup {x})
                 PROVE  SumFunctionOnSet(f, V) \in Nat /\ SumFunctionOnSet(f, V) =< SumFunctionOnSet(f, U \cup {x})
      BY <1>2
    <2>3. CASE x \notin V
      <3>1. V \in SUBSET U
        BY <2>3
      <3> QED BY <1>2, <2>2, <3>1
    <2>4. CASE x \in V
      <3>1. V \ {x} \in SUBSET U /\ IsFiniteSet(V)
        BY <2>1, <2>4, FS_Subset, FS_AddElement
      <3>2. SumFunctionOnSet(f, V) = f[x] + SumFunctionOnSet(f, V \ {x})
        BY <2>4, <3>1, SumWithout
      <3>3. SumFunctionOnSet(f, V \ {x}) \in Nat /\ SumFunctionOnSet(f, V \ {x}) =< SumFunctionOnSet(f, U)
        BY <1>2, <3>1
      <3> QED BY <2>2, <3>2, <3>3
    <2> QED BY <2>3, <2>4
  <1>3. S \in G
    <2> HIDE DEF G
    <2> QED BY <1>1, <1>2, FiniteInduction
  <1> QED BY <1>3

-----------------------------------------------------------------------------
\* HashMap::insert replaces one value of a sum.
LEMMA PutSum ==
    ASSUME NEW m, IsFiniteSet(DOMAIN m), \A x \in DOMAIN m : m[x] \in Int, NEW k, NEW v \in Int,
           NEW old, old = IF k \in DOMAIN m THEN m[k] ELSE 0
    PROVE  /\ IsFiniteSet(DOMAIN Put(m, k, v))
           /\ SumFunction(m) \in Int
           /\ SumFunction(Put(m, k, v)) = (SumFunction(m) - old) + v
  <1> DEFINE D == DOMAIN m \ {k}
  <1>1. PICK n : n = Put(m, k, v)
    OBVIOUS
  <1>2. DOMAIN n = D \cup {k} /\ n[k] = v /\ \A x \in D : n[x] = m[x]
    BY <1>1 DEF Put
  <1>3. IsFiniteSet(D) /\ k \notin D /\ \A x \in D : m[x] \in Int
    BY FS_Subset
  <1> HIDE DEF D
  <1>4. IsFiniteSet(DOMAIN n)
    BY <1>2, <1>3, FS_AddElement
  <1>5. SumFunctionOnSet(n, D \cup {k}) = SumFunctionOnSet(n, D) + n[k]
    BY <1>2, <1>3, SumWith
  <1>6. SumFunctionOnSet(n, D) = SumFunctionOnSet(m, D) /\ SumFunctionOnSet(m, D) \in Int
    BY <1>2, <1>3, SumSame, SumInt
  <1>7. PICK rest : rest = SumFunctionOnSet(m, D)
    OBVIOUS
  <1>8. rest \in Int /\ SumFunction(n) = rest + v
    BY <1>2, <1>5, <1>6, <1>7, Zenon DEF SumFunction
  <1>9. SumFunction(m) = rest + old /\ old \in Int
    <2>1. CASE k \in DOMAIN m
      <3>1. SumFunctionOnSet(m, DOMAIN m) = m[k] + SumFunctionOnSet(m, D)
        BY <2>1, SumWithout DEF D
      <3>2. SumFunction(m) = old + rest /\ old \in Int
        BY <1>7, <2>1, <3>1 DEF SumFunction
      <3> QED BY <1>8, <3>2
    <2>2. CASE k \notin DOMAIN m
      <3>1. D = DOMAIN m /\ old = 0
        BY <2>2 DEF D
      <3> QED BY <1>7, <1>8, <3>1 DEF SumFunction
    <2> QED BY <2>1, <2>2
  <1> QED BY <1>1, <1>4, <1>8, <1>9

\* A payment between two accounts moves money, and makes none.
LEMMA MoveKeepsSum ==
    ASSUME NEW s, IsLedgerState(s), IsFiniteSet(DOMAIN s.balances),
           NEW from \in Accounts, NEW to \in Accounts, from # to, NEW amount \in Nat
    PROVE  /\ IsFiniteSet(DOMAIN Move(s, from, to, amount))
           /\ SumFunction(Move(s, from, to, amount)) = SumFunction(s.balances)
  <1>1. PICK paid, got : paid = get_balance(s, from) /\ got = get_balance(s, to)
    OBVIOUS
  <1>2. PICK b, d : b = s.balances /\ d = Put(b, from, paid - amount)
    OBVIOUS
  <1>3. paid \in Int /\ got \in Int /\ (\A x \in DOMAIN b : b[x] \in Int)
    BY <1>1, <1>2, BalanceIsU64, AgesAssumption DEF IsLedgerState, IsMap
  <1>4. paid = (IF from \in DOMAIN b THEN b[from] ELSE 0)
    BY <1>1, <1>2 DEF get_balance
  <1>5. /\ IsFiniteSet(DOMAIN d) /\ SumFunction(b) \in Int
        /\ SumFunction(d) = (SumFunction(b) - paid) + (paid - amount)
    BY <1>2, <1>3, <1>4, PutSum
  <1>6. /\ \A x \in DOMAIN d : d[x] \in Int
        /\ got = IF to \in DOMAIN d THEN d[to] ELSE 0
    BY <1>1, <1>2, <1>3 DEF Put, get_balance
  <1>7. /\ IsFiniteSet(DOMAIN Put(d, to, got + amount))
        /\ SumFunction(Put(d, to, got + amount)) = (SumFunction(d) - got) + (got + amount)
    BY <1>3, <1>5, <1>6, PutSum
  <1>8. Move(s, from, to, amount) = Put(d, to, got + amount)
    BY <1>1, <1>2, Zenon DEF Move
  <1>9. PICK total : total = SumFunction(b)
    OBVIOUS
  <1>10. (((total - paid) + (paid - amount)) - got) + (got + amount) = total
    BY <1>3, <1>5, <1>9
  <1> QED BY <1>2, <1>5, <1>7, <1>8, <1>9, <1>10, Zenon
=============================================================================
