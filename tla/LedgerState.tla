----------------------------- MODULE LedgerState -----------------------------
(***************************************************************************)
(* The data of crates/itoken-ledger/src/lib.rs: struct LedgerState and     *)
(* what each operation of LocalLedger makes of one.  No state of its own:  *)
(* Ledger and Replication hold LedgerStates in their variables.            *)
(*                                                                         *)
(* Receipts are named by their ids, which are fresh UUIDs: `Receipt[r]`    *)
(* gives the fields of the one receipt with id r.  `signed` stands for     *)
(* verify_receipt_signatures and `priced` for amount_nano =                *)
(* compute_amount().                                                       *)
(***************************************************************************)
EXTENDS Integers, FiniteSets, Functions

CONSTANTS
    Accounts,           \* public keys
    Receipts,           \* receipt ids
    Receipt,            \* the receipt with each id
    MaxU64,             \* largest balance: balances are u64
    MaxReceiptAge,      \* MAX_RECEIPT_AGE_SECS
    MaxFutureDrift,     \* MAX_FUTURE_DRIFT_SECS
    Retention           \* max_age_secs given to prune_old_receipts

ReceiptType ==
    [client_pubkey : Accounts, node_pubkey : Accounts, amount_nano : Nat,
     timestamp : Nat, signed : BOOLEAN, priced : BOOLEAN]

\* m is a HashMap with keys in D and values in S.
IsMap(m, D, S) == DOMAIN m \subseteq D /\ m \in [DOMAIN m -> S]

\* s is a LedgerState.
IsLedgerState(s) ==
    /\ s = [balances           |-> s.balances,
            claimed_receipts   |-> s.claimed_receipts,
            receipt_timestamps |-> s.receipt_timestamps]
    /\ IsMap(s.balances, Accounts, 0..MaxU64)
    /\ s.claimed_receipts \subseteq Receipts
    /\ IsMap(s.receipt_timestamps, Receipts, Nat)

\* What the node holds when there is no file, or one that does not parse.
EmptyState ==
    [balances           |-> [a \in {} |-> 0],
     claimed_receipts   |-> {},
     receipt_timestamps |-> [r \in {} |-> 0]]

ASSUME ReceiptAssumption  == Receipt \in [Receipts -> ReceiptType]
ASSUME AgesAssumption     == MaxU64 \in Nat /\ MaxReceiptAge \in Nat /\ MaxFutureDrift \in Nat

\* Receipts are remembered longer than they can be claimed: 7 days, 5 minutes.
ASSUME RetentionAssumption == Retention \in Nat /\ Retention >= MaxReceiptAge

-----------------------------------------------------------------------------
\* HashMap::insert.
Put(m, k, v) == [x \in DOMAIN m \cup {k} |-> IF x = k THEN v ELSE m[x]]

\* state.balances.get(a).copied().unwrap_or(0)
get_balance(s, a) == IF a \in DOMAIN s.balances THEN s.balances[a] ELSE 0

\* Mutant: unchecked addition.
CanMoveUnchecked(s, from, to, amount) == get_balance(s, from) >= amount

\* Mutant: the payer's balance is not looked at.
CanMoveOnCredit(s, from, to, amount) == get_balance(s, to) + amount =< MaxU64

\* The checked arithmetic every payment goes through.
CanMove(s, from, to, amount) ==
    /\ get_balance(s, from) >= amount
    /\ get_balance(s, to) + amount =< MaxU64

\* Debit, then credit: both new balances come from values read beforehand.
Move(s, from, to, amount) ==
    Put(Put(s.balances, from, get_balance(s, from) - amount),
        to, get_balance(s, to) + amount)

\* Mutant: the payment is made and the mark forgotten.
PaidUnmarked(s, r) ==
    [s EXCEPT !.balances = Move(s, Receipt[r].client_pubkey, Receipt[r].node_pubkey, Receipt[r].amount_nano)]

\* A receipt is executed: the payment, and the mark that it was made.
Paid(s, r) ==
    [balances           |-> Move(s, Receipt[r].client_pubkey, Receipt[r].node_pubkey, Receipt[r].amount_nano),
     claimed_receipts   |-> s.claimed_receipts \cup {r},
     receipt_timestamps |-> Put(s.receipt_timestamps, r, Receipt[r].timestamp)]

\* Mutant: the self-payment check is missing.
AcceptableAnySelf(s, r) ==
    /\ Receipt[r].amount_nano > 0
    /\ r \notin s.claimed_receipts
    /\ Receipt[r].signed
    /\ CanMove(s, Receipt[r].client_pubkey, Receipt[r].node_pubkey, Receipt[r].amount_nano)

\* What both ways of claiming check.
Acceptable(s, r) ==
    /\ Receipt[r].amount_nano > 0
    /\ Receipt[r].client_pubkey # Receipt[r].node_pubkey
    /\ r \notin s.claimed_receipts
    /\ Receipt[r].signed
    /\ CanMove(s, Receipt[r].client_pubkey, Receipt[r].node_pubkey, Receipt[r].amount_nano)

\* Mutant: the expiry check is missing.
FreshUnlessFuture(r, now) == Receipt[r].timestamp =< now + MaxFutureDrift

\* Neither expired nor future-dated.
Fresh(r, now) ==
    /\ Receipt[r].timestamp + MaxReceiptAge >= now
    /\ Receipt[r].timestamp =< now + MaxFutureDrift

\* The checks of claim_receipt.
Claimable(s, r, now) == Acceptable(s, r) /\ Fresh(r, now) /\ Receipt[r].priced

\* The peer's claimed receipts are marked, stamped with the present; its
\* balances are taken for accounts not known here.
Merged(s, ext, now) ==
    [balances           |-> [a \in DOMAIN s.balances \cup DOMAIN ext.balances |->
                                IF a \in DOMAIN s.balances THEN s.balances[a] ELSE ext.balances[a]],
     claimed_receipts   |-> s.claimed_receipts \cup ext.claimed_receipts,
     receipt_timestamps |-> [r \in DOMAIN s.receipt_timestamps
                                    \cup (ext.claimed_receipts \ s.claimed_receipts) |->
                                IF r \in ext.claimed_receipts \ s.claimed_receipts
                                THEN now ELSE s.receipt_timestamps[r]]]

\* Mutant: a receipt goes one second early.
StaleTooSoon(s, now) ==
    {r \in DOMAIN s.receipt_timestamps :
        /\ now > s.receipt_timestamps[r]
        /\ now - s.receipt_timestamps[r] >= Retention}

Stale(s, now) ==
    {r \in DOMAIN s.receipt_timestamps :
        /\ now > s.receipt_timestamps[r]
        /\ now - s.receipt_timestamps[r] > Retention}

\* Mutant: forgotten receipts keep their stamps.
PrunedKeepingStamps(s, now) ==
    [s EXCEPT !.claimed_receipts = @ \ Stale(s, now)]

\* Receipts stamped too long ago are forgotten with their stamps; those that
\* have no stamp get one.
Pruned(s, now) ==
    LET kept == s.claimed_receipts \ Stale(s, now)
    IN  [balances           |-> s.balances,
         claimed_receipts   |-> kept,
         receipt_timestamps |-> [r \in (DOMAIN s.receipt_timestamps \ Stale(s, now)) \cup kept |->
                                    IF r \in DOMAIN s.receipt_timestamps
                                    THEN s.receipt_timestamps[r] ELSE now]]
=============================================================================
