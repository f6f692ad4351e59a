------------------------------- MODULE Ledger -------------------------------
(***************************************************************************)
(* One node's ledger: crates/itoken-ledger/src/lib.rs, struct LocalLedger. *)
(*                                                                         *)
(* Every operation of LocalLedger takes the mutex, works on the            *)
(* LedgerState, saves the whole of it and releases the mutex, so each is   *)
(* one action.  `state` is what the mutex guards, `file` what ledger.json  *)
(* holds.  A save either replaces the file as a whole (write, fsync,       *)
(* rename) or fails, is logged, and leaves the file as it was.  The        *)
(* process may stop at any time; what it comes back with is the file.      *)
(*                                                                         *)
(* Operations that return Err change nothing and are not steps.            *)
(***************************************************************************)
EXTENDS LedgerState

CONSTANTS
    SeedAmounts,        \* initial balances given to register_account
    TransferAmounts,    \* amounts given to transfer
    Exports,            \* what a peer may answer to a SyncLedger request
    InitialFiles,       \* what ledger.json may hold before the first start
    MaxClock            \* bound: the clock stops here

ASSUME BoundsAssumption == /\ MaxClock \in Nat
                           /\ SeedAmounts \subseteq 0..MaxU64
                           /\ TransferAmounts \subseteq Nat

ASSUME ExportsAssumption ==
    \A ext \in Exports : /\ IsMap(ext.balances, Accounts, 0..MaxU64)
                         /\ IsFiniteSet(DOMAIN ext.balances)
                         /\ ext.claimed_receipts \subseteq Receipts

\* Files written before receipt_timestamps existed have claimed receipts and
\* no timestamps; the receipts in such a file are not future-dated.
ASSUME InitialFilesAssumption ==
    \A f \in InitialFiles :
          /\ IsLedgerState(f)
          /\ IsFiniteSet(DOMAIN f.balances)
          /\ f.receipt_timestamps = [r \in {} |-> 0]
          /\ \A r \in f.claimed_receipts : Receipt[r].timestamp = 0

VARIABLES
    state,          \* the LedgerState behind the mutex
    file,           \* the LedgerState in ledger.json
    up,             \* the process is running
    clock,          \* SystemTime::now(), in seconds
    payouts,        \* history: how often the payment of each receipt is in state.balances (2 = twice or more)
    filePayouts,    \* history: the same for the balances in the file
    unsaved         \* history: the last save failed

vars == <<state, file, up, clock, payouts, filePayouts, unsaved>>

-----------------------------------------------------------------------------
CountPayout(r) == [payouts EXCEPT ![r] = IF @ = 0 THEN 1 ELSE 2]

\* Mutant: balances and marks are saved one after the other, and the second
\* may fail.
save_in_two_parts ==
    \/ /\ file' = state'
       /\ filePayouts' = payouts'
       /\ unsaved' = FALSE
    \/ /\ file' = [file EXCEPT !.balances = state'.balances]
       /\ filePayouts' = payouts'
       /\ unsaved' = TRUE

\* save_atomic, on the state the operation leaves behind.
save_atomic ==
    \/ /\ file' = state'
       /\ filePayouts' = payouts'
       /\ unsaved' = FALSE
    \/ /\ unsaved' = TRUE
       /\ UNCHANGED <<file, filePayouts>>

-----------------------------------------------------------------------------
Init ==
    /\ file \in InitialFiles \cup {EmptyState}
    /\ filePayouts = [r \in Receipts |-> IF r \in file.claimed_receipts THEN 1 ELSE 0]
    /\ state = EmptyState
    /\ payouts = [r \in Receipts |-> 0]
    /\ up = FALSE
    /\ clock = 0
    /\ unsaved = FALSE

\* LocalLedger::new: the process starts and reads the file.
Open ==
    /\ ~up
    /\ up' = TRUE
    /\ state' = file
    /\ payouts' = filePayouts
    /\ unsaved' = FALSE
    /\ UNCHANGED <<file, filePayouts, clock>>

\* The process stops, in whatever way: nothing is saved on the way out.
Stop ==
    /\ up
    /\ up' = FALSE
    /\ state' = EmptyState
    /\ payouts' = [r \in Receipts |-> 0]
    /\ UNCHANGED <<file, filePayouts, clock, unsaved>>

Tick ==
    /\ clock < MaxClock
    /\ clock' = clock + 1
    /\ UNCHANGED <<state, file, up, payouts, filePayouts, unsaved>>

\* register_account: an existing account keeps its balance; saved either way.
register_account(a, initial) ==
    /\ up
    /\ state' = [state EXCEPT !.balances =
                    IF a \in DOMAIN @ THEN @ ELSE Put(@, a, initial)]
    /\ UNCHANGED <<up, clock, payouts>>
    /\ save_atomic

transfer(from, to, amount) ==
    /\ up
    /\ amount > 0
    /\ CanMove(state, from, to, amount)
    /\ state' = [state EXCEPT !.balances = Move(state, from, to, amount)]
    /\ UNCHANGED <<up, clock, payouts>>
    /\ save_atomic

claim_receipt(r) ==
    /\ up
    /\ Claimable(state, r, clock)
    /\ state' = Paid(state, r)
    /\ payouts' = CountPayout(r)
    /\ UNCHANGED <<up, clock>>
    /\ save_atomic

\* A receipt from gossip: no look at the clock or at the price.
claim_gossip_receipt(r) ==
    /\ up
    /\ Acceptable(state, r)
    /\ state' = Paid(state, r)
    /\ payouts' = CountPayout(r)
    /\ UNCHANGED <<up, clock>>
    /\ save_atomic

\* Mutant: new accounts alone are not worth a save.
ImportSavingReceiptsOnly(ext) ==
    /\ up
    /\ state' = Merged(state, ext, clock)
    /\ UNCHANGED <<up, clock, payouts>>
    /\ IF state'.claimed_receipts # state.claimed_receipts
       THEN save_atomic ELSE UNCHANGED <<file, filePayouts, unsaved>>

import_state(ext) ==
    /\ up
    /\ state' = Merged(state, ext, clock)
    /\ UNCHANGED <<up, clock, payouts>>
    /\ IF \/ state'.claimed_receipts # state.claimed_receipts
          \/ DOMAIN state'.balances # DOMAIN state.balances
       THEN save_atomic
       ELSE UNCHANGED <<file, filePayouts, unsaved>>

\* prune_old_receipts(Retention), saved only when something was forgotten.
prune_old_receipts ==
    /\ up
    /\ state' = Pruned(state, clock)
    /\ UNCHANGED <<up, clock, payouts>>
    /\ IF state'.claimed_receipts # state.claimed_receipts
       THEN save_atomic
       ELSE UNCHANGED <<file, filePayouts, unsaved>>

Next ==
    \/ Open
    \/ Stop
    \/ Tick
    \/ \E a \in Accounts, n \in SeedAmounts : register_account(a, n)
    \/ \E from, to \in Accounts, n \in TransferAmounts : transfer(from, to, n)
    \/ \E r \in Receipts : claim_receipt(r)
    \/ \E r \in Receipts : claim_gossip_receipt(r)
    \/ \E ext \in Exports : import_state(ext)
    \/ prune_old_receipts

Spec == Init /\ [][Next]_vars

-----------------------------------------------------------------------------
TypeOK ==
    /\ IsLedgerState(state)
    /\ IsLedgerState(file)
    /\ up \in BOOLEAN
    /\ clock \in Nat
    /\ payouts \in [Receipts -> 0..2]
    /\ filePayouts \in [Receipts -> 0..2]
    /\ unsaved \in BOOLEAN

InRetention(r) == clock =< Receipt[r].timestamp + Retention

\* Double-claim protection across claims, gossip, imports, pruning, failed
\* saves and restarts: while a receipt is within its retention period, the
\* balances hold its payment at most once.
PaidOnceInRetention == \A r \in Receipts : InRetention(r) => payouts[r] =< 1

\* A receipt the node has paid is remembered as claimed for as long as it is
\* within its retention period, in memory and in the file a restart reads.
PaidIsClaimed ==
    \A r \in Receipts : InRetention(r) =>
        /\ payouts[r] > 0 => r \in state.claimed_receipts
        /\ filePayouts[r] > 0 => r \in file.claimed_receipts

\* A stamp belongs to a receipt that is claimed: pruning and merging leave no
\* stamp behind that could prune a later claim of the same receipt.
StampsAreOfClaimed ==
    /\ DOMAIN state.receipt_timestamps \subseteq state.claimed_receipts
    /\ DOMAIN file.receipt_timestamps \subseteq file.claimed_receipts

\* Unless the last save failed, a crash loses no balance and no claim mark:
\* no operation leaves a change of either behind in memory only.
NothingToLose ==
    up /\ ~unsaved =>
        /\ file.balances = state.balances
        /\ file.claimed_receipts = state.claimed_receipts

\* claim_receipt never pays what these balances already paid, however long
\* ago: by the time the mark may have been pruned, the receipt has expired.
PaidIsNotClaimable == \A r \in Receipts : up /\ payouts[r] > 0 => ~Claimable(state, r, clock)

Supply(s) == SumFunction(s.balances)

\* The payment of a receipt neither creates nor destroys iTokens.
SupplyKept ==
    [][up /\ up' /\ payouts' # payouts => Supply(state') = Supply(state)]_vars

\* A receipt is paid at most once, whatever its age: the promise of the claimed
\* set ("prevents double-spend") taken without its retention period.
PaidOnce == \A r \in Receipts : payouts[r] =< 1

-----------------------------------------------------------------------------
(* What makes PaidOnceInRetention inductive: a paid receipt is still marked, or too *)
(* old; its stamp is not before its timestamp, so that pruning, which goes by the   *)
(* stamp, cannot forget it within its retention period.                             *)
Remembered(s, pay) ==
    \A r \in Receipts : pay[r] > 0 =>
        /\ InRetention(r) => r \in s.claimed_receipts
        /\ r \in DOMAIN s.receipt_timestamps => s.receipt_timestamps[r] >= Receipt[r].timestamp
        /\ r \notin DOMAIN s.receipt_timestamps => Receipt[r].timestamp =< clock
        /\ pay[r] > 1 => ~InRetention(r)

LedgerInv ==
    /\ TypeOK
    /\ StampsAreOfClaimed
    /\ Remembered(state, payouts)
    /\ Remembered(file, filePayouts)
    /\ NothingToLose

\* What SupplyKept needs for a sum to make sense: there are finitely many accounts, in
\* memory and in the file.
FiniteAccounts ==
    /\ IsFiniteSet(DOMAIN state.balances)
    /\ IsFiniteSet(DOMAIN file.balances)

-----------------------------------------------------------------------------
(* The refinement.  A receipt is remembered when it is marked, and paid when the    *)
(* history variable has counted its payment in the balances.                        *)
StatusIn(s, pay) ==
    [r \in Receipts |->
        IF r \in s.claimed_receipts THEN (IF pay[r] > 0 THEN "paid" ELSE "noted")
        ELSE (IF pay[r] > 0 THEN "forgotten" ELSE "unpaid")]

S == INSTANCE Settlement WITH
        Deadline <- [r \in Receipts |-> Receipt[r].timestamp + Retention],
        memory   <- StatusIn(state, payouts),
        disk     <- StatusIn(file, filePayouts),
        now      <- clock

\* The ledger keeps the promises of Settlement: claims, gossip, imports, pruning,
\* saves that fail and restarts pay only what is not remembered, forget what was
\* paid only past its retention, and never part the balances from the marks.
KeepsSettlement == S!Spec
=============================================================================
