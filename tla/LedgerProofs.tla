---------------------------- MODULE LedgerProofs ----------------------------
(***************************************************************************)
(* What holds of one node's ledger for every set of accounts and receipts, *)
(* every retention period that is at least the claim period, and every     *)
(* interleaving of claims, gossip, imports, pruning, failed saves and      *)
(* restarts.                                                               *)
(***************************************************************************)
EXTENDS Ledger, LedgerStateProofs

\* Merging a peer's export leaves a LedgerState.
LEMMA MergedExport ==
    ASSUME IsLedgerState(state), clock \in Nat, NEW ext \in Exports
    PROVE  IsLedgerState(Merged(state, ext, clock))
  BY ExportsAssumption, MergedIsLedgerState

-----------------------------------------------------------------------------
\* What one operation must leave in memory for the invariant to hold.
Sound(s, pay) ==
    /\ IsLedgerState(s)
    /\ pay \in [Receipts -> 0..2]
    /\ DOMAIN s.receipt_timestamps \subseteq s.claimed_receipts
    /\ Remembered(s, pay)

\* Saving, or failing to save, a sound state.
LEMMA SaveKeepsInv ==
    ASSUME LedgerInv, UNCHANGED <<up, clock>>, Sound(state', payouts'), save_atomic
    PROVE  LedgerInv'
  <1>1. CASE /\ file' = state'
             /\ filePayouts' = payouts'
             /\ unsaved' = FALSE
    BY <1>1 DEF LedgerInv, TypeOK, StampsAreOfClaimed, Remembered, InRetention, NothingToLose, Sound
  <1>2. CASE /\ unsaved' = TRUE
             /\ UNCHANGED <<file, filePayouts>>
    BY <1>2 DEF LedgerInv, TypeOK, StampsAreOfClaimed, Remembered, InRetention, NothingToLose, Sound
  <1> QED BY <1>1, <1>2 DEF save_atomic

\* An operation that finds nothing worth saving.
LEMMA NoSaveKeepsInv ==
    ASSUME LedgerInv, UNCHANGED <<up, clock, file, filePayouts, unsaved>>,
           Sound(state', payouts'),
           state'.balances = state.balances,
           state'.claimed_receipts = state.claimed_receipts
    PROVE  LedgerInv'
  BY DEF LedgerInv, TypeOK, StampsAreOfClaimed, Remembered, InRetention, NothingToLose, Sound

\* An acceptable receipt that was paid before is past its retention period, so
\* a second payment never counts against one within it.
LEMMA PaymentIsSound ==
    ASSUME LedgerInv, NEW r \in Receipts, Acceptable(state, r)
    PROVE  Sound(Paid(state, r), CountPayout(r))
  <1> DEFINE s == Paid(state, r)
             pay == CountPayout(r)
             t == state.receipt_timestamps
  <1>1. IsLedgerState(s)
    BY PaidIsLedgerState DEF LedgerInv, TypeOK
  <1>2. pay \in [Receipts -> 0..2]
    BY DEF LedgerInv, TypeOK, CountPayout
  <1>3. /\ s.claimed_receipts = state.claimed_receipts \cup {r}
        /\ s.receipt_timestamps = Put(t, r, Receipt[r].timestamp)
    BY DEF Paid
  <1>4. Receipt[r].timestamp \in Nat
    BY ReceiptAssumption DEF ReceiptType
  <1>5. /\ DOMAIN s.receipt_timestamps = DOMAIN t \cup {r}
        /\ s.receipt_timestamps[r] = Receipt[r].timestamp
        /\ \A x \in DOMAIN t : x # r => s.receipt_timestamps[x] = t[x]
    <2>1. IsMap(t, Receipts, Nat)
      BY DEF LedgerInv, TypeOK, IsLedgerState
    <2> DEFINE u == Put(t, r, Receipt[r].timestamp)
    <2> HIDE DEF t
    <2>2. /\ DOMAIN u = DOMAIN t \cup {r}
          /\ u[r] = Receipt[r].timestamp
          /\ \A x \in DOMAIN t : x # r => u[x] = t[x]
      BY DEF Put
    <2> QED BY <2>2, <1>3
  <1>6. DOMAIN s.receipt_timestamps \subseteq s.claimed_receipts
    BY <1>3, <1>5 DEF LedgerInv, StampsAreOfClaimed
  <1>7. payouts[r] > 0 => ~InRetention(r)
    BY DEF LedgerInv, Remembered, Acceptable
  <1>8. /\ \A x \in Receipts : x # r => pay[x] = payouts[x]
        /\ pay[r] > 1 => payouts[r] > 0
    BY DEF LedgerInv, TypeOK, CountPayout
  <1>9. Remembered(s, pay)
    <2> SUFFICES ASSUME NEW x \in Receipts, pay[x] > 0
                 PROVE  /\ InRetention(x) => x \in s.claimed_receipts
                        /\ x \in DOMAIN s.receipt_timestamps => s.receipt_timestamps[x] >= Receipt[x].timestamp
                        /\ x \notin DOMAIN s.receipt_timestamps => Receipt[x].timestamp =< clock
                        /\ pay[x] > 1 => ~InRetention(x)
      BY DEF Remembered
    <2> HIDE DEF s, pay
    <2>1. CASE x = r
      BY <2>1, <1>3, <1>4, <1>5, <1>7, <1>8
    <2>2. CASE x # r
      BY <2>2, <1>3, <1>5, <1>8 DEF LedgerInv, Remembered
    <2> QED BY <2>1, <2>2
  <1> QED BY <1>1, <1>2, <1>6, <1>9 DEF Sound

\* What an import marks is stamped with the present, which is not before the
\* timestamp of a receipt that was paid here and forgotten since.
LEMMA MergeIsSound ==
    ASSUME LedgerInv, NEW ext \in Exports
    PROVE  Sound(Merged(state, ext, clock), payouts)
  <1> DEFINE s == Merged(state, ext, clock)
             new == ext.claimed_receipts \ state.claimed_receipts
  <1>1. IsLedgerState(s)
    BY MergedExport DEF LedgerInv, TypeOK
  <1>2. /\ s.claimed_receipts = state.claimed_receipts \cup ext.claimed_receipts
        /\ DOMAIN s.receipt_timestamps = DOMAIN state.receipt_timestamps \cup new
        /\ \A x \in new : s.receipt_timestamps[x] = clock
        /\ \A x \in DOMAIN state.receipt_timestamps \ new :
              s.receipt_timestamps[x] = state.receipt_timestamps[x]
    BY DEF Merged
  <1>3. DOMAIN s.receipt_timestamps \subseteq s.claimed_receipts
    BY <1>2 DEF LedgerInv, StampsAreOfClaimed
  <1>4. Remembered(s, payouts)
    <2> SUFFICES ASSUME NEW x \in Receipts, payouts[x] > 0
                 PROVE  /\ InRetention(x) => x \in s.claimed_receipts
                        /\ x \in DOMAIN s.receipt_timestamps => s.receipt_timestamps[x] >= Receipt[x].timestamp
                        /\ x \notin DOMAIN s.receipt_timestamps => Receipt[x].timestamp =< clock
                        /\ payouts[x] > 1 => ~InRetention(x)
      BY DEF Remembered
    <2>1. /\ Receipt[x].timestamp \in Nat
          /\ Retention \in Nat
          /\ clock \in Nat
      BY ReceiptAssumption, RetentionAssumption DEF ReceiptType, LedgerInv, TypeOK
    <2>2. x \in new => clock >= Receipt[x].timestamp
      BY <2>1 DEF LedgerInv, Remembered, InRetention
    <2> HIDE DEF s
    <2> QED BY <1>2, <2>2 DEF LedgerInv, Remembered
  <1> QED BY <1>1, <1>3, <1>4 DEF Sound, LedgerInv, TypeOK

\* Pruning goes by the stamp, which is not before the timestamp: what it
\* forgets of the paid receipts is past its retention period.
LEMMA PruneIsSound ==
    ASSUME LedgerInv
    PROVE  Sound(Pruned(state, clock), payouts)
  <1> DEFINE s == Pruned(state, clock)
             stale == Stale(state, clock)
             t == state.receipt_timestamps
  <1>1. IsLedgerState(s)
    BY PrunedIsLedgerState DEF LedgerInv, TypeOK
  <1>2. stale \subseteq DOMAIN t /\ DOMAIN t \subseteq state.claimed_receipts
    BY DEF Stale, LedgerInv, StampsAreOfClaimed
  <1>3. /\ s.claimed_receipts = state.claimed_receipts \ stale
        /\ DOMAIN s.receipt_timestamps = (DOMAIN t \ stale) \cup (state.claimed_receipts \ stale)
        /\ \A x \in DOMAIN t \ stale : s.receipt_timestamps[x] = t[x]
        /\ \A x \in state.claimed_receipts \ DOMAIN t : s.receipt_timestamps[x] = clock
    BY <1>2 DEF Pruned
  <1>4. DOMAIN s.receipt_timestamps \subseteq s.claimed_receipts
    BY <1>2, <1>3
  <1>5. Remembered(s, payouts)
    <2> SUFFICES ASSUME NEW x \in Receipts, payouts[x] > 0
                 PROVE  /\ InRetention(x) => x \in s.claimed_receipts
                        /\ x \in DOMAIN s.receipt_timestamps => s.receipt_timestamps[x] >= Receipt[x].timestamp
                        /\ x \notin DOMAIN s.receipt_timestamps => Receipt[x].timestamp =< clock
                        /\ payouts[x] > 1 => ~InRetention(x)
      BY DEF Remembered
    <2>1. /\ Receipt[x].timestamp \in Nat
          /\ Retention \in Nat
          /\ clock \in Nat
      BY ReceiptAssumption, RetentionAssumption DEF ReceiptType, LedgerInv, TypeOK
    <2>2. x \in DOMAIN t => t[x] \in Nat /\ t[x] >= Receipt[x].timestamp
      BY DEF LedgerInv, Remembered, TypeOK, IsLedgerState, IsMap
    <2>3. x \in stale => ~InRetention(x) /\ Receipt[x].timestamp =< clock
      BY <1>2, <2>1, <2>2 DEF Stale, InRetention
    <2>4. x \notin DOMAIN t => Receipt[x].timestamp =< clock
      BY DEF LedgerInv, Remembered
    <2>5. /\ InRetention(x) => x \in state.claimed_receipts
          /\ payouts[x] > 1 => ~InRetention(x)
      BY DEF LedgerInv, Remembered
    <2> HIDE DEF s, stale
    <2> QED BY <1>2, <1>3, <2>2, <2>3, <2>4, <2>5
  <1> QED BY <1>1, <1>4, <1>5 DEF Sound, LedgerInv, TypeOK

\* Registering and transferring touch balances only.
LEMMA BalancesChangeIsSound ==
    ASSUME LedgerInv, NEW b, IsMap(b, Accounts, 0..MaxU64)
    PROVE  Sound([state EXCEPT !.balances = b], payouts)
  <1> DEFINE s == [state EXCEPT !.balances = b]
  <1>1. s = [balances           |-> b,
             claimed_receipts   |-> state.claimed_receipts,
             receipt_timestamps |-> state.receipt_timestamps]
    BY DEF LedgerInv, TypeOK, IsLedgerState
  <1>2. /\ s.claimed_receipts = state.claimed_receipts
        /\ s.receipt_timestamps = state.receipt_timestamps
        /\ s.balances = b
    BY <1>1
  <1>3. IsLedgerState(s)
    BY <1>1 DEF LedgerInv, TypeOK, IsLedgerState
  <1>4. Remembered(s, payouts)
    BY <1>2 DEF LedgerInv, Remembered
  <1>5. DOMAIN s.receipt_timestamps \subseteq s.claimed_receipts
    BY <1>2 DEF LedgerInv, StampsAreOfClaimed
  <1> HIDE DEF s
  <1>6. Sound(s, payouts)
    BY <1>3, <1>4, <1>5 DEF Sound, LedgerInv, TypeOK
  <1> QED BY <1>6 DEF s

-----------------------------------------------------------------------------
\* The empty ledger, and any file an earlier version left, is a good start.
LEMMA InitInv == Init => LedgerInv
  <1> SUFFICES ASSUME Init PROVE LedgerInv
    OBVIOUS
  <1> DEFINE none == [r \in Receipts |-> 0]
  <1>1. IsLedgerState(EmptyState)
    BY DEF EmptyState, IsLedgerState, IsMap
  <1>2. IsLedgerState(file)
    BY <1>1, InitialFilesAssumption DEF Init
  <1>3. TypeOK
    <2>1. /\ payouts \in [Receipts -> 0..2]
          /\ filePayouts \in [Receipts -> 0..2]
      BY DEF Init
    <2>2. IsLedgerState(state)
      BY <1>1 DEF Init
    <2> QED BY <1>2, <2>1, <2>2 DEF Init, TypeOK
  <1>4. /\ file.receipt_timestamps = [r \in {} |-> 0]
        /\ \A r \in file.claimed_receipts : Receipt[r].timestamp = 0
    BY InitialFilesAssumption DEF Init, EmptyState
  <1>5. StampsAreOfClaimed
    BY <1>4 DEF Init, EmptyState, StampsAreOfClaimed
  <1>6. Remembered(state, payouts)
    BY DEF Init, Remembered
  <1>7. Remembered(file, filePayouts)
    BY <1>4 DEF Init, Remembered
  <1>8. NothingToLose
    BY DEF Init, NothingToLose
  <1> QED BY <1>3, <1>5, <1>6, <1>7, <1>8 DEF LedgerInv

\* Every step keeps the invariant.
LEMMA NextInv == LedgerInv /\ [Next]_vars => LedgerInv'
  <1> SUFFICES ASSUME LedgerInv, [Next]_vars PROVE LedgerInv'
    OBVIOUS
  <1> USE DEF LedgerInv
  <1>1. CASE Open
    BY <1>1 DEF Open, TypeOK, StampsAreOfClaimed, Remembered, InRetention, NothingToLose
  <1>2. CASE Stop
    <2>1. IsLedgerState(state')
      BY <1>2 DEF Stop, EmptyState, IsLedgerState, IsMap
    <2>2. TypeOK'
      <3>1. payouts' \in [Receipts -> 0..2]
        BY <1>2 DEF Stop
      <3> QED BY <1>2, <2>1, <3>1 DEF Stop, TypeOK, IsLedgerState
    <2>3. StampsAreOfClaimed'
      BY <1>2 DEF Stop, EmptyState, StampsAreOfClaimed
    <2>4. Remembered(state, payouts)' /\ Remembered(file, filePayouts)'
      BY <1>2 DEF Stop, Remembered, InRetention
    <2>5. NothingToLose'
      BY <1>2 DEF Stop, NothingToLose
    <2> QED BY <2>2, <2>3, <2>4, <2>5
  <1>3. CASE Tick
    <2>1. \A r \in Receipts : Receipt[r].timestamp \in Nat
      BY ReceiptAssumption DEF ReceiptType
    <2>2. \A r \in Receipts : InRetention(r)' => InRetention(r)
      BY <1>3, <2>1, RetentionAssumption DEF Tick, InRetention, TypeOK
    <2>3. Remembered(state, payouts)' /\ Remembered(file, filePayouts)'
      BY <1>3, <2>1, <2>2 DEF Tick, Remembered, TypeOK
    <2> QED BY <1>3, <2>3 DEF Tick, TypeOK, StampsAreOfClaimed, NothingToLose
  <1>4. ASSUME NEW a \in Accounts, NEW n \in SeedAmounts, register_account(a, n)
        PROVE  LedgerInv'
    <2> DEFINE b == IF a \in DOMAIN state.balances THEN state.balances ELSE Put(state.balances, a, n)
    <2>1. IsMap(b, Accounts, 0..MaxU64)
      BY PutIsMap, BoundsAssumption DEF TypeOK, IsLedgerState
    <2>2. state' = [state EXCEPT !.balances = b]
      BY <1>4 DEF register_account
    <2> HIDE DEF b
    <2>3. Sound(state', payouts')
      BY <1>4, <2>1, <2>2, BalancesChangeIsSound DEF register_account
    <2> QED BY <1>4, <2>3, SaveKeepsInv DEF register_account
  <1>5. ASSUME NEW from \in Accounts, NEW to \in Accounts, NEW n \in TransferAmounts,
               transfer(from, to, n)
        PROVE  LedgerInv'
    <2>1. IsMap(Move(state, from, to, n), Accounts, 0..MaxU64)
      BY <1>5, MoveIsMap, BoundsAssumption DEF transfer, TypeOK
    <2>2. Sound(state', payouts')
      BY <1>5, <2>1, BalancesChangeIsSound DEF transfer
    <2> QED BY <1>5, <2>2, SaveKeepsInv DEF transfer
  <1>6. ASSUME NEW r \in Receipts, claim_receipt(r)
        PROVE  LedgerInv'
    <2>1. Sound(state', payouts')
      BY <1>6, PaymentIsSound DEF claim_receipt, Claimable
    <2> QED BY <1>6, <2>1, SaveKeepsInv DEF claim_receipt
  <1>7. ASSUME NEW r \in Receipts, claim_gossip_receipt(r)
        PROVE  LedgerInv'
    <2>1. Sound(state', payouts')
      BY <1>7, PaymentIsSound DEF claim_gossip_receipt
    <2> QED BY <1>7, <2>1, SaveKeepsInv DEF claim_gossip_receipt
  <1>8. ASSUME NEW ext \in Exports, import_state(ext)
        PROVE  LedgerInv'
    <2>1. Sound(state', payouts')
      BY <1>8, MergeIsSound DEF import_state
    <2>2. CASE save_atomic
      BY <1>8, <2>1, <2>2, SaveKeepsInv DEF import_state
    <2>3. CASE /\ state'.claimed_receipts = state.claimed_receipts
               /\ DOMAIN state'.balances = DOMAIN state.balances
               /\ UNCHANGED <<file, filePayouts, unsaved>>
      <3>1. state'.balances = state.balances
        BY <1>8, <2>3 DEF import_state, Merged, TypeOK, IsLedgerState, IsMap
      <3> QED BY <1>8, <2>1, <2>3, <3>1, NoSaveKeepsInv DEF import_state
    <2> QED BY <1>8, <2>2, <2>3 DEF import_state
  <1>9. CASE prune_old_receipts
    <2>1. Sound(state', payouts')
      BY <1>9, PruneIsSound DEF prune_old_receipts
    <2>2. CASE save_atomic
      BY <1>9, <2>1, <2>2, SaveKeepsInv DEF prune_old_receipts
    <2>3. CASE /\ state'.claimed_receipts = state.claimed_receipts
               /\ UNCHANGED <<file, filePayouts, unsaved>>
      <3>1. state'.balances = state.balances
        BY <1>9 DEF prune_old_receipts, Pruned
      <3> QED BY <1>9, <2>1, <2>3, <3>1, NoSaveKeepsInv DEF prune_old_receipts
    <2> QED BY <1>9, <2>2, <2>3 DEF prune_old_receipts
  <1>10. CASE UNCHANGED vars
    BY <1>10 DEF vars, TypeOK, StampsAreOfClaimed, Remembered, InRetention, NothingToLose
  <1> QED
    BY <1>1, <1>2, <1>3, <1>4, <1>5, <1>6, <1>7, <1>8, <1>9, <1>10 DEF Next

\* The invariant holds in every reachable state.
THEOREM LedgerInvariance == Spec => []LedgerInv
  BY InitInv, NextInv, PTL DEF Spec

\* The ledger and its file are always a LedgerState with u64 balances.
THEOREM LedgerTypeOK == Spec => []TypeOK
  <1>1. LedgerInv => TypeOK
    BY DEF LedgerInv
  <1> QED BY <1>1, LedgerInvariance, PTL

\* Within its retention period no receipt is paid twice, whatever the order of
\* claims, gossip, imports, pruning, failed saves and restarts.
THEOREM LedgerPaidOnceInRetention == Spec => []PaidOnceInRetention
  <1>1. LedgerInv => PaidOnceInRetention
    BY DEF LedgerInv, Remembered, PaidOnceInRetention, TypeOK
  <1> QED BY <1>1, LedgerInvariance, PTL

\* A paid receipt is marked as claimed for its whole retention period.
THEOREM LedgerPaidIsClaimed == Spec => []PaidIsClaimed
  <1>1. LedgerInv => PaidIsClaimed
    BY DEF LedgerInv, Remembered, PaidIsClaimed
  <1> QED BY <1>1, LedgerInvariance, PTL

\* Retention outlasts the claim period, so claim_receipt never pays again what
\* was paid: this needs RetentionAssumption and is false without it.
THEOREM LedgerPaidIsNotClaimable == Spec => []PaidIsNotClaimable
  <1>1. LedgerInv => PaidIsNotClaimable
    <2> SUFFICES ASSUME LedgerInv, NEW r \in Receipts, payouts[r] > 0, Claimable(state, r, clock)
                 PROVE  FALSE
      BY DEF PaidIsNotClaimable
    <2>1. ~InRetention(r)
      BY DEF LedgerInv, Remembered, Claimable, Acceptable
    <2>2. /\ Receipt[r].timestamp \in Nat
          /\ clock \in Nat
      BY ReceiptAssumption DEF ReceiptType, LedgerInv, TypeOK
    <2> QED BY <2>1, <2>2, RetentionAssumption, AgesAssumption DEF InRetention, Claimable, Fresh
  <1> QED BY <1>1, LedgerInvariance, PTL

\* Unless the last save failed, a crash loses no balance and no claim mark.
THEOREM LedgerNothingToLose == Spec => []NothingToLose
  <1>1. LedgerInv => NothingToLose
    BY DEF LedgerInv
  <1> QED BY <1>1, LedgerInvariance, PTL

\* No stamp outlives its claim mark.
THEOREM LedgerStampsAreOfClaimed == Spec => []StampsAreOfClaimed
  <1>1. LedgerInv => StampsAreOfClaimed
    BY DEF LedgerInv
  <1> QED BY <1>1, LedgerInvariance, PTL

-----------------------------------------------------------------------------
(* The supply. *)

\* Every operation knows finitely many accounts more, and so does the file it saves.
LEMMA FiniteAccountsStep == LedgerInv /\ FiniteAccounts /\ [Next]_vars => FiniteAccounts'
  <1> SUFFICES ASSUME LedgerInv, FiniteAccounts, [Next]_vars PROVE FiniteAccounts'
    OBVIOUS
  <1> USE DEF FiniteAccounts
  <1>1. ASSUME IsFiniteSet(DOMAIN state'.balances), save_atomic PROVE FiniteAccounts'
    BY <1>1 DEF save_atomic
  <1>2. CASE Open \/ Tick \/ UNCHANGED vars
    BY <1>2 DEF Open, Tick, vars
  <1>3. CASE Stop
    <2>1. DOMAIN state'.balances = {} /\ file' = file
      BY <1>3 DEF Stop, EmptyState
    <2> QED BY <2>1, FS_EmptySet
  <1>4. ASSUME NEW s, IsFiniteSet(DOMAIN s), NEW k, NEW v PROVE IsFiniteSet(DOMAIN Put(s, k, v))
    <2>1. DOMAIN Put(s, k, v) = DOMAIN s \cup {k}
      BY DEF Put
    <2> QED BY <1>4, <2>1, FS_AddElement
  <1>5. ASSUME NEW from, NEW to, NEW n PROVE IsFiniteSet(DOMAIN Move(state, from, to, n))
    BY <1>4 DEF Move
  <1>6. ASSUME NEW a \in Accounts, NEW n \in SeedAmounts, register_account(a, n)
        PROVE  FiniteAccounts'
    <2>1. state'.balances = IF a \in DOMAIN state.balances THEN state.balances
                            ELSE Put(state.balances, a, n)
      BY <1>6 DEF register_account, LedgerInv, TypeOK, IsLedgerState
    <2>2. IsFiniteSet(DOMAIN state'.balances)
      BY <1>4, <2>1
    <2> QED BY <1>1, <1>6, <2>2 DEF register_account
  <1>7. ASSUME NEW from \in Accounts, NEW to \in Accounts, NEW n \in TransferAmounts,
               transfer(from, to, n)
        PROVE  FiniteAccounts'
    <2>1. state'.balances = Move(state, from, to, n)
      BY <1>7 DEF transfer, LedgerInv, TypeOK, IsLedgerState
    <2> QED BY <1>1, <1>5, <1>7, <2>1 DEF transfer
  <1>8. ASSUME NEW r \in Receipts, claim_receipt(r) \/ claim_gossip_receipt(r)
        PROVE  FiniteAccounts'
    <2>1. state' = Paid(state, r) /\ save_atomic
      BY <1>8 DEF claim_receipt, claim_gossip_receipt
    <2>2. IsFiniteSet(DOMAIN state'.balances)
      BY <1>5, <2>1 DEF Paid
    <2> QED BY <1>1, <2>1, <2>2
  <1>9. ASSUME NEW ext \in Exports, import_state(ext) PROVE FiniteAccounts'
    <2>1. DOMAIN state'.balances = DOMAIN state.balances \cup DOMAIN ext.balances
      BY <1>9 DEF import_state, Merged
    <2>2. IsFiniteSet(DOMAIN state'.balances)
      BY <2>1, ExportsAssumption, FS_Union
    <2> QED BY <1>1, <1>9, <2>2 DEF import_state
  <1>10. CASE prune_old_receipts
    <2>1. state'.balances = state.balances
      BY <1>10 DEF prune_old_receipts, Pruned
    <2> QED BY <1>1, <1>10, <2>1 DEF prune_old_receipts
  <1> QED BY <1>2, <1>3, <1>6, <1>7, <1>8, <1>9, <1>10 DEF Next

LEMMA FiniteAccountsInvariance == Spec => []FiniteAccounts
  <1>1. Init => FiniteAccounts
    <2>1. IsFiniteSet(DOMAIN EmptyState.balances)
      BY FS_EmptySet DEF EmptyState
    <2> QED BY <2>1, InitialFilesAssumption DEF Init, FiniteAccounts
  <1> QED BY <1>1, FiniteAccountsStep, LedgerInvariance, PTL DEF Spec

\* A claim, from the node itself or from gossip, moves iTokens between two accounts: it
\* makes none and destroys none, for every number of accounts.
THEOREM LedgerSupplyKept == Spec => SupplyKept
  <1> DEFINE Kept == up /\ up' /\ payouts' # payouts => Supply(state') = Supply(state)
  <1>1. LedgerInv /\ FiniteAccounts /\ [Next]_vars => [Kept]_vars
    <2> SUFFICES ASSUME LedgerInv, FiniteAccounts, Next, up, up', payouts' # payouts
                 PROVE  Supply(state') = Supply(state)
      OBVIOUS
    <2>1. PICK r \in Receipts : Acceptable(state, r) /\ state' = Paid(state, r)
      BY DEF Next, Open, Stop, Tick, register_account, transfer, claim_receipt,
             claim_gossip_receipt, import_state, prune_old_receipts, Claimable
    <2>2. /\ Receipt[r].client_pubkey \in Accounts /\ Receipt[r].node_pubkey \in Accounts
          /\ Receipt[r].amount_nano \in Nat /\ Receipt[r].client_pubkey # Receipt[r].node_pubkey
      BY <2>1, ReceiptAssumption DEF ReceiptType, Acceptable
    <2>3. state'.balances = Move(state, Receipt[r].client_pubkey, Receipt[r].node_pubkey,
                                 Receipt[r].amount_nano)
      BY <2>1 DEF Paid
    <2>4. IsLedgerState(state) /\ IsFiniteSet(DOMAIN state.balances)
      BY DEF LedgerInv, TypeOK, FiniteAccounts
    <2> QED BY <2>2, <2>3, <2>4, MoveKeepsSum DEF Supply
  <1>2. [][Kept]_vars => SupplyKept
    BY DEF SupplyKept
  <1> QED BY <1>1, <1>2, FiniteAccountsInvariance, LedgerInvariance, PTL DEF Spec

-----------------------------------------------------------------------------
(* Ledger implements Settlement: every start of a ledger is one of the     *)
(* abstract specification, and every step an abstract step or a stutter.   *)

memory == StatusIn(state, payouts)
disk   == StatusIn(file, filePayouts)

\* The mapping yields one of the four statuses.
LEMMA StatusType ==
    ASSUME NEW s, NEW pay
    PROVE  StatusIn(s, pay) \in [Receipts -> S!Status]
  BY DEF StatusIn, S!Status

\* An atomic save is an abstract save.
LEMMA SaveRefines == save_atomic => S!Save
  BY DEF save_atomic, S!Save

\* An unchanged memory, saved or not, is an abstract step that learns nothing.
LEMMA QuietStep ==
    ASSUME memory' = memory, clock' = clock, S!Save
    PROVE  S!Next
  <1>1. memory' \in [Receipts -> S!Status]
    BY StatusType DEF memory
  <1> QED BY <1>1 DEF S!Next, S!Learn, memory

\* Executing an acceptable receipt pays what was not remembered.
LEMMA PayStep ==
    ASSUME LedgerInv, NEW r \in Receipts, Acceptable(state, r),
           state' = Paid(state, r), payouts' = CountPayout(r), clock' = clock, save_atomic
    PROVE  S!Next
  <1>1. /\ state'.claimed_receipts = state.claimed_receipts \cup {r}
        /\ r \notin state.claimed_receipts
    BY DEF Paid, Acceptable
  <1>2. /\ payouts \in [Receipts -> 0..2]
        /\ payouts'[r] > 0
        /\ \A x \in Receipts : x # r => payouts'[x] = payouts[x]
    BY DEF LedgerInv, TypeOK, CountPayout
  <1>3. memory[r] \in {"unpaid", "forgotten"}
    BY <1>1 DEF memory, StatusIn
  <1>4. memory' = [memory EXCEPT ![r] = "paid"]
    BY <1>1, <1>2 DEF memory, StatusIn
  <1>5. S!Pay(r)
    BY <1>3, <1>4, SaveRefines DEF S!Pay, memory
  <1> QED BY <1>5 DEF S!Next

-----------------------------------------------------------------------------
LEMMA InitRefines == Init => S!Init
  <1> SUFFICES ASSUME Init PROVE S!Init
    OBVIOUS
  <1>1. memory = [r \in Receipts |-> "unpaid"]
    BY DEF Init, EmptyState, memory, StatusIn
  <1>2. disk \in [Receipts -> {"unpaid", "paid"}]
    BY DEF Init, disk, StatusIn
  <1> QED BY <1>1, <1>2 DEF Init, S!Init, memory, disk

LEMMA NextRefines == LedgerInv /\ [Next]_vars => [S!Next]_(S!vars)
  <1> SUFFICES ASSUME LedgerInv, [Next]_vars PROVE [S!Next]_(S!vars)
    OBVIOUS
  <1>1. CASE Open
    <2>1. memory' = disk /\ disk' = disk /\ clock' = clock
      BY <1>1 DEF Open, memory, disk
    <2> QED BY <2>1 DEF S!Next, S!Recover, memory, disk
  <1>2. CASE Stop
    <2>1. memory' = [r \in Receipts |-> "unpaid"]
      BY <1>2 DEF Stop, EmptyState, memory, StatusIn
    <2>2. disk' = disk /\ clock' = clock
      BY <1>2 DEF Stop, disk
    <2> QED BY <2>1, <2>2 DEF S!Next, S!Crash, memory, disk
  <1>3. CASE Tick
    <2>1. memory' = memory /\ disk' = disk /\ clock' = clock + 1
      BY <1>3 DEF Tick, memory, disk
    <2> QED BY <2>1 DEF S!Next, S!Tick, memory, disk
  <1>4. ASSUME NEW a \in Accounts, NEW n \in SeedAmounts, register_account(a, n)
        PROVE  S!Next
    <2>1. state'.claimed_receipts = state.claimed_receipts /\ payouts' = payouts
      BY <1>4 DEF register_account, LedgerInv, TypeOK, IsLedgerState
    <2>2. memory' = memory
      BY <2>1 DEF memory, StatusIn
    <2>3. clock' = clock /\ save_atomic
      BY <1>4 DEF register_account
    <2> QED BY <2>2, <2>3, SaveRefines, QuietStep
  <1>5. ASSUME NEW from \in Accounts, NEW to \in Accounts, NEW n \in TransferAmounts,
               transfer(from, to, n)
        PROVE  S!Next
    <2>1. state'.claimed_receipts = state.claimed_receipts /\ payouts' = payouts
      BY <1>5 DEF transfer, LedgerInv, TypeOK, IsLedgerState
    <2>2. memory' = memory
      BY <2>1 DEF memory, StatusIn
    <2>3. clock' = clock /\ save_atomic
      BY <1>5 DEF transfer
    <2> QED BY <2>2, <2>3, SaveRefines, QuietStep
  <1>6. ASSUME NEW r \in Receipts, claim_receipt(r)
        PROVE  S!Next
    BY <1>6, PayStep DEF claim_receipt, Claimable
  <1>7. ASSUME NEW r \in Receipts, claim_gossip_receipt(r)
        PROVE  S!Next
    BY <1>7, PayStep DEF claim_gossip_receipt
  <1>8. ASSUME NEW ext \in Exports, import_state(ext)
        PROVE  S!Next
    <2>1. /\ state'.claimed_receipts = state.claimed_receipts \cup ext.claimed_receipts
          /\ payouts' = payouts /\ clock' = clock
      BY <1>8 DEF import_state, Merged
    <2>2. \A r \in Receipts : \/ memory'[r] = memory[r]
                              \/ memory[r] = "unpaid" /\ memory'[r] = "noted"
                              \/ memory[r] = "forgotten" /\ memory'[r] = "paid"
      BY <2>1 DEF memory, StatusIn
    <2>3. S!Save
      BY <1>8, SaveRefines DEF import_state, S!Save
    <2>4. memory' \in [Receipts -> S!Status]
      BY StatusType DEF memory
    <2> QED BY <2>1, <2>2, <2>3, <2>4 DEF S!Next, S!Learn, S!Changes, memory
  <1>9. CASE prune_old_receipts
    <2>1. /\ state'.claimed_receipts = state.claimed_receipts \ Stale(state, clock)
          /\ payouts' = payouts /\ clock' = clock
      BY <1>9 DEF prune_old_receipts, Pruned
    <2>2. \A r \in Receipts : r \in Stale(state, clock) /\ payouts[r] > 0 => ~InRetention(r)
      <3> SUFFICES ASSUME NEW r \in Receipts, r \in Stale(state, clock), payouts[r] > 0
                   PROVE  ~InRetention(r)
        OBVIOUS
      <3>1. /\ state.receipt_timestamps[r] >= Receipt[r].timestamp
            /\ state.receipt_timestamps[r] \in Nat
            /\ clock \in Nat
        BY DEF LedgerInv, Remembered, Stale, TypeOK, IsLedgerState, IsMap
      <3>2. Receipt[r].timestamp \in Nat /\ Retention \in Nat
        BY ReceiptAssumption, RetentionAssumption DEF ReceiptType
      <3> QED BY <3>1, <3>2 DEF Stale, InRetention
    <2>3. \A r \in Receipts : ~InRetention(r) => clock > Receipt[r].timestamp + Retention
      BY ReceiptAssumption, RetentionAssumption DEF ReceiptType, InRetention, LedgerInv, TypeOK
    <2>4. \A r \in Receipts :
             \/ memory'[r] = memory[r]
             \/ memory[r] = "noted" /\ memory'[r] = "unpaid"
             \/ /\ memory[r] = "paid" /\ memory'[r] = "forgotten"
                /\ clock > Receipt[r].timestamp + Retention
      BY <2>1, <2>2, <2>3 DEF memory, StatusIn
    <2>5. S!Save
      BY <1>9, SaveRefines DEF prune_old_receipts, S!Save
    <2>6. memory' \in [Receipts -> S!Status]
      BY StatusType DEF memory
    <2> QED BY <2>1, <2>4, <2>5, <2>6 DEF S!Next, S!Forget, S!Changes, memory
  <1>10. CASE UNCHANGED vars
    BY <1>10 DEF vars, S!vars, memory, disk
  <1> QED
    BY <1>1, <1>2, <1>3, <1>4, <1>5, <1>6, <1>7, <1>8, <1>9, <1>10 DEF Next

\* One node's ledger keeps the promises of Settlement, for every set of
\* accounts, receipts and exports, whatever fails: it pays only what it does not
\* remember, forgets what it paid only past the retention period, and a restart
\* takes balances and marks back together.
THEOREM LedgerKeepsSettlement == Spec => KeepsSettlement
  <1>1. Spec => []LedgerInv
    BY LedgerInvariance
  <1> QED BY <1>1, InitRefines, NextRefines, PTL DEF Spec, KeepsSettlement, S!Spec
=============================================================================
