----------------------------- MODULE Settlement -----------------------------
(***************************************************************************)
(* What one node's ledger promises about a receipt, with no balances,      *)
(* signatures, stamps or files in sight: the abstract specification that   *)
(* Ledger implements.                                                      *)
(*                                                                         *)
(* For the node a receipt is                                               *)
(*    "unpaid"     never heard of, or forgotten before it was paid here,   *)
(*    "noted"      known from a peer to be settled, and not paid here,     *)
(*    "paid"       in the balances, and remembered,                        *)
(*    "forgotten"  in the balances, and no longer remembered.              *)
(* A receipt that is paid may be forgotten only past its deadline.  Saving *)
(* puts the whole memory on disk or nothing, and a restart gets the whole  *)
(* disk: what a crash takes back it takes back of the balances and of the  *)
(* marks together.                                                         *)
(***************************************************************************)
EXTENDS Integers

CONSTANTS
    Receipts,
    Deadline        \* until when a paid receipt must be remembered

VARIABLES
    memory,         \* what each receipt is for the running node
    disk,           \* what it would be after a restart
    now

vars == <<memory, disk, now>>

Status == {"unpaid", "noted", "paid", "forgotten"}

Init ==
    /\ memory = [r \in Receipts |-> "unpaid"]
    /\ disk \in [Receipts -> {"unpaid", "paid"}]
    /\ now = 0

Save == disk' = memory' \/ disk' = disk

\* Only a receipt that is not remembered can be paid.
Pay(r) ==
    /\ memory[r] \in {"unpaid", "forgotten"}
    /\ memory' = [memory EXCEPT ![r] = "paid"]
    /\ Save
    /\ now' = now

Changes(from, to, r) == memory[r] = from /\ memory'[r] = to

\* A peer tells of receipts: none becomes less known than it was.
Learn ==
    /\ memory' \in [Receipts -> Status]
    /\ \A r \in Receipts : \/ memory'[r] = memory[r]
                           \/ Changes("unpaid", "noted", r)
                           \/ Changes("forgotten", "paid", r)
    /\ Save
    /\ now' = now

Forget ==
    /\ memory' \in [Receipts -> Status]
    /\ \A r \in Receipts : \/ memory'[r] = memory[r]
                           \/ Changes("noted", "unpaid", r)
                           \/ now > Deadline[r] /\ Changes("paid", "forgotten", r)
    /\ Save
    /\ now' = now

Crash ==
    /\ memory' = [r \in Receipts |-> "unpaid"]
    /\ UNCHANGED <<disk, now>>

Recover ==
    /\ memory' = disk
    /\ UNCHANGED <<disk, now>>

Tick ==
    /\ now' = now + 1
    /\ UNCHANGED <<memory, disk>>

Next ==
    \/ \E r \in Receipts : Pay(r)
    \/ Learn
    \/ Forget
    \/ Crash
    \/ Recover
    \/ Tick

Spec == Init /\ [][Next]_vars
=============================================================================
