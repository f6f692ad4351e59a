------------------------------- MODULE DataDir -------------------------------
(***************************************************************************)
(* The start of the daemon on its data directory: the lock file of main    *)
(* (src/main.rs) and load_or_generate_keypair of                           *)
(* crates/itoken-core/src/crypto.rs.                                       *)
(*                                                                         *)
(* The lock file is opened for as long as the process lives; on Windows    *)
(* without sharing, so that a second process cannot open it, elsewhere     *)
(* without any exclusion.  The key file is written in place: a process     *)
(* that stops in the middle leaves it short.  node_key.dat stands for both *)
(* key files; their handling is the same.                                  *)
(***************************************************************************)
EXTENDS Integers

CONSTANTS
    Processes,
    Keys,           \* what generate_keypair may return
    NoKey,
    Exclusive       \* the lock file is opened without sharing: FALSE but on Windows

VARIABLES
    process,        \* what each process is about to do, and its key
    holders,        \* processes that have the lock file open
    key_file,       \* "none", "short", or the key
    identities      \* history: the keys processes have run under

vars == <<process, holders, key_file, identities>>

Doing(step, k) == [step |-> step, key |-> k]

Init ==
    /\ process = [p \in Processes |-> Doing("down", NoKey)]
    /\ holders = {}
    /\ key_file = "none"
    /\ identities = {}

Goes(p, step, k) == process' = [process EXCEPT ![p] = Doing(step, k)]

\* Mutant: the lock file is closed as soon as it was opened.
OpenLockAndDrop(p) ==
    /\ process[p].step = "down"
    /\ Exclusive => holders = {}
    /\ holders' = holders
    /\ Goes(p, "locked", NoKey)
    /\ UNCHANGED <<key_file, identities>>

OpenLock(p) ==
    /\ process[p].step = "down"
    /\ Exclusive => holders = {}
    /\ holders' = holders \cup {p}
    /\ Goes(p, "locked", NoKey)
    /\ UNCHANGED <<key_file, identities>>

\* The file exists: it is read as a whole, and a short one refused.
LoadKey(p) ==
    /\ process[p].step = "locked"
    /\ key_file \in Keys
    /\ Goes(p, "running", key_file)
    /\ identities' = identities \cup {key_file}
    /\ UNCHANGED <<holders, key_file>>

RefuseShortKey(p) ==
    /\ process[p].step = "locked"
    /\ key_file = "short"
    /\ Goes(p, "down", NoKey)
    /\ holders' = holders \ {p}
    /\ UNCHANGED <<key_file, identities>>

GenerateKey(p) ==
    /\ process[p].step = "locked"
    /\ key_file = "none"
    /\ \E k \in Keys : Goes(p, "generated", k)
    /\ UNCHANGED <<holders, key_file, identities>>

\* The file is created, or emptied, and then written.
TruncateKey(p) ==
    /\ process[p].step = "generated"
    /\ key_file' = "short"
    /\ Goes(p, "writing", process[p].key)
    /\ UNCHANGED <<holders, identities>>

WriteKey(p) ==
    /\ process[p].step = "writing"
    /\ key_file' = process[p].key
    /\ Goes(p, "running", process[p].key)
    /\ identities' = identities \cup {process[p].key}
    /\ UNCHANGED holders

\* The process stops or crashes, anywhere.
Die(p) ==
    /\ process[p].step # "down"
    /\ Goes(p, "down", NoKey)
    /\ holders' = holders \ {p}
    /\ UNCHANGED <<key_file, identities>>

Next ==
    \E p \in Processes :
        \/ OpenLock(p)
        \/ LoadKey(p) \/ RefuseShortKey(p) \/ GenerateKey(p)
        \/ TruncateKey(p) \/ WriteKey(p)
        \/ Die(p)

-----------------------------------------------------------------------------
TypeOK ==
    /\ \A p \in Processes :
          /\ process[p].step \in {"down", "locked", "generated", "writing", "running"}
          /\ process[p].step = "down" <=> p \notin holders
          /\ process[p].step = "running" => process[p].key \in Keys
    /\ key_file \in Keys \cup {"none", "short"}
    /\ identities \subseteq Keys

\* Where the lock excludes, a data directory has one identity for ever: whatever
\* process runs on it, before or after crashes in the middle of the first start,
\* runs under the key that is in the file, and no two ever ran under different
\* keys, so that the balances in its ledger keep their owner.
OneIdentity ==
    Exclusive =>
        /\ \A k, l \in identities : k = l
        /\ \A p \in Processes : process[p].step = "running" => key_file = process[p].key

\* What makes OneIdentity inductive: the process that has the lock is the only one that
\* does anything, a key it has generated is for a file that is not there or short,
\* and what has ever run is what a whole file says.
DirectoryInv ==
    /\ process \in [Processes -> [step : {"down", "locked", "generated", "writing", "running"},
                                  key  : Keys \cup {NoKey}]]
    /\ holders \subseteq Processes
    /\ \A r \in Processes : process[r].step \in {"generated", "writing"} => process[r].key \in Keys
    /\ TypeOK
    /\ Exclusive =>
          /\ \A p, q \in holders : p = q
          /\ \A r \in Processes :
                /\ process[r].step = "generated" => key_file = "none"
                /\ process[r].step = "writing" => key_file = "short"
                /\ process[r].step = "running" => key_file = process[r].key
          /\ identities \subseteq {key_file}

=============================================================================
