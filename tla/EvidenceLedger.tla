--------------------------- MODULE EvidenceLedger ---------------------------
(***************************************************************************)
(* What device evidence ingestion promises the rest of HajiriFlow, with    *)
(* no worker, transaction, lock or retry in sight.                         *)
(*                                                                         *)
(* A device numbers the punches it records 1, 2, 3, ...  The ledger is the *)
(* set of punches the database has accepted, and resume[d] is the cursor   *)
(* the next ordinary pull of d will send: everything up to it is skipped   *)
(* forever, so everything up to it must already be in the ledger.          *)
(***************************************************************************)
EXTENDS Naturals

CONSTANTS
  Devices,      \* registered devices
  MaxPunch      \* bound: punches one device ever records

VARIABLES
  recorded,     \* recorded[d]: punches device d has recorded so far
  ledger,       \* ledger[d]: punches of d accepted as raw evidence
  resume        \* resume[d]: cursor of the next ordinary pull (0: from the start)

ledgerVars == <<recorded, ledger, resume>>

Init ==
  /\ recorded = [d \in Devices |-> 0]
  /\ ledger = [d \in Devices |-> {}]
  /\ resume = [d \in Devices |-> 0]

\* Somebody punches at device d.
Record(d) ==
  /\ recorded[d] < MaxPunch
  /\ recorded' = [recorded EXCEPT ![d] = recorded[d] + 1]
  /\ UNCHANGED <<ledger, resume>>

\* Evidence is accepted: nothing is dropped, nothing is invented, and the
\* resume point of every device stays behind evidence that was accepted.
Accept ==
  /\ ledger' \in [Devices -> SUBSET (1 .. MaxPunch)]
  /\ resume' \in [Devices -> 0 .. MaxPunch]
  /\ \A d \in Devices :
       /\ ledger[d] \subseteq ledger'[d]
       /\ ledger'[d] \subseteq 1 .. recorded[d]
       /\ 1 .. resume'[d] \subseteq ledger'[d]
  /\ UNCHANGED recorded

Next == Accept \/ \E d \in Devices : Record(d)

Spec == Init /\ [][Next]_ledgerVars

=============================================================================
