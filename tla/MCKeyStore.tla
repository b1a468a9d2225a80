----------------------------- MODULE MCKeyStore -----------------------------
(***************************************************************************)
(* Instances of KeyStore for TLC: how many of each disturbance a run may   *)
(* meet, and the interchangeable processes and keys.                       *)
(***************************************************************************)
EXTENDS KeyStore, TLC

\* Killed processes and failing calls, but no power loss.
CrashBudget == [io |-> 1, read |-> 0, kill |-> 1, outage |-> 0, damage |-> 0]

\* Every disturbance.
OutageBudget == [io |-> 1, read |-> 1, kill |-> 2, outage |-> 1, damage |-> 1]

\* Two killed processes and a power loss, with no failing call.
KilledTwiceBudget == [io |-> 0, read |-> 0, kill |-> 2, outage |-> 1, damage |-> 0]

\* Only a private key file that cannot be loaded.
DamageBudget == [io |-> 0, read |-> 0, kill |-> 0, outage |-> 0, damage |-> 1]

\* One killed process, and one failing read while the next one recovers.
UnreadBudget == [io |-> 0, read |-> 1, kill |-> 1, outage |-> 0, damage |-> 0]

Interchangeable == Permutations(Procs) \cup Permutations(Keys)
=============================================================================
