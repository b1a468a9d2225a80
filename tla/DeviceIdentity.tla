--------------------------- MODULE DeviceIdentity ---------------------------
(***************************************************************************)
(* What the key directory promises to whoever runs `ori deploy`: one       *)
(* identity, read and replaced under an exclusive lease.  A run that was   *)
(* not told to replace the identity leaves it alone; a run that was, or    *)
(* that found none, may install one of its own or put back what it found;  *)
(* a run announces only the identity in force.  Files, temporaries,        *)
(* backups and crashes do not appear here: KeyStore implements this        *)
(* specification.                                                          *)
(***************************************************************************)
CONSTANTS Procs, Keys, NoProc, NoKey

VARIABLES
  identity,   \* the identity in force, NoKey when there is none
  holder,     \* the run that holds the lease, NoProc when nobody does
  mayChange,  \* whether the holder was told to replace the identity
  found,      \* the identity the holder found
  announced   \* the identity the last successful run announced

absVars == <<identity, holder, mayChange, found, announced>>

AbsInit ==
  /\ identity \in Keys \cup {NoKey}
  /\ holder = NoProc
  /\ mayChange = FALSE
  /\ found = NoKey
  /\ announced = NoKey

Open(r) ==
  /\ holder = NoProc
  /\ holder' = r
  /\ mayChange' \in BOOLEAN
  /\ found' = identity
  /\ UNCHANGED <<identity, announced>>

\* The holder installs an identity of its own or puts back the one it found.
Install ==
  /\ holder # NoProc
  /\ mayChange \/ found = NoKey
  /\ identity' \in Keys \cup {found}
  /\ UNCHANGED <<holder, mayChange, found, announced>>

Close ==
  /\ holder' = NoProc
  /\ mayChange' = FALSE
  /\ found' = NoKey

Announce ==
  /\ holder # NoProc
  /\ identity # NoKey
  /\ announced' = identity
  /\ Close
  /\ UNCHANGED identity

\* The holder fails or dies.
Abandon ==
  /\ holder # NoProc
  /\ Close
  /\ UNCHANGED <<identity, announced>>

AbsNext ==
  \/ \E r \in Procs : Open(r)
  \/ Install
  \/ Announce
  \/ Abandon

AbsSpec == AbsInit /\ [][AbsNext]_absVars
=============================================================================
