------------------------------ MODULE KeyStore ------------------------------
(***************************************************************************)
(* The device key directory (~/.ori) as several `ori deploy` processes     *)
(* share it: internal/deploy/keys.go, one step per system call that        *)
(* changes the directory, and the health gate of cmd/deploy.go before it.  *)
(*                                                                         *)
(* A private key file, its public projection and the backup of the         *)
(* previous private key are directory entries; each holds the key it was   *)
(* written for.  `dir` is what a process sees, `disk` the directories that *)
(* may be found after a power loss: those the directory has been through   *)
(* since it was last synced.  The file contents are synced before they are *)
(* renamed into place, so an entry is never found torn.                    *)
(***************************************************************************)
EXTENDS Naturals, FiniteSets

CONSTANTS
  Procs,   \* deploy processes
  Keys,    \* the keypairs the random source can produce: a bound on generations
  NoProc,
  NoKey,
  Budget   \* how often each disturbance may still happen: a bound

(***************************************************************************)
(* The disturbances: a failing system call, a failing read in              *)
(* keyPairMatches (it is handled like no other), a killed process, a power *)
(* loss, and a private key file made unreadable (damaged, or its mode      *)
(* changed).                                                               *)
(***************************************************************************)
Disturbances == {"io", "read", "kill", "outage", "damage"}

ASSUME NoProcAssumption == NoProc \notin Procs
ASSUME NoKeyAssumption == NoKey \notin Keys
ASSUME BudgetAssumption == Budget \in [Disturbances -> Nat]

VARIABLES
  dir,        \* entry -> the key whose file it names, as processes see it
  disk,       \* the directories a power loss may leave
  tmps,       \* kinds of temporary file present (.device.key.tmp.*, .device.pub.tmp.*)
  damaged,    \* keys whose private file cannot be loaded
  lock,       \* holder of the flock on .device.key.lock
  pc,         \* next step of each process
  force,      \* --force
  mode,       \* which caller the shared steps return to
  key,        \* the key a process generated or loaded
  used,       \* keys generated so far
  budget,     \* disturbances left
  base,       \* history: the identity the lock holder found, then the one it replaces
  announced,  \* history: the key the last successful run reported
  reported,   \* history: announced, until a forced run takes the lock
  settled,    \* history: the key the last generating run reported, until a
              \*          replacement of it reaches its commit point
  retired,    \* history: keys a successful forced run replaced
  provisioned \* history: some run has generated and reported an identity

fs == <<dir, disk, tmps>>
local == <<force, mode, key>>
history == <<base, announced, reported, settled, retired, provisioned>>
vars == <<fs, damaged, lock, pc, local, used, budget, history>>

-----------------------------------------------------------------------------
Entries == {"priv", "pub", "bak"}
Dirs == [Entries -> Keys \cup {NoKey}]
Empty == [e \in Entries |-> NoKey]

Resting == {"idle", "ok", "failed"}

Labels == Resting \cup
  { "lock", "sweep", "inspect", "match", "dropBak", "syncDropBak",
    "dropPriv", "restore", "rewrite", "rewriteTemp", "rewriteMove", "rewriteSync",
    "restoreSync", "dropPub", "syncDropPub", "decide",
    "writeTempPriv", "writeTempPub", "clearBak", "backup", "syncBackup",
    "commitPriv", "syncPriv", "commitPub", "syncPub", "retireBak", "syncRetire",
    "rollback", "undoPriv", "undoPub", "undoSync", "unlockOk", "unlockFail" }

Modes == {"none", "repair", "restore", "rollback", "create", "replace"}

Removed(e) == [dir EXCEPT ![e] = NoKey]
Moved(from, to) == [dir EXCEPT ![to] = dir[from], ![from] = NoKey]
Placed(e, k) == [dir EXCEPT ![e] = k]

(***************************************************************************)
(* The identity a directory stands for: the one an undisturbed recover()   *)
(* ends with.                                                              *)
(***************************************************************************)
Matches(d) == d["priv"] = d["pub"] /\ d["priv"] # NoKey /\ d["priv"] \notin damaged

Recovered(d) ==
  IF d["bak"] # NoKey /\ ~Matches(d) THEN d["bak"] ELSE d["priv"]

-----------------------------------------------------------------------------
(***************************************************************************)
(* The shapes of a step: where it goes, and what it does to the directory. *)
(***************************************************************************)
Goto(r, to) == pc' = [pc EXCEPT ![r] = to]

\* A step that only reads or decides.
Pass(r, from, to) ==
  /\ pc[r] = from
  /\ Goto(r, to)
  /\ UNCHANGED <<dir, disk>>

\* os.Remove or os.Rename: visible at once, durable only after a sync.
Change(r, from, to, d) ==
  /\ pc[r] = from
  /\ Goto(r, to)
  /\ dir' = d
  /\ disk' = disk \cup {d}

SyncDirectory(r, from, to) ==
  /\ pc[r] = from
  /\ Goto(r, to)
  /\ disk' = {dir}
  /\ UNCHANGED dir

Spend(what) ==
  /\ budget[what] > 0
  /\ budget' = [budget EXCEPT ![what] = @ - 1]


quiet == <<damaged, lock, force, key, used, budget, history>>

-----------------------------------------------------------------------------
(***************************************************************************)
(* Starting: the health gate, the lock, and what a run finds.              *)
(***************************************************************************)

\* The runtime's health snapshot passes the gate and EnsureKeypair(f) begins.
\* (Nobody starts a forced run once the bound on generations is reached.)
Start(r, f) ==
  /\ pc[r] \in Resting
  /\ f => used # Keys
  /\ Goto(r, "lock")
  /\ force' = [force EXCEPT ![r] = f]
  /\ UNCHANGED <<fs, damaged, lock, mode, key, used, budget, history>>

\* No health, not canonical, no device ID or a bad evidence anchor: the
\* command fails before it touches the key directory.
RefuseHealth(r) ==
  /\ pc[r] \in Resting
  /\ Goto(r, "failed")
  /\ UNCHANGED <<fs, damaged, lock, local, used, budget, history>>

\* Mutant: the lock is taken shared.
AcquireLockShared(r) ==
  /\ pc[r] = "lock"
  /\ lock' = r
  /\ Goto(r, "sweep")
  /\ base' = Recovered(dir)
  /\ reported' = IF force[r] THEN NoKey ELSE reported
  /\ UNCHANGED <<fs, damaged, local, used, budget, announced, settled, retired, provisioned>>

AcquireLock(r) ==
  /\ pc[r] = "lock"
  /\ IF lock = NoProc
     THEN /\ lock' = r
          /\ Goto(r, "sweep")
          /\ base' = Recovered(dir)
          /\ reported' = IF force[r] THEN NoKey ELSE reported
     ELSE /\ Goto(r, "failed")            \* errKeyStoreLocked
          /\ UNCHANGED <<lock, base, reported>>
  /\ UNCHANGED <<fs, damaged, local, used, budget, announced, settled, retired, provisioned>>

-----------------------------------------------------------------------------
(***************************************************************************)
(* recover: every run begins by bringing the directory to a known state.   *)
(***************************************************************************)

\* removeGlob over both kinds of stale temporary.
Sweep(r) ==
  /\ Pass(r, "sweep", "inspect")
  /\ tmps' = {}
  /\ UNCHANGED <<mode, quiet>>

\* Mutant: any pair beside a backup counts as committed.
RecoveryBranchUnmatched ==
  IF dir["bak"] # NoKey
  THEN IF dir["priv"] # NoKey /\ dir["pub"] # NoKey THEN "dropBak" ELSE "dropPriv"
  ELSE IF dir["priv"] # NoKey THEN "rewrite"
  ELSE IF dir["pub"] # NoKey THEN "dropPub" ELSE "decide"

\* Mutant: whatever stands beside a backup is rolled back.
RecoveryBranchBackupFirst ==
  IF dir["bak"] # NoKey THEN "dropPriv"
  ELSE IF dir["priv"] # NoKey THEN "rewrite"
  ELSE IF dir["pub"] # NoKey THEN "dropPub" ELSE "decide"

\* Mutant: a private key without its projection is not repaired.
RecoveryBranchUnrepaired ==
  IF dir["bak"] # NoKey
  THEN IF dir["priv"] # NoKey /\ dir["pub"] # NoKey THEN "match" ELSE "dropPriv"
  ELSE IF dir["priv"] = NoKey /\ dir["pub"] # NoKey THEN "dropPub" ELSE "decide"

RecoveryBranch ==
  IF dir["bak"] # NoKey
  THEN IF dir["priv"] # NoKey /\ dir["pub"] # NoKey THEN "match" ELSE "dropPriv"
  ELSE IF dir["priv"] # NoKey THEN "rewrite"
  ELSE IF dir["pub"] # NoKey THEN "dropPub" ELSE "decide"

\* The three Lstat calls and the branch they choose.  Only the lock holder
\* writes the directory, so reading the entries together loses nothing.
Inspect(r) ==
  /\ Pass(r, "inspect", RecoveryBranch)
  /\ mode' = [mode EXCEPT ![r] = IF dir["bak"] # NoKey THEN "restore" ELSE "repair"]
  /\ UNCHANGED <<tmps, quiet>>

\* A matching pair beside a backup has committed; anything else is rolled back.
KeyPairMatches(r) ==
  /\ Pass(r, "match", IF Matches(dir) THEN "dropBak" ELSE "dropPriv")
  /\ UNCHANGED <<tmps, mode, quiet>>

\* A read error is handled as a mismatch.
KeyPairUnread(r) ==
  /\ Spend("read")
  /\ Pass(r, "match", "dropPriv")
  /\ UNCHANGED <<tmps, mode, damaged, lock, force, key, used, history>>

FinalizeCommitted(r) ==
  /\ \/ Change(r, "dropBak", "syncDropBak", Removed("bak"))
     \/ SyncDirectory(r, "syncDropBak", "decide")
  /\ UNCHANGED <<tmps, mode, quiet>>

\* A public key alone carries no authority.
DropOrphanedPublic(r) ==
  /\ \/ Change(r, "dropPub", "syncDropPub", Removed("pub"))
     \/ SyncDirectory(r, "syncDropPub", "decide")
  /\ UNCHANGED <<tmps, mode, quiet>>

\* Shared by recover and rollbackForcedReplacement, which ends in the error
\* that caused it.
RestoreBackup(r) ==
  /\ \/ Change(r, "dropPriv", "restore", Removed("priv"))
     \/ Change(r, "restore", "rewrite", Moved("bak", "priv"))
     \/ SyncDirectory(r, "restoreSync",
                      IF mode[r] = "rollback" THEN "unlockFail" ELSE "decide")
  /\ UNCHANGED <<tmps, mode, quiet>>

Rewritten(r) == IF mode[r] = "repair" THEN "decide" ELSE "restoreSync"

Loadable == dir["priv"] # NoKey /\ dir["priv"] \notin damaged

\* Mutant: a private key that cannot be loaded is left to the caller.
AfterCompareUnloaded(r) ==
  IF ~Loadable \/ dir["pub"] = dir["priv"] THEN Rewritten(r) ELSE "rewriteTemp"

AfterCompare(r) ==
  IF ~Loadable THEN "unlockFail"
  ELSE IF dir["pub"] = dir["priv"] THEN Rewritten(r) ELSE "rewriteTemp"

\* rewritePublicFromPrivate: load the private key, and stop there when the
\* public file already holds its projection.
CompareProjection(r) ==
  /\ Pass(r, "rewrite", AfterCompare(r))
  /\ UNCHANGED <<tmps, mode, quiet>>

RewriteProjection(r) ==
  /\ \/ /\ Pass(r, "rewriteTemp", "rewriteMove")
        /\ tmps' = tmps \cup {"pub"}
     \/ /\ Change(r, "rewriteMove", "rewriteSync", Placed("pub", dir["priv"]))
        /\ tmps' = tmps \ {"pub"}
     \/ /\ SyncDirectory(r, "rewriteSync", Rewritten(r))
        /\ UNCHANGED tmps
  /\ UNCHANGED <<mode, quiet>>

-----------------------------------------------------------------------------
(***************************************************************************)
(* EnsureKeypair after recovery, and writePair.                            *)
(***************************************************************************)

ReuseExisting(r) ==
  /\ ~force[r]
  /\ dir["priv"] # NoKey \/ dir["pub"] # NoKey
  /\ IF Matches(dir)                      \* loadValidPair
     THEN /\ Pass(r, "decide", "unlockOk")
          /\ key' = [key EXCEPT ![r] = dir["priv"]]
     ELSE /\ Pass(r, "decide", "unlockFail")
          /\ UNCHANGED key
  /\ UNCHANGED <<tmps, mode, damaged, lock, force, used, budget, history>>

\* Mutant: --force alone makes a replacement, even of a key that is not there.
ReplacingForced(r) == force[r]

Replacing(r) == force[r] /\ dir["priv"] # NoKey

\* ed25519.GenerateKey, then writePair decides whether it replaces a key.  A
\* random source that gives no key ends the run (and bounds the model).
Generate(r) ==
  /\ force[r] \/ (dir["priv"] = NoKey /\ dir["pub"] = NoKey)
  /\ IF used = Keys
     THEN /\ Pass(r, "decide", "unlockFail")
          /\ UNCHANGED <<key, used, mode, base>>
     ELSE /\ Pass(r, "decide", "writeTempPriv")
          /\ \E k \in Keys \ used :
               /\ key' = [key EXCEPT ![r] = k]
               /\ used' = used \cup {k}
          /\ mode' = [mode EXCEPT ![r] = IF Replacing(r) THEN "replace" ELSE "create"]
          /\ base' = dir["priv"]
  /\ UNCHANGED <<tmps, damaged, lock, force, budget, announced, reported, settled, retired, provisioned>>

WriteTemps(r) ==
  /\ \/ /\ Pass(r, "writeTempPriv", "writeTempPub")
        /\ tmps' = tmps \cup {"priv"}
     \/ /\ Pass(r, "writeTempPub", IF mode[r] = "replace" THEN "clearBak" ELSE "commitPriv")
        /\ tmps' = tmps \cup {"pub"}
  /\ UNCHANGED <<mode, quiet>>

\* Mutant: the previous key is removed to make room.
SetAsideRemoved == Removed("priv")

SetAside == Moved("priv", "bak")

\* The previous private key is set aside, durably, before the new one lands.
BackupPrivate(r) ==
  /\ \/ Change(r, "clearBak", "backup", Removed("bak"))
     \/ Change(r, "backup", "syncBackup", SetAside)
     \/ SyncDirectory(r, "syncBackup", "commitPriv")
  /\ UNCHANGED <<tmps, mode, quiet>>

CommitPrivate(r) ==
  /\ \/ /\ Change(r, "commitPriv", "syncPriv", Placed("priv", key[r]))
        /\ tmps' = tmps \ {"priv"}
     \/ /\ SyncDirectory(r, "syncPriv", "commitPub")
        /\ UNCHANGED tmps
  /\ UNCHANGED <<mode, quiet>>

\* The rename of the public key is the commit point of a replacement.
CommitPublic(r) ==
  /\ Change(r, "commitPub", "syncPub", Placed("pub", key[r]))
  /\ tmps' = tmps \ {"pub"}
  /\ settled' = IF mode[r] = "replace" THEN NoKey ELSE settled
  /\ UNCHANGED <<mode, damaged, lock, force, key, used, budget, base, announced, reported, retired, provisioned>>

\* Mutant: a replacement ends with its backup still there.
AfterSyncPublicKept(r) == "unlockOk"

AfterSyncPublic(r) == IF mode[r] = "replace" THEN "retireBak" ELSE "unlockOk"

SyncPublic(r) ==
  /\ SyncDirectory(r, "syncPub", AfterSyncPublic(r))
  /\ UNCHANGED <<tmps, mode, quiet>>

\* Mutant: the removal of the backup is not synced.
SyncRetireSkipped(r) == Pass(r, "syncRetire", "unlockOk")

SyncRetire(r) == SyncDirectory(r, "syncRetire", "unlockOk")

RetireBackup(r) ==
  /\ \/ Change(r, "retireBak", "syncRetire", Removed("bak"))
     \/ SyncRetire(r)
  /\ UNCHANGED <<tmps, mode, quiet>>

-----------------------------------------------------------------------------
(***************************************************************************)
(* The ways back, and the end of a run.                                    *)
(***************************************************************************)

\* rollbackForcedReplacement does nothing when there is no backup.
Rollback(r) ==
  /\ Pass(r, "rollback", IF dir["bak"] = NoKey THEN "unlockFail" ELSE "dropPriv")
  /\ mode' = [mode EXCEPT ![r] = "rollback"]
  /\ UNCHANGED <<tmps, quiet>>

\* A first creation is removed again.  (Where the code does not remove the
\* public file there is none yet.)  The errors of these calls are ignored.
UndoCreation(r) ==
  /\ \/ Change(r, "undoPriv", "undoPub", Removed("priv"))
     \/ Change(r, "undoPub", "undoSync", Removed("pub"))
     \/ SyncDirectory(r, "undoSync", "unlockFail")
  /\ UNCHANGED <<tmps, mode, quiet>>

\* The lock is released and the run reports: deploy prints the public key.
Report(r) ==
  /\ pc[r] = "unlockOk"
  /\ Goto(r, "ok")
  /\ lock' = NoProc
  /\ announced' = key[r]
  /\ reported' = key[r]
  /\ settled' = IF mode[r] \in {"create", "replace"} THEN key[r] ELSE settled
  /\ retired' = IF mode[r] = "replace" THEN retired \cup {base} ELSE retired
  /\ provisioned' = (provisioned \/ mode[r] \in {"create", "replace"})
  /\ mode' = [mode EXCEPT ![r] = "none"]
  /\ key' = [key EXCEPT ![r] = NoKey]
  /\ force' = [force EXCEPT ![r] = FALSE]
  /\ UNCHANGED <<fs, damaged, used, budget, base>>

\* The lock is released after an error, or its release fails and turns the
\* result into one; closing the file drops the lock either way.
Fail(r) ==
  /\ \/ pc[r] = "unlockFail" /\ UNCHANGED budget
     \/ pc[r] = "unlockOk" /\ Spend("io")
  /\ Goto(r, "failed")
  /\ lock' = NoProc
  /\ mode' = [mode EXCEPT ![r] = "none"]
  /\ key' = [key EXCEPT ![r] = NoKey]
  /\ force' = [force EXCEPT ![r] = FALSE]
  /\ UNCHANGED <<fs, damaged, used, history>>

-----------------------------------------------------------------------------
(***************************************************************************)
(* Disturbances.                                                           *)
(***************************************************************************)

\* Where the error path of each step leads.
OnError(r) ==
  LET replacing == mode[r] = "replace"
  IN  CASE pc[r] = "lock"       -> "failed"
        [] pc[r] = "syncBackup" -> "rollback"
        [] pc[r] = "commitPriv" -> IF replacing THEN "rollback" ELSE "unlockFail"
        [] pc[r] \in {"syncPriv", "commitPub", "syncPub"}
                                -> IF replacing THEN "rollback" ELSE "undoPriv"
        [] pc[r] = "undoPriv"   -> "undoPub"
        [] pc[r] = "undoPub"    -> "undoSync"
        [] OTHER                -> "unlockFail"

\* A system call fails and leaves the directory as it was.  Error paths
\* remove the temporaries and ignore it when that fails too.
IoError(r) ==
  /\ pc[r] \notin Resting \cup {"match", "unlockOk", "unlockFail"}
  /\ Spend("io")
  /\ Goto(r, OnError(r))
  /\ tmps' \in SUBSET tmps
  /\ UNCHANGED <<dir, disk, damaged, lock, local, used, history>>

\* The public file cannot be read: it is rewritten even if it was right.
PublicUnread(r) ==
  /\ Spend("io")
  /\ Loadable
  /\ Pass(r, "rewrite", "rewriteTemp")
  /\ UNCHANGED <<tmps, mode, damaged, lock, force, key, used, history>>

\* A killed process: the kernel drops its flock.
Kill(r) ==
  /\ pc[r] \notin Resting
  /\ Spend("kill")
  /\ Goto(r, "idle")
  /\ lock' = IF lock = r THEN NoProc ELSE lock
  /\ mode' = [mode EXCEPT ![r] = "none"]
  /\ key' = [key EXCEPT ![r] = NoKey]
  /\ force' = [force EXCEPT ![r] = FALSE]
  /\ UNCHANGED <<fs, damaged, used, history>>

\* The host loses power: every process is gone, and the directory is one of
\* those it has been through since it was last synced.
PowerLoss ==
  /\ Spend("outage")
  /\ \E d \in disk : dir' = d /\ disk' = {d}
  /\ tmps' \in SUBSET tmps
  /\ pc' = [r \in Procs |-> "idle"]
  /\ lock' = NoProc
  /\ mode' = [r \in Procs |-> "none"]
  /\ key' = [r \in Procs |-> NoKey]
  /\ force' = [r \in Procs |-> FALSE]
  /\ UNCHANGED <<damaged, used, history>>

\* The private key file is damaged, or its mode changed, between runs.
Damage ==
  /\ lock = NoProc
  /\ dir["priv"] # NoKey
  /\ Spend("damage")
  /\ damaged' = damaged \cup {dir["priv"]}
  /\ UNCHANGED <<fs, lock, pc, local, used, history>>

-----------------------------------------------------------------------------
Init ==
  /\ dir = Empty
  /\ disk = {Empty}
  /\ tmps = {}
  /\ damaged = {}
  /\ lock = NoProc
  /\ pc = [r \in Procs |-> "idle"]
  /\ force = [r \in Procs |-> FALSE]
  /\ mode = [r \in Procs |-> "none"]
  /\ key = [r \in Procs |-> NoKey]
  /\ used = {}
  /\ budget = Budget
  /\ base = NoKey
  /\ announced = NoKey
  /\ reported = NoKey
  /\ settled = NoKey
  /\ retired = {}
  /\ provisioned = FALSE

RecoverStep(r) ==
  \/ Sweep(r)
  \/ Inspect(r)
  \/ KeyPairMatches(r)
  \/ FinalizeCommitted(r)
  \/ DropOrphanedPublic(r)
  \/ RestoreBackup(r)
  \/ CompareProjection(r)
  \/ RewriteProjection(r)

WriteStep(r) ==
  \/ ReuseExisting(r)
  \/ Generate(r)
  \/ WriteTemps(r)
  \/ BackupPrivate(r)
  \/ CommitPrivate(r)
  \/ CommitPublic(r)
  \/ SyncPublic(r)
  \/ RetireBackup(r)
  \/ Rollback(r)
  \/ UndoCreation(r)

Proceed(r) == AcquireLock(r) \/ RecoverStep(r) \/ WriteStep(r) \/ Report(r) \/ Fail(r)

Disturb(r) == KeyPairUnread(r) \/ IoError(r) \/ PublicUnread(r) \/ Kill(r)

Next ==
  \/ \E r \in Procs : \/ \E f \in BOOLEAN : Start(r, f)
                      \/ RefuseHealth(r)
                      \/ Proceed(r)
                      \/ Disturb(r)
  \/ PowerLoss
  \/ Damage

Spec == Init /\ [][Next]_vars

(***************************************************************************)
(* A run that has begun goes on, and the operator keeps running the        *)
(* command without --force while the others may or may not run at all.     *)
(***************************************************************************)
FairSpec ==
  /\ Spec
  /\ \A r \in Procs : WF_vars(Proceed(r)) /\ SF_vars(Start(r, FALSE))

-----------------------------------------------------------------------------
(***************************************************************************)
(* Properties.                                                             *)
(***************************************************************************)

\* The lock is held by exactly the process that is between taking it and
\* reporting.
Holding == Labels \ (Resting \cup {"lock"})

\* Every variable has its type; the lock has a holder exactly while a process
\* is inside EnsureKeypair, and it is that process.
TypeOK ==
  /\ dir \in Dirs
  /\ disk \in SUBSET Dirs /\ dir \in disk
  /\ tmps \subseteq {"priv", "pub"}
  /\ damaged \subseteq Keys
  /\ lock \in Procs \cup {NoProc}
  /\ pc \in [Procs -> Labels]
  /\ force \in [Procs -> BOOLEAN]
  /\ mode \in [Procs -> Modes]
  /\ key \in [Procs -> Keys \cup {NoKey}]
  /\ used \subseteq Keys
  /\ budget \in [Disturbances -> Nat]
  /\ {base, announced, reported, settled} \subseteq Keys \cup {NoKey}
  /\ retired \subseteq Keys
  /\ provisioned \in BOOLEAN
  /\ \A r \in Procs : pc[r] \in Holding <=> lock = r

\* What a run is about to report is what the directory holds: a complete pair
\* of that key, no backup and no temporary left behind (keys.go: EnsureKeypair
\* returns the identity it stored or loaded).
ReportMatchesStore ==
  \A r \in Procs : pc[r] = "unlockOk" =>
    /\ key[r] # NoKey
    /\ dir = [priv |-> key[r], pub |-> key[r], bak |-> NoKey]
    /\ tmps = {}

\* A key that a successful --force replaced never comes back, neither as a
\* private key nor as a backup, whatever is killed, fails or loses power
\* afterwards (keys.go: writePair syncs the removal of the backup).
RetiredNeverReturns ==
  \A d \in disk : {d["priv"], d["bak"]} \cap retired = {}

\* Once a run generated and reported an identity the directory always holds
\* a private key, in every state a power loss may leave (keys.go: the backup
\* is durable before the private key is overwritten, and recover removes a
\* private key only while there is a backup).
IdentityNeverLost ==
  provisioned =>
    \A d \in disk : d["priv"] # NoKey \/ d["bak"] # NoKey

\* An identity that a run generated and reported is the one every power loss
\* leads back to, until a forced replacement of it reaches its commit point
\* (README: --force retains the previous private identity until then).
SettledIdentityDurable ==
  settled # NoKey => \A d \in disk : Recovered(d) = settled

\* A private key file that cannot be loaded is left in place for the operator
\* by every run, forced or not (keys_test.go: it should remain for operator
\* recovery).
DamagedKeyKept ==
  [][dir["priv"] \in damaged /\ dir["bak"] = NoKey /\ budget'["outage"] = budget["outage"]
       => dir'["priv"] = dir["priv"]]_vars

\* The directory and its lock behave as one identity under a lease.
Identity == INSTANCE DeviceIdentity WITH
  identity <- Recovered(dir),
  holder <- lock,
  mayChange <- IF lock = NoProc THEN FALSE ELSE force[lock],
  found <- IF lock = NoProc THEN NoKey ELSE base

ImplementsIdentity == Identity!AbsSpec

\* However the runs before it ended, the command succeeds again and again for
\* an operator who repeats it: no crash leaves the directory wedged.
KeepsSucceeding == []<>(\E r \in Procs : pc[r] = "ok")

\* Re-running the command reuses the identity the last successful run
\* reported, unless a forced run began in between (README).
RerunReusesIdentity ==
  [][\A r \in Procs :
       pc[r] = "unlockOk" /\ pc'[r] = "ok" /\ ~force[r] /\ reported # NoKey
         => key[r] = reported]_vars

\* While it recovers, a run keeps an identity whose pair has reached its
\* commit point (recover's comment).
CommittedPairKept ==
  [][\A r \in Procs :
       lock = r /\ mode[r] = "restore" /\ Matches(dir)
         => Recovered(dir') = Recovered(dir)]_vars

-----------------------------------------------------------------------------
(***************************************************************************)
(* The inductive invariant behind RetiredNeverReturns and                  *)
(* IdentityNeverLost: what holds of the directory at each step of the run  *)
(* that holds the lock.                                                    *)
(***************************************************************************)
Writing ==
  { "writeTempPriv", "writeTempPub", "clearBak", "backup", "syncBackup",
    "commitPriv", "syncPriv", "commitPub", "syncPub", "retireBak", "syncRetire" }

Undoing == {"undoPriv", "undoPub", "undoSync"}

\* The caller the shared steps return to, at each step where it matters.
ModeInv(r) ==
  /\ pc[r] \in {"dropPub", "syncDropPub", "decide"} => mode[r] \in {"repair", "restore"}
  /\ pc[r] \in {"match", "dropBak", "syncDropBak"} => mode[r] = "restore"
  /\ pc[r] \in {"dropPriv", "restore", "restoreSync"} => mode[r] \in {"restore", "rollback"}
  /\ pc[r] \in {"rewrite", "rewriteTemp", "rewriteMove", "rewriteSync"}
       => mode[r] \in {"repair", "restore", "rollback"}
  /\ pc[r] \in Writing => mode[r] \in {"create", "replace"}
  /\ pc[r] \in {"clearBak", "backup", "syncBackup", "retireBak", "syncRetire"}
       => mode[r] = "replace"
  /\ pc[r] \in Undoing => mode[r] = "create"

\* A run that reports an identity it generated, or is on its way there.
Generated(r) ==
  pc[r] \in Writing \/ (pc[r] = "unlockOk" /\ mode[r] \in {"create", "replace"})

\* The key of a generating run is fresh: neither replaced nor the one it
\* replaces.  A first creation happens only before any identity was reported.
KeyInv(r) ==
  /\ Generated(r) => key[r] \in used \ (retired \cup {base})
  /\ Generated(r) /\ mode[r] = "replace" => base \in used
  /\ mode[r] = "create" /\ (pc[r] \in Writing \cup Undoing) => ~provisioned
  /\ pc[r] = "unlockOk" => key[r] \in Keys

\* What the directory holds at each step.
DirInv(r) ==
  /\ pc[r] \in {"match", "dropBak"} => dir["priv"] # NoKey
  /\ pc[r] \in {"match", "dropPriv", "restore"} => dir["bak"] # NoKey
  /\ pc[r] \in {"syncDropBak", "rewrite", "rewriteTemp", "rewriteMove", "rewriteSync",
                "restoreSync", "dropPub", "syncDropPub", "decide", "syncRetire"}
       => dir["bak"] = NoKey
  /\ pc[r] \in {"writeTempPriv", "writeTempPub", "clearBak", "backup"} /\ mode[r] = "replace"
       => dir["priv"] # NoKey
  /\ pc[r] \in {"syncPriv", "commitPub", "syncPub", "retireBak", "syncRetire"}
       => dir["priv"] = key[r]
  /\ pc[r] = "unlockOk" /\ Generated(r) =>
       disk = {dir} /\ dir["priv"] = key[r] /\ (mode[r] = "replace" => dir["bak"] = NoKey)

\* Every key on disk, replaced or set aside was generated by a run.
UsedInv ==
  /\ \A d \in disk : \A e \in Entries : d[e] \in used \cup {NoKey}
  /\ retired \subseteq used
  /\ base \in used \cup {NoKey}

HolderInv == lock # NoProc => ModeInv(lock) /\ KeyInv(lock) /\ DirInv(lock)

IInv ==
  /\ TypeOK
  /\ UsedInv
  /\ HolderInv
  /\ RetiredNeverReturns
  /\ IdentityNeverLost
=============================================================================
