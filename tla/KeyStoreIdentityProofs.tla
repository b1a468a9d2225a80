----------------------- MODULE KeyStoreIdentityProofs -----------------------
(***************************************************************************)
(* What the key directory promises about the identity it stores: the one a *)
(* run reports is the one it leaves there (ReportMatchesStore), a reported *)
(* identity outlives every power loss (SettledIdentityDurable), a private  *)
(* key that cannot be loaded is never removed (DamagedKeyKept), and, as    *)
(* long as the disk itself is not disturbed, the directory and its lock    *)
(* implement DeviceIdentity.                                               *)
(*                                                                         *)
(* IInv of KeyStore says too little for any of them.  StoreIInv adds what  *)
(* the holder of the lock knows at each step of the pair it is moving      *)
(* (PairInv), of the temporaries it has left (TmpsInv) and of which keys   *)
(* can be loaded (LoadInv), and the two forms every directory a power loss *)
(* may leave can have once an identity is settled (SettledInv).            *)
(***************************************************************************)
EXTENDS KeyStoreProofs

USE NoProcAssumption, NoKeyAssumption, BudgetAssumption

\* The temporaries on a path that may end in a report; a rollback may leave some.
TmpsInv(r) ==
  /\ pc[r] = "inspect" => tmps = {}
  /\ /\ pc[r] \in {"match", "dropBak", "syncDropBak", "dropPriv", "restore", "rewrite",
                   "rewriteTemp", "rewriteSync", "restoreSync", "dropPub", "syncDropPub",
                   "decide"}
     /\ mode[r] # "rollback"
     => tmps = {}
  /\ pc[r] = "rewriteMove" /\ mode[r] # "rollback" => tmps \subseteq {"pub"}
  /\ pc[r] \in {"syncPriv", "commitPub"} => tmps \subseteq {"pub"}
  /\ pc[r] \in {"syncPub", "retireBak", "syncRetire", "unlockOk"} => tmps = {}

\* The steps before the commit point of a write.
Preparing ==
  {"writeTempPriv", "writeTempPub", "clearBak", "backup", "syncBackup", "commitPriv"}

\* The steps from the commit point of a write to its report.
Committed == {"syncPub", "retireBak", "syncRetire"}

\* The pair the lock holder is moving.
PairInv(r) ==
  /\ pc[r] \in {"dropBak", "syncDropBak"} => Matches(dir)
  /\ pc[r] \in Writing /\ mode[r] = "create" => dir["bak"] = NoKey
  /\ pc[r] \in {"writeTempPriv", "writeTempPub", "clearBak", "backup"} => dir["bak"] = NoKey
  /\ pc[r] \in {"writeTempPriv", "writeTempPub"} /\ mode[r] = "create" => dir["priv"] = NoKey
  /\ pc[r] \in {"syncBackup", "commitPriv"} => dir["priv"] = NoKey
  /\ pc[r] \in Preparing => dir["pub"] # key[r]
  /\ pc[r] \in Committed \cup {"unlockOk"} => dir["pub"] = key[r]
  /\ pc[r] \in Committed => settled = NoKey
  /\ pc[r] = "unlockOk" => dir["priv"] = key[r] /\ dir["bak"] = NoKey

\* Past the point where a run has loaded the private key, or found none, that
\* key can be loaded, and so can the one it generated.
LoadInv(r) ==
  /\ pc[r] \in {"syncDropBak", "dropPub", "syncDropPub", "rewriteTemp", "rewriteMove",
                "rewriteSync", "restoreSync", "decide", "writeTempPriv", "writeTempPub",
                "clearBak", "backup"} \cup Undoing
       => dir["priv"] \notin damaged
  /\ pc[r] \in Writing => key[r] \notin damaged

RunInv == lock # NoProc => TmpsInv(lock) /\ PairInv(lock) /\ LoadInv(lock)

\* A settled identity is the private key of a directory without a backup, and
\* the backup of one whose private key is missing or not yet committed.
Stands(d, k) ==
  IF d["bak"] = NoKey THEN d["priv"] = k
  ELSE d["bak"] = k /\ (d["priv"] = NoKey \/ d["priv"] # d["pub"])

SettledInv ==
  settled # NoKey => provisioned /\ \A d \in disk : Stands(d, settled)

DamagedInv == damaged \subseteq used

StoreIInv == IInv /\ DamagedInv /\ RunInv /\ SettledInv

\* An untouched directory satisfies the invariant.
LEMMA InitStoreIInv == Init => StoreIInv
  BY InitIInv DEF Init, StoreIInv, DamagedInv, RunInv, SettledInv

\* A private key can become unreadable only once it was generated.
LEMMA StepDamagedInv ==
  ASSUME StoreIInv, [Next]_vars
  PROVE  DamagedInv'
<1> USE DEF StoreIInv, DamagedInv, fs, local, history, quiet
<1>1. ASSUME NEW r \in Procs, Generate(r) PROVE DamagedInv'
  BY <1>1 DEF Generate
<1>2. ASSUME Damage PROVE DamagedInv'
  BY <1>2 DEF Damage, IInv, UsedInv, TypeOK, Dirs, Entries
<1>3. ASSUME UNCHANGED <<damaged, used>> PROVE DamagedInv'
  BY <1>3
<1>4. QED
  BY <1>1, <1>2, <1>3
  DEF Next, Proceed, RecoverStep, WriteStep, Disturb, vars, Start, RefuseHealth,
      AcquireLock, Sweep, Inspect, KeyPairMatches, FinalizeCommitted,
      DropOrphanedPublic, RestoreBackup, CompareProjection, RewriteProjection,
      ReuseExisting, WriteTemps, BackupPrivate, CommitPrivate, CommitPublic,
      SyncPublic, RetireBackup, SyncRetire, Rollback, UndoCreation, Report, Fail, KeyPairUnread,
      IoError, PublicUnread, Kill, PowerLoss

\* Each step of a run leaves the pair, the temporaries and the keys it can load
\* as the next one expects them.
LEMMA StepRunInv ==
  ASSUME StoreIInv, [Next]_vars
  PROVE  RunInv'
<1>0. /\ TypeOK /\ RunInv /\ UsedInv /\ HolderInv /\ DamagedInv /\ SettledInv /\ IdentityNeverLost
      /\ \A r \in Procs : pc[r] \in Holding => lock = r
      /\ \A r \in Procs : pc[r] \in Resting \cup {"lock"} => lock # r
      /\ NoKey \notin damaged
  BY DEF StoreIInv, IInv, TypeOK, Holding, Resting
<1> USE DEF RunInv, TmpsInv, PairInv, LoadInv, HolderInv, ModeInv, KeyInv, DirInv, Generated,
            Writing, Undoing, Preparing, Committed, Holding, Matches,
            Labels, Resting, fs, local, history, quiet, Goto, Pass, Change, SyncDirectory
<1> USE <1>0 DEF TypeOK
<1>1. ASSUME NEW r \in Procs, NEW f \in BOOLEAN, Start(r, f) PROVE RunInv'
  BY <1>1 DEF Start
<1>2. ASSUME NEW r \in Procs, RefuseHealth(r) PROVE RunInv'
  BY <1>2 DEF RefuseHealth
<1>3. ASSUME NEW r \in Procs, AcquireLock(r) PROVE RunInv'
  BY <1>3 DEF AcquireLock
<1>4. ASSUME NEW r \in Procs, Sweep(r) PROVE RunInv'
  BY <1>4 DEF Sweep
<1>5. ASSUME NEW r \in Procs, Inspect(r) PROVE RunInv'
  BY <1>5 DEF Inspect, RecoveryBranch
<1>6. ASSUME NEW r \in Procs, KeyPairMatches(r) PROVE RunInv'
  BY <1>6 DEF KeyPairMatches, Matches
<1>7. ASSUME NEW r \in Procs, FinalizeCommitted(r) PROVE RunInv'
  BY <1>7 DEF FinalizeCommitted, Matches, Removed, Dirs, Entries
<1>8. ASSUME NEW r \in Procs, DropOrphanedPublic(r) PROVE RunInv'
  BY <1>8 DEF DropOrphanedPublic, Removed, Dirs, Entries
<1>9. ASSUME NEW r \in Procs, RestoreBackup(r) PROVE RunInv'
  BY <1>9 DEF RestoreBackup, Removed, Moved, Dirs, Entries
<1>10. ASSUME NEW r \in Procs, CompareProjection(r) PROVE RunInv'
  BY <1>10 DEF CompareProjection, AfterCompare, Rewritten, Loadable
<1>11. ASSUME NEW r \in Procs, RewriteProjection(r) PROVE RunInv'
  <2> lock = r /\ r # NoProc
    BY <1>11 DEF RewriteProjection
  <2>1. CASE Pass(r, "rewriteTemp", "rewriteMove") /\ tmps' = tmps \cup {"pub"}
    BY <1>11, <2>1 DEF RewriteProjection
  <2>2. CASE /\ Change(r, "rewriteMove", "rewriteSync", Placed("pub", dir["priv"]))
             /\ tmps' = tmps \ {"pub"}
    BY <1>11, <2>2 DEF RewriteProjection, Placed, Dirs, Entries
  <2>3. CASE SyncDirectory(r, "rewriteSync", Rewritten(r)) /\ UNCHANGED tmps
    BY <1>11, <2>3 DEF RewriteProjection, Rewritten
  <2>4. QED
    BY <1>11, <2>1, <2>2, <2>3 DEF RewriteProjection
<1>12. ASSUME NEW r \in Procs, ReuseExisting(r) PROVE RunInv'
  BY <1>12 DEF ReuseExisting, Matches, Dirs, Entries
<1>13. ASSUME NEW r \in Procs, Generate(r) PROVE RunInv'
  <2> lock = r /\ r # NoProc
    BY <1>13 DEF Generate
  <2>1. CASE used = Keys
    BY <1>13, <2>1 DEF Generate
  <2>2. CASE used # Keys
    <3>1. dir["pub"] \in used \cup {NoKey} /\ damaged \subseteq used
      BY DEF UsedInv, DamagedInv, Entries
    <3>2. key'[r] \in Keys \ used
      BY <1>13, <2>2 DEF Generate
    <3>3. pc' = [pc EXCEPT ![r] = "writeTempPriv"] /\ UNCHANGED <<dir, damaged, lock>>
      BY <1>13, <2>2 DEF Generate
    <3>4. mode'[r] = "create" => dir["priv"] = NoKey
      BY <1>13, <2>2 DEF Generate, Replacing
    <3>5. dir["bak"] = NoKey /\ dir["priv"] \notin damaged
      BY <1>13, <2>2 DEF Generate
    <3>6. QED
      BY <3>1, <3>2, <3>3, <3>4, <3>5
  <2>3. QED
    BY <2>1, <2>2
<1>14. ASSUME NEW r \in Procs, WriteTemps(r) PROVE RunInv'
  BY <1>14 DEF WriteTemps
<1>15. ASSUME NEW r \in Procs, BackupPrivate(r) PROVE RunInv'
  BY <1>15 DEF BackupPrivate, SetAside, Removed, Moved, Dirs, Entries
<1>16. ASSUME NEW r \in Procs, CommitPrivate(r) PROVE RunInv'
  <2> lock = r /\ r # NoProc
    BY <1>16 DEF CommitPrivate
  <2>1. CASE /\ Change(r, "commitPriv", "syncPriv", Placed("priv", key[r]))
             /\ tmps' = tmps \ {"priv"}
    BY <1>16, <2>1 DEF CommitPrivate, Placed, Dirs, Entries
  <2>2. CASE SyncDirectory(r, "syncPriv", "commitPub") /\ UNCHANGED tmps
    BY <1>16, <2>2 DEF CommitPrivate
  <2>3. QED
    BY <1>16, <2>1, <2>2 DEF CommitPrivate
<1>17. ASSUME NEW r \in Procs, CommitPublic(r) PROVE RunInv'
  BY <1>17 DEF CommitPublic, SettledInv, Placed, Dirs, Entries
<1>18. ASSUME NEW r \in Procs, SyncPublic(r) PROVE RunInv'
  BY <1>18 DEF SyncPublic, AfterSyncPublic
<1>19. ASSUME NEW r \in Procs, RetireBackup(r) PROVE RunInv'
  BY <1>19 DEF RetireBackup, SyncRetire, Removed, Dirs, Entries
<1>20. ASSUME NEW r \in Procs, Rollback(r) PROVE RunInv'
  BY <1>20 DEF Rollback
<1>21. ASSUME NEW r \in Procs, UndoCreation(r) PROVE RunInv'
  BY <1>21 DEF UndoCreation, Removed, Dirs, Entries
<1>22. ASSUME NEW r \in Procs, Report(r) PROVE RunInv'
  BY <1>22 DEF Report
<1>23. ASSUME NEW r \in Procs, Fail(r) PROVE RunInv'
  BY <1>23 DEF Fail, Spend
<1>24. ASSUME NEW r \in Procs, KeyPairUnread(r) PROVE RunInv'
  BY <1>24 DEF KeyPairUnread, Spend
<1>25. ASSUME NEW r \in Procs, IoError(r) PROVE RunInv'
  BY <1>25 DEF IoError, OnError, Spend
<1>26. ASSUME NEW r \in Procs, PublicUnread(r) PROVE RunInv'
  BY <1>26 DEF PublicUnread, Spend, Loadable
<1>27. ASSUME NEW r \in Procs, Kill(r) PROVE RunInv'
  BY <1>27 DEF Kill, Spend
<1>28. ASSUME PowerLoss PROVE RunInv'
  BY <1>28 DEF PowerLoss
<1>29. ASSUME Damage PROVE RunInv'
  BY <1>29 DEF Damage
<1>30. CASE UNCHANGED vars
  BY <1>30 DEF vars, Matches
<1> HIDE <1>0 DEF RunInv, TmpsInv, PairInv, LoadInv, HolderInv, ModeInv, KeyInv, DirInv, Generated,
            Writing, Undoing, Preparing, Committed, Holding, Matches,
            Labels, Resting, fs, local, history, quiet, Goto, Pass, Change, SyncDirectory, TypeOK
<1>31. QED
  BY <1>1, <1>2, <1>3, <1>4, <1>5, <1>6, <1>7, <1>8, <1>9, <1>10, <1>11, <1>12, <1>13, <1>14, <1>15, <1>16, <1>17, <1>18, <1>19, <1>20, <1>21, <1>22, <1>23, <1>24, <1>25, <1>26, <1>27, <1>28, <1>29, <1>30
  DEF Next, Proceed, RecoverStep, WriteStep, Disturb

\* What a step of the lock holder finds: HolderFacts for the invariant of this
\* module.
LEMMA RunFacts ==
  ASSUME StoreIInv, NEW r \in Procs, pc[r] \in Holding
  PROVE  /\ lock = r /\ lock # NoProc
         /\ ModeInv(r) /\ KeyInv(r) /\ DirInv(r)
         /\ TmpsInv(r) /\ PairInv(r) /\ LoadInv(r)
  BY HolderFacts DEF StoreIInv, RunInv

\* No step leaves a directory, or one a power loss may leave, in which a settled
\* identity does not stand.
LEMMA StepSettledInv ==
  ASSUME StoreIInv, [Next]_vars
  PROVE  SettledInv'
<1> USE DEF SettledInv, Stands, fs, local, history, quiet, Goto, Pass, Change, SyncDirectory
<1>0. /\ TypeOK /\ SettledInv
      /\ provisioned => \A d \in disk : d["priv"] # NoKey \/ d["bak"] # NoKey
  BY DEF StoreIInv, IInv, IdentityNeverLost
<1>a. /\ disk \subseteq Dirs /\ dir \in disk /\ dir \in Dirs
      /\ settled # NoKey => Stands(dir, settled) /\ provisioned
  BY <1>0 DEF TypeOK
<1>1. CASE UNCHANGED <<disk, settled, provisioned>>
  BY <1>0, <1>1
\* A step that changes the directory, or makes it durable.
<1>2. ASSUME disk' = disk \cup {dir'} \/ disk' = {dir},
             UNCHANGED <<settled, provisioned>>,
             settled # NoKey => Stands(dir', settled)
      PROVE  SettledInv'
  BY <1>0, <1>a, <1>2
<1>3. ASSUME NEW r \in Procs, FinalizeCommitted(r) PROVE SettledInv'
  <2>1. pc[r] = "dropBak" => Matches(dir)
    BY RunFacts DEF PairInv, Holding, Labels, Resting
  <2>2. CASE Change(r, "dropBak", "syncDropBak", Removed("bak"))
    <3>1. settled # NoKey => dir["bak"] = NoKey
      BY <1>a, <2>1, <2>2 DEF Matches
    <3>2. settled # NoKey => Stands(Removed("bak"), settled)
      BY <1>a, <3>1 DEF Removed, Dirs, Entries
    <3>3. QED
      BY <1>2, <1>3, <2>2, <3>2 DEF FinalizeCommitted
  <2>3. CASE SyncDirectory(r, "syncDropBak", "decide")
    BY <1>2, <1>3, <1>a, <2>3 DEF FinalizeCommitted
  <2>4. QED
    BY <1>3, <2>2, <2>3 DEF FinalizeCommitted
<1>4. ASSUME NEW r \in Procs, DropOrphanedPublic(r) PROVE SettledInv'
  <2>1. pc[r] = "dropPub" => dir["bak"] = NoKey
    BY RunFacts DEF DirInv, Holding, Labels, Resting
  <2>2. pc[r] = "dropPub" /\ settled # NoKey => Stands(Removed("pub"), settled)
    BY <1>a, <2>1 DEF Removed, Dirs, Entries
  <2>3. QED
    BY <1>2, <1>4, <1>a, <2>2 DEF DropOrphanedPublic
<1>5. ASSUME NEW r \in Procs, RestoreBackup(r) PROVE SettledInv'
  <2>1. pc[r] \in {"dropPriv", "restore"} => dir["bak"] # NoKey
    BY RunFacts DEF DirInv, Holding, Labels, Resting
  <2>2. pc[r] = "dropPriv" /\ settled # NoKey => Stands(Removed("priv"), settled)
    BY <1>a, <2>1 DEF Removed, Dirs, Entries
  <2>3. pc[r] = "restore" /\ settled # NoKey => Stands(Moved("bak", "priv"), settled)
    BY <1>a, <2>1 DEF Moved, Dirs, Entries
  <2>4. QED
    BY <1>2, <1>5, <1>a, <2>2, <2>3 DEF RestoreBackup
<1>6. ASSUME NEW r \in Procs, RewriteProjection(r) PROVE SettledInv'
  <2>1. pc[r] = "rewriteMove" => dir["bak"] = NoKey
    BY RunFacts DEF DirInv, Holding, Labels, Resting
  <2>2. pc[r] = "rewriteMove" /\ settled # NoKey => Stands(Placed("pub", dir["priv"]), settled)
    BY <1>a, <2>1 DEF Placed, Dirs, Entries
  <2>3. CASE Pass(r, "rewriteTemp", "rewriteMove")
    BY <1>1, <1>6, <2>3 DEF RewriteProjection
  <2>4. CASE Change(r, "rewriteMove", "rewriteSync", Placed("pub", dir["priv"]))
    BY <1>2, <1>6, <2>2, <2>4 DEF RewriteProjection
  <2>5. CASE SyncDirectory(r, "rewriteSync", Rewritten(r))
    BY <1>2, <1>6, <1>a, <2>5 DEF RewriteProjection
  <2>6. QED
    BY <1>6, <2>3, <2>4, <2>5 DEF RewriteProjection
<1>7. ASSUME NEW r \in Procs, BackupPrivate(r) PROVE SettledInv'
  <2>1. pc[r] \in {"clearBak", "backup"} => dir["priv"] # NoKey
    BY RunFacts DEF DirInv, ModeInv, Holding, Labels, Resting
  <2>2. pc[r] \in {"clearBak", "backup"} => dir["bak"] = NoKey
    BY RunFacts DEF PairInv, Holding, Labels, Resting
  <2>3. CASE Change(r, "clearBak", "backup", Removed("bak"))
    BY <1>2, <1>7, <1>a, <2>2, <2>3 DEF BackupPrivate, Removed, Dirs, Entries
  <2>4. CASE Change(r, "backup", "syncBackup", SetAside)
    <3>1. settled # NoKey => Stands(Moved("priv", "bak"), settled)
      BY <1>a, <2>1, <2>2, <2>4 DEF Moved, Dirs, Entries
    <3>2. QED
      BY <1>2, <1>7, <2>4, <3>1 DEF BackupPrivate, SetAside
  <2>5. CASE SyncDirectory(r, "syncBackup", "commitPriv")
    BY <1>2, <1>7, <1>a, <2>5 DEF BackupPrivate
  <2>6. QED
    BY <1>7, <2>3, <2>4, <2>5 DEF BackupPrivate
<1>8. ASSUME NEW r \in Procs, CommitPrivate(r) PROVE SettledInv'
  <2>1. pc[r] = "commitPriv" =>
          /\ dir["priv"] = NoKey /\ dir["pub"] # key[r]
          /\ settled # NoKey => dir["bak"] # NoKey
    <3>1. pc[r] = "commitPriv" => dir["priv"] = NoKey /\ dir["pub"] # key[r]
      BY RunFacts DEF PairInv, Preparing, Holding, Labels, Resting
    <3>2. QED
      BY <1>0, <1>a, <3>1
  <2>2. pc[r] = "commitPriv" /\ settled # NoKey => Stands(Placed("priv", key[r]), settled)
    BY <1>a, <2>1 DEF Placed, Dirs, Entries
  <2>3. CASE Change(r, "commitPriv", "syncPriv", Placed("priv", key[r]))
    BY <1>2, <1>8, <2>2, <2>3 DEF CommitPrivate
  <2>4. CASE SyncDirectory(r, "syncPriv", "commitPub")
    BY <1>2, <1>8, <1>a, <2>4 DEF CommitPrivate
  <2>5. QED
    BY <1>8, <2>3, <2>4 DEF CommitPrivate
<1>9. ASSUME NEW r \in Procs, CommitPublic(r) PROVE SettledInv'
  <2>1. mode[r] = "replace" \/ ~provisioned
    BY <1>9, RunFacts DEF CommitPublic, KeyInv, ModeInv, Writing, Holding, Labels, Resting
  <2>2. settled' = NoKey
    BY <1>0, <1>9, <2>1 DEF CommitPublic
  <2>3. QED
    BY <2>2
<1>10. ASSUME NEW r \in Procs, SyncPublic(r) PROVE SettledInv'
  BY <1>2, <1>10, <1>a DEF SyncPublic
<1>11. ASSUME NEW r \in Procs, RetireBackup(r) PROVE SettledInv'
  <2>1. settled = NoKey
    BY <1>11, RunFacts
    DEF RetireBackup, SyncRetire, PairInv, Committed, Holding, Labels, Resting
  <2>2. QED
    BY <1>11, <2>1 DEF RetireBackup, SyncRetire
<1>12. ASSUME NEW r \in Procs, UndoCreation(r) PROVE SettledInv'
  <2>1. ~provisioned
    BY <1>12, RunFacts DEF UndoCreation, KeyInv, ModeInv, Undoing, Holding, Labels, Resting
  <2>2. settled = NoKey
    BY <1>0, <2>1
  <2>3. QED
    BY <1>12, <2>2 DEF UndoCreation
<1>13. ASSUME NEW r \in Procs, Report(r) PROVE SettledInv'
  <2>1. CASE mode[r] \in {"create", "replace"}
    <3>1. disk = {dir} /\ dir["priv"] = key[r] /\ dir["bak"] = NoKey
      BY <1>13, <2>1, RunFacts DEF Report, DirInv, PairInv, Generated, Holding, Labels, Resting
    <3>2. QED
      BY <1>13, <2>1, <3>1 DEF Report
  <2>2. CASE mode[r] \notin {"create", "replace"}
    BY <1>1, <1>13, <2>2, <1>0 DEF Report, TypeOK
  <2>3. QED
    BY <2>1, <2>2
<1>14. ASSUME PowerLoss PROVE SettledInv'
  <2>1. PICK d \in disk : dir' = d /\ disk' = {d}
    BY <1>14 DEF PowerLoss
  <2>2. QED
    BY <1>0, <1>14, <2>1 DEF PowerLoss
<1>15. QED
  BY <1>1, <1>3, <1>4, <1>5, <1>6, <1>7, <1>8, <1>9, <1>10, <1>11, <1>12, <1>13, <1>14
  DEF Next, Proceed, RecoverStep, WriteStep, Disturb, vars, Start, AcquireLock,
      Generate, Sweep, Inspect, KeyPairMatches, CompareProjection, ReuseExisting,
      WriteTemps, Rollback, Fail, KeyPairUnread, IoError, PublicUnread, Kill,
      RefuseHealth, Damage

-----------------------------------------------------------------------------
\* The invariant of this module holds in every reachable state.
THEOREM StoreInvariance == Spec => []StoreIInv
<1>1. IInv /\ [Next]_vars => IInv'
  BY StepTypeOK, StepUsedInv, StepHolderInv, StepRetired, StepNeverLost DEF IInv
<1>2. StoreIInv /\ [Next]_vars => StoreIInv'
  BY <1>1, StepDamagedInv, StepRunInv, StepSettledInv DEF StoreIInv
<1>3. QED
  BY InitStoreIInv, <1>2, PTL DEF Spec

\* What a run is about to report is what it leaves in the directory: one complete
\* pair, no backup, no temporary (keys.go: EnsureKeypair, writePair, recover).
THEOREM ReportsMatchTheStore == Spec => []ReportMatchesStore
<1>1. StoreIInv => ReportMatchesStore
  <2> SUFFICES ASSUME StoreIInv, NEW r \in Procs, pc[r] = "unlockOk"
               PROVE  /\ key[r] # NoKey
                      /\ dir = [priv |-> key[r], pub |-> key[r], bak |-> NoKey]
                      /\ tmps = {}
    BY DEF ReportMatchesStore
  <2>1. /\ key[r] \in Keys /\ tmps = {}
        /\ dir["priv"] = key[r] /\ dir["pub"] = key[r] /\ dir["bak"] = NoKey
    BY RunFacts DEF KeyInv, PairInv, TmpsInv, Holding, Labels, Resting
  <2>2. dir \in [{"priv", "pub", "bak"} -> Keys \cup {NoKey}]
    BY DEF StoreIInv, IInv, TypeOK, Dirs, Entries
  <2>3. dir = [priv |-> key[r], pub |-> key[r], bak |-> NoKey]
    BY <2>1, <2>2
  <2>4. QED
    BY <2>1, <2>3
<1>2. QED
  BY StoreInvariance, <1>1, PTL

\* A reported identity is the one every directory a power loss may leave stands
\* for, until a forced replacement of it commits (keys.go: writePair, recover).
THEOREM SettledIdentityIsDurable == Spec => []SettledIdentityDurable
<1>1. StoreIInv => SettledIdentityDurable
  BY DEF StoreIInv, SettledInv, Stands, SettledIdentityDurable, Recovered, Matches
<1>2. QED
  BY StoreInvariance, <1>1, PTL

\* A private key that cannot be loaded is where it was after every step of every
\* run, forced or not; a power loss apart, which may bring back an older directory
\* (keys.go: rewritePublicFromPrivate, before the pair is reused or replaced).
THEOREM DamagedKeysAreKept == Spec => DamagedKeyKept
<1>1. ASSUME StoreIInv, Next, dir["priv"] \in damaged, dir["bak"] = NoKey,
             budget'["outage"] = budget["outage"]
      PROVE  dir'["priv"] = dir["priv"]
  <2> USE DEF fs, local, history, quiet, Goto, Pass, Change, SyncDirectory
  <2>0. /\ dir \in Dirs /\ dir["priv"] # NoKey
        /\ budget \in [Disturbances -> Nat]
    BY <1>1 DEF StoreIInv, IInv, TypeOK
  <2>1. CASE dir' = dir
    BY <2>1
  <2>2. ASSUME NEW r \in Procs, FinalizeCommitted(r) PROVE dir'["priv"] = dir["priv"]
    BY <2>0, <2>2 DEF FinalizeCommitted, Removed, Dirs, Entries
  <2>3. ASSUME NEW r \in Procs, DropOrphanedPublic(r) PROVE dir'["priv"] = dir["priv"]
    BY <2>0, <2>3 DEF DropOrphanedPublic, Removed, Dirs, Entries
  <2>4. ASSUME NEW r \in Procs, RestoreBackup(r) PROVE dir'["priv"] = dir["priv"]
    <3>1. pc[r] \notin {"dropPriv", "restore"}
      BY <1>1, RunFacts DEF DirInv, Holding, Labels, Resting
    <3>2. QED
      BY <2>4, <3>1 DEF RestoreBackup
  <2>5. ASSUME NEW r \in Procs, RewriteProjection(r) PROVE dir'["priv"] = dir["priv"]
    BY <2>0, <2>5 DEF RewriteProjection, Placed, Dirs, Entries
  <2>6. ASSUME NEW r \in Procs, BackupPrivate(r) PROVE dir'["priv"] = dir["priv"]
    <3>1. pc[r] # "backup"
      BY <1>1, RunFacts DEF LoadInv, Holding, Labels, Resting
    <3>2. QED
      BY <2>0, <2>6, <3>1 DEF BackupPrivate, Removed, Dirs, Entries
  <2>7. ASSUME NEW r \in Procs, CommitPrivate(r) PROVE dir'["priv"] = dir["priv"]
    <3>1. pc[r] # "commitPriv"
      BY <1>1, <2>0, RunFacts DEF PairInv, Holding, Labels, Resting
    <3>2. QED
      BY <2>7, <3>1 DEF CommitPrivate
  <2>8. ASSUME NEW r \in Procs, CommitPublic(r) PROVE dir'["priv"] = dir["priv"]
    BY <2>0, <2>8 DEF CommitPublic, Placed, Dirs, Entries
  <2>9. ASSUME NEW r \in Procs, RetireBackup(r) PROVE dir'["priv"] = dir["priv"]
    BY <2>0, <2>9 DEF RetireBackup, SyncRetire, Removed, Dirs, Entries
  <2>10. ASSUME NEW r \in Procs, UndoCreation(r) PROVE dir'["priv"] = dir["priv"]
    <3>1. pc[r] # "undoPriv"
      BY <1>1, RunFacts DEF LoadInv, Undoing, Holding, Labels, Resting
    <3>2. QED
      BY <2>0, <2>10, <3>1 DEF UndoCreation, Removed, Dirs, Entries
  <2>11. ASSUME PowerLoss PROVE dir'["priv"] = dir["priv"]
    BY <1>1, <2>0, <2>11 DEF PowerLoss, Spend, Disturbances
  <2>12. QED
    BY <1>1, <2>1, <2>2, <2>3, <2>4, <2>5, <2>6, <2>7, <2>8, <2>9, <2>10, <2>11
    DEF Next, Proceed, RecoverStep, WriteStep, Disturb, Start, RefuseHealth, AcquireLock,
        Generate, Sweep, Inspect, KeyPairMatches, CompareProjection, ReuseExisting,
        WriteTemps, SyncPublic, Rollback, Report, Fail, KeyPairUnread, IoError,
        PublicUnread, Kill, Damage
<1>2. StoreIInv /\ [Next]_vars =>
        [dir["priv"] \in damaged /\ dir["bak"] = NoKey /\ budget'["outage"] = budget["outage"]
           => dir'["priv"] = dir["priv"]]_vars
  BY <1>1
<1>3. QED
  BY StoreInvariance, <1>2, PTL DEF Spec, DamagedKeyKept

-----------------------------------------------------------------------------
(***************************************************************************)
(* The refinement.  It speaks of the identity a directory stands for, so   *)
(* it is stated for runs in which that changes by the commands alone:      *)
(* nobody damages a key file, no power loss takes back what was not yet    *)
(* synced, and keyPairMatches is not misled by a failing read, which makes *)
(* a recovery give up a committed replacement.  Any number of processes    *)
(* are killed and any number of other system calls fail.                   *)
(***************************************************************************)
Calm == Budget["read"] = 0 /\ Budget["outage"] = 0 /\ Budget["damage"] = 0

CalmInv ==
  /\ budget \in [Disturbances -> Nat]
  /\ budget["read"] = 0 /\ budget["outage"] = 0 /\ budget["damage"] = 0

\* The steps of a run until it decides, but for those a rollback shares.
Recovering ==
  {"sweep", "inspect", "match", "dropBak", "syncDropBak", "dropPub", "syncDropPub", "decide"}

\* The steps recover and a rollback share.
Restoring ==
  {"dropPriv", "restore", "rewrite", "rewriteTemp", "rewriteMove", "rewriteSync", "restoreSync"}

\* What the lock holder has done to the identity it found: nothing before it
\* decides; then it replaces one only when told to.
Lease(r) ==
  /\ pc[r] \in Recovering => Recovered(dir) = base
  /\ pc[r] \in Restoring /\ mode[r] # "rollback" => Recovered(dir) = base
  /\ pc[r] = "dropPriv" /\ mode[r] = "restore" => ~Matches(dir)
  /\ pc[r] = "restore" => dir["priv"] = NoKey
  /\ pc[r] \in Writing \cup Undoing /\ mode[r] = "create" => base = NoKey
  /\ pc[r] \in Writing /\ mode[r] = "replace" => force[r]
  /\ pc[r] \in Restoring /\ mode[r] = "rollback" => force[r]
  /\ pc[r] = "rollback" => force[r]

LeaseInv == lock # NoProc => Lease(lock)

\* In a calm run only killed processes and failing calls are left to happen.
LEMMA StepCalmInv ==
  ASSUME CalmInv, [Next]_vars
  PROVE  CalmInv' /\ ~PowerLoss /\ ~Damage /\ \A r \in Procs : ~KeyPairUnread(r)
<1>1. ~PowerLoss /\ ~Damage /\ \A r \in Procs : ~KeyPairUnread(r)
  BY DEF CalmInv, PowerLoss, Damage, KeyPairUnread, Spend
<1>2. UNCHANGED budget \/ Spend("io") \/ Spend("kill")
  BY <1>1 DEF Next, Proceed, RecoverStep, WriteStep, Disturb, vars, quiet, Start, RefuseHealth,
      AcquireLock, Sweep, Inspect, KeyPairMatches, FinalizeCommitted,
      DropOrphanedPublic, RestoreBackup, CompareProjection, RewriteProjection,
      ReuseExisting, Generate, WriteTemps, BackupPrivate, CommitPrivate, CommitPublic,
      SyncPublic, RetireBackup, Rollback, UndoCreation, Report, Fail, IoError, PublicUnread, Kill
<1>3. QED
  BY <1>1, <1>2 DEF CalmInv, Spend, Disturbances

\* A recovery leads to the identity it found, and a run that was not told to
\* replace an identity writes one only where it found none.
LEMMA StepLeaseInv ==
  ASSUME StoreIInv, CalmInv, LeaseInv, [Next]_vars
  PROVE  LeaseInv'
<1>0. /\ TypeOK /\ HolderInv /\ RunInv
      /\ \A r \in Procs : pc[r] \in Holding => lock = r
      /\ \A r \in Procs : pc[r] \in Resting \cup {"lock"} => lock # r
      /\ ~PowerLoss /\ ~Damage /\ \A r \in Procs : ~KeyPairUnread(r)
  BY StepCalmInv DEF StoreIInv, IInv, TypeOK, Holding, Resting
<1> USE DEF LeaseInv, Lease, HolderInv, ModeInv, DirInv, RunInv, PairInv,
            Recovering, Restoring, Writing, Undoing, Generated, Holding, Recovered, Matches,
            Labels, Resting, fs, local, history, quiet, Goto, Pass, Change, SyncDirectory
<1> USE <1>0 DEF TypeOK
<1>1. ASSUME NEW r \in Procs, NEW f \in BOOLEAN, Start(r, f) PROVE LeaseInv'
  BY <1>1 DEF Start
<1>2. ASSUME NEW r \in Procs, RefuseHealth(r) PROVE LeaseInv'
  BY <1>2 DEF RefuseHealth
<1>3. ASSUME NEW r \in Procs, AcquireLock(r) PROVE LeaseInv'
  BY <1>3 DEF AcquireLock
<1>4. ASSUME NEW r \in Procs, Sweep(r) PROVE LeaseInv'
  BY <1>4 DEF Sweep
<1>5. ASSUME NEW r \in Procs, Inspect(r) PROVE LeaseInv'
  BY <1>5 DEF Inspect, RecoveryBranch
<1>6. ASSUME NEW r \in Procs, KeyPairMatches(r) PROVE LeaseInv'
  BY <1>6 DEF KeyPairMatches
<1>7. ASSUME NEW r \in Procs, FinalizeCommitted(r) PROVE LeaseInv'
  BY <1>7 DEF FinalizeCommitted, Removed, Dirs, Entries
<1>8. ASSUME NEW r \in Procs, DropOrphanedPublic(r) PROVE LeaseInv'
  BY <1>8 DEF DropOrphanedPublic, Removed, Dirs, Entries
<1>9. ASSUME NEW r \in Procs, RestoreBackup(r) PROVE LeaseInv'
  BY <1>9 DEF RestoreBackup, Removed, Moved, Dirs, Entries
<1>10. ASSUME NEW r \in Procs, CompareProjection(r) PROVE LeaseInv'
  BY <1>10 DEF CompareProjection, AfterCompare, Rewritten, Loadable
<1>11. ASSUME NEW r \in Procs, RewriteProjection(r) PROVE LeaseInv'
  BY <1>11 DEF RewriteProjection, Rewritten, Placed, Dirs, Entries
<1>12. ASSUME NEW r \in Procs, ReuseExisting(r) PROVE LeaseInv'
  BY <1>12 DEF ReuseExisting
<1>13. ASSUME NEW r \in Procs, Generate(r) PROVE LeaseInv'
  BY <1>13 DEF Generate, Replacing
<1>14. ASSUME NEW r \in Procs, WriteTemps(r) PROVE LeaseInv'
  BY <1>14 DEF WriteTemps
<1>15. ASSUME NEW r \in Procs, BackupPrivate(r) PROVE LeaseInv'
  BY <1>15 DEF BackupPrivate, SetAside, Removed, Moved, Dirs, Entries
<1>16. ASSUME NEW r \in Procs, CommitPrivate(r) PROVE LeaseInv'
  BY <1>16 DEF CommitPrivate, Placed, Dirs, Entries
<1>17. ASSUME NEW r \in Procs, CommitPublic(r) PROVE LeaseInv'
  BY <1>17 DEF CommitPublic, Placed, Dirs, Entries
<1>18. ASSUME NEW r \in Procs, SyncPublic(r) PROVE LeaseInv'
  BY <1>18 DEF SyncPublic, AfterSyncPublic
<1>19. ASSUME NEW r \in Procs, RetireBackup(r) PROVE LeaseInv'
  BY <1>19 DEF RetireBackup, SyncRetire, Removed, Dirs, Entries
<1>20. ASSUME NEW r \in Procs, Rollback(r) PROVE LeaseInv'
  BY <1>20 DEF Rollback
<1>21. ASSUME NEW r \in Procs, UndoCreation(r) PROVE LeaseInv'
  BY <1>21 DEF UndoCreation, Removed, Dirs, Entries
<1>22. ASSUME NEW r \in Procs, Report(r) PROVE LeaseInv'
  BY <1>22 DEF Report
<1>23. ASSUME NEW r \in Procs, Fail(r) PROVE LeaseInv'
  BY <1>23 DEF Fail, Spend
<1>24. ASSUME NEW r \in Procs, IoError(r) PROVE LeaseInv'
  BY <1>24 DEF IoError, OnError, Spend
<1>25. ASSUME NEW r \in Procs, PublicUnread(r) PROVE LeaseInv'
  BY <1>25 DEF PublicUnread, Spend, Loadable
<1>26. ASSUME NEW r \in Procs, Kill(r) PROVE LeaseInv'
  BY <1>26 DEF Kill, Spend
<1>27. CASE UNCHANGED vars
  BY <1>27 DEF vars
<1> HIDE <1>0 DEF LeaseInv, Lease, HolderInv, ModeInv, DirInv, RunInv, PairInv,
            Recovering, Restoring, Writing, Undoing, Generated, Holding, Recovered, Matches,
            Labels, Resting, fs, local, history, quiet, Goto, Pass, Change, SyncDirectory, TypeOK
<1>28. QED
  BY <1>0, <1>1, <1>2, <1>3, <1>4, <1>5, <1>6, <1>7, <1>8, <1>9, <1>10, <1>11, <1>12, <1>13, <1>14, <1>15, <1>16, <1>17, <1>18, <1>19, <1>20, <1>21, <1>22, <1>23, <1>24, <1>25, <1>26, <1>27
  DEF Next, Proceed, RecoverStep, WriteStep, Disturb

\* The abstract lease, as the mapping reads it from the lock.
MayChange == IF lock = NoProc THEN FALSE ELSE force[lock]
Found == IF lock = NoProc THEN NoKey ELSE base

AbsStep == Identity!AbsNext \/ UNCHANGED <<Recovered(dir), lock, MayChange, Found, announced>>

\* The identity of a directory does not depend on its public file alone, and is
\* the private key where there is no backup.
LEMMA RecoveredFacts ==
  ASSUME NEW d \in Dirs
  PROVE  /\ Recovered(d) \in Keys \cup {NoKey}
         /\ d["bak"] = NoKey => Recovered(d) = d["priv"]
         /\ d["priv"] # NoKey => Recovered(d) # NoKey
         /\ d["priv"] = NoKey => Recovered(d) = d["bak"]
  BY DEF Recovered, Matches, Dirs, Entries

\* A step of the holder that installs no identity but one it may install.
LEMMA InstallStep ==
  ASSUME lock # NoProc, UNCHANGED <<lock, force, base, announced>>,
         force[lock] \/ base = NoKey,
         Recovered(dir)' \in Keys \cup {base}
  PROVE  AbsStep
  BY DEF AbsStep, Identity!AbsNext, Identity!Install, MayChange, Found

\* A step that leaves the identity and the lease alone.
LEMMA QuietStep ==
  ASSUME UNCHANGED <<lock, announced>>, Recovered(dir)' = Recovered(dir),
         lock # NoProc => UNCHANGED base /\ force'[lock] = force[lock]
  PROVE  AbsStep
  BY DEF AbsStep, MayChange, Found

\* The end of a run that announces nothing.
LEMMA AbandonStep ==
  ASSUME lock # NoProc, lock' = NoProc, UNCHANGED announced, Recovered(dir)' = Recovered(dir)
  PROVE  AbsStep
  BY DEF AbsStep, Identity!AbsNext, Identity!Abandon, Identity!Close, MayChange, Found

\* Every step of the key store is a step of the lease, or changes none of it.
LEMMA StepRefines ==
  ASSUME StoreIInv, CalmInv, LeaseInv, Next
  PROVE  AbsStep
<1> USE DEF fs, local, history, quiet, Goto, Pass, Change, SyncDirectory
<1>0. /\ TypeOK /\ dir \in Dirs /\ force \in [Procs -> BOOLEAN]
      /\ \A r \in Procs : pc[r] \in Resting \cup {"lock"} => lock # r
      /\ ~PowerLoss /\ ~Damage /\ \A r \in Procs : ~KeyPairUnread(r)
  BY StepCalmInv DEF StoreIInv, IInv, TypeOK, Holding, Resting
<1>a. dir' = dir /\ damaged' = damaged => Recovered(dir)' = Recovered(dir)
  BY DEF Recovered, Matches
<1>b. ASSUME NEW r \in Procs, pc[r] \in Holding
      PROVE  /\ lock = r /\ lock # NoProc
             /\ ModeInv(r) /\ KeyInv(r) /\ DirInv(r)
             /\ TmpsInv(r) /\ PairInv(r) /\ LoadInv(r) /\ Lease(r)
  BY <1>b, RunFacts DEF LeaseInv
<1>c. ASSUME dir' \in Dirs
      PROVE  /\ Recovered(dir)' \in Keys \cup {NoKey}
             /\ dir'["bak"] = NoKey => Recovered(dir)' = dir'["priv"]
             /\ dir'["priv"] # NoKey => Recovered(dir)' # NoKey
             /\ dir'["priv"] = NoKey => Recovered(dir)' = dir'["bak"]
  BY <1>c DEF Recovered, Matches, Dirs, Entries
<1>1. ASSUME NEW r \in Procs, NEW f \in BOOLEAN, Start(r, f) PROVE AbsStep
  BY <1>0, <1>1, <1>a, QuietStep DEF Start
<1>2. ASSUME NEW r \in Procs, RefuseHealth(r) PROVE AbsStep
  BY <1>0, <1>2, <1>a, QuietStep DEF RefuseHealth
<1>3. ASSUME NEW r \in Procs, AcquireLock(r) PROVE AbsStep
  <2>1. CASE lock = NoProc
    <3>1. Identity!Open(r)
      BY <1>0, <1>3, <1>a, <2>1 DEF AcquireLock, Identity!Open, MayChange, Found
    <3>2. QED
      BY <3>1 DEF AbsStep, Identity!AbsNext
  <2>2. CASE lock # NoProc
    BY <1>3, <1>a, <2>2, QuietStep DEF AcquireLock
  <2>3. QED
    BY <2>1, <2>2
<1>4. ASSUME UNCHANGED <<dir, damaged, lock, force, base, announced>>
      PROVE  AbsStep
  BY <1>4, <1>a, QuietStep
<1>5. ASSUME NEW r \in Procs, FinalizeCommitted(r) PROVE AbsStep
  <2>1. CASE Change(r, "dropBak", "syncDropBak", Removed("bak"))
    <3>1. Recovered(dir) = dir["priv"]
      BY <1>b, <2>1 DEF PairInv, Recovered, Matches, Holding, Labels, Resting
    <3>2. Recovered(dir)' = dir["priv"]
      BY <1>0, <1>c, <2>1 DEF Removed, Dirs, Entries
    <3>3. QED
      BY <1>5, <3>1, <3>2, QuietStep DEF FinalizeCommitted
  <2>2. CASE SyncDirectory(r, "syncDropBak", "decide")
    BY <1>4, <1>5, <2>2 DEF FinalizeCommitted
  <2>3. QED
    BY <1>5, <2>1, <2>2 DEF FinalizeCommitted
<1>6. ASSUME NEW r \in Procs, DropOrphanedPublic(r) PROVE AbsStep
  <2>1. CASE Change(r, "dropPub", "syncDropPub", Removed("pub"))
    <3>1. dir["bak"] = NoKey
      BY <1>b, <2>1 DEF DirInv, Holding, Labels, Resting
    <3>2. Recovered(dir) = dir["priv"] /\ Recovered(dir)' = dir["priv"]
      BY <1>0, <1>c, <2>1, <3>1, RecoveredFacts DEF Removed, Dirs, Entries
    <3>3. QED
      BY <1>6, <3>2, QuietStep DEF DropOrphanedPublic
  <2>2. CASE SyncDirectory(r, "syncDropPub", "decide")
    BY <1>4, <1>6, <2>2 DEF DropOrphanedPublic
  <2>3. QED
    BY <1>6, <2>1, <2>2 DEF DropOrphanedPublic
\* Recovery puts back the identity the run found, a rollback the one it replaces.
<1>7. ASSUME NEW r \in Procs, RestoreBackup(r) PROVE AbsStep
  <2>1. CASE pc[r] \in {"dropPriv", "restore"}
    <3>1. /\ lock = r /\ lock # NoProc
          /\ dir["bak"] # NoKey
          /\ mode[r] \in {"restore", "rollback"}
          /\ mode[r] = "rollback" => force[r]
          /\ pc[r] = "dropPriv" /\ mode[r] = "restore" => ~Matches(dir)
          /\ pc[r] = "restore" => dir["priv"] = NoKey
      BY <1>b, <2>1 DEF DirInv, ModeInv, Lease, Restoring, Holding, Labels, Resting
    <3>2. Recovered(dir)' = dir["bak"]
      BY <1>0, <1>7, <1>c, <2>1 DEF RestoreBackup, Removed, Moved, Dirs, Entries
    <3>3. CASE mode[r] = "restore"
      <4>1. Recovered(dir) = dir["bak"]
        BY <2>1, <3>1, <3>3 DEF Recovered, Matches
      <4>2. QED
        BY <1>7, <3>2, <4>1, QuietStep DEF RestoreBackup
    <3>4. CASE mode[r] = "rollback"
      <4>1. Recovered(dir)' \in Keys
        BY <1>0, <3>1, <3>2 DEF Dirs, Entries
      <4>2. QED
        BY <1>7, <3>1, <3>4, <4>1, InstallStep DEF RestoreBackup
    <3>5. QED
      BY <3>1, <3>3, <3>4
  <2>2. CASE pc[r] \notin {"dropPriv", "restore"}
    BY <1>4, <1>7, <2>2 DEF RestoreBackup
  <2>3. QED
    BY <2>1, <2>2
<1>8. ASSUME NEW r \in Procs, RewriteProjection(r) PROVE AbsStep
  <2>1. CASE Change(r, "rewriteMove", "rewriteSync", Placed("pub", dir["priv"]))
    <3>1. dir["bak"] = NoKey
      BY <1>b, <2>1 DEF DirInv, Holding, Labels, Resting
    <3>2. Recovered(dir) = dir["priv"] /\ Recovered(dir)' = dir["priv"]
      BY <1>0, <1>c, <2>1, <3>1, RecoveredFacts DEF Placed, Dirs, Entries
    <3>3. QED
      BY <1>8, <3>2, QuietStep DEF RewriteProjection
  <2>2. CASE UNCHANGED dir
    BY <1>4, <1>8, <2>2 DEF RewriteProjection
  <2>3. QED
    BY <1>8, <2>1, <2>2 DEF RewriteProjection
\* The run that decides to write has found the private key it may replace.
<1>9. ASSUME NEW r \in Procs, Generate(r) PROVE AbsStep
  <2>1. dir["bak"] = NoKey /\ Recovered(dir) = base
    BY <1>9, <1>b DEF Generate, DirInv, Lease, Recovering, Holding, Labels, Resting
  <2>2. Recovered(dir) = dir["priv"]
    BY <1>0, <2>1, RecoveredFacts
  <2>3. QED
    BY <1>4, <1>9, <2>1, <2>2 DEF Generate
<1>10. ASSUME NEW r \in Procs, BackupPrivate(r) PROVE AbsStep
  <2>1. CASE pc[r] \in {"clearBak", "backup"}
    <3>1. lock # NoProc /\ force[lock] /\ dir["priv"] # NoKey /\ dir["bak"] = NoKey
      BY <1>b, <2>1 DEF DirInv, ModeInv, PairInv, Lease, Writing, Holding, Labels, Resting
    <3>2. Recovered(dir)' \in Keys
      BY <1>0, <1>10, <1>c, <2>1, <3>1
      DEF BackupPrivate, SetAside, Removed, Moved, Dirs, Entries
    <3>3. QED
      BY <1>10, <3>1, <3>2, InstallStep DEF BackupPrivate
  <2>2. CASE pc[r] \notin {"clearBak", "backup"}
    BY <1>4, <1>10, <2>2 DEF BackupPrivate
  <2>3. QED
    BY <2>1, <2>2
\* Both commits write the run's own key; a creation found none.
<1>11. ASSUME NEW r \in Procs, CommitPrivate(r) PROVE AbsStep
  <2>1. CASE Change(r, "commitPriv", "syncPriv", Placed("priv", key[r]))
    <3>1. lock # NoProc /\ (force[lock] \/ base = NoKey) /\ key[r] \in Keys
      BY <1>0, <1>b, <2>1
      DEF ModeInv, KeyInv, Lease, Generated, Writing, Holding, Labels, Resting, TypeOK
    <3>2. Recovered(dir)' \in Keys
      BY <1>0, <1>c, <2>1, <3>1 DEF Placed, Dirs, Entries
    <3>3. QED
      BY <1>11, <3>1, <3>2, InstallStep DEF CommitPrivate
  <2>2. CASE UNCHANGED dir
    BY <1>4, <1>11, <2>2 DEF CommitPrivate
  <2>3. QED
    BY <1>11, <2>1, <2>2 DEF CommitPrivate
<1>12. ASSUME NEW r \in Procs, CommitPublic(r) PROVE AbsStep
  <2>1. /\ lock # NoProc /\ (force[lock] \/ base = NoKey)
        /\ key[r] \in Keys /\ dir["priv"] = key[r]
    BY <1>0, <1>12, <1>b
    DEF CommitPublic, ModeInv, KeyInv, DirInv, Lease, Generated, Writing, Holding, Labels,
        Resting, TypeOK
  <2>2. Recovered(dir)' \in Keys
    BY <1>0, <1>12, <1>c, <2>1 DEF CommitPublic, Placed, Dirs, Entries
  <2>3. QED
    BY <1>12, <2>1, <2>2, InstallStep DEF CommitPublic
<1>13. ASSUME NEW r \in Procs, RetireBackup(r) PROVE AbsStep
  <2>1. CASE Change(r, "retireBak", "syncRetire", Removed("bak"))
    <3>1. lock # NoProc /\ force[lock] /\ dir["priv"] \in Keys
      BY <1>0, <1>b, <2>1
      DEF ModeInv, KeyInv, DirInv, Lease, Generated, Writing, Holding, Labels, Resting, TypeOK
    <3>2. Recovered(dir)' \in Keys
      BY <1>0, <1>c, <2>1, <3>1 DEF Removed, Dirs, Entries
    <3>3. QED
      BY <1>13, <3>1, <3>2, InstallStep DEF RetireBackup
  <2>2. CASE UNCHANGED dir
    BY <1>4, <1>13, <2>2 DEF RetireBackup, SyncRetire
  <2>3. QED
    BY <1>13, <2>1, <2>2 DEF RetireBackup, SyncRetire
\* A creation that is undone found no identity.
<1>14. ASSUME NEW r \in Procs, UndoCreation(r) PROVE AbsStep
  <2>1. lock # NoProc /\ base = NoKey
    BY <1>14, <1>b DEF UndoCreation, ModeInv, Lease, Undoing, Holding, Labels, Resting
  <2>2. Recovered(dir)' \in Keys \cup {base}
    BY <1>0, <1>14, <1>c, <2>1 DEF UndoCreation, Removed, Dirs, Entries
  <2>3. QED
    BY <1>14, <2>1, <2>2, InstallStep DEF UndoCreation
<1>15. ASSUME NEW r \in Procs, Report(r) PROVE AbsStep
  <2>1. lock # NoProc /\ key[r] \in Keys /\ Recovered(dir) = key[r]
    BY <1>0, <1>15, <1>b, RecoveredFacts
    DEF Report, KeyInv, PairInv, Holding, Labels, Resting
  <2>2. Identity!Announce
    BY <1>15, <1>a, <2>1 DEF Report, Identity!Announce, Identity!Close, MayChange, Found
  <2>3. QED
    BY <2>2 DEF AbsStep, Identity!AbsNext
<1>16. ASSUME NEW r \in Procs, Fail(r) PROVE AbsStep
  BY <1>16, <1>a, <1>b, AbandonStep DEF Fail, Holding, Labels, Resting
<1>17. ASSUME NEW r \in Procs, Kill(r) PROVE AbsStep
  <2>1. CASE lock = r
    BY <1>17, <1>a, <2>1, AbandonStep DEF Kill
  <2>2. CASE lock # r
    BY <1>0, <1>17, <1>a, <2>2, QuietStep DEF Kill, TypeOK
  <2>3. QED
    BY <2>1, <2>2
<1>18. QED
  BY <1>0, <1>1, <1>2, <1>3, <1>4, <1>5, <1>6, <1>7, <1>8, <1>9, <1>10, <1>11, <1>12,
     <1>13, <1>14, <1>15, <1>16, <1>17
  DEF Next, Proceed, RecoverStep, WriteStep, Disturb, Sweep, Inspect, KeyPairMatches,
      CompareProjection, ReuseExisting, WriteTemps, SyncPublic, Rollback, IoError,
      PublicUnread

\* The key store implements the lease on one identity: whatever system call
\* fails and whichever process is killed, an identity changes only under the
\* lock, by a run that was told to replace it or found none, and only the
\* identity in force is reported (keys.go: EnsureKeypair).
THEOREM ImplementsTheLease ==
  ASSUME Calm
  PROVE  Spec => ImplementsIdentity
<1>1. Init => StoreIInv /\ CalmInv /\ LeaseInv
  BY InitStoreIInv DEF Calm, Init, CalmInv, LeaseInv
<1>2. StoreIInv /\ CalmInv /\ LeaseInv /\ [Next]_vars => CalmInv' /\ LeaseInv'
  BY StepCalmInv, StepLeaseInv
<1>3. Init => Identity!AbsInit
  BY DEF Init, Identity!AbsInit, Empty, Recovered, Entries
<1>4. StoreIInv /\ CalmInv /\ LeaseInv /\ [Next]_vars => [Identity!AbsNext]_(Identity!absVars)
  <2>1. UNCHANGED vars => UNCHANGED <<Recovered(dir), lock, MayChange, Found, announced>>
    BY DEF vars, fs, local, history, Recovered, Matches, MayChange, Found
  <2>2. StoreIInv /\ CalmInv /\ LeaseInv /\ [Next]_vars => AbsStep
    BY StepRefines, <2>1 DEF AbsStep
  <2>3. AbsStep => [Identity!AbsNext]_(Identity!absVars)
    BY DEF AbsStep, Identity!absVars, MayChange, Found
  <2>4. QED
    BY <2>2, <2>3
<1>5. QED
  BY StoreInvariance, <1>1, <1>2, <1>3, <1>4, PTL
  DEF Spec, ImplementsIdentity, Identity!AbsSpec

-----------------------------------------------------------------------------
(***************************************************************************)
(* Two promises that runs of KeyStore show broken, by a power loss and by  *)
(* a failing read, hold in calm runs: nothing else breaks them.            *)
(***************************************************************************)
\* Between a report and the next forced run the directory stands for what was
\* reported, and a run in between found that.
RerunInv ==
  reported # NoKey =>
    /\ Recovered(dir) = reported
    /\ lock # NoProc => ~force[lock] /\ base = reported

\* A step of no forced run leaves the reported identity in force.
LEMMA StepRerunInv ==
  ASSUME StoreIInv, CalmInv, LeaseInv, RerunInv, [Next]_vars
  PROVE  RerunInv'
<1> USE DEF RerunInv, fs, local, history, quiet
<1>a. dir' = dir /\ damaged' = damaged => Recovered(dir)' = Recovered(dir)
  BY DEF Recovered, Matches
<1>1. CASE UNCHANGED vars
  BY <1>1, <1>a DEF vars
<1>2. ASSUME NEW r \in Procs, AcquireLock(r) PROVE RerunInv'
  BY <1>2, <1>a DEF AcquireLock, Goto
<1>3. ASSUME NEW r \in Procs, Report(r) PROVE RerunInv'
  <2>1. dir["priv"] = key[r] /\ dir["bak"] = NoKey
    BY <1>3, RunFacts DEF Report, PairInv, Holding, Labels, Resting
  <2>2. Recovered(dir) = key[r]
    BY <2>1 DEF Recovered
  <2>3. QED
    BY <1>3, <1>a, <2>2 DEF Report
<1>4. ASSUME Next, reported' = reported, lock' = lock \/ lock' = NoProc
      PROVE  RerunInv'
  <2>1. AbsStep
    BY <1>4, StepRefines
  <2>2. SUFFICES ASSUME reported # NoKey PROVE RerunInv'
    BY <1>4
  <2>3. Recovered(dir)' = Recovered(dir)
    BY <2>1, <2>2
    DEF AbsStep, Identity!AbsNext, Identity!Open, Identity!Install, Identity!Announce,
        Identity!Abandon, MayChange, Found
  <2>4. lock # NoProc /\ lock' = lock => force'[lock] = force[lock] /\ base' = base
    BY <2>1
    DEF AbsStep, Identity!AbsNext, Identity!Open, Identity!Install, Identity!Announce,
        Identity!Abandon, Identity!Close, MayChange, Found
  <2>5. QED
    BY <1>4, <2>3, <2>4
<1>5. QED
  <2>1. ~PowerLoss
    BY StepCalmInv
  <2>2. QED
    BY <1>1, <1>2, <1>3, <1>4, <2>1
    DEF Next, Proceed, RecoverStep, WriteStep, Disturb, Start, RefuseHealth, Sweep, Inspect,
        KeyPairMatches, FinalizeCommitted, DropOrphanedPublic, RestoreBackup,
        CompareProjection, RewriteProjection, ReuseExisting, Generate, WriteTemps,
        BackupPrivate, CommitPrivate, CommitPublic, SyncPublic, RetireBackup, SyncRetire, Rollback,
        UndoCreation, Fail, KeyPairUnread, IoError, PublicUnread, Kill, Damage

\* In a calm run a re-run reuses the identity the last successful run reported
\* (README): what the run of KeyStoreRerun finds takes a power loss.
THEOREM RerunsReuseTheIdentity ==
  ASSUME Calm
  PROVE  Spec => RerunReusesIdentity
<1>1. Init => CalmInv /\ LeaseInv /\ RerunInv
  BY DEF Calm, Init, CalmInv, LeaseInv, RerunInv
<1>2. StoreIInv /\ CalmInv /\ LeaseInv /\ RerunInv /\ [Next]_vars
        => CalmInv' /\ LeaseInv' /\ RerunInv'
  BY StepCalmInv, StepLeaseInv, StepRerunInv
<1>3. ASSUME StoreIInv, RerunInv, NEW r \in Procs, pc[r] = "unlockOk", reported # NoKey
      PROVE  key[r] = reported
  <2>1. dir["priv"] = key[r] /\ dir["bak"] = NoKey
    BY <1>3, RunFacts DEF PairInv, Holding, Labels, Resting
  <2>2. QED
    BY <1>3, <2>1 DEF RerunInv, Recovered
<1>4. StoreIInv /\ RerunInv /\ [Next]_vars =>
        [\A r \in Procs :
           pc[r] = "unlockOk" /\ pc'[r] = "ok" /\ ~force[r] /\ reported # NoKey
             => key[r] = reported]_vars
  BY <1>3
<1>5. QED
  BY StoreInvariance, <1>1, <1>2, <1>4, PTL DEF Spec, RerunReusesIdentity

\* In a calm run a recovery keeps an identity whose pair has reached its commit
\* point (recover's comment): what the run of KeyStoreUnread finds takes a failing
\* read in keyPairMatches.
THEOREM CommittedPairsAreKept ==
  ASSUME Calm
  PROVE  Spec => CommittedPairKept
<1>1. Init => CalmInv /\ LeaseInv
  BY DEF Calm, Init, CalmInv, LeaseInv
<1>2. StoreIInv /\ CalmInv /\ LeaseInv /\ [Next]_vars => CalmInv' /\ LeaseInv'
  BY StepCalmInv, StepLeaseInv
<1>3. ASSUME StoreIInv, CalmInv, LeaseInv, Next,
             NEW r \in Procs, lock = r, mode[r] = "restore", Matches(dir)
      PROVE  Recovered(dir') = Recovered(dir)
  <2> USE DEF fs, local, history, quiet, Goto, Pass, Change, SyncDirectory
  <2>0. dir \in Dirs /\ ~PowerLoss
    BY <1>3, StepCalmInv DEF StoreIInv, IInv, TypeOK
  <2>1. ASSUME NEW q \in Procs, pc[q] \in Writing \cup Undoing PROVE FALSE
    BY <1>3, <2>1, RunFacts DEF ModeInv, Writing, Undoing, Holding, Labels, Resting
  <2>2. CASE dir' = dir
    BY <2>2
  <2>3. ASSUME dir' \in Dirs, dir'["priv"] = dir["priv"], dir'["bak"] = NoKey
        PROVE  Recovered(dir') = Recovered(dir)
    BY <1>3, <2>3 DEF Recovered
  <2>4. ASSUME NEW q \in Procs, FinalizeCommitted(q) PROVE Recovered(dir') = Recovered(dir)
    BY <2>0, <2>2, <2>3, <2>4 DEF FinalizeCommitted, Removed, Dirs, Entries
  <2>5. ASSUME NEW q \in Procs, DropOrphanedPublic(q) PROVE Recovered(dir') = Recovered(dir)
    <3>1. pc[q] = "dropPub" => dir["bak"] = NoKey
      BY RunFacts, <1>3 DEF DirInv, Holding, Labels, Resting
    <3>2. QED
      BY <2>0, <2>2, <2>3, <2>5, <3>1 DEF DropOrphanedPublic, Removed, Dirs, Entries
  \* A pair that matches is not rolled back.
  <2>6. ASSUME NEW q \in Procs, RestoreBackup(q) PROVE Recovered(dir') = Recovered(dir)
    <3>1. pc[q] \in {"dropPriv", "restore"} => q = r /\ Lease(q)
      BY <1>3, RunFacts DEF LeaseInv, Holding, Labels, Resting
    <3>2. pc[q] \notin {"dropPriv", "restore"}
      BY <1>3, <3>1 DEF Lease, Matches
    <3>3. QED
      BY <2>2, <2>6, <3>2 DEF RestoreBackup
  <2>7. ASSUME NEW q \in Procs, RewriteProjection(q) PROVE Recovered(dir') = Recovered(dir)
    <3>1. pc[q] = "rewriteMove" => dir["bak"] = NoKey
      BY RunFacts, <1>3 DEF DirInv, Holding, Labels, Resting
    <3>2. QED
      BY <2>0, <2>2, <2>3, <2>7, <3>1 DEF RewriteProjection, Placed, Dirs, Entries
  <2>8. QED
    BY <1>3, <2>0, <2>1, <2>2, <2>4, <2>5, <2>6, <2>7
    DEF Next, Proceed, RecoverStep, WriteStep, Disturb, Start, RefuseHealth, AcquireLock, Sweep,
        Inspect, KeyPairMatches, CompareProjection, ReuseExisting, Generate, WriteTemps,
        BackupPrivate, CommitPrivate, CommitPublic, SyncPublic, RetireBackup, SyncRetire,
        Rollback, UndoCreation, Report, Fail, KeyPairUnread, IoError, PublicUnread, Kill, Damage,
        Writing, Undoing
<1>4. StoreIInv /\ CalmInv /\ LeaseInv /\ [Next]_vars =>
        [\A r \in Procs :
           lock = r /\ mode[r] = "restore" /\ Matches(dir)
             => Recovered(dir') = Recovered(dir)]_vars
  BY <1>3
<1>5. QED
  BY StoreInvariance, <1>1, <1>2, <1>4, PTL DEF Spec, CommittedPairKept
=============================================================================
