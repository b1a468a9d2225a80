--------------------------- MODULE KeyStoreProofs ---------------------------
(***************************************************************************)
(* The proofs about KeyStore, for any number of deploy processes, of keys  *)
(* and of disturbances.  The inductive invariant IInv says what the        *)
(* directory holds at each step of the run that holds the lock             *)
(* (HolderInv); the two safety properties do not follow from themselves:   *)
(* that a replaced key never returns needs the fresh key of the run        *)
(* (KeyInv) and the durable directory at its report (DirInv), and that an  *)
(* identity is never lost needs to know at which steps a backup is there.  *)
(* There is one lemma per conjunct of IInv, and under it one step per      *)
(* action that can disturb the conjunct.                                   *)
(***************************************************************************)
EXTENDS KeyStore, TLAPS

USE NoProcAssumption, NoKeyAssumption, BudgetAssumption

\* A directory that no run has touched yet satisfies the invariant.
LEMMA InitIInv == Init => IInv
<1> SUFFICES ASSUME Init PROVE IInv
  OBVIOUS
<1> USE DEF Init, Empty
<1>1. TypeOK
  <2>1. dir \in Dirs /\ disk \in SUBSET Dirs /\ dir \in disk
    BY DEF Dirs, Entries
  <2>2. pc \in [Procs -> Labels] /\ mode \in [Procs -> Modes]
    BY DEF Labels, Resting, Modes
  <2>3. \A r \in Procs : pc[r] \in Holding <=> lock = r
    BY DEF Holding, Resting
  <2>4. budget \in [Disturbances -> Nat]
    OBVIOUS
  <2>5. QED
    BY <2>1, <2>2, <2>3, <2>4 DEF TypeOK
<1>2. UsedInv /\ RetiredNeverReturns /\ IdentityNeverLost
  BY DEF UsedInv, RetiredNeverReturns, IdentityNeverLost, Entries
<1>3. QED
  BY <1>1, <1>2 DEF IInv, HolderInv

\* The identity a directory stands for is one of its private keys.
LEMMA RecoveredIsStored ==
  ASSUME NEW d \in Dirs
  PROVE  Recovered(d) \in {d["priv"], d["bak"]}
  BY DEF Recovered

\* The lock holder is the process inside EnsureKeypair, and what holds of the
\* holder holds of it.
LEMMA HolderFacts ==
  ASSUME IInv, NEW r \in Procs, pc[r] \in Holding
  PROVE  lock = r /\ lock # NoProc /\ ModeInv(r) /\ KeyInv(r) /\ DirInv(r)
<1>1. lock = r
  BY DEF IInv, TypeOK
<1>2. lock # NoProc
  BY <1>1
<1>3. QED
  BY <1>1, <1>2 DEF IInv, HolderInv

\* Every step keeps the types, and the lock with the process that is between
\* taking and releasing it.
LEMMA StepTypeOK ==
  ASSUME IInv, [Next]_vars
  PROVE  TypeOK'
<1> USE DEF IInv, TypeOK, Labels, Resting, Modes, Holding, fs, local, history, quiet,
            Goto, Pass, Change, SyncDirectory, Disturbances
<1>1. ASSUME NEW r \in Procs, NEW f \in BOOLEAN, Start(r, f) PROVE TypeOK'
  BY <1>1 DEF Start
<1>2. ASSUME NEW r \in Procs, RefuseHealth(r) PROVE TypeOK'
  BY <1>2 DEF RefuseHealth
<1>3. ASSUME NEW r \in Procs, AcquireLock(r) PROVE TypeOK'
  <2>1. Recovered(dir) \in Keys \cup {NoKey}
    BY RecoveredIsStored DEF Dirs, Entries
  <2>2. QED
    BY <1>3, <2>1 DEF AcquireLock
<1>4. ASSUME NEW r \in Procs, Sweep(r) PROVE TypeOK'
  BY <1>4 DEF Sweep
<1>5. ASSUME NEW r \in Procs, Inspect(r) PROVE TypeOK'
  BY <1>5 DEF Inspect, RecoveryBranch
<1>6. ASSUME NEW r \in Procs, KeyPairMatches(r) PROVE TypeOK'
  BY <1>6 DEF KeyPairMatches
<1>7. ASSUME NEW r \in Procs, FinalizeCommitted(r) PROVE TypeOK'
  BY <1>7 DEF FinalizeCommitted, Removed, Moved, Placed, Dirs, Entries
<1>8. ASSUME NEW r \in Procs, DropOrphanedPublic(r) PROVE TypeOK'
  BY <1>8 DEF DropOrphanedPublic, Removed, Moved, Placed, Dirs, Entries
<1>9. ASSUME NEW r \in Procs, RestoreBackup(r) PROVE TypeOK'
  BY <1>9 DEF RestoreBackup, Removed, Moved, Placed, Dirs, Entries
<1>10. ASSUME NEW r \in Procs, CompareProjection(r) PROVE TypeOK'
  BY <1>10 DEF CompareProjection, AfterCompare, Rewritten, Loadable
<1>11. ASSUME NEW r \in Procs, RewriteProjection(r) PROVE TypeOK'
  <2>1. \/ Pass(r, "rewriteTemp", "rewriteMove")
        \/ Change(r, "rewriteMove", "rewriteSync", Placed("pub", dir["priv"]))
        \/ SyncDirectory(r, "rewriteSync", Rewritten(r))
    BY <1>11 DEF RewriteProjection
  <2>2. tmps' \subseteq {"priv", "pub"} /\ UNCHANGED <<mode, quiet>>
    BY <1>11 DEF RewriteProjection
  <2>3. QED
    BY <2>1, <2>2 DEF Rewritten, Placed, Dirs, Entries
<1>12. ASSUME NEW r \in Procs, ReuseExisting(r) PROVE TypeOK'
  BY <1>12 DEF ReuseExisting, Removed, Moved, Placed, Dirs, Entries
<1>13. ASSUME NEW r \in Procs, Generate(r) PROVE TypeOK'
  BY <1>13 DEF Generate, Replacing, Removed, Moved, Placed, Dirs, Entries
<1>14. ASSUME NEW r \in Procs, WriteTemps(r) PROVE TypeOK'
  <2>1. \/ Pass(r, "writeTempPriv", "writeTempPub")
        \/ Pass(r, "writeTempPub", IF mode[r] = "replace" THEN "clearBak" ELSE "commitPriv")
    BY <1>14 DEF WriteTemps
  <2>2. tmps' \subseteq {"priv", "pub"} /\ UNCHANGED <<mode, quiet>>
    BY <1>14 DEF WriteTemps
  <2>3. QED
    BY <2>1, <2>2
<1>15. ASSUME NEW r \in Procs, BackupPrivate(r) PROVE TypeOK'
  BY <1>15 DEF BackupPrivate, SetAside, Removed, Moved, Placed, Dirs, Entries
<1>16. ASSUME NEW r \in Procs, CommitPrivate(r) PROVE TypeOK'
  <2>1. \/ Change(r, "commitPriv", "syncPriv", Placed("priv", key[r]))
        \/ SyncDirectory(r, "syncPriv", "commitPub")
    BY <1>16 DEF CommitPrivate
  <2>2. tmps' \subseteq {"priv", "pub"} /\ UNCHANGED <<mode, quiet>>
    BY <1>16 DEF CommitPrivate
  <2>3. QED
    BY <2>1, <2>2 DEF Placed, Dirs, Entries
<1>17. ASSUME NEW r \in Procs, CommitPublic(r) PROVE TypeOK'
  BY <1>17 DEF CommitPublic, Removed, Moved, Placed, Dirs, Entries
<1>18. ASSUME NEW r \in Procs, SyncPublic(r) PROVE TypeOK'
  BY <1>18 DEF SyncPublic, AfterSyncPublic
<1>19. ASSUME NEW r \in Procs, RetireBackup(r) PROVE TypeOK'
  BY <1>19 DEF RetireBackup, SyncRetire, Removed, Moved, Placed, Dirs, Entries
<1>20. ASSUME NEW r \in Procs, Rollback(r) PROVE TypeOK'
  BY <1>20 DEF Rollback
<1>21. ASSUME NEW r \in Procs, UndoCreation(r) PROVE TypeOK'
  BY <1>21 DEF UndoCreation, Removed, Moved, Placed, Dirs, Entries
<1>22. ASSUME NEW r \in Procs, Report(r) PROVE TypeOK'
  <2>1. key[r] \in Keys /\ (mode[r] = "replace" => base \in Keys)
    BY <1>22, HolderFacts DEF Report, KeyInv, Generated
  <2>2. QED
    BY <1>22, <2>1 DEF Report
<1>23. ASSUME NEW r \in Procs, Fail(r) PROVE TypeOK'
  BY <1>23 DEF Fail, Spend
<1>24. ASSUME NEW r \in Procs, KeyPairUnread(r) PROVE TypeOK'
  BY <1>24 DEF KeyPairUnread, Spend
<1>25. ASSUME NEW r \in Procs, IoError(r) PROVE TypeOK'
  BY <1>25 DEF IoError, Spend, OnError
<1>26. ASSUME NEW r \in Procs, PublicUnread(r) PROVE TypeOK'
  BY <1>26 DEF PublicUnread, Spend, Loadable
<1>27. ASSUME NEW r \in Procs, Kill(r) PROVE TypeOK'
  BY <1>27 DEF Kill, Spend
<1>28. ASSUME PowerLoss PROVE TypeOK'
  BY <1>28 DEF PowerLoss, Spend, Dirs, Entries
<1>29. ASSUME Damage PROVE TypeOK'
  BY <1>29 DEF Damage, Spend, Dirs, Entries
<1>30. CASE UNCHANGED vars
  BY <1>30 DEF vars
<1> HIDE DEF TypeOK, Labels, Resting, Modes, Holding, fs, local, history, quiet,
             Goto, Pass, Change, SyncDirectory, Disturbances
<1>31. QED
  BY <1>1, <1>2, <1>3, <1>4, <1>5, <1>6, <1>7, <1>8, <1>9, <1>10, <1>11, <1>12,
     <1>13, <1>14, <1>15, <1>16, <1>17, <1>18, <1>19, <1>20, <1>21, <1>22, <1>23,
     <1>24, <1>25, <1>26, <1>27, <1>28, <1>29, <1>30
  DEF Next, Proceed, RecoverStep, WriteStep, Disturb

\* No step puts a key on disk that the random source did not produce.
LEMMA StepUsedInv ==
  ASSUME IInv, [Next]_vars
  PROVE  UsedInv'
<1> USE DEF IInv, TypeOK, UsedInv, Dirs, Entries, fs, local, history, quiet,
            Goto, Pass, Change, SyncDirectory
<1>1. CASE UNCHANGED <<disk, used, retired, base>>
  BY <1>1
<1>2. ASSUME NEW r \in Procs, FinalizeCommitted(r) PROVE UsedInv'
  BY <1>2 DEF FinalizeCommitted, Removed
<1>3. ASSUME NEW r \in Procs, DropOrphanedPublic(r) PROVE UsedInv'
  BY <1>3 DEF DropOrphanedPublic, Removed
<1>4. ASSUME NEW r \in Procs, RestoreBackup(r) PROVE UsedInv'
  BY <1>4 DEF RestoreBackup, Removed, Moved
<1>5. ASSUME NEW r \in Procs, RewriteProjection(r) PROVE UsedInv'
  BY <1>5 DEF RewriteProjection, Rewritten, Placed
<1>6. ASSUME NEW r \in Procs, BackupPrivate(r) PROVE UsedInv'
  BY <1>6 DEF BackupPrivate, SetAside, Removed, Moved
<1>7. ASSUME NEW r \in Procs, CommitPrivate(r) PROVE UsedInv'
  <2>1. pc[r] \in Writing => key[r] \in used
    BY HolderFacts DEF KeyInv, Generated, Writing, Holding, Labels, Resting
  <2>2. QED
    BY <1>7, <2>1 DEF CommitPrivate, Placed, Writing
<1>8. ASSUME NEW r \in Procs, CommitPublic(r) PROVE UsedInv'
  <2>1. pc[r] \in Writing => key[r] \in used
    BY HolderFacts DEF KeyInv, Generated, Writing, Holding, Labels, Resting
  <2>2. QED
    BY <1>8, <2>1 DEF CommitPublic, Placed, Writing
<1>9. ASSUME NEW r \in Procs, SyncPublic(r) PROVE UsedInv'
  BY <1>9 DEF SyncPublic, AfterSyncPublic
<1>10. ASSUME NEW r \in Procs, RetireBackup(r) PROVE UsedInv'
  BY <1>10 DEF RetireBackup, SyncRetire, Removed
<1>11. ASSUME NEW r \in Procs, UndoCreation(r) PROVE UsedInv'
  BY <1>11 DEF UndoCreation, Removed
<1>12. ASSUME NEW r \in Procs, AcquireLock(r) PROVE UsedInv'
  BY <1>12, RecoveredIsStored DEF AcquireLock
<1>13. ASSUME NEW r \in Procs, Generate(r) PROVE UsedInv'
  BY <1>13 DEF Generate
<1>14. ASSUME NEW r \in Procs, Report(r) PROVE UsedInv'
  BY <1>14, HolderFacts DEF Report, KeyInv, Generated, Holding, Labels, Resting
<1>15. ASSUME PowerLoss PROVE UsedInv'
  BY <1>15 DEF PowerLoss
<1>16. QED
  BY <1>1, <1>2, <1>3, <1>4, <1>5, <1>6, <1>7, <1>8, <1>9, <1>10, <1>11, <1>12,
     <1>13, <1>14, <1>15
  DEF Next, Proceed, RecoverStep, WriteStep, Disturb, vars, Start, Sweep,
      Inspect, KeyPairMatches, CompareProjection, ReuseExisting, WriteTemps,
      Rollback, Fail, KeyPairUnread, IoError, PublicUnread, Kill, RefuseHealth,
      Damage

\* Each step of EnsureKeypair, error paths included, leaves the directory as
\* the next one expects it.
LEMMA StepHolderInv ==
  ASSUME IInv, [Next]_vars
  PROVE  HolderInv'
<1> USE DEF HolderInv, ModeInv, KeyInv, DirInv, Generated, Writing, Undoing, Holding,
            Labels, Resting, fs, local, history, quiet, Goto, Pass, Change, SyncDirectory
<1>0. /\ TypeOK /\ UsedInv /\ HolderInv
      /\ \A r \in Procs : pc[r] \in Holding => lock = r
      /\ \A r \in Procs : pc[r] \in Resting \cup {"lock"} => lock # r
  BY DEF IInv, TypeOK
<1> USE <1>0 DEF TypeOK
<1>1. ASSUME NEW r \in Procs, NEW f \in BOOLEAN, Start(r, f) PROVE HolderInv'
  BY <1>1 DEF Start
<1>2. ASSUME NEW r \in Procs, RefuseHealth(r) PROVE HolderInv'
  BY <1>2 DEF RefuseHealth
<1>3. ASSUME NEW r \in Procs, AcquireLock(r) PROVE HolderInv'
  BY <1>3 DEF AcquireLock
<1>4. ASSUME NEW r \in Procs, Sweep(r) PROVE HolderInv'
  BY <1>4 DEF Sweep
<1>5. ASSUME NEW r \in Procs, Inspect(r) PROVE HolderInv'
  BY <1>5 DEF Inspect, RecoveryBranch
<1>6. ASSUME NEW r \in Procs, KeyPairMatches(r) PROVE HolderInv'
  BY <1>6 DEF KeyPairMatches, Matches
<1>7. ASSUME NEW r \in Procs, FinalizeCommitted(r) PROVE HolderInv'
  BY <1>7 DEF FinalizeCommitted, Removed, Dirs, Entries
<1>8. ASSUME NEW r \in Procs, DropOrphanedPublic(r) PROVE HolderInv'
  BY <1>8 DEF DropOrphanedPublic, Removed, Dirs, Entries
<1>9. ASSUME NEW r \in Procs, RestoreBackup(r) PROVE HolderInv'
  BY <1>9 DEF RestoreBackup, Removed, Moved, Dirs, Entries
<1>10. ASSUME NEW r \in Procs, CompareProjection(r) PROVE HolderInv'
  BY <1>10 DEF CompareProjection, AfterCompare, Rewritten, Loadable
<1>11. ASSUME NEW r \in Procs, RewriteProjection(r) PROVE HolderInv'
  BY <1>11 DEF RewriteProjection, Rewritten, Placed, Dirs, Entries
<1>12. ASSUME NEW r \in Procs, ReuseExisting(r) PROVE HolderInv'
  BY <1>12 DEF ReuseExisting, Matches, Dirs, Entries
<1>13. ASSUME NEW r \in Procs, Generate(r) PROVE HolderInv'
  BY <1>13 DEF Generate, Replacing, Dirs, Entries, UsedInv, IdentityNeverLost, IInv
<1>14. ASSUME NEW r \in Procs, WriteTemps(r) PROVE HolderInv'
  BY <1>14 DEF WriteTemps
<1>15. ASSUME NEW r \in Procs, BackupPrivate(r) PROVE HolderInv'
  BY <1>15 DEF BackupPrivate, SetAside, Removed, Moved, Dirs, Entries
<1>16. ASSUME NEW r \in Procs, CommitPrivate(r) PROVE HolderInv'
  BY <1>16 DEF CommitPrivate, Placed, Dirs, Entries
<1>17. ASSUME NEW r \in Procs, CommitPublic(r) PROVE HolderInv'
  BY <1>17 DEF CommitPublic, Placed, Dirs, Entries
<1>18. ASSUME NEW r \in Procs, SyncPublic(r) PROVE HolderInv'
  BY <1>18 DEF SyncPublic, AfterSyncPublic
<1>19. ASSUME NEW r \in Procs, RetireBackup(r) PROVE HolderInv'
  BY <1>19 DEF RetireBackup, SyncRetire, Removed, Dirs, Entries
<1>20. ASSUME NEW r \in Procs, Rollback(r) PROVE HolderInv'
  BY <1>20 DEF Rollback
<1>21. ASSUME NEW r \in Procs, UndoCreation(r) PROVE HolderInv'
  BY <1>21 DEF UndoCreation, Removed, Dirs, Entries
<1>22. ASSUME NEW r \in Procs, Report(r) PROVE HolderInv'
  BY <1>22 DEF Report
<1>23. ASSUME NEW r \in Procs, Fail(r) PROVE HolderInv'
  BY <1>23 DEF Fail, Spend
<1>24. ASSUME NEW r \in Procs, KeyPairUnread(r) PROVE HolderInv'
  BY <1>24 DEF KeyPairUnread, Spend
<1>25. ASSUME NEW r \in Procs, IoError(r) PROVE HolderInv'
  BY <1>25 DEF IoError, OnError, Spend
<1>26. ASSUME NEW r \in Procs, PublicUnread(r) PROVE HolderInv'
  BY <1>26 DEF PublicUnread, Spend, Loadable
<1>27. ASSUME NEW r \in Procs, Kill(r) PROVE HolderInv'
  BY <1>27 DEF Kill, Spend
<1>28. ASSUME PowerLoss PROVE HolderInv'
  BY <1>28 DEF PowerLoss
<1>29. ASSUME Damage PROVE HolderInv'
  BY <1>29 DEF Damage
<1>30. CASE UNCHANGED vars
  BY <1>30 DEF vars
<1> HIDE <1>0 DEF HolderInv, ModeInv, KeyInv, DirInv, Generated, Writing, Undoing, Holding,
            Labels, Resting, fs, local, history, quiet, Goto, Pass, Change, SyncDirectory, TypeOK
<1>31. QED
  BY <1>1, <1>2, <1>3, <1>4, <1>5, <1>6, <1>7, <1>8, <1>9, <1>10, <1>11, <1>12,
     <1>13, <1>14, <1>15, <1>16, <1>17, <1>18, <1>19, <1>20, <1>21, <1>22, <1>23,
     <1>24, <1>25, <1>26, <1>27, <1>28, <1>29, <1>30
  DEF Next, Proceed, RecoverStep, WriteStep, Disturb

\* No step brings a replaced key back: writePair only ever places the fresh
\* key, and when it reports a replacement the removal of the backup is durable.
LEMMA StepRetired ==
  ASSUME IInv, [Next]_vars
  PROVE  RetiredNeverReturns'
<1> USE DEF IInv, TypeOK, RetiredNeverReturns, Dirs, Entries, fs, local, history, quiet,
            Goto, Pass, Change, SyncDirectory
<1>1. CASE UNCHANGED <<disk, retired>>
  BY <1>1
<1>2. ASSUME NEW r \in Procs, FinalizeCommitted(r) PROVE RetiredNeverReturns'
  BY <1>2 DEF FinalizeCommitted, Removed
<1>3. ASSUME NEW r \in Procs, DropOrphanedPublic(r) PROVE RetiredNeverReturns'
  BY <1>3 DEF DropOrphanedPublic, Removed
<1>4. ASSUME NEW r \in Procs, RestoreBackup(r) PROVE RetiredNeverReturns'
  BY <1>4 DEF RestoreBackup, Removed, Moved
<1>5. ASSUME NEW r \in Procs, RewriteProjection(r) PROVE RetiredNeverReturns'
  BY <1>5 DEF RewriteProjection, Rewritten, Placed
<1>6. ASSUME NEW r \in Procs, BackupPrivate(r) PROVE RetiredNeverReturns'
  BY <1>6 DEF BackupPrivate, SetAside, Removed, Moved
<1>7. ASSUME NEW r \in Procs, CommitPrivate(r) PROVE RetiredNeverReturns'
  <2>1. pc[r] \in Writing => key[r] \notin retired
    BY HolderFacts DEF KeyInv, Generated, Writing, Holding, Labels, Resting
  <2>2. QED
    BY <1>7, <2>1 DEF CommitPrivate, Placed, Writing
<1>8. ASSUME NEW r \in Procs, CommitPublic(r) PROVE RetiredNeverReturns'
  BY <1>8 DEF CommitPublic, Placed
<1>9. ASSUME NEW r \in Procs, SyncPublic(r) PROVE RetiredNeverReturns'
  BY <1>9 DEF SyncPublic, AfterSyncPublic
<1>10. ASSUME NEW r \in Procs, RetireBackup(r) PROVE RetiredNeverReturns'
  BY <1>10 DEF RetireBackup, SyncRetire, Removed
<1>11. ASSUME NEW r \in Procs, UndoCreation(r) PROVE RetiredNeverReturns'
  BY <1>11 DEF UndoCreation, Removed
<1>12. ASSUME NEW r \in Procs, Report(r) PROVE RetiredNeverReturns'
  <2>1. mode[r] = "replace" =>
          disk = {dir} /\ dir["priv"] = key[r] /\ dir["bak"] = NoKey /\ key[r] # base /\ base \in Keys
    BY <1>12, HolderFacts DEF Report, KeyInv, DirInv, Generated, Holding, Labels, Resting
  <2>2. QED
    BY <1>12, <2>1 DEF Report
<1>13. ASSUME PowerLoss PROVE RetiredNeverReturns'
  BY <1>13 DEF PowerLoss
<1>14. QED
  BY <1>1, <1>2, <1>3, <1>4, <1>5, <1>6, <1>7, <1>8, <1>9, <1>10, <1>11, <1>12,
     <1>13
  DEF Next, Proceed, RecoverStep, WriteStep, Disturb, vars, Start, AcquireLock,
      Generate, Sweep, Inspect, KeyPairMatches, CompareProjection, ReuseExisting,
      WriteTemps, Rollback, Fail, KeyPairUnread, IoError, PublicUnread, Kill,
      RefuseHealth, Damage

\* No step leaves a directory, or one a power loss may leave, without a private
\* key or a backup once an identity was reported.
LEMMA StepNeverLost ==
  ASSUME IInv, [Next]_vars
  PROVE  IdentityNeverLost'
<1> USE DEF IInv, TypeOK, IdentityNeverLost, Dirs, Entries, fs, local, history, quiet,
            Goto, Pass, Change, SyncDirectory
<1>1. CASE UNCHANGED <<disk, provisioned>>
  BY <1>1
<1>2. ASSUME NEW r \in Procs, FinalizeCommitted(r) PROVE IdentityNeverLost'
  <2>1. pc[r] = "dropBak" => dir["priv"] # NoKey
    BY HolderFacts
    DEF ModeInv, KeyInv, DirInv, Generated, Writing, Undoing, Holding, Labels, Resting
  <2>2. QED
    BY <1>2, <2>1 DEF FinalizeCommitted, Removed, Undoing
<1>3. ASSUME NEW r \in Procs, DropOrphanedPublic(r) PROVE IdentityNeverLost'
  BY <1>3 DEF DropOrphanedPublic, Removed
<1>4. ASSUME NEW r \in Procs, RestoreBackup(r) PROVE IdentityNeverLost'
  <2>1. pc[r] \in {"dropPriv", "restore"} => dir["bak"] # NoKey
    BY HolderFacts
    DEF ModeInv, KeyInv, DirInv, Generated, Writing, Undoing, Holding, Labels, Resting
  <2>2. QED
    BY <1>4, <2>1 DEF RestoreBackup, Removed, Moved, Undoing
<1>5. ASSUME NEW r \in Procs, RewriteProjection(r) PROVE IdentityNeverLost'
  BY <1>5 DEF RewriteProjection, Rewritten, Placed
<1>6. ASSUME NEW r \in Procs, BackupPrivate(r) PROVE IdentityNeverLost'
  <2>1. pc[r] \in {"clearBak", "backup"} => dir["priv"] # NoKey
    BY HolderFacts
    DEF ModeInv, KeyInv, DirInv, Generated, Writing, Undoing, Holding, Labels, Resting
  <2>2. QED
    BY <1>6, <2>1 DEF BackupPrivate, SetAside, Removed, Moved, Undoing
<1>7. ASSUME NEW r \in Procs, CommitPrivate(r) PROVE IdentityNeverLost'
  <2>1. pc[r] = "commitPriv" => key[r] # NoKey
    BY HolderFacts
    DEF ModeInv, KeyInv, DirInv, Generated, Writing, Undoing, Holding, Labels, Resting
  <2>2. QED
    BY <1>7, <2>1 DEF CommitPrivate, Placed, Undoing
<1>8. ASSUME NEW r \in Procs, CommitPublic(r) PROVE IdentityNeverLost'
  BY <1>8 DEF CommitPublic, Placed
<1>9. ASSUME NEW r \in Procs, SyncPublic(r) PROVE IdentityNeverLost'
  BY <1>9 DEF SyncPublic, AfterSyncPublic
<1>10. ASSUME NEW r \in Procs, RetireBackup(r) PROVE IdentityNeverLost'
  <2>1. pc[r] = "retireBak" => dir["priv"] # NoKey
    BY HolderFacts
    DEF ModeInv, KeyInv, DirInv, Generated, Writing, Undoing, Holding, Labels, Resting
  <2>2. QED
    BY <1>10, <2>1 DEF RetireBackup, SyncRetire, Removed, Undoing
<1>11. ASSUME NEW r \in Procs, UndoCreation(r) PROVE IdentityNeverLost'
  <2>1. pc[r] \in Undoing => ~provisioned
    BY HolderFacts
    DEF ModeInv, KeyInv, DirInv, Generated, Writing, Undoing, Holding, Labels, Resting
  <2>2. QED
    BY <1>11, <2>1 DEF UndoCreation, Removed, Undoing
<1>12. ASSUME NEW r \in Procs, Report(r) PROVE IdentityNeverLost'
  <2>1. mode[r] \in {"create", "replace"} => disk = {dir} /\ dir["priv"] = key[r] /\ key[r] \in Keys
    BY <1>12, HolderFacts DEF Report, KeyInv, DirInv, Generated, Holding, Labels, Resting
  <2>2. QED
    BY <1>12, <2>1 DEF Report
<1>13. ASSUME PowerLoss PROVE IdentityNeverLost'
  BY <1>13 DEF PowerLoss
<1>14. ASSUME NEW r \in Procs,
              \/ \E f \in BOOLEAN : Start(r, f)
              \/ RefuseHealth(r) \/ AcquireLock(r) \/ Sweep(r) \/ Inspect(r) \/ KeyPairMatches(r)
              \/ CompareProjection(r) \/ ReuseExisting(r) \/ Generate(r) \/ WriteTemps(r)
       PROVE  UNCHANGED <<disk, provisioned>>
  BY <1>14 DEF Start, RefuseHealth, AcquireLock, Sweep, Inspect, KeyPairMatches,
               CompareProjection, ReuseExisting, Generate, WriteTemps
<1>15. ASSUME NEW r \in Procs, Rollback(r) \/ Fail(r) \/ Disturb(r)
       PROVE  UNCHANGED <<disk, provisioned>>
  BY <1>15 DEF Rollback, Fail, Disturb, KeyPairUnread, IoError, PublicUnread, Kill
<1>16. CASE UNCHANGED vars \/ Damage
  BY <1>16, <1>1 DEF vars, Damage
<1> HIDE DEF IInv, TypeOK, IdentityNeverLost, fs, local, history, quiet, Goto, Pass, Change,
             SyncDirectory
<1>17. QED
  BY <1>1, <1>2, <1>3, <1>4, <1>5, <1>6, <1>7, <1>8, <1>9, <1>10, <1>11, <1>12,
     <1>13, <1>14, <1>15, <1>16
  DEF Next, Proceed, RecoverStep, WriteStep

-----------------------------------------------------------------------------
\* The invariant holds in every reachable state.
THEOREM Invariance == Spec => []IInv
<1>1. IInv /\ [Next]_vars => IInv'
  BY StepTypeOK, StepUsedInv, StepHolderInv, StepRetired, StepNeverLost DEF IInv
<1>2. QED
  BY InitIInv, <1>1, PTL DEF Spec

\* The variables keep their types, and the flock is held exactly by the process
\* inside EnsureKeypair.
THEOREM TypeCorrect == Spec => []TypeOK
<1>1. IInv => TypeOK
  BY DEF IInv
<1>2. QED
  BY Invariance, <1>1, PTL

\* A key that a successful --force replaced never comes back, whatever fails,
\* is killed or loses power afterwards (keys.go: writePair, recover).
THEOREM RetiredKeysStayRetired == Spec => []RetiredNeverReturns
<1>1. IInv => RetiredNeverReturns
  BY DEF IInv
<1>2. QED
  BY Invariance, <1>1, PTL

\* Once a run reported an identity it generated, every directory a power loss
\* may leave has a private key (keys.go: writePair, recover, rollback).
THEOREM IdentityIsNeverLost == Spec => []IdentityNeverLost
<1>1. IInv => IdentityNeverLost
  BY DEF IInv
<1>2. QED
  BY Invariance, <1>1, PTL
=============================================================================
